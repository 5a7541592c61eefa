SPECIFICATION Spec
PROPERTIES
    RetryRespectsStop
CONSTANTS
    Attempts = {a1}
    Tasks = {t1}
    t1 = t1
    TaskOf <- OneTaskOf
    Goroutines = {g1,g2}
    Requests = {r1}
    Resumer = Resumer
    Boot = Boot
    NoAttempt = NoAttempt
    NoGoroutine = NoGoroutine
    QueueCap = 1
    MaxRetries = 1
    MaxRuns = 1
    MaxRequests = 2
    MaxDisconnects = 0
    MaxFaults = 0
    MaxCrashes = 1
