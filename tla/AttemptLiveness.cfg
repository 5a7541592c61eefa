SPECIFICATION FairSpec
PROPERTIES
    LoopSettles
    BrokenTurnRetried
CONSTANTS
    Attempts = {a1}
    Tasks = {t1}
    t1 = t1
    TaskOf <- OneTaskOf
    Goroutines = {g1}
    Requests = {r1}
    Resumer = Resumer
    Boot = Boot
    NoAttempt = NoAttempt
    NoGoroutine = NoGoroutine
    QueueCap = 1
    MaxRetries = 1
    MaxRuns = 2
    MaxRequests = 2
    MaxDisconnects = 0
    MaxFaults = 1
    MaxCrashes = 1
