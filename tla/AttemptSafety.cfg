SPECIFICATION Spec
INVARIANTS
    TypeOK
    OneLoopPerAttempt
    ActiveIsLive
    ChainsOffCompleted
PROPERTIES
    NeedsInputKept
    OrphansAdopted
CONSTANTS
    Attempts = {a1}
    Tasks = {t1}
    t1 = t1
    TaskOf <- OneTaskOf
    Goroutines = {g1,g2}
    Requests = {r1,r2}
    Resumer = Resumer
    Boot = Boot
    NoAttempt = NoAttempt
    NoGoroutine = NoGoroutine
    QueueCap = 1
    MaxRetries = 1
    MaxRuns = 2
    MaxRequests = 2
    MaxDisconnects = 1
    MaxFaults = 2
    MaxCrashes = 1
SYMMETRY Symmetry
