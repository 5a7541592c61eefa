SPECIFICATION FairSpec
INVARIANTS
    TypeOK
    GlobalOvershootBounded
    ServerOvershootBounded
PROPERTY
    AutoTaskStarts
CONSTANTS
    NumUsers = 2
    Tasks = {t1, t2}
    OwnerOf <- OwnersOfTasks
    AutoTasks = {t1, t2}
    Deps <- SecondAfterFirst
    Preferred <- SecondPrefersS2
    Servers = {s1, s2}
    Usable <- AllUsable
    Default <- SharedDefault
    NoServer = NoServer
    Attempts = {a1, a2}
    TaskOf <- TasksOfAttempts
    ServerOf <- ServersOfAttempts
    GlobalCap = 2
    ServerCap <- CapOfServers
    Scheduler = Scheduler
    Cron = Cron
    Requests = {r1}
    Scheduled = {t1}
    Drags = {"plan"}
    Disableable = {2}
    t1 = t1
    t2 = t2
    s1 = s1
    s2 = s2
    a1 = a1
    a2 = a2
