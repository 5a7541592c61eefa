CONSTANTS
    Attempts = {"a", "b"}
    NoAttempt = "none"
    Writers = {w1, w2}
    Conns = {c1, c2}
    Gets = {g1, g2}
    NoConn = NoConn
    Tools = {"t"}
    Scripts <- MCScripts
    History = 1
    TailSize = 1
    PageSize = 1
    Buffer = 1
    ReplayLimit = 1
    MaxSwitches = 2
    MaxFaults = 1
SPECIFICATION Spec
CHECK_DEADLOCK FALSE
CONSTRAINT Followed
INVARIANTS
    TypeOK
    OwnEventsOnly
    NothingElseLost
    NothingElseTwice
    CardsOfTheLog
PROPERTY CatchesUp
