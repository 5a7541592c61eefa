CONSTANTS
    Tasks = {"x", "y"}
    NoTask = "none"
    Ids = {1, 2, 3, 4}
    Homes <- MCHomes
    Archived = {"x", "y"}
    Panes = {"modal", "chat"}
    PageSize = 1
    MaxGets = 5
    MaxCalls = 2
    MaxTurns = 3
SPECIFICATION Spec
CHECK_DEADLOCK FALSE
INVARIANT AskedTwice
