CONSTANTS
    Tasks = {t1, t2, t3}
    NoTask = NoTask
    Step = 4
    Cols = {"plan", "execute"}
    Room = 24
    Views = {"board", "chat"}
    Limit = 2
    Posts = {p1, p2}
    MaxGets = 2
    MaxTurns = 2
SYMMETRY CardSymmetry
SPECIFICATION Spec
CHECK_DEADLOCK FALSE
INVARIANTS
    TypeOK
    OnlyDraggedHidden
    BoardCatchesUp
PROPERTY LandsBetween
