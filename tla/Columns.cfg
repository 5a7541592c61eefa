CONSTANTS
    Tasks = {t1, t2, t3}
    NoTask = NoTask
    Step = 4
    Room = 16
    Cols <- MCCols
SYMMETRY CardSymmetry
SPECIFICATION Spec
INVARIANT TypeOK
PROPERTIES
    OrderKept
    DropLands
    KeepsCardOrder
