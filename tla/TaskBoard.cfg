CONSTANTS
    t1 = t1
    a1 = a1
    Tasks = {t1, t2}
    NewRows <- NewTasks
    Slots = {1}
    NewDeps = {{}}
    Viewed = {t2}
    Written = {t1}
    Attempts = {a1}
    TaskOf <- TasksOfAttempts
    Titles = {x}
    TagSets = {g1}
    Places = {1, 2}
    NoTags = g1
    NoTask = NoTask
    CacheMax = 1
    Processes = {p1, p2}
    Drags = {"verify", "execute"}
SYMMETRY ProcessSymmetry
SPECIFICATION Spec
INVARIANTS
    TypeOK
    CacheExact
PROPERTIES
    MovesLegal
    NoOrphans
