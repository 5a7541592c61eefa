CONSTANTS
    Boxes = {"message", "new", "edit"}
    Words = {w1, w2}
    Files = {"shot1", "shot2", "film"}
    Category <- MCCategory
    Named = {"film"}
    Tags = {"a", "b"}
    Tasks = {"x"}
    NoTask = ""
    MaxUps = 2
    MaxTurns = 6
SPECIFICATION Spec
SYMMETRY WordSymmetry
CHECK_DEADLOCK FALSE
INVARIANTS
    TypeOK
    WhatWasPutIn
    NumbersApart
