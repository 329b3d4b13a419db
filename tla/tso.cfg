SPECIFICATION Spec
CONSTANTS
    Client = {c1, c2, c3}
    Direct = {c3}
    Replica = {r1, r2}
    BatchSize = 2
    MaxLog = 3
    MaxCrash = 2
SYMMETRY Symmetry
CHECK_DEADLOCK FALSE
INVARIANT
    HandedOnce
PROPERTY
    KeepsPromise
