SPECIFICATION Spec
CONSTANTS
    Scenarios = {"split", "splitStore", "move", "moveStore"}
    Values = {a, b}
    Nothing = Nothing
    Nobody = Nobody
SYMMETRY ValueSymmetry
CHECK_DEADLOCK FALSE
INVARIANTS
    
    LeftIsLeft
PROPERTY
    StoreIsOne
