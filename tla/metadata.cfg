SPECIFICATION ScenarioSpec
CONSTANTS
    Shard = {0, 1}
    Node = {n1, n2}
    Address = {here}
    Nobody = Nobody
    Client = {c1}
    Ranges <- OneRange
    Addresses <- AllOrNone
    MaxKey = 3
    MaxTerm = 2
    MaxVersion = 4
    OneThread = TRUE
    Scenarios = {"table", "ranges"}
SYMMETRY NodeSymmetry
CHECK_DEADLOCK FALSE
INVARIANTS
    OneOwner
    
    EveryByteOneOwner
PROPERTIES
    HandsOverToNew
    TermsAdvance
