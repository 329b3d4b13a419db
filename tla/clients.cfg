SPECIFICATION ScenarioSpec
CONSTANTS
    Old = {1, 2}
    New = {3}
    Thread = {p, q}
    Nobody = Nobody
    Ttl = 1
    Moves = FALSE
    MaxWrites = 2
    MaxTime = 1
    Scenarios = {"reads", "move", "walk", "seeds", "sql", "elections"}
SYMMETRY ThreadSymmetry
CHECK_DEADLOCK FALSE
INVARIANTS
    OwnerIsFresh
    CachedReadsAreBased
    FindsLeader
    CallsAreHeard
    SelectsHold
