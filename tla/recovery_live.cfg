SPECIFICATION FairSpec
CONSTANTS
    Scenarios = {"splitEnds", "splitBusy", "moveEnds", "moveBusy", "moveLeader"}
    Values = {a, b}
    Nothing = Nothing
    Nobody = Nobody
CHECK_DEADLOCK FALSE
PROPERTY
    RecoveryEnds
