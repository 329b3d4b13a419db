SPECIFICATION ScenarioSpec
CONSTANTS
    Node = {n1, n2, n3}
    Lone = n0
    Value = {v1}
    None = None
    Noop = Noop
    SnapshotInterval = 0
    LateVotes = FALSE
    MaxElections = 3
    MaxIndex = 2
    MaxRpcs = 2
    MaxRestarts = 1
    MaxReads = 0
    Scenarios = {"elections", "restarts", "reads"}
SYMMETRY NodeSymmetry
VIEW View
CHECK_DEADLOCK FALSE
INVARIANTS
    OneLeaderPerTerm
    ReportedLeaderLeads
    ElectionInv
    ReadIsFresh
PROPERTY
    VoteIsDurable
