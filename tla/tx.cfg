SPECIFICATION ScenarioSpec
CONSTANTS
    Scenarios = {"embedded", "faults", "retry", "crash", "decision", "snapshot", "solo",
                 "doctors", "plain", "lookup", "stale"}
    Session = {"l1", "l2"}
    Key = {"a", "b"}
    Val = {1}
    Gone = Gone
    MaxTime = 3
    MaxRestarts = 1
    Failing = TRUE
CHECK_DEADLOCK FALSE
INVARIANTS
    SnapshotStays
    NoLostUpdate
    ShownIsDecided
    RepeatableRead
    
    Serializable
    CommittedIsKept
PROPERTY
    KeepsPromise
