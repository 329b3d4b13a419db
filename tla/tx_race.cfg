SPECIFICATION ScenarioSpec
CONSTANTS
    Scenarios = {"race"}
    Session = {"l1", "l2"}
    Key = {"a", "b"}
    Val = {1}
    Gone = Gone
    MaxTime = 3
    MaxRestarts = 1
    Failing = TRUE
CHECK_DEADLOCK FALSE
INVARIANT
    AllOrNothing
