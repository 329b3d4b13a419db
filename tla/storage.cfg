SPECIFICATION ScenarioSpec
CONSTANTS
    Key = {x, y}
    Value = {v}
    Nothing = Nothing
    MaxTimestamp = 2
    Node = {n1, n2}
    None = None
    Torn = Torn
    Scenarios = {"machine", "rows", "engine", "json"}
SYMMETRY Symmetry
INVARIANTS
    NewestIsRead
    ScanAgreesWithGet
    RowsAreVersions
    RebuildsCommitted

    
