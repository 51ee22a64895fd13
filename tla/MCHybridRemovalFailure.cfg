SPECIFICATION DatabaseSpec
CONSTANTS
    Header = {1, 2, 3, 4}
    Genesis = 0
    NotImported = NotImported
    NoFinality = NoFinality
    Depth = 1
    MaxRestarts = 0
    k1 = k1
    k2 = k2
    v1 = v1
    v2 = v2
    Key = {k1, k2}
    Value = {v1, v2}
    Empty = Empty
    NoState = NoState
    NoDelta = NoDelta
    MaxWrites = 1
    MaxWriteFailures = 1
    MaxRemovalFailures = 1
SYMMETRY Symmetry
CHECK_DEADLOCK FALSE
INVARIANTS FailedRemovalOnlyLeaks
