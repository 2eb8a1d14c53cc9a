SPECIFICATION TokensSpec
CONSTANTS
    Keys = {k1}
    WindowSets <- Policies
    Reservations = {r1, r2, r3}
    Amounts = {2}
    Usages <- ReportedUsages
    Loaded = {0, 4}
    MaxInt = 4
    MaxTime = 3
    Chunks <- SomeChunks
    SplitChunks <- SomeSplit
    MaxEventSize = 5
    MaxPayloadBytes = 6
    MaxCount = 3
    MaxLines = 6
SYMMETRY Symmetric
INVARIANTS
    WithinWindow
    LedgerExact
    SinkAgrees
    StreamExact
CHECK_DEADLOCK FALSE
