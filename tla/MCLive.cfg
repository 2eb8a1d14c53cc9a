SPECIFICATION LiveSpec
CONSTANTS
    Kind = "budget"
    Buckets = {b1, b2}
    Deltas <- ChargesAndRefunds
    MaxInt = 3
    MaxSinks = 4
    MaxCrashes = 1
    Requests = {r1, r2}
    Kinds = {token}
    Capacity = 2
    None = None
    Callers = {c1, c2, c3}
    Queries <- SomeQueries
    GateCapacity = 1
    MaxCache = 1
    CacheTTL = 0
    MaxDoAttempts = 2
    MaxCacheTime = 0
    Exchanges = {x1}
    Probes = {}
    CompletionCapacity = 1
    HistoryCapacity = 1
    ClientSets <- SomeClients
INVARIANTS
    Conservation
    ShutdownFlushed
PROPERTIES
    ImplementsLedger
    EventuallyDurable
    StopEndsWorker
    ObservationsEnd
    StopReturns
    CallersReturn
    ShutdownReturns
CHECK_DEADLOCK FALSE
