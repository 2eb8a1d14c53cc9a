SPECIFICATION BothSpec
CONSTANTS
    Keys = {k1}
    Policies <- AllPolicies
    Reservations = {b1, b2}
    Amounts = {0, 2}
    Usages <- ReportedCosts
    Loaded = {0, 3}
    MonthDays = 2
    MaxMoney = 4
    MaxTime = 2
    Requests = {r1, r2}
    Probes = {p}
    CompletionCapacity = 1
    HistoryCapacity = 1
    ClientSets <- SomeClients
INVARIANTS
    WithinLimit
    LedgerExact
    SinkAgrees
    DatabaseOutlivesOwners
    RecordsNotStranded
PROPERTIES
    ReadyIsTrue
CHECK_DEADLOCK FALSE
