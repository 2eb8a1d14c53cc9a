SPECIFICATION Spec
CONSTANTS
    Keys = {k1, k2}
    Leases = {l1, l2, l3}
    Limits = {0, 1, 2}
    NoState = NoState
    Arrivals <- SomeArrivals
    HistoryKeys = {1}
    Cutoffs = {2, 3}
    PageLimit = 1
    RetentionLimit = 1
    MaxInserts = 3
    MaxTraversals = 1
    RateKeys = {k1}
    RatePolicies <- SomeRatePolicies
    Second = 2
    MaxRateTime = 7
    MaxAdmissions = 6
    Admins = {a1, a2}
    KeyIDs = {1, 2, 3}
    Settings = {on, off}
    DefaultSetting = on
    CreatedTimes = {1, 2}
    MaxCreateAttempts = 2
    KeyPageLimit = 1
    MaxOperations = 3
    MaxKeyListings = 1
    TokenWindows <- SomeTokenWindows
    TokenPolicies <- SomeTokenPolicies
    Durations = {1, 2}
    MaxPeriod = 1
    MaxCharge = 1
    MaxStops = 2
    Callers = {c1, c2, c3}
    Queries <- SomeQueries
    GateCapacity = 1
    MaxCache = 1
    CacheTTL = 0
    MaxDoAttempts = 2
    MaxCacheTime = 1
    Browsers = {b1, b2}
    Addresses = {a1, a2, a3}
    MaxSessions = 1
    IdleTimeout = 1
    AbsoluteTimeout = 1
    MaxTrackedIPs = 2
    MaxAttempts = 2
    Window = 1
    LockoutDuration = 2
    MaxLogins = 2
    MaxFailures = 4
    MaxTime = 2
INVARIANTS
    SlotsExact
    LimitRespected
    TraversalExact
    WithinRequestWindow
    RetryAdmits
    AcknowledgedHolds
    KeyListingExact
    CleanRestartAccepted
    GateExact
    OwnCancellationOnly
    LockoutBound
PROPERTIES
    RestartKeepsUsage
    EndedSessionRefused
CHECK_DEADLOCK FALSE
