SPECIFICATION AccountingSpec
CONSTANTS
    Requests = {r1, r2, r3}
    Kinds = {token}
    Capacity = 2
    None = None
    PricingTables <- SomeTables
    KeyPolicies <- SomeKeyPolicies
    ModelRequests <- SomeRequests
    TokenCounts = {0, 2, 3}
    FallbackInput = 2
    FallbackOutput = 2
    MessageFrameTokens = 1
    ToolFrameTokens = 2
    MaxTokenCount = 5
    MaxMoney = 3
    RateScale = 3
SYMMETRY Symmetric
INVARIANTS
    RecordOnce
    NothingStranded
    ReservationCovers
    ModelAndPrice
PROPERTIES
    ShutdownEndsAdjusting
CHECK_DEADLOCK FALSE
