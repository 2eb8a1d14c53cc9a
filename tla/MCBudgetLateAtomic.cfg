SPECIFICATION Spec
CONSTANTS
    Keys = {k1}
    Policies <- LatePolicies
    Reservations = {r1, r2}
    Amounts = {0, 2}
    Usages <- ReportedCosts
    Loaded = {0}
    MonthDays = 2
    MaxMoney = 30
    MaxTime = 1
SYMMETRY Symmetric
INVARIANTS
    AdjustIsAtomic
CHECK_DEADLOCK FALSE
