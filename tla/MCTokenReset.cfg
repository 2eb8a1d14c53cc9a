SPECIFICATION Spec
CONSTANTS
    Keys = {k1}
    WindowSets <- TwoCapacities
    Reservations = {r1, r2}
    Amounts = {2, 3}
    Usages = {2}
    Loaded = {0}
    MaxInt = 20
    MaxTime = 2
INVARIANTS
    ResetIsUseful
CHECK_DEADLOCK FALSE
