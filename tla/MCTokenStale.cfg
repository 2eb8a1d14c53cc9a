SPECIFICATION Spec
CONSTANTS
    Keys = {k1}
    WindowSets <- Policies
    Reservations = {r1, r2}
    Amounts = {2}
    Usages = {2}
    Loaded = {0}
    MaxInt = 20
    MaxTime = 2
PROPERTIES
    AdmittedUnderPolicy
CHECK_DEADLOCK FALSE
