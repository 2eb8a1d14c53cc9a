SPECIFICATION Spec
CONSTANTS
    Kind = "usage"
    Buckets = {b1, b2}
    Deltas <- ChargesAndRefunds
    MaxInt = 3
    MaxSinks = 4
    MaxCrashes = 1
INVARIANTS
    Conservation
CHECK_DEADLOCK FALSE
