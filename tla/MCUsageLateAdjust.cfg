CONSTANTS
    Requests = {r1, r2}
    Kinds = {token}
    Capacity = 2
    None = None
SPECIFICATION Spec
PROPERTIES NoLateAdjust
CHECK_DEADLOCK FALSE
