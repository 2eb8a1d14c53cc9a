SPECIFICATION Spec
CONSTANTS
    Requests = {r1, r2}
    Key = k1
    Policies <- ThreePolicies
    NoState = NoState
    MaxReplacements = 2
SYMMETRY Symmetric
INVARIANTS
    NothingHeldAfter
    BudgetNotBypassed
PROPERTIES
    ImplementsContract
