SPECIFICATION Spec
CONSTANTS
    Invoices = {i1, i2}
    Callers = {c1, c2}
    LastYear = 2
    MaxFaults = 1
SYMMETRY LifecycleSymmetry
CHECK_DEADLOCK FALSE
INVARIANTS
    NumbersUnique
    LedgerBacksStatus
    LedgerMatchesStatus
PROPERTY
    FollowsLifecycle
