SPECIFICATION Spec
CONSTANTS
    Events = {e1}
    NoEvent = NoEvent
    Publishers = {p1}
    Validators = {v1}
    Aggregators = {a1}
    Admins = {d1}
    Rows = {1}
    NoId = 0
    MaxRetries = 2
    FaultKinds = {"consumerCrash"}
    MaxFaults = 1
    MaxAdminRetries = 0
CHECK_DEADLOCK FALSE
INVARIANT
    CountedAtMostOnce
