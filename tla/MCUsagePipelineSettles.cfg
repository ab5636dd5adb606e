SPECIFICATION FairSpec
CONSTANTS
    Events = {e1}
    NoEvent = NoEvent
    Publishers = {p1, p2}
    Validators = {v1}
    Aggregators = {a1}
    Admins = {d1}
    Rows = {1, 2}
    NoId = 0
    MaxRetries = 2
    FaultKinds = {"send", "publisherCrash"}
    MaxFaults = 2
    MaxAdminRetries = 1
CHECK_DEADLOCK FALSE
PROPERTY
    ImplementsExactlyOnce
