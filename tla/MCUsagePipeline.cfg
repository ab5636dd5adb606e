SPECIFICATION Spec
CONSTANTS
    Events = {e1}
    NoEvent = NoEvent
    Publishers = {p1}
    Validators = {v1, v2}
    Aggregators = {a1, a2}
    Admins = {d1}
    Rows = {1, 2}
    NoId = 0
    MaxRetries = 1
    FaultKinds = {"send", "ack", "db", "publisherCrash", "consumerCrash"}
    MaxFaults = 2
    MaxAdminRetries = 1
SYMMETRY WorkerSymmetry
CHECK_DEADLOCK FALSE
INVARIANTS
    NoUntracedLoss
    StatusIsJustified
    AggregatedMeansCounted
    GivenUpMeansDeadLetter
PROPERTY
    ImplementsAtLeastOnce
