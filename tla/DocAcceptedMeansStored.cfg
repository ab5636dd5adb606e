SPECIFICATION Spec
CONSTANTS
    e1 = e1
    e2 = e2
    EventIds = {e1, e2}
    Requests = {r1, r2}
    Deployments <- FlakyRedis
    MaxSubmissions = 2
    MaxFaults = 2
CHECK_DEADLOCK FALSE
INVARIANTS
    AcceptedMeansStored
