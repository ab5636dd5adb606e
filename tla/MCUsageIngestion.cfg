SPECIFICATION FairSpec
CONSTANTS
    e1 = e1
    e2 = e2
    EventIds = {e1, e2}
    Requests = {r1, r2}
    Deployments <- MCDeployments
    MaxSubmissions = 3
    MaxFaults = 2
CHECK_DEADLOCK FALSE
INVARIANTS
    TypeOK
    OneOutboxRow
    AcceptedIsPersisted
    AcceptedOnce
    DuplicateIsCovered
PROPERTIES
    EveryRequestEnds
