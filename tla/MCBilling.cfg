SPECIFICATION FairSpec
CONSTANTS
    s1 = s1
    s2 = s2
    Subscriptions = {s1, s2}
    None = None
    PeriodLength = 1
    LastTime = 2
    Deployments <- MCDeployments
    MaxFull = 2
    MaxProrated = 2
    MaxActs = 2
    MaxFaults = 1
INVARIANTS
    TypeOK
    NothingBilledTwice
    NoPeriodSkipped
PROPERTIES
    ExpiredIsBilled
    CancelledIsInvoiced
