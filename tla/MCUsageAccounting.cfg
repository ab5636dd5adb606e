SPECIFICATION InvoicesSpec
CONSTANTS
    e1 = e1
    e2 = e2
    Events = {e1, e2}
    Requests = {r1, r2}
    Aggregators = {w1, w2}
    None = None
    Limit = 1
    LastMonth = 3
    Deployments <- MCDeployments
    MaxGrants = 3
    MaxFaults = 2
    MaxRuns = 2
    MaxInvoices = 2
CHECK_DEADLOCK FALSE
INVARIANTS
    InvoicesTypeOK
    GrantsBounded
    CounterExact
    ReportsAreRight
    UsageIsBilled
