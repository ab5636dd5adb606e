SPECIFICATION FairPaySpec
CONSTANTS
    a1 = a1
    a2 = a2
    h1 = h1
    h2 = h2
    Invoices = {1, 2}
    Cron = Cron
    Admins = {a1, a2}
    Handlers = {h1, h2}
    Callers = {Cron, a1, a2, h1, h2}
    Payment = {p1, p2}
    None = None
    LastYear = 1
    MaxFaults = 1
    MaxAttempts = 2
    Deployments <- MCDeployments
CHECK_DEADLOCK FALSE
INVARIANTS
    PayTypeOK
    PaymentsAreCharges
    PeriodsBilled
    LedgerIssuesAreRight
PROPERTIES
    SuccessIsFinal
    ChargedIsPaid
