SPECIFICATION BackOfficeSpec
CONSTANTS
    alice = alice
    bob = bob
    acme = acme
    globex = globex
    f1 = f1
    Users = {alice, bob}
    PlatformAdmins = {alice}
    Tenants = {acme, globex}
    Clients = {c1, c2}
    MaxTokens = 3
    MaxResets = 2
    Keys = {k1}
    None = None
    MaxVersion = 3
    Deployments <- MCDeployments
    Plans = {pro}
    Features = {f1, f2}
    Prices = {monthly}
    Subscribers = {o1, o2}
    Tenant = acme
    MaxSubs = 3
    Limits <- MCLimits
    Asking = {q1, q2}
    LastWindow = 1
    MaxAsks = 4
    MaxRedisFaults = 1
CHECK_DEADLOCK FALSE
INVARIANTS
    BackOfficeTypeOK
    TokensUsedOnce
    PasswordEndsSessions
    OwnerKept
    OneSubscription
    SnapshotsShaped
    RateBounded
PROPERTY
    KeyStaysDead
