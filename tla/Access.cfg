SPECIFICATION MCSpec
CONSTANTS
    Managers = {m1, m2}
    Configs <- MCConfigs
    AccessExpiry = 1
    RefreshExpiry = 2
    MaxClock = 4
    Roles = {"admin", "user"}
    RBACRoles = {"admin"}
    ABACRoles = {"user"}
    Setups <- MCSetups
    Callers = {c1, c2}
    ConfigIds = {w1}
    CredIds = {k1}
    Tenants = {"t1", "t2"}
    Secrets = {"s1", "s2"}
    Contexts <- MCContexts
    MaxCount = 2
    EntryIds = {e1, e2}
    AuditTenants = {"t1", "t2"}
    AuditContexts <- MCAuditContexts
    Inputs <- MCInputs
    Servers <- MCServers
    Logins = {l1, l2}
    TTL = 2
    FetchTimeout = 1
    MaxTime = 4
    MaxDoc = 2
    MaxKey = 2
    TokenClaims <- MCTokenClaims
    InfoClaims <- MCInfoClaims
    EmailLists <- MCEmailLists
    Chunks <- MCChunks
    MaxChunks = 5
SYMMETRY MCSymmetry
INVARIANTS
    AcceptedIffOurs
    ServedIsEntitled
    ListedAsAsked
    SignInsAreSound
    
PROPERTIES
    TenantIsolation
    OnlyOverlapsLose
CHECK_DEADLOCK FALSE
