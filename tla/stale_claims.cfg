SPECIFICATION Spec
SYMMETRY Symmetry
CONSTANTS
    Tenants = {t1}
    Pods = {p1, p2}
    Clients = {k1}
    NoTenant = NoTenant
    NoPod = NoPod
    IdleAction = "hibernate"
    HasOverlay = TRUE
    LaggingCache = {"claims"}
    MaxWork = 1
    PoolSize = 1
    MaxFill = 2
    Environment = {"crash", "execFails", "idle", "podDeleted", "podFails", "workloadDeleted"}
INVARIANTS
    OnePodPerTenant
PROPERTIES
    
    DeletionTakesThePod
    ClaimFollowsLease
