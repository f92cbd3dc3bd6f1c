SPECIFICATION Spec
SYMMETRY Symmetry
CONSTANTS
    Tenants = {t1}
    Pods = {p1, p2}
    Clients = {k1}
    NoTenant = NoTenant
    NoPod = NoPod
    IdleAction = "hibernate"
    HasOverlay = TRUE
    LaggingCache = {}
    MaxWork = 1
    PoolSize = 1
    MaxFill = 2
    Environment = {"execFails", "idle"}
INVARIANTS
    FailedReleaseKeepsPod
