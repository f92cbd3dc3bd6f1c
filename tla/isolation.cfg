SPECIFICATION Spec
SYMMETRY Symmetry
CONSTANTS
    Tenants = {t1, t2}
    Pods = {p1, p2}
    Clients = {k1}
    NoTenant = NoTenant
    NoPod = NoPod
    IdleAction = "hibernate"
    HasOverlay = TRUE
    LaggingCache = {"pods"}
    MaxWork = 1
    PoolSize = 1
    MaxFill = 2
    Environment = {}
INVARIANTS
    TenantIsolation
    ClaimsOwnPod
PROPERTIES
    PodStaysWithTenant
CHECK_DEADLOCK FALSE
CONSTRAINTS OnePodTrails OneWorks
