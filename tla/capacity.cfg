SPECIFICATION Spec
SYMMETRY Symmetry
CONSTANTS
    Tenants = {t1}
    Pods = {p1, p2, p3}
    Clients = {k1}
    NoTenant = NoTenant
    NoPod = NoPod
    IdleAction = "destroy"
    HasOverlay = FALSE
    LaggingCache = {}
    MaxWork = 0
    PoolSize = 2
    MaxFill = 2
    Environment = {"idle", "execFails", "podFails", "poolDeleted", "workloadDeleted"}
INVARIANTS
    PoolWithinSize
    NoOrphanPods
CHECK_DEADLOCK FALSE
