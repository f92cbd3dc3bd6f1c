SPECIFICATION FairSpec
CONSTANTS
    Tenants = {t1}
    Pods = {p1, p2, p3}
    Clients = {k1}
    NoTenant = NoTenant
    NoPod = NoPod
    IdleAction = "hibernate"
    HasOverlay = TRUE
    LaggingCache = {}
    MaxWork = 0
    PoolSize = 1
    MaxFill = 2
    Environment = {"idle", "workloadChanges"}
PROPERTIES
    WaitingClaimsSettle
    DeletedClaimsGo
