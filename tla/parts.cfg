SPECIFICATION PartsSpec
CONSTANTS
    MaxStores = 2
    StoreFaults = {"brokenOff", "helperDies"}
    Requests = {r1, r2}
    MaxTokens = 2
    EventBuffer = 2
    MaxPodChanges = 1
    MaxClaimChanges = 3
    WorkloadSpecs <- TwoDockerfiles
    MaxRevision = 7
    Specs = {"telegram", "slack", "invalid"}
    Tenants = {t1, t2}
    Handlers = {h1, h2}
    NoTenant = NoTenant
    StaticTenant = NoTenant
    Guards <- AllowlistThenApi
    Allowed = {t1}
    Driver = "pi"
INVARIANTS
    PartsTypeOK
    MapFollowsSecret
    DashboardIsRight
    ReadyIsBuilt
PROPERTIES
    StoreIsRegister
    TriggerFollowsLife
    EventsAreAnswered
    
    HandlerReturns
CHECK_DEADLOCK FALSE
