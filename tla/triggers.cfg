SPECIFICATION GatewayFairSpec
CONSTANTS
    Handlers = {l1, l2}
    NoLoop = NoLoop
    Specs = {"telegram", "webhook", "cron"}
    Updates <- WantedAndOther
    BotTokens = {"good", "empty"}
    GatewayFaults = {"crash", "getMeFails", "listenFails", "listFails", "zeroInterval"}
INVARIANTS
    GatewayTypeOK
    OneLoopPerTrigger
    ConfirmedWasHandled
    StrayLoopsAreStopped
    CallsHaveOwners
PROPERTIES
    StoppedLoopsWindDown
    
    
CHECK_DEADLOCK FALSE
