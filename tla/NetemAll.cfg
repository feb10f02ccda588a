SPECIFICATION FairSpec
CONSTANTS
    e1 = e1
    e2 = e2
    e3 = e3
    i1 = i1
    i2 = i2
    ExpIDs = {e1}
    Ifaces = {i1}
    Configs <- OneConfig
    TTLs <- ZeroOrOne
    MaxParam = 2
    MaxTime = 3
    MaxApplies = 2
    MaxCleaners = 2
    CommandsMayFail = TRUE
    None = None
CHECK_DEADLOCK FALSE
INVARIANTS
    TypeOK
    IngressInForce
PROPERTIES
    TTLEnforced
