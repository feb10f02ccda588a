SPECIFICATION Spec
CONSTANTS
    e1 = e1
    e2 = e2
    e3 = e3
    i1 = i1
    i2 = i2
    ExpIDs = {e1, e2}
    Ifaces = {i1, i2}
    Configs <- OneConfig
    TTLs <- JustOne
    MaxParam = 2
    MaxTime = 3
    MaxApplies = 3
    MaxCleaners = 1
    CommandsMayFail = FALSE
    None = None
CHECK_DEADLOCK FALSE
INVARIANTS
    FilteredHasNetem
