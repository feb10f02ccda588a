SPECIFICATION EgressSpec
CONSTANTS
    e1 = e1
    e2 = e2
    e3 = e3
    i1 = i1
    i2 = i2
    ExpIDs = {e1, e2, e3}
    Ifaces = {i1, i2}
    Configs <- ThreeConfigs
    TTLs <- JustOne
    MaxParam = 2
    MaxTime = 2
    MaxApplies = 3
    MaxCleaners = 1
    CommandsMayFail = TRUE
    None = None
CHECK_DEADLOCK FALSE
SYMMETRY ExpSymmetry
INVARIANTS
    BeliefMatchesKernel
    ImpairedWhileActive
PROPERTIES
    RemainingInForce
