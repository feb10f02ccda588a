SPECIFICATION Spec
CONSTANTS
    a1 = a1
    a2 = a2
    MaxTime = 2
    Endpoints <- TwoEndpoints
    MaxAgentCount = 3
    MaxDuration = 2
    Agents = {a1, a2}
    None = None
    AddMayFail = TRUE
    DelMayFail = TRUE
    KillMayHitAgent = TRUE
    Requests <- MixedRequests
    MaxRequests = 2
    MaxCopies = 4
CHECK_DEADLOCK FALSE
INVARIANTS
    ValidatedIsKnown
