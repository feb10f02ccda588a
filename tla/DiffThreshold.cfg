SPECIFICATION DiffSpec
CONSTANTS
    StateKeys = {"s1"}
    Inputs <- FieldByField
    IgnoreFields = {}
    DiffThreshold = 50
    MaxStateHistory = 1
    MaxStored = 3
    MapsMayChange = FALSE
CHECK_DEADLOCK FALSE
INVARIANT LagBelowThreshold
