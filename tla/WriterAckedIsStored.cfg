SPECIFICATION Spec
CONSTANTS
    Events <- MCEvents
    MaxMessages = 2
    MaxDeliver = 3
    MaxLosses = 1
INVARIANT
    AckedIsStored
