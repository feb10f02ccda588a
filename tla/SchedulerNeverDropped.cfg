SPECIFICATION Spec
CONSTANTS
    Levels = 2
    SlotCount <- TwoWheels
    SlotSize = 2
    MaxOps = 1
    MaxTime = 6
    Delays <- Ahead
    Intervals <- Every
    Jitters <- NoJitter
    CronStep = 3
CHECK_DEADLOCK FALSE
INVARIANTS
    NeverDropped
