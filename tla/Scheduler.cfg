SPECIFICATION FairSpec
CONSTANTS
    Levels = 2
    SlotCount <- TwoWheels
    SlotSize = 2
    MaxOps = 2
    MaxTime = 5
    Delays <- SomeDelays
    Intervals <- Every
    Jitters <- SomeJitter
    CronStep = 3
CHECK_DEADLOCK FALSE
INVARIANTS
    TypeOK
    SingleFlight
    RunsKeepInterval
    StatsExact
    PanicOnlyWhenLate
PROPERTIES
    StopIsFinal
    StopTerminates
