SPECIFICATION LifetimesSpec
CONSTANTS
    \* Cgroups.
    ExpIDs = {"e1"}
    Pids = {p1}
    Agent = agent
    Configs <- MCConfigs
    TTLs = {0, 1}
    MaxTTL = 1
    MaxCreates = 2
    MaxCleaners = 2
    MaxFailures = 1
    None = None
    \* Replay.
    Events <- StreamEvents
    MaxMessages = 2
    Ranges <- ReplayRanges
    Width = 3
    MaxReplays = 2
    MaxClock = 1
    MaxAge = 0
INVARIANTS
    TypeOK
    RecordsMatchKernel
    ReplayTypeOK
    ReplayInRange
    ListedWhileReplaying
PROPERTIES
    TTLEnforced
    EveryJobEnds
