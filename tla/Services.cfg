SPECIFICATION Spec
CONSTANTS
    \* Middleware.
    k1 = k1
    Keys = {k1}
    Roles = {"user", "admin"}
    DefaultRPS = 1
    RoleRPS <- RoleLimits
    KeyRPS <- KeyLimits
    BurstSize = 2
    CleanupPeriod = 1
    Minute = 2
    MaxTime = 3
    MaxAdmitted = 4
    \* Exports.
    Source <- Records
    RecordSize <- Sizes
    Requests <- ExportRequests
    ChunkSize = 3
    StorageMayFail = TRUE
    MaxJobs = 2
    MaxSecond = 1
    Downloaded = {1}
    \* DiffEmit.
    StateKeys = {"s1", "s2"}
    Inputs <- SubmittedStates
    IgnoreFields = {"stamp"}
    DiffThreshold = 60
    MaxStateHistory = 1
    MaxStored = 3
    MapsMayChange = TRUE
    \* Health.
    Dependencies = {"agents", "database"}
    Critical = {"database"}
    Endpoints <- AgentEndpoints
    CheckInterval <- Intervals
    CheckTimeout <- Timeouts
    TickerPeriod = 4
    ProbeTimeout = 2
    Horizon = 14
    \* Notifier.
    Clients = {"high", "low"}
    Strangers = {}
    HighPriority = {"high"}
    RoomNames = {"r1", "r2"}
    MaxClientsTotal = 3
    MaxRooms = 1
    MaxClients = 1
    BufferSize = 2
    MessageTypes = {"log"}
    FilterTypes = {"metric"}
    Joiners = {"j1"}
    Broadcasters = {"b1", "b2"}
    Watchers = {"w1"}
    MaxBroadcasts = 2
CHECK_DEADLOCK FALSE
INVARIANTS
    RateBound
    ListLagBelowMinute
    ManifestSound
    StatusTellsOutcome
    DownloadResumes
    
    ReaderInSync
    StatusInTime
    InOrder
PROPERTIES
    CheckIsExact
    JoinsEnd
