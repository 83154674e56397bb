SPECIFICATION NodeSpec
CONSTANTS
    k1 = k1  k2 = k2
    None = None
    Keys = {k1, k2}
    ConfigKeys = {k1}
    MaxTime = 4
    MaxExpiry = 3
    MaxLag = 1
    MaxRestarts = 1
    SchedDeltas = {"alert", "route", "note"}
    priority <- MCPriority
    serialized_len <- MCLength
    LinkCapacity = 10
    ChannelCapacity = 1
    MaxRetryQueue = 1
    RetryInterval = 1
    LeaseDuration = 1
    Managers = {"m1", "m2"}
    TerminationThreshold = 2
    MaxGrants = 2
    MaxQueue = 2
    FragDeltas = {"a", "b", "c"}
    size <- MCSize
    Sends <- MCSends
    Relayed <- MCRelayed
    Local = "me"
    MtuLimit = 8
    MaxSlots = 2
    MaxFragmentsPerDelta = 3
    MaxMessages = 7
    BleDeltas = {"b", "c"}
    bleSize <- MCBleSize
    BleMaxPayload = 3
    Peers = {"p", "q"}
    Resolvable = {"p"}
    MaxHopCount = 1
    PeerTimeout = 1
    CacheSize = 1
    CredentialValidity = 1
    RetryBackoff = 2
    RotationInterval = 1
    MaxDelay = 1
    MaxWaiting = 1
    MaxExchange = 1
    Migrations = {"m1", "m1b", "m2", "bad"}
    delta <- MCDelta
    SigLists <- MCSigLists
    PathLength = 3
    CaKey = "ca"
    Threshold = 2
    MaxJobs = 2
    MaxWrites = 1
    MaxWindow = 2
    MigMaxRestarts = 1
    Runs = {"m1"}
    Rows = {1, 2}
    Fuel = 2
INVARIANTS
    TypesOK
    OnlyWholeDeltas
    InterruptIsNotForgiven
    NothingEscapes
PROPERTIES
    ExpiryIsHonest
    VerifiedLapses
    EpochIsFair
    FloorServed
    AssemblyIsKept
    NoAttemptInBackoff
    TimersFire
    MigrationsEnd
CHECK_DEADLOCK FALSE
