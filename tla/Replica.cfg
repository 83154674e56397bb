SPECIFICATION ReplicaSpec
CONSTANTS
    a = a  b = b  c = c
    Idle = Idle
    None = None
    Devices = {a, b, c}
    Signers = {a, b}
    Targets = {c}
    Deltas = {}
    Author <- NoAuthor
    M = 2
    MaxRestarts = 1
    Replicas = {1, 2}
    Keys = {"k1", "k2"}
    RegOrder <- KeyOrder
    MaxWrites = 3
    MaxLamport = 4
    CrdtMaxRestarts = 1
    Path <- VersionPath
    Foreign = 0
    Authors = {"p", "q"}
    Signatures = {"good", "forged", "missing", "unresolvable"}
    MaxRecords = 2
    MaxReceived = 3
    Migrations = {"m1", "m1b", "m2", "bad"}
    delta <- MCDelta
    SigLists <- MCSigLists
    PathLength = 3
    CaKey = "ca"
    Threshold = 2
    MaxJobs = 2
    MaxLocalWrites = 2
    MaxWindow = 2
    MigMaxRestarts = 1
INVARIANTS
    TypesOK
    ThresholdEvidence
    NumbersAreCausal
    SameDeltasSameDoc
    ClassificationIsInclusion
    OnlyVouchedGetsIn
    CapturedWritesSettle
PROPERTIES
    TipsCoverDag
    CommitsAreSound
CHECK_DEADLOCK FALSE
