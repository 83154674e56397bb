SPECIFICATION Spec
CONSTANTS
    Migrations = {"m1", "m1b", "m2", "bad"}
    delta <- MCdelta
    PathLength = 3
    CaKey = "ca"
    SigLists <- MCSigs
    Threshold = 2
    MaxJobs = 2
    MaxWrites = 0
    MaxWindow = 2
    MaxRestarts = 0
    None = None
INVARIANTS
    MirrorFollowsEngine
CHECK_DEADLOCK FALSE
