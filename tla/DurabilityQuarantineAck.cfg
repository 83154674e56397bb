SPECIFICATION Spec
CONSTANTS
    d1 = d1  d2 = d2  d3 = d3
    w1 = w1  w2 = w2
    p1 = p1  p2 = p2  p3 = p3  p4 = p4
    b1 = b1  b2 = b2
    NoDelta = NoDelta
    NoTag = NoTag
    Unseen = Unseen
    Tags <- SquadTags
    Deltas <- TwoDeltas
    Writers = {w1, w2}
    Peers = {p1}
    SquadTag <- Untagged
    Beacons = {}
    BeaconSite <- NoBeacons
    AnchorEnabled = FALSE
    K = 2
    MinTags = 0
    FracNum = 7
    FracDen = 10
    MaxQueueDepth = 2
    Compaction = TRUE
    IoFaults = TRUE
    MaxMigrations = 1
    MaxRestarts = 0
INVARIANTS
    Tier2Stored
CHECK_DEADLOCK FALSE
