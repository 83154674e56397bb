SPECIFICATION MCSpec
CONSTANTS
    d1 = d1  d2 = d2  w1 = w1  w2 = w2
    p1 = p1  p2 = p2  p3 = p3  p4 = p4
    b1 = b1  b2 = b2
    NoDelta = NoDelta
    NoTag = NoTag
    Unseen = Unseen
    Idle = Idle
    Tags <- SquadTags
    Deltas = {d1}
    Writers = {w1}
    Peers = {p1, p2, p3, p4}
    SquadTag <- MCSquadTag
    Beacons = {b1, b2}
    BeaconSite <- MCBeaconSite
    AnchorEnabled = TRUE
    K = 2
    MinTags = 0
    FracNum = 7
    FracDen = 10
    MaxQueueDepth = 2
    Compaction = FALSE
    IoFaults = TRUE
    MaxMigrations = 1
    MaxRestarts = 0
INVARIANTS
    QuorumNeverMissed
    AttestedTagsOnly
PROPERTIES
    WritesReachTier2
    ChannelsDeliver
    Spreads
CHECK_DEADLOCK FALSE
