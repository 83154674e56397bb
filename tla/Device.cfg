SPECIFICATION DeviceSpec
CONSTANTS
    a = a  b = b  x1 = x1
    Idle = Idle
    None = None
    Devices = {a, b}
    Signers = {a}
    Targets = {a, b}
    Deltas = {x1}
    Author <- ByOther
    M = 1
    MaxRestarts = 0
    ProjectionRows = {"r1"}
    row_key <- OneKey
    Markers = {0}
    MaxDeltas = 3
    MaxIncidents = 4
    CceMaxRestarts = 1
    Keys = {"a", "b"}
    SqliteThreshold = 1
    MaxCalls = 3
    MaxCrashes = 1
    Blobs = {"d1", "d2"}
    IdbThreshold = 2
    MaxWrites = 4
    MaxReloads = 2
    MaxStarts = 3
    Calls = {"x", "y"}
    OtherDids = {"other"}
    MaxInits = 2
    MaxEvents = 3
    MaxEntries = 4
    Deployments <- LanguageDeployments
INVARIANTS
    TypesOK
    RevocationInv
    
    ShownIsDurable
    InitIsConsistent
    EventsOnceInOrder
    SortIsExact
    RoundTrips
PROPERTIES
    RevokedSignersRefused
    IncidentsCoverRoots
    ClearingIsExact
CHECK_DEADLOCK FALSE
