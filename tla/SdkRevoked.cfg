SPECIFICATION Spec
CONSTANTS
    Calls = {"x", "y"}
    OtherDids = {"other"}
    MaxInits = 2
    MaxEvents = 2
PROPERTIES
    OwnRevocationSurfaces
CHECK_DEADLOCK FALSE
