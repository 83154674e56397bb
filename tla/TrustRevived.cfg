SPECIFICATION Spec
CONSTANTS
    k1 = k1  k2 = k2
    None = None
    Keys = {k1, k2}
    ConfigKeys = {k1}
    MaxTime = 4
    MaxExpiry = 3
    MaxLag = 1
    MaxRestarts = 1
PROPERTIES
    RevokedIsTerminal
CHECK_DEADLOCK FALSE
