SPECIFICATION Spec
CONSTANTS
    Devices = {1, 2}
    Keys = {"k1", "k2"}
    RegOrder <- Order
    MaxWrites = 3
    MaxLamport = 5
    MaxRestarts = 0
    None = None
PROPERTIES
    ReplacedStaysReplaced
CHECK_DEADLOCK FALSE
