SPECIFICATION Spec
CONSTANTS
    a = a  b = b  c = c
    x1 = x1  x2 = x2
    Idle = Idle
    Devices = {a, b, c}
    Signers = {a, b}
    Targets = {c}
    Deltas = {x1}
    Author <- ByTarget
    M = 1
    MaxRestarts = 0
INVARIANTS
    RevokedAuthorsTagged
CHECK_DEADLOCK FALSE
