SPECIFICATION HubSpec
CONSTANTS
    Clients = {c1, c2}
    Casters = {b1}
    SendCap = 1
    MaxShout = 1
INVARIANTS
    NoPanic
CHECK_DEADLOCK FALSE
