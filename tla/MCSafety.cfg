SPECIFICATION SafetySpec
CONSTANTS
    p1 = p1
    p2 = p2
    c1 = c1
    c2 = c2
    NumPeers = 3
    Proposers = {p1, p2}
    Calls = {c1, c2}
    Owner <- OwnCall
    Values = {x, y}
    NoValue = NoValue
    Attempts <- FewAttempts
    MaxID = 2
    MaxSlot = 0
    Wired = {p1}
    Clients = {d1, d2}
    Casters = {b1}
    SendCap = 1
    MaxShout = 1
SYMMETRY ValueSymmetry
INVARIANTS
    TypesOK
    Agreement
    LearnedIsChosen
    LoggedSlotDecided
    NoDoubleClose
    RoomsHoldOpenClients
CHECK_DEADLOCK FALSE
