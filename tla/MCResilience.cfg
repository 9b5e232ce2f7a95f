SPECIFICATION Spec
CONSTANTS
    Procs = {p1, p2, p3}
    Size = 2
    MaxN = 2
    Callers = {c1, c2}
    FailureThreshold = 2
    SuccessThreshold = 2
    MaxRequests = 3
    MaxPanics = 1
    MaxAdmin = 1
INVARIANTS
    SemTypeOK
    Conservation
    NoStrandedQueue
    BreakerTypeOK
    NoMissedTrip
    NoMissedClose
PROPERTIES
    NoOvertaking
    WakeupLostByHeadOnly
    AcquireReturns
    ImplementsPool
    LegalTransitions
    Recovers
