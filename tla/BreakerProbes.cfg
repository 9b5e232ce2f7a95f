SPECIFICATION ProbesSpec
CONSTANTS
    Callers = {c1, c2}
    FailureThreshold = 1
    SuccessThreshold = 1
    MaxRequests = 1
    MaxPanics = 0
    MaxAdmin = 0
INVARIANTS
    ProbesCapped
