SPECIFICATION BreakerFairSpec
CONSTANTS
    Callers = {c1, c2}
    FailureThreshold = 2
    SuccessThreshold = 2
    MaxRequests = 1
    MaxPanics = 0
    MaxAdmin = 0
PROPERTIES
    Recovers
