SPECIFICATION CooldownSpec
CONSTANTS
    Callers = {c1, c2}
    FailureThreshold = 1
    SuccessThreshold = 2
    MaxRequests = 2
    MaxPanics = 0
    MaxAdmin = 0
PROPERTIES
    CooldownRespected
