SPECIFICATION Spec
CONSTANTS
    Nodes = {n1, n2, n3}
    Runners = {n1, n2}
    Nobody = Nobody
    MaxTerm = 2
    MaxElections = 2
    MaxSends = 2
    MaxLost = 0
    MaxLog = 2
    MaxCalls = 2
PROPERTIES
    CommitsWhatMatches
CHECK_DEADLOCK FALSE
