SPECIFICATION Spec
CONSTANTS
    Workers = {w1, w2}
    QueueSize = 1
    NoTask = NoTask
    Gone = Gone
    Publishers = {p1, p2}
    Handlers = {h1, h2}
    MaxPublish = 1
    Execs = {e1}
    Waiters = {v1, v2}
    States <- MCStates
    Type <- MCType
    Targets <- MCTargets
    Branches <- MCBranches
    StartAt <- MCStartAt
    Legacy = "legacy"
    N = 4
    Compensable = {1, 3, 4}
    MaxCrashes = 2
    MaxSagaFaults = 2
    n1 = n1
    n2 = n2
    a1 = a1
    a2 = a2
    b1 = b1
    Nodes <- MCNodes
    ThreadsOf <- MCThreadsOf
    Values <- MCValues
    NoValue = NoValue
    MaxClock = 2
    MaxFaults = 1
    MaxCalls = 1
INVARIANTS
    TypeOK
    NoSubmitAfterStop
    CloseDrains
    NoLostWaiter
    CancelStopsLoop
    SagaTypeOK
    CompletedStands
    RolledBack
    SchedulerTypeOK
    LockedWhileRunning
    NoOverlap
PROPERTIES
    CloseReturns
    ExecutionEnds
    ForwardInOrder
    BackwardInOrder
    TerminalIsFinal
    Settles
    DueJobRuns
CHECK_DEADLOCK FALSE
