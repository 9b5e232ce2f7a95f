SPECIFICATION SagaSpec
CONSTANTS N = 3
          Compensable = {1, 3}
          MaxCrashes = 0
          MaxSagaFaults = 1
INVARIANT CompletedAlwaysStands
CHECK_DEADLOCK FALSE
