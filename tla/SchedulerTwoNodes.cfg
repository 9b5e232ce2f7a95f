SPECIFICATION RunSpec
CONSTANTS n1 = n1
          n2 = n2
          a1 = a1
          a2 = a2
          b1 = b1
          Nodes <- MCNodes
          ThreadsOf <- MCThreadsOf
          Values <- MCValues
          NoValue = NoValue
          MaxClock = 2
          MaxFaults = 0
          MaxCalls = 0
INVARIANT OneNodeRunsEachDueJob
CHECK_DEADLOCK FALSE
