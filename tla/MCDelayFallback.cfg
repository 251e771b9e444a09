SPECIFICATION DelaySpec
CONSTANTS
  N = 4
  NParallel = 2
  MaxRuns = 3
  MaxTasks = 6
  Graphs <- MCGraphs
  DelayGraphs <- MCDelayGraphs
INVARIANT FallbackDelivers
CHECK_DEADLOCK FALSE
