SPECIFICATION Spec
CONSTANTS
  u1 = u1
  u2 = u2
  Caller = {u1}
  BurstSize = 2
  MaxWait = 1
  MaxChains = 2
  ExecutorRuns = TRUE
INVARIANT LiveMeansRunning
CHECK_DEADLOCK FALSE
