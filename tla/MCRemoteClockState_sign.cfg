SPECIFICATION Spec
CONSTANTS
  t1 = t1
  t2 = t2
  Trial = {t1}
  HalfInt = 64
  Timeout = 3
  MaxWait = 4
  WaitScale = 2
  LocalOffset = {0}
  ServerOffset = {3}
  MayBeSet = FALSE
  MaxTime = 5
  MaxTrials = 3
SYMMETRY Symmetry
PROPERTY DeltaTAsDocumented
CHECK_DEADLOCK FALSE
