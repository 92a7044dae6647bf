SPECIFICATION Spec
CONSTANTS
  t1 = t1
  t2 = t2
  Trial = {t1, t2}
  HalfInt = 64
  Timeout = 3
  MaxWait = 2
  WaitScale = 1
  LocalOffset = {0, 3}
  ServerOffset = {3, 4}
  MayBeSet = TRUE
  MaxTime = 3
  MaxTrials = 3
SYMMETRY Symmetry
INVARIANT TypeOK
INVARIANT AccurateWhileSteady
INVARIANT EveryTrialCounted
PROPERTY OneSoundTrialSuffices
CHECK_DEADLOCK FALSE
PROPERTY MeanStays
