SPECIFICATION Spec
CONSTANTS
  u1 = u1
  u2 = u2
  Caller = {u1, u2}
  BurstSize = 2
  MaxWait = 1
  MaxChains = 2
  ExecutorRuns = TRUE
INVARIANT TypeOK
INVARIANT OnlyThrowsEndTheLoop
INVARIANT PatientMeansOneBurst
PROPERTY FailureBacksOff
PROPERTY StopDrains
PROPERTY AnswerAnnounced
PROPERTY LiveKeepsSampling
PROPERTY SamplerImplemented
CHECK_DEADLOCK FALSE
