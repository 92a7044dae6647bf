SPECIFICATION Spec
CONSTANTS
  t1 = t1
  t2 = t2
  t3 = t3
  Trial = {t1, t2, t3}
  Stamp = {12}
  Format = {"BINARY", "STRING", "JSON", "JSONP"}
  NoFormat = "null"
  Bytes = 2
  Radix = 8
  Base = 3
  MaxDigits = 4
  BurstSize = 2
  Workers = 1
  CountSpan = 2
  MinTick <- MCMinTick
  MaxTick = 0
  MaxDraws = 1
INVARIANT TypeOK
INVARIANT StampIntact
INVARIANT OwnAnswerOnly
INVARIANT RegistryExact
PROPERTY TrialsImplemented
PROPERTY RegistryDrains
PROPERTY EveryTrialRecorded
PROPERTY FirstOutcomeStands
CHECK_DEADLOCK FALSE
