SPECIFICATION Spec
CONSTANTS
  r1 = r1
  r2 = r2
  r3 = r3
  r4 = r4
  Trial = {r1, r2, r3, r4}
  Stamp = {12}
  Format = {"BINARY"}
  Bytes = 2
  Radix = 8
  Base = 3
  MaxDigits = 4
  BurstSize = 2
  Workers = 2
  ServerAnswers = FALSE
PROPERTY EveryTrialRecorded
CHECK_DEADLOCK FALSE
