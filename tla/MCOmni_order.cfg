SPECIFICATION Spec
CONSTANTS
  TickMillis = 2
  HalfTime = 2
  TimeUnit = 4
  CountSpan = 2
  CountUnit = 2
  HostSpan = 2
  p1 = p1
  p2 = p2
  t1 = t1
  t2 = t2
  t3 = t3
  Process = {p1}
  Thread = {t1, t2}
  home <- MCHomeAlone
  host <- MCHostAlone
  MinClock = 0
  MaxClock = 3
  MaxIds = 4
INVARIANT StrictlyIncreasing
CHECK_DEADLOCK FALSE
