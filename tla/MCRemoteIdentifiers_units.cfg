SPECIFICATION RemoteSpec
CONSTANTS
  TickMillis = 2
  HalfTime = 8
  TimeUnit = 4
  CountSpan = 2
  CountUnit = 2
  HostSpan = 2
  p1 = p1
  p2 = p2
  t1 = t1
  t2 = t2
  Process = {p1}
  Thread = {t1}
  home <- MCHomeAlone
  host <- MCHostAlone
  MinClock = 0
  MaxClock = 3
  MaxIds = 1
  Delta = {4}
  MaxAmis = 1
INVARIANT ApproximatesServer
CHECK_DEADLOCK FALSE
