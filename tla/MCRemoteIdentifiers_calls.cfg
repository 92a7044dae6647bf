SPECIFICATION RemoteSpec
CONSTANTS
  TickMillis = 1
  HalfTime = 2
  TimeUnit = 4
  CountSpan = 2
  CountUnit = 2
  HostSpan = 2
  p1 = p1
  p2 = p2
  t1 = t1
  t2 = t2
  Process = {p1, p2}
  Thread = {t1, t2}
  home <- MCHome
  host <- MCDistinctHosts
  MinClock <- MCBeforeDawn
  MaxClock = 0
  MaxIds = 3
  Delta <- MCDelta
  MaxAmis = 2
INVARIANT RemoteTypeOK
INVARIANT FieldsSurvive
INVARIANT AmisDistinct
INVARIANT AmisInRealTime
CHECK_DEADLOCK FALSE
