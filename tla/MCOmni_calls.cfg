SPECIFICATION Spec
CONSTANTS
  TickMillis = 2
  HalfTime = 2
  TimeUnit = 4
  CountSpan = 2
  CountUnit = 2
  HostSpan = 2
  p1 = p1
  p2 = p2
  t1 = t1
  t2 = t2
  t3 = t3
  Process = {p1, p2}
  Thread = {t1, t2, t3}
  home <- MCHome
  host <- MCDistinctHosts
  MinClock <- MCBeforeDawn
  MaxClock = 0
  MaxIds = 3
SYMMETRY Symmetry
INVARIANT TypeOK
INVARIANT EveryTicketOnce
INVARIANT DistinctWithinWindow
INVARIANT IncreasingInRealTime
CHECK_DEADLOCK FALSE
