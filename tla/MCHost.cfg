SPECIFICATION HostSpec
CONSTANTS
  Procs = {p1, p2}
  Dirs = {d1, d2}
  Nobody = Nobody
  MaxHead = 2
  Starts <- MCStarts
  Dir = d1
  Server = p1
  Threads = {w1, w2, http}
  Http = http
  Width = 2
  Free = Free
  Conns = {c1, c2}
  HttpConns = {h1}
  MaxPending = 1
  MaxRequests = 1
  Watched = {c1}
INVARIANTS
  RootIsWhole
  DaemonAlone
  TurnedAwayUntouched
PROPERTIES
  MigratesOnce
  ConnectionsEnd
CHECK_DEADLOCK FALSE
