SPECIFICATION FairSpec
CONSTANTS
  Loops = {l1}
  Conns = {c1, c2}
  Kickers = {k1}
  NoConn = NoConn
INVARIANTS ServedHasGoroutine StopReachesRegistered
PROPERTIES ServerStops 
CHECK_DEADLOCK FALSE
