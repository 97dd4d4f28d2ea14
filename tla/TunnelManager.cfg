SPECIFICATION FairSpec
CONSTANTS
  Callers = {c1, c2}
  Keys = {k1}
  TypeOf <- OwnType
  Tunnels = {1, 2}
  None = None
  CsSize = 1
  ChanSize = 1
INVARIANTS OneTunnelPerKey OnStopAfterLoops
PROPERTIES StopReturns TunnelsEnd
CHECK_DEADLOCK FALSE
