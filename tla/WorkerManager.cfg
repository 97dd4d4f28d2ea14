SPECIFICATION Spec
CONSTANTS
  s1 = s1
  s2 = s2
  Servers = {s1, s2}
  Workers = {w1, w2}
  Uids = {u1, u2}
  NetType <- DistinctNets
  NoWorker = NoWorker
SYMMETRY Symmetry
INVARIANTS LookupAnswersOwner LookupFinds
CHECK_DEADLOCK FALSE
