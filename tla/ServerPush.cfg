SPECIFICATION FairSpec
CONSTANTS
  w1 = w1
  w2 = w2
  u1 = u1
  u2 = u2
  Workers = {w1, w2}
  Uids = {u1, u2}
  NoWorker = NoWorker
  Callers = {c1}
  Audiences <- OneOrBoth
  UserMaps <- OneOrTwoUsers
  ChanSize = 1
  MaxOthers = 1
INVARIANTS OnlyAddressees ReturnedHasReached
PROPERTY CallsEnd
CHECK_DEADLOCK FALSE
