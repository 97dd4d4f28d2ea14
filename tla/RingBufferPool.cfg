SPECIFICATION StatsSpec
CONSTANTS
  Clients = {c1, c2, c3}
  Capacity = 2
  Spare = {f1, f2, f3}
  Heap = Heap
  NoBuf = NoBuf
  MaxAllocs = 3
  Word = 64
SYMMETRY Symmetry
INVARIANTS
  ExclusiveOwnership
  FreeBuffersZeroed
  AvailableNeverWraps
PROPERTIES ImplementsLender
CHECK_DEADLOCK FALSE
