SPECIFICATION Spec
CONSTANTS
  c1 = c1
  c2 = c2
  c3 = c3
  D = D
  R = R
  NoPool = NoPool
  NoCall = NoCall
  Calls = {c1, c2, c3}
  DefaultPool = D
  ReservedPools = {R}
  MaxThreads = 3
  ThreadCounts = {3}
  PoolThreadCounts = {1}
  QueueMultiplier = 1
  QueueSizes = {0, 2}
  CounterMod = 16
  MaxListens = 1
  MaxStops = 0
  MaxFrees = 0
  MaxFaults = 1
SYMMETRY CallSymmetry
INVARIANTS
  QueuesAgree
  IdleUnlessAssignedEarly
CHECK_DEADLOCK FALSE
