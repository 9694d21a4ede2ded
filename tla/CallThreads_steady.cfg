SPECIFICATION FairSpec
CONSTANTS
  c1 = c1
  c2 = c2
  c3 = c3
  D = D
  R = R
  NoPool = NoPool
  NoCall = NoCall
  Calls = {c1, c2, c3}
  DefaultPool = D
  ReservedPools = {R}
  MaxThreads = 2
  ThreadCounts = {1, 2}
  PoolThreadCounts = {1, 2}
  QueueMultiplier = 1
  QueueSizes = {}
  CounterMod = 16
  MaxListens = 1
  MaxStops = 0
  MaxFrees = 0
  MaxFaults = 0
INVARIANTS
  TypeOK
PROPERTIES
  ImplementsDispatch
  AcceptedCallRuns
CHECK_DEADLOCK FALSE
