SPECIFICATION FairSpec
CONSTANTS
  c1 = c1
  c2 = c2
  c3 = c3
  D = D
  R = R
  NoPool = NoPool
  NoCall = NoCall
  Calls = {c1, c2, c3}
  DefaultPool = D
  ReservedPools = {R}
  MaxThreads = 1
  ThreadCounts = {0, 1}
  PoolThreadCounts = {1}
  QueueMultiplier = 1
  QueueSizes = {}
  CounterMod = 16
  MaxListens = 2
  MaxStops = 2
  MaxFrees = 1
  MaxFaults = 1
INVARIANTS
  RunsExclusively
  ShutdownTerminatesThreads
PROPERTIES
  NeverRunsAgain
  WaitsEnd
CHECK_DEADLOCK FALSE
