SPECIFICATION FairSpec
CONSTANTS
  Threads = {t1}
  t1 = t1
  Patient = {t1}
  MaxConns = 2
  MaxCalls = 2
  MaxFaults = 1
  MaxShutdowns = 0
PROPERTIES
  CallReturns
  RundownHappens
  IdleCloses
CHECK_DEADLOCK FALSE
