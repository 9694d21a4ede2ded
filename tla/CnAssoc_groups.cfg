SPECIFICATION Spec
CONSTANTS
  Threads = {t1, t2}
  t1 = t1
  t2 = t2
  Patient = {}
  MaxConns = 2
  MaxCalls = 2
  MaxFaults = 1
  MaxShutdowns = 0
INVARIANTS
  TypeOK
  RefsCountHolders
  OneCaller
  OneGroup
  SameGroup
  NoRundownInCall
  HandleSurvives
SYMMETRY Callers
CHECK_DEADLOCK FALSE
