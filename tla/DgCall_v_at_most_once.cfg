SPECIFICATION Spec
CONSTANTS
  MaxSeq = 2
  MaxBoot = 2
  Kinds = {"nonidem"}
  Scalls = {1, 2}
  Executors = {1, 2}
  MaxGiveUps = 1
  MaxResets = 0
INVARIANT AtMostOnce
CHECK_DEADLOCK FALSE
