SPECIFICATION FairSpec
CONSTANTS
  MaxSeq = 1
  MaxBoot = 2
  Kinds = {"nonidem", "unknown"}
  Scalls = {1, 2}
  Executors = {1, 2}
  MaxGiveUps = 1
  MaxResets = 1
PROPERTIES
  CallReturns
  HandlesAreReleased
CHECK_DEADLOCK FALSE
