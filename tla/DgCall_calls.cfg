SPECIFICATION Spec
CONSTANTS
  MaxSeq = 2
  MaxBoot = 1
  Kinds = {"nonidem", "idem"}
  Scalls = {1, 2}
  Executors = {1, 2}
  MaxGiveUps = 1
  MaxResets = 0
INVARIANTS
  OwnResponseUnlessOvertaken
  HandlesFollowExecutors
PROPERTY DenialTrueUnlessRestarted
CHECK_DEADLOCK FALSE
