SPECIFICATION Spec
CONSTANTS
  MaxSeq = 2
  MaxBoot = 2
  Kinds = {"nonidem"}
  Scalls = {1, 2}
  Executors = {1, 2}
  MaxGiveUps = 0
  MaxResets = 0
INVARIANTS
  TypeOK
  OnceUnlessOvertaken
PROPERTY ImplementsContract
CHECK_DEADLOCK FALSE
