SPECIFICATION FairSpec
CONSTANTS
  NCalls = 2
  MaybeCalls = {}
  MaxIn <- FirstHasTwo
  MaxOut <- FirstHasOne
  MaxCancels = 0
  CancelTimeout = "infinite"
INVARIANTS
  TypeOK
  AssocTracksCalls
  ClientNeverIllegal
  IllegalOnlyAfterCompletion
  OwnResponse
  OwnRequestUnlessOverlap
PROPERTY DisconnectEndsCalls
CHECK_DEADLOCK FALSE
