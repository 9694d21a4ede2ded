SPECIFICATION FairSpec
CONSTANTS
  NCalls = 1
  MaybeCalls = {}
  MaxIn <- OneEach
  MaxOut <- OneEach
  MaxCancels = 1
  CancelTimeout = "finite"
PROPERTIES
  CancelNotLost
  CallReturns
CHECK_DEADLOCK FALSE
