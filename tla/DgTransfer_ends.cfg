SPECIFICATION FairSpec
CONSTANTS
  Roles <- MCRoles
  Lengths <- MCLengths
  MaxFaults = 2
  InitialWindow = 2
  InitialMaxBlast = 2
  MaxBlast = 4
  Reservations <- MCReservations
  MaxTries = 2
  RecvWindow = 2
  MaxQueue = 2
  WakeQueue = 2
  Pools <- MCPools
  MaxPings = 2
INVARIANTS
  TypeOK
  NothingLost
  GivesUpOnlyAfterFaults
PROPERTIES
  TransferEnds
CHECK_DEADLOCK FALSE
