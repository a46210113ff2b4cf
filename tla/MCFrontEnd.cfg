SPECIFICATION Spec
CONSTANTS
  NumPc = 6
  Program <- MCProgram
  Rewrites <- Branches
  MaxInFlight = 3
  GhrSize = 4
  PhtSize = 2
  BtbSets = 2
  BtbWays = 2
  RasSize = 2
INVARIANTS
  TypeOK
  PathIsConnected
  GhrOnPath
  RasOnPath
  IndexOnPath
  BtbIsFaithful
  OffenderHasCheckpoint
CHECK_DEADLOCK FALSE
