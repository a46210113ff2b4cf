SPECIFICATION Spec
CONSTANTS
  NumPc = 3
  Program <- Small
  Rewrites <- AnyCode
  MaxInFlight = 3
  GhrSize = 2
  PhtSize = 2
  BtbSets = 1
  BtbWays = 2
  RasSize = 1
INVARIANTS
  OffenderHasCheckpoint
CHECK_DEADLOCK FALSE
