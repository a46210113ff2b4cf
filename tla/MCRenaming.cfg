SPECIFICATION FairSpec
CONSTANTS
  NumArch = 3
  PrfSize = 5
  RobSize = 3
  NumCkpt = 2
  Insts <- MCInsts
INVARIANTS
  TypeOK
  OneOwner
  RatIsProgramOrder
  StaleIsPredecessor
  SourcesAreProgramOrder
  CheckpointsAreExact
  OneHolder
  Conserved
  NoEarlyReuse
  PendingIsOwed
  NeverStarved
PROPERTIES
  StallsEnd
CHECK_DEADLOCK FALSE
