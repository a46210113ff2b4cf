SPECIFICATION FairSpec
CONSTANTS
  NumArch = 3
  PrfSize = 3
  RobSize = 3
  NumCkpt = 1
  Insts <- MCInsts
PROPERTIES
  StallsEnd
CHECK_DEADLOCK FALSE
