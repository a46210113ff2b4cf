SPECIFICATION FairSpec
CONSTANTS
  LqSize = 2
  SqSize = 2
  AddrMod = 4
  MaxSeq = 4
  Ops <- MCOps
INVARIANTS
  TypeOK
  SeatsAreOwn
  LoadsReadProgramOrder
  SearchIsTheWalk
PROPERTIES
  ImplementsInOrder
  EveryAccessLeaves
CHECK_DEADLOCK FALSE
