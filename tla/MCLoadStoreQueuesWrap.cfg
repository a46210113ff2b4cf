SPECIFICATION Spec
CONSTANTS
  LqSize = 2
  SqSize = 2
  AddrMod = 4
  MaxSeq = 3
  Ops <- WrapOps
INVARIANTS
  LoadsReadProgramOrder
CHECK_DEADLOCK FALSE
