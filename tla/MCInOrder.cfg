SPECIFICATION Spec
CONSTANTS
  XLen = 30
  NumArch = 18
  RegA0 = 10
  RegA7 = 17
  SysExit = 93
  Programs <- MCPrograms
  MaxInsts = 12
INVARIANTS
  StoredIsLoaded
  AssemblyDecodes
  TextIdentifies
  ArithmeticIsExact
CHECK_DEADLOCK FALSE
