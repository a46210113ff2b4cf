SPECIFICATION Spec
CONSTANTS
  XLen = 16
  NumArch = 4
  PrfSize = 6
  RobSize = 4
  NumCkpt = 2
  RegA0 = 2
  RegA7 = 3
  SysExit = 0
  Programs <- MCPrograms
  Width = 2
  IqSize = 3
  LqSize = 2
  SqSize = 2
  NumCdb = 1
  Units <- MCUnits
  Latency <- MCLatency
  JalrTargets <- MCJalrTargets
  MaxCycles = 60
INVARIANTS
  KeepsRetiring
  InProgramOrder
  EndsClean
PROPERTIES
  ImplementsInOrder
