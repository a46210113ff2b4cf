SPECIFICATION Spec
CONSTANTS
  Width = 2
  RobSize = 3
  IqSize = 2
  NumCdb = 1
  Units <- MCUnits
  Latency <- MCLatency
  Supply <- MCSupply
INVARIANTS
  TypeOK
  OnePlace
  NoLostWakeup
  BookingsExact
  BookedLands
  UnitsNotShared
CHECK_DEADLOCK FALSE
