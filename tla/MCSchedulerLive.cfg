SPECIFICATION FairSpec
CONSTANTS
  Width = 2
  RobSize = 3
  IqSize = 2
  NumCdb = 1
  Units <- MCUnits
  Latency <- MCLatency
  Supply <- Contended
PROPERTIES
  HeadCompletes
CHECK_DEADLOCK FALSE
