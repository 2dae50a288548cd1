CONSTANTS
  RunNum = 2
  Jobs = 1
  Faults = {"term"}
  SleepSuffices = TRUE
  DoTools = FALSE
SPECIFICATION FairSpec
PROPERTIES
  KillAllEnds
CHECK_DEADLOCK FALSE
