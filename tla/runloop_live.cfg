CONSTANTS
  RunNum = 3
  Jobs = 1
  Faults <- SurvivableFaults
  SleepSuffices = TRUE
  DoTools = TRUE
SPECIFICATION FairSpec
PROPERTIES
  ImplementsLoadPoint
  RunEnds
  ChildEnds
CHECK_DEADLOCK FALSE
