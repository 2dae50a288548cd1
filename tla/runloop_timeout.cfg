CONSTANTS
  RunNum = 2
  Jobs = 1
  Faults = {"hang"}
  SleepSuffices = TRUE
  DoTools = FALSE
SPECIFICATION FairSpec
INVARIANTS
  ReportedLoadComplete
CHECK_DEADLOCK FALSE
