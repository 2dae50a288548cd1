CONSTANTS
  RunNum = 2
  Jobs = 1
  Faults = {}
  SleepSuffices = FALSE
  DoTools = FALSE
SPECIFICATION FairSpec
INVARIANTS
  GunHeard
CHECK_DEADLOCK FALSE
