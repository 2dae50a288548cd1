CONSTANTS
  RunNum = 3
  Jobs = 2
  Faults <- EveryFault
  SleepSuffices = FALSE
  DoTools = TRUE
SPECIFICATION Spec
INVARIANTS
  TypeOK
  StartBarrier
  WaitAccounting
  ReportIsFinal
  FailureNeverReported
  NoOrphans
  StuckForAReason
CHECK_DEADLOCK FALSE
