CONSTANTS
  Infinite = 7
  Inputs <- MCInputs
  Times = {2, 6, 60}
  MaxUnreported = 1
  NTests = 4
  Hit = {1, 2, 4}
  Disks = {2}
SPECIFICATION DriverFairSpec
INVARIANTS
  DriverTypeOK
  LoadHasFiles
  FilesCleanedUp
  CutShortAfterFailureOnly
  ReportsComplete
PROPERTIES
  ImplementsRamp
  RampEnds
CHECK_DEADLOCK FALSE
