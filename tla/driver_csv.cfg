CONSTANTS
  Infinite = 7
  Inputs <- MCInputs
  Times = {2, 6, 60}
  MaxUnreported = 1
  NTests = 4
  Hit = {1, 2, 4}
  Disks = {2}
SPECIFICATION DriverSpec
INVARIANTS
  CsvKept
CHECK_DEADLOCK FALSE
