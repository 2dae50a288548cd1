CONSTANTS
  NTests = 3
  MaxLines = 3
  MaxHits = 2
  MaxJobs = 4
SPECIFICATION FairSpec
INVARIANTS
  TypeOK
  AllotmentFair
  DrawHasWork
  NoRunLost
PROPERTIES
  LoopEnds
CHECK_DEADLOCK FALSE
