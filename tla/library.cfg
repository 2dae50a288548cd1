CONSTANTS
  Total = 4
  Reports <- MCReports
  MaxReports = 3
  Contents <- MCContents
  ObjectOf <- MCObject
  TestDir = "dir"
  Elsewhere = "tmp"
  Writers = {"p", "q"}
  Fixed = 2
  PathSize = 8
  PathLengths = {1, 2, 6}
  Base = 16
  BufSize = 11
  Nrecs <- MCNrecs
  MaxRecords = 3
  Copies = {1, 2, 3, 4, 5, 6}
  MaxPids = 4
  Commands <- MCCommands
  Envs <- MCEnvs
  Starts <- MCStarts
  ClockRange = 8
  MaxPasses = 4
  Horizon = 6
  LrandMax = 7
  Kilo = 4
  LongSize = 2
  Block = 8
  IntMax = 100
  Mantissa = 16
  Word = 64
  Prime = 5
  Unit = 10000
  Places = 6
  Requests <- MCRequests
  MaxCalls = 2
SPECIFICATION LibrarySpec
INVARIANTS
  EachCaseReported
  NothingLeftUnsaid
  ScanFindsRecords
  ForksKnown
  LoopsAsAsked
  FunctionsRight
PROPERTY AsyncAnswers
CHECK_DEADLOCK FALSE
