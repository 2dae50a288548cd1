CONSTANTS
  u1 = u1
  u2 = u2
  User = {u1, u2}
  pid <- Pids
  TestsOf <- EveryTest
  Solo = u1
  Blocks = 2
  Loops = 2
  MaxTests <- Bounds
  MaxFaults = 1
  Segments = 2
  Semaphores = 1
  NumIo = 2
  Transfers = 3
  MaxAioFaults = 2
SPECIFICATION AnyFairSpec
INVARIANTS
  TypeOK
  FailsOnlyByFault
  SuccessLeavesNothing
  FailedDiskTestsClose
  FullDiskGivenBack
  IpcReleased
  PoolConserved
  NoEmptyPool
PROPERTIES
  FailuresReturned
  EveryTestEnds
  AioTestReturns
CHECK_DEADLOCK FALSE
