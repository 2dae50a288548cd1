CONSTANTS
  u1 = u1
  u2 = u2
  User = {u1, u2}
  pid <- Pids
  TestsOf <- BlockTests
  Solo = u1
  Blocks = 2
  Loops = 2
  MaxTests <- Bounds
  MaxFaults = 1
  Segments = 2
  Semaphores = 1
  NumIo = 2
  Transfers = 3
  MaxAioFaults = 2
SPECIFICATION AnySpec
INVARIANT BlocksAsReported
CHECK_DEADLOCK FALSE
