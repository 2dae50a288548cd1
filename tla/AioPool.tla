------------------------------ MODULE AioPool -------------------------------
(***************************************************************************)
(* The pool of control blocks behind the asynchronous disk tests of        *)
(* disk1.c (compiled with MARCIA defined): disk_aio_read_write() takes a   *)
(* block for each transfer it submits and gets it back with the event that *)
(* completes it.  Pool and counters are static: a test finds what the one  *)
(* before it, in the same process, has left.                               *)
(***************************************************************************)
EXTENDS Integers

CONSTANTS
  NumIo,        \* AIO_NUM_IO, blocks in the pool
  Transfers,    \* disk_iteration_count, transfers of a test
  MaxAioFaults  \* bound: failures of the system
ASSUME AioAssumption ==
  NumIo \in Nat \ {0} /\ Transfers \in Nat /\ MaxAioFaults \in Nat

VARIABLES
  aioPc,     \* "idle", "open", "issue", "full", "recover", "drain" or "crashed"
  inited,    \* is iocb_free set?
  free,      \* iocb_free_count
  inflight,  \* aio_inflight
  queued,    \* transfers in the present io_context
  issued,    \* transfers begun by the test
  dropped,   \* history: blocks that a failed submission kept
  cut,       \* history: transfers in flight when a context was released
  aioFaults
aioVars == <<aioPc, inited, free, inflight, queued, issued, dropped, cut, aioFaults>>

AioTypeOK ==
  /\ aioPc \in {"idle", "open", "issue", "full", "recover", "drain", "crashed"}
  /\ inited \in BOOLEAN
  /\ free \in 0 .. NumIo /\ inflight \in 0 .. NumIo /\ queued \in 0 .. NumIo
  /\ issued \in 0 .. Transfers
  /\ dropped \in Nat /\ cut \in Nat /\ aioFaults \in 0 .. MaxAioFaults

AioInit ==
  /\ aioPc = "idle" /\ inited = FALSE
  /\ free = 0 /\ inflight = 0 /\ queued = 0 /\ issued = 0
  /\ dropped = 0 /\ cut = 0 /\ aioFaults = 0

Fault == aioFaults < MaxAioFaults /\ aioFaults' = aioFaults + 1

\* The file is made and opened; a failure of that is one of DiskTests.
OpenContext ==
  /\ aioPc = "idle" /\ aioPc' = "open"
  /\ queued' = 0 /\ issued' = 0
  /\ UNCHANGED <<inited, free, inflight, dropped, cut, aioFaults>>

\* Nothing to do when the array is there, filled or not.
init_aio_bufs ==
  /\ aioPc = "open" /\ aioPc' = "issue"
  /\ inited' = TRUE
  /\ free' = IF inited THEN free ELSE NumIo
  /\ UNCHANGED <<inflight, queued, issued, dropped, cut, aioFaults>>
\* malloc() or local_pma() fails: either before the array is there or after.
InitFails ==
  /\ aioPc = "open" /\ ~inited /\ aioPc' = "idle"
  /\ inited' \in BOOLEAN
  /\ Fault /\ UNCHANGED <<free, inflight, queued, issued, dropped, cut>>

\* There are to be no more transfers in flight than blocks.
Full_Late == inflight > NumIo
Full == inflight >= NumIo

\* alloc_iocb() and io_submit(): a block out of an empty pool is a null pointer.
Submit ==
  /\ aioPc = "issue" /\ issued < Transfers /\ ~Full /\ free > 0
  /\ free' = free - 1 /\ inflight' = inflight + 1 /\ queued' = queued + 1 /\ issued' = issued + 1
  /\ UNCHANGED <<aioPc, inited, dropped, cut, aioFaults>>
EmptyPool ==
  /\ aioPc = "issue" /\ issued < Transfers /\ ~Full /\ free = 0
  /\ aioPc' = "crashed"
  /\ UNCHANGED <<inited, free, inflight, queued, issued, dropped, cut, aioFaults>>
\* The context is released with what is in it, and the block is forgotten.
SubmitFails ==
  /\ aioPc = "issue" /\ issued < Transfers /\ ~Full /\ free > 0
  /\ free' = free - 1 /\ dropped' = dropped + 1
  /\ cut' = cut + queued /\ queued' = 0
  /\ aioPc' = "idle"
  /\ Fault /\ UNCHANGED <<inited, inflight, issued>>

\* aio_wait_for_ios(): the blocks of the n completed transfers go back.
Completes_KeepsOne(n) ==
  /\ n \in 1 .. queued
  /\ queued' = queued - n /\ inflight' = inflight - n /\ free' = free + n - 1
Completes_CountsOne(n) ==
  /\ n \in 1 .. queued
  /\ queued' = queued - n /\ inflight' = inflight - 1 /\ free' = free + n
Completes(n) ==
  /\ n \in 1 .. queued
  /\ queued' = queued - n /\ inflight' = inflight - n /\ free' = free + n

\* At the limit the test waits for one; after an error it waits for all and stops.
AtLimit ==
  /\ aioPc = "issue" /\ issued < Transfers /\ Full
  /\ aioPc' = "full"
  /\ UNCHANGED <<inited, free, inflight, queued, issued, dropped, cut, aioFaults>>
aio_wait_for_ios ==
  /\ \/ aioPc = "full" /\ aioPc' = "issue"
     \/ aioPc \in {"recover", "drain"} /\ inflight > 0 /\ UNCHANGED aioPc
  /\ \E n \in 1 .. queued : Completes(n)
  /\ UNCHANGED <<inited, issued, dropped, cut, aioFaults>>
\* A transfer that failed or was short: its block comes back all the same.
IoError ==
  /\ aioPc = "full" /\ aioPc' = "recover"
  /\ \E n \in 1 .. queued : Completes(n)
  /\ Fault /\ UNCHANGED <<inited, issued, dropped, cut>>

AllIssued ==
  /\ aioPc = "issue" /\ issued >= Transfers /\ aioPc' = "drain"
  /\ UNCHANGED <<inited, free, inflight, queued, issued, dropped, cut, aioFaults>>
\* io_queue_release() once nothing is in flight: returns 0, or -1 after an error.
Release ==
  /\ aioPc \in {"recover", "drain"} /\ inflight = 0 /\ aioPc' = "idle"
  /\ UNCHANGED <<inited, free, inflight, queued, issued, dropped, cut, aioFaults>>

\* One call of disk_aio_read_write() after its OpenContext.
AioStep ==
  \/ init_aio_bufs \/ Submit \/ EmptyPool \/ AtLimit \/ aio_wait_for_ios
  \/ AllIssued \/ Release
AioNext == OpenContext \/ AioStep \/ InitFails \/ SubmitFails \/ IoError
AioSpec == AioInit /\ [][AioNext]_aioVars
AioFairSpec == AioSpec /\ WF_aioVars(AioStep)

-----------------------------------------------------------------------------
(* Properties.                                                             *)

\* Each block of the pool is free, in flight or lost to a submission that failed,
\* once there is a pool (alloc_iocb(), free_iocb(), aio_inflight).
PoolConserved == free + inflight + dropped \in {0, NumIo}

\* No test takes a block out of an empty pool (disk1.c:1861 does not look), unless
\* there is none, for want of memory, or an earlier submission failed.
NoEmptyPool == aioPc = "crashed" => dropped > 0 \/ inflight + dropped = 0

\* Every test returns (the loop at disk1.c:1884), unless a context was released
\* with transfers in it, which aio_inflight goes on counting, or the pool ran out.
AioTestReturns == (aioPc = "open") ~> (aioPc \in {"idle", "crashed"} \/ cut > 0)
=============================================================================
