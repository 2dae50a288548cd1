----------------------------- MODULE DiskTests ------------------------------
(***************************************************************************)
(* The disk tests of disk1.c, one program of calls for each function.  A   *)
(* test makes a temporary file ("temp", named by aim_mktemp()) or uses the *)
(* work file of the directory ("work").  The tests differ in what they     *)
(* clean up after a failed call, and that is kept call by call.            *)
(***************************************************************************)
EXTENDS Calls

half == Blocks \div 2   \* of the tests that do not "pound the disk"

CloseUnlink == <<Close("fd"), Unlink("temp")>>
CloseBoth   == <<Close("fd"), Close("fd2")>>
RemoveBoth  == <<Unlink("temp"), Close("fd"), Close("fd2")>>

\* A file of n blocks, closed and opened again; nothing is cleaned up when
\* that second open fails.
NewFile(n) ==
  <<Creat("fd", "temp", <<>>)>> \o Rounds(n, <<Write("fd", CloseUnlink)>>)
    \o <<Close("fd"), Open("fd", "temp", <<>>)>>

disk_rr_OtherFile ==
  <<Creat("fd", "temp", <<>>)>>
    \o Rounds(Blocks, <<Write("fd", <<Close("fd"), Unlink("fn2")>>)>>)
    \o <<Close("fd"), Open("fd", "temp", <<>>)>>
    \o Rounds(Blocks, <<Seek("fd", Blocks, <<Close("fd")>>), Read("fd", <<Close("fd")>>)>>)
    \o CloseUnlink
disk_rr ==
  NewFile(Blocks)
    \o Rounds(Blocks, <<Seek("fd", Blocks, <<Close("fd")>>), Read("fd", <<Close("fd")>>)>>)
    \o CloseUnlink

disk_rw ==
  NewFile(Blocks)
    \o Rounds(Blocks, <<Seek("fd", Blocks, <<Close("fd")>>), Write("fd", <<Close("fd")>>)>>)
    \o <<Unlink("temp"), Close("fd")>>

sync_disk_rw ==
  NewFile(half)
    \o Rounds(half, <<Seek("fd", half, CloseUnlink), Write("fd", CloseUnlink)>>)
    \o CloseUnlink

disk_rd_NoUnlink ==
  NewFile(Blocks) \o <<Rewind("fd", <<Close("fd")>>)>>
    \o Rounds(Blocks, <<Read("fd", <<Close("fd")>>)>>) \o <<Close("fd")>>

\* Its clean-up unlinks fn2, the file of an earlier test, and not its own.
disk_rd ==
  <<Creat("fd", "temp", <<>>)>>
    \o Rounds(Blocks, <<Write("fd", <<Close("fd"), Unlink("fn2")>>)>>)
    \o <<Close("fd"), Open("fd", "temp", <<>>), Rewind("fd", <<Close("fd")>>)>>
    \o Rounds(Blocks, <<Read("fd", <<Close("fd")>>)>>)
    \o CloseUnlink

\* Source and destination of a copy, both open.
OpenBoth_LeaveFirst ==
  <<Open("fd", "work", <<>>), Creat("fd2", "temp", <<>>), Rewind("fd", CloseBoth)>>
OpenBoth ==
  <<Open("fd", "work", <<>>), Creat("fd2", "temp", <<Close("fd")>>), Rewind("fd", CloseBoth)>>

disk_cp ==
  OpenBoth \o Rounds(Blocks, <<Read("fd", CloseBoth), Write("fd2", CloseBoth)>>)
    \o RemoveBoth \o <<Unlink("temp")>>

sync_disk_cp ==
  OpenBoth \o Rounds(half, <<Read("fd", RemoveBoth), Write("fd2", RemoveBoth)>>)
    \o CloseBoth \o <<Unlink("temp")>>

disk_wrt ==
  <<Creat("fd", "temp", <<>>)>> \o Rounds(Blocks, <<Write("fd", CloseUnlink)>>)
    \o <<Unlink("temp"), Close("fd")>>

sync_disk_wrt ==
  <<Creat("fd", "temp", <<>>)>> \o Rounds(half, <<Write("fd", CloseUnlink)>>)
    \o CloseUnlink

sync_disk_update ==
  NewFile(Blocks)
    \o Rounds(half, <<Seek("fd", Blocks, CloseUnlink), Read("fd", CloseUnlink), Write("fd", CloseUnlink)>>)
    \o CloseUnlink

-----------------------------------------------------------------------------
(* The O_DIRECT tests, on files.  local_pma() gives the aligned buffer.     *)

\* What local_pma() returns when it succeeds: disk_dio_cp() and disk_dio_wrt()
\* put it into n, the number of blocks that they are about to move.
pma_success == 0
local_pma(undo) == Alloc("buf", undo)

disk_dio_rr ==
  <<Creat("fd", "temp", <<>>)>> \o Rounds(Blocks, <<Write("fd", CloseUnlink)>>)
    \o <<Close("fd"), local_pma(<<>>), Open("fd", "temp", <<Free("buf")>>)>>
    \o Rounds(Blocks, <<Seek("fd", Blocks, <<Close("fd")>>), Read("fd", <<Close("fd"), Free("buf")>>)>>)
    \o <<Unlink("temp"), Close("fd"), Free("buf")>>

disk_dio_rw ==
  LET undo == CloseUnlink \o <<Free("buf")>> IN
  <<Creat("fd", "temp", <<>>)>> \o Rounds(Blocks, <<Write("fd", CloseUnlink)>>)
    \o <<Close("fd"), local_pma(<<>>), Open("fd", "temp", <<Unlink("temp"), Free("buf")>>)>>
    \o Rounds(Blocks, <<Seek("fd", Blocks, undo), Write("fd", undo)>>)
    \o <<Unlink("temp"), Close("fd"), Free("buf")>>

disk_dio_rd ==
  <<local_pma(<<>>), Open("fd", "work", <<>>), Rewind("fd", <<Close("fd")>>)>>
    \o Rounds(Blocks, <<Read("fd", <<Close("fd"), Free("buf")>>)>>)
    \o <<Close("fd"), Free("buf")>>

disk_dio_cp ==
  LET undo == CloseBoth \o <<Free("buf")>>
      n    == pma_success
  IN  OpenBoth \o <<local_pma(<<>>)>>
        \o Rounds(n, <<Read("fd", undo), Write("fd2", undo)>>)
        \o RemoveBoth \o <<Free("buf")>>

disk_dio_wrt ==
  LET n == pma_success IN
  <<Creat("fd", "temp", <<>>), local_pma(<<>>)>>
    \o Rounds(n, <<Write("fd", CloseUnlink \o <<Free("buf")>>)>>)
    \o CloseUnlink \o <<Free("buf")>>

-----------------------------------------------------------------------------
(* The tests through the buffer cache.                                     *)

disk_brr ==
  NewFile(Blocks)
    \o Rounds(Blocks, <<Seek("fd", Blocks, <<Close("fd")>>), Read("fd", <<Close("fd")>>)>>)
    \o <<Unlink("temp"), Close("fd")>>

disk_brw ==
  NewFile(Blocks)
    \o Rounds(Blocks, <<Seek("fd", Blocks, <<Close("fd")>>), Write("fd", <<Close("fd")>>)>>)
    \o <<Unlink("temp"), Close("fd")>>

disk_brd ==
  <<Open("fd", "work", <<>>), Rewind("fd", <<Close("fd")>>)>>
    \o Rounds(Blocks, <<Read("fd", <<Close("fd")>>)>>)
    \o <<Close("fd")>>

disk_bcp ==
  OpenBoth \o Rounds(Blocks, <<Read("fd", CloseBoth), Write("fd2", CloseBoth)>>)
    \o RemoveBoth \o <<Unlink("temp")>>

disk_bwrt ==
  <<Creat("fd", "temp", <<>>)>> \o Rounds(Blocks, <<Write("fd", CloseUnlink)>>)
    \o <<Unlink("temp"), Close("fd")>>

\* disk1_c(): the tests it registers (without those of asynchronous I/O).
DiskTest ==
  [disk_rr |-> disk_rr, disk_rw |-> disk_rw, sync_disk_rw |-> sync_disk_rw,
   disk_rd |-> disk_rd, disk_cp |-> disk_cp, sync_disk_cp |-> sync_disk_cp,
   disk_wrt |-> disk_wrt, sync_disk_wrt |-> sync_disk_wrt,
   sync_disk_update |-> sync_disk_update, disk_dio_rr |-> disk_dio_rr,
   disk_dio_rw |-> disk_dio_rw, disk_dio_rd |-> disk_dio_rd,
   disk_dio_cp |-> disk_dio_cp, disk_dio_wrt |-> disk_dio_wrt,
   disk_brr |-> disk_brr, disk_brw |-> disk_brw, disk_brd |-> disk_brd,
   disk_bcp |-> disk_bcp, disk_bwrt |-> disk_bwrt]
=============================================================================
