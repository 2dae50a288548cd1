---------------------------- MODULE SystemTests -----------------------------
(***************************************************************************)
(* The other tests that hold something of the system while they run: files *)
(* and processes (creat_clo.c), pipes, sockets and shared memory           *)
(* (pipe_test.c), directory searches (disk_src.c), memory and directories  *)
(* (int_fcns.c, num_fcns.c).  One program of calls for each function.      *)
(***************************************************************************)
EXTENDS Calls

CONSTANT Loops   \* bound: the rounds of the loops that are about no disk block
ASSUME LoopsAssumption == Loops \in Nat \ {0}

-----------------------------------------------------------------------------
(* creat_clo.c                                                             *)

signal_test == Rounds(Loops, <<Try(<<>>)>>)

\* Two of the seven further links.  Failures leave the file, links and descriptor.
link_test ==
  <<Creat("fd", "link0", <<>>), Make("link1", <<>>), Make("link2", <<>>)>>
    \o Rounds(Loops, <<UnlinkOrFail("link1", <<>>), Make("link1", <<>>),
                       UnlinkOrFail("link2", <<>>), Make("link2", <<>>)>>)
    \o <<UnlinkOrFail("link0", <<>>), UnlinkOrFail("link1", <<>>),
         UnlinkOrFail("link2", <<>>), Close("fd")>>

\* The break goes up; a round gives some of it back and takes it again, piece by
\* piece; a failure does not move the break back.
page_test == <<Alloc("break", <<>>)>> \o Rounds(Loops, <<Try(<<>>)>>) \o <<Free("break")>>
brk_test  == <<Alloc("break", <<>>)>> \o Rounds(Loops, <<Try(<<>>)>>) \o <<Free("break")>>

exec_test == Rounds(Loops, <<Fork, WaitAll>>)
fork_test_NoWait == Rounds(Loops, <<Fork>>)
fork_test == Rounds(Loops, <<Fork, WaitAll>>)

\* The descriptor is closed even when close() reports an error.
creat_clo ==
  Rounds(Loops, <<Creat("fd", "creat", <<>>), Close("fd"), Try(<<>>)>>) \o <<Unlink("creat")>>

-----------------------------------------------------------------------------
(* pipe_test.c                                                             *)

\* read_write_close(): one transfer less than it is asked for; after an error
\* neither end is closed.
read_write_close(rd, wr) ==
  Rounds(Loops - 1, <<Send(wr), Receive(rd)>>) \o <<Close(rd), Close(wr)>>

tcp_test ==
  <<Socket({"wr"})>> \o <<Try(<<>>), Try(<<>>), Try(<<>>), Try(<<>>)>>
    \o <<Socket({"rd"}), Try(<<>>), Accept("new"), Try(<<>>)>>
    \o read_write_close("rd", "new") \o <<Close("wr")>>

udp_test ==
  <<Socket({"wr"}), Try(<<>>), Try(<<>>), Socket({"rd"}), Try(<<>>), Try(<<>>), Try(<<>>)>>
    \o read_write_close("rd", "wr")

fifo_test ==
  <<Make("fifo", <<>>), Socket({"rd"}), Socket({"wr"})>>
    \o read_write_close("rd", "wr") \o <<Unlink("fifo")>>

stream_pipe == <<Socket({"rd", "wr"})>> \o read_write_close("rd", "wr")
dgram_pipe  == <<Socket({"rd", "wr"})>> \o read_write_close("rd", "wr")
pipe_cpy    == <<Socket({"rd", "wr"})>> \o read_write_close("rd", "wr")

\* create_shared_memory(), shmat() and semctl(), then rounds of a writer and a
\* reader side; FATAL_SHARED_MEM and the end clear the segment and the semaphore.
\* A copy when clear_ipc() has just done so, in the handler of SIGTERM, is fatal.
create_shared_memory == <<ShmGet, SemGet>>
side == <<SemOp("wait"), Memcpy, SemOp("signal")>>
shared_memory_NoClear ==
  create_shared_memory \o <<ShmAt, SemCtl>> \o Rounds(Loops, side \o side)
shared_memory ==
  create_shared_memory \o <<ShmAt, SemCtl>> \o Rounds(Loops, side \o side) \o <<Clear>>

-----------------------------------------------------------------------------
(* disk_src.c                                                              *)

\* get_list(): one allocation for each line of dirlist.  Once there is a name on
\* the list, a failed allocation frees the list here and again in dsearch(): the
\* process aborts.  The file stays open when the list fails.
get_list(undo) == <<Alloc("list", undo)>> \o Rounds(Loops - 1, <<Alloc("list", <<Abort>>)>>)

\* dsearch(): from inside fakeh, a stat() for some names and a creat() and an
\* unlink() for names that end in the number of the process.
disk_src ==
  LET undo == <<Free("cwd"), Free("list")>> IN
  <<Try(<<>>), Alloc("cwd", <<>>), Fopen("fp", <<Free("cwd")>>)>>
    \o get_list(<<Free("cwd")>>) \o <<Close("fp")>>
    \o Rounds(Loops, <<Try(undo), Creat("fd", "src", undo), Close("fd"), UnlinkOrFail("src", undo)>>)
    \o <<Free("list"), Free("cwd")>>

-----------------------------------------------------------------------------
(* int_fcns.c, num_fcns.c                                                  *)

sieve_Unchecked == <<Alloc("table", <<Segv>>), Free("table")>>
sieve == <<Alloc("table", <<>>), Free("table")>>

\* Nobody looks at what malloc() returns: the strcpy() to it is fatal.
mem_rtns_1 == Rounds(Loops, <<Alloc("array", <<Segv>>), Alloc("array", <<Segv>>), Free("array")>>)

dir_rtns_1 == <<Socket({"dir"}), Close("dir")>>

\* Nine questions to the system that may fail, among others that may not; nothing is held.
misc_rtns_1 == Rounds(Loops, [i \in 1 .. 9 |-> Try(<<>>)])

\* aim_system(): a child that runs the command, waited for.
aim_system == <<Fork, WaitAll>>
shell_rtns_1 == aim_system
shell_rtns_2 == aim_system
shell_rtns_3 == aim_system

\* The tests of these files that the benchmark registers.
SystemTest ==
  [creat_clo |-> creat_clo, page_test |-> page_test, brk_test |-> brk_test,
   signal_test |-> signal_test, exec_test |-> exec_test, fork_test |-> fork_test,
   link_test |-> link_test, shared_memory |-> shared_memory, tcp_test |-> tcp_test,
   udp_test |-> udp_test, stream_pipe |-> stream_pipe, dgram_pipe |-> dgram_pipe,
   pipe_cpy |-> pipe_cpy, fifo_test |-> fifo_test, disk_src |-> disk_src,
   sieve |-> sieve, mem_rtns_1 |-> mem_rtns_1, dir_rtns_1 |-> dir_rtns_1,
   misc_rtns_1 |-> misc_rtns_1,
   shell_rtns_1 |-> shell_rtns_1, shell_rtns_2 |-> shell_rtns_2, shell_rtns_3 |-> shell_rtns_3]
=============================================================================
