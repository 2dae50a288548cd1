----------------------------- MODULE TestRunner -----------------------------
(***************************************************************************)
(* The users of a run, each a process making the calls of one test after   *)
(* another next to the others: in one disk directory, with the segments    *)
(* and semaphores of one system.  Any call that can fail may fail.  A user *)
(* of a load point dies of a failed test; the process of a single user run *)
(* goes on with the next test, whatever the failed one left behind.        *)
(***************************************************************************)
EXTENDS DiskTests, SystemTests, FiniteSets

CONSTANTS
  User,        \* the processes
  pid,         \* their process numbers
  Solo,        \* the process of a single user run
  TestsOf,     \* the tests of a load point (FALSE) and of a single user run (TRUE)
  MaxTests,    \* bound: tests run by a user in either
  MaxFaults,   \* bound: failing calls, lost datagrams and signals
  Segments,    \* shared memory segments of the system
  Semaphores   \* semaphore sets of the system

Program ==
  [t \in DOMAIN DiskTest \cup DOMAIN SystemTest |->
     IF t \in DOMAIN DiskTest THEN DiskTest[t] ELSE SystemTest[t]]

ASSUME RunnerAssumption ==
  /\ pid \in [User -> Nat]
  /\ \A u, v \in User : u # v => pid[u] # pid[v]
  /\ TestsOf \in [BOOLEAN -> SUBSET DOMAIN Program]
  /\ Solo \in User
  /\ MaxTests \in [BOOLEAN -> Nat] /\ {MaxFaults, Segments, Semaphores} \subseteq Nat

VARIABLES
  single,   \* is this a single user run?
  test,     \* the test each user runs, or "none"
  todo,     \* the calls that the test has still to make
  fds,      \* its open descriptors: each has a file and a position
  held,     \* memory it has allocated, the break or directory it has changed
  kids,     \* its child processes
  counter,  \* counter of aim_mktemp()
  fn2,      \* the counter in fn2, the name that most tests share
  begun,    \* tests it has begun
  fate,     \* "lives", or why it is gone: "failed", "aborted" or "alarm"
  ipc,      \* its segment ("shm"), semaphore ("sem") and whether that is taken
  disk,     \* sizes of the files in the directory
  deaf,     \* users that had SIGTERM, and ignore it from then on
  lost,     \* users whose datagram is lost
  leaks,    \* what tests left behind when they returned
  faults    \* how often something went wrong

procVars == <<test, todo, begun, fate, leaks>>
ownVars == <<fds, held, kids, counter, fn2, lost>>
vars == <<single, procVars, ownVars, ipc, disk, deaf, faults>>

NumSuffixes == 100000   \* aim_mktemp() numbers its names below this
WorkFile == <<"tmpa.common">>
\* The file behind a name of a program.  mktemp() makes one up that nobody has.
Key_NoPid(u) == 0
Key(u) == pid[u] % 100000
FileOf(u, f) ==
  CASE f = "work" -> WorkFile
    [] f = "temp" -> <<"tmpb", Key(u), counter[u]>>
    [] f = "fn2"  -> <<"tmpb", Key(u), fn2[u]>>
    [] f = "src"  -> <<"src", Key(u)>>
    [] OTHER      -> <<f, u, begun[u]>>

Current(u) == Head(todo[u])
\* User u is about to make call op; what it would be made on.
Calls(u, op) == todo[u] # <<>> /\ u \notin lost /\ Current(u).op = op
On(u) == Current(u).on
File(u) == FileOf(u, Current(u).file)
OpenFile(u) == fds[u][On(u)].file

TypeOK ==
  /\ \A u \in User :
       /\ test[u] \in TestsOf[single] \cup {"none"}
       /\ test[u] = "none" => todo[u] = <<>>
       /\ held[u] \subseteq {"buf", "break", "cwd", "list", "array", "table"}
       /\ \A fd \in DOMAIN fds[u] : fds[u][fd].pos \in 0 .. Blocks + 1
  /\ kids \in [User -> {0, 1}]
  /\ counter \in [User -> -1 .. NumSuffixes - 1]
  /\ begun \in [User -> 0 .. MaxTests[single]]
  /\ fate \in [User -> {"lives", "failed", "aborted", "alarm"}]
  /\ ipc \in [User -> SUBSET {"shm", "sem", "taken"}]
  /\ deaf \subseteq User /\ lost \subseteq User
  /\ faults \in 0 .. MaxFaults

Init ==
  /\ single \in BOOLEAN
  /\ test = [u \in User |-> "none"] /\ todo = [u \in User |-> <<>>]
  /\ fds = [u \in User |-> <<>>] /\ held = [u \in User |-> {}]
  /\ kids = [u \in User |-> 0] /\ counter = [u \in User |-> -1] /\ fn2 = counter
  /\ begun = [u \in User |-> 0] /\ fate = [u \in User |-> "lives"]
  /\ ipc = [u \in User |-> {}]
  /\ disk = [f \in {WorkFile} |-> Blocks]
  /\ deaf = {} /\ lost = {} /\ leaks = {} /\ faults = 0

-----------------------------------------------------------------------------
(* Tests.                                                                  *)

FilesOf(t) ==
  IF t = "none" THEN {} ELSE {c.file : c \in Range(Program[t])} \ {"", "work", "fn2"}
LocalName == {"disk_rr", "disk_rw", "disk_rd", "disk_dio_rr"}   \* do not use fn2
aim_mktemp(n) == IF n + 1 = NumSuffixes THEN 0 ELSE n + 1

Begin(u) ==
  /\ fate[u] = "lives" /\ test[u] = "none" /\ begun[u] < MaxTests[single]
  /\ single => u = Solo
  /\ \E t \in TestsOf[single] :
       /\ test' = [test EXCEPT ![u] = t]
       /\ todo' = [todo EXCEPT ![u] = Program[t]]
       /\ counter' = [counter EXCEPT ![u] = IF "temp" \in FilesOf(t) THEN aim_mktemp(@) ELSE @]
       /\ fn2' = [fn2 EXCEPT ![u] = IF "temp" \in FilesOf(t) /\ t \notin LocalName
                                    THEN counter'[u] ELSE @]
  /\ begun' = [begun EXCEPT ![u] = @ + 1]
  /\ UNCHANGED <<single, fds, held, kids, lost, fate, leaks, ipc, disk, deaf, faults>>

\* What user u would leave behind now, with the call that is its last.
Leftovers(u, op, fd, mem, d) ==
  {[test |-> test[u], last |-> op, what |-> "descriptor"] : x \in DOMAIN fd}
    \cup {[test |-> test[u], last |-> op, what |-> m] : m \in mem}
    \cup {[test |-> test[u], last |-> op, what |-> "file"] :
            x \in {f \in DOMAIN d : \E n \in FilesOf(test[u]) : f = FileOf(u, n)}}

Returns(u) ==
  /\ test[u] # "none" /\ todo[u] = <<>>
  /\ leaks' = leaks \cup Leftovers(u, "return", fds[u], held[u], disk)
  /\ test' = [test EXCEPT ![u] = "none"]
  /\ fds' = [fds EXCEPT ![u] = <<>>] /\ held' = [held EXCEPT ![u] = {}]
  /\ UNCHANGED <<single, todo, kids, counter, fn2, begun, fate, lost, ipc, disk, deaf, faults>>

Advance(u) ==
  /\ todo' = [todo EXCEPT ![u] = Tail(@)]
  /\ UNCHANGED <<single, test, begun, fate, leaks, kids, counter, fn2, lost, deaf, faults>>

-----------------------------------------------------------------------------
(* Calls that work.                                                        *)

Without(f, S) == [x \in DOMAIN f \ S |-> f[x]]
Put(f, S, v)  == [x \in DOMAIN f \cup S |-> IF x \in S THEN v ELSE f[x]]
With(u, S, file) == fds' = [fds EXCEPT ![u] = Put(@, S, [file |-> file, pos |-> 0])]
Moves(u, pos) == fds' = [fds EXCEPT ![u][On(u)].pos = pos]

DoCreat(u) ==
  /\ Calls(u, "creat")
  /\ disk' = Put(disk, {File(u)}, 0)
  /\ With(u, {On(u)}, File(u))
  /\ Advance(u) /\ UNCHANGED <<single, held, ipc>>

DoOpen(u) ==
  /\ Calls(u, "open") /\ File(u) \in DOMAIN disk
  /\ With(u, {On(u)}, File(u))
  /\ Advance(u) /\ UNCHANGED <<single, disk, held, ipc>>

\* The last block makes the file longer.
DoWrite(u) ==
  /\ Calls(u, "write")
  /\ LET pos == fds[u][On(u)].pos + 1
         f   == OpenFile(u)
     IN  /\ Moves(u, pos)
         /\ disk' = IF f \in DOMAIN disk /\ disk[f] < pos THEN [disk EXCEPT ![f] = pos] ELSE disk
  /\ Advance(u) /\ UNCHANGED <<single, held, ipc>>

\* Is there a block at the position?
CanRead(u) == OpenFile(u) \in DOMAIN disk => fds[u][On(u)].pos < disk[OpenFile(u)]
DoRead(u) ==
  /\ Calls(u, "read") /\ CanRead(u)
  /\ Moves(u, fds[u][On(u)].pos + 1)
  /\ Advance(u) /\ UNCHANGED <<single, disk, held, ipc>>

DoSeek(u) ==
  /\ \/ Calls(u, "seek") /\ \E block \in 0 .. Current(u).range - 1 : Moves(u, block)
     \/ Calls(u, "rewind") /\ Moves(u, 0)
  /\ Advance(u) /\ UNCHANGED <<single, disk, held, ipc>>

DoClose(u) ==
  /\ Calls(u, "close")
  /\ fds' = [fds EXCEPT ![u] = Without(@, {On(u)})]
  /\ Advance(u) /\ UNCHANGED <<single, disk, held, ipc>>

\* A second unlink() finds nothing, and that is fine.
DoUnlink(u) ==
  /\ Calls(u, "unlink") \/ (Calls(u, "remove") /\ File(u) \in DOMAIN disk)
  /\ disk' = Without(disk, {File(u)})
  /\ Advance(u) /\ UNCHANGED <<single, fds, held, ipc>>

DoMake(u) ==
  /\ Calls(u, "make") /\ File(u) \notin DOMAIN disk
  /\ disk' = Put(disk, {File(u)}, 0)
  /\ Advance(u) /\ UNCHANGED <<single, fds, held, ipc>>

DoSocket(u) ==
  /\ \/ Calls(u, "socket") /\ With(u, On(u), WorkFile)
     \/ Calls(u, "accept") /\ With(u, {On(u)}, WorkFile)
  /\ Advance(u) /\ UNCHANGED <<single, disk, held, ipc>>

DoMemory(u) ==
  /\ \/ Calls(u, "alloc") /\ held' = [held EXCEPT ![u] = @ \cup {On(u)}]
     \/ Calls(u, "free") /\ held' = [held EXCEPT ![u] = @ \ {On(u)}]
  /\ Advance(u) /\ UNCHANGED <<single, fds, disk, ipc>>

\* Transfers need their descriptor; the rest changes nothing.
DoTry(u) ==
  /\ \/ Calls(u, "try")
     \/ (Calls(u, "shmat") \/ Calls(u, "copy")) /\ "shm" \in ipc[u]
     \/ Calls(u, "semctl") /\ "sem" \in ipc[u]
     \/ (Calls(u, "send") \/ Calls(u, "receive")) /\ On(u) \in DOMAIN fds[u]
  /\ Advance(u) /\ UNCHANGED <<single, fds, disk, held, ipc>>

-----------------------------------------------------------------------------
(* Processes and IPC.                                                      *)

DoFork(u) ==
  /\ Calls(u, "fork")
  /\ kids' = [kids EXCEPT ![u] = @ + 1]
  /\ todo' = [todo EXCEPT ![u] = Tail(@)]
  /\ UNCHANGED <<single, test, begun, fate, leaks, counter, fn2, lost, deaf, faults, fds, disk, held, ipc>>
KidExits(u) ==
  /\ kids[u] > 0
  /\ kids' = [kids EXCEPT ![u] = @ - 1]
  /\ UNCHANGED <<single, procVars, fds, held, counter, fn2, lost, ipc, disk, deaf, faults>>
\* wait() until there are no more children.
DoWait(u) ==
  /\ Calls(u, "wait") /\ kids[u] = 0
  /\ Advance(u) /\ UNCHANGED <<single, fds, disk, held, ipc>>

InUse(what) == Cardinality({u \in User : what \in ipc[u]})
\* create_shared_memory() tries again every second: first for a segment,
\* and without a semaphore it gives the segment back.
DoShmGet(u) ==
  /\ Calls(u, "shmget") /\ InUse("shm") < Segments
  /\ ipc' = [ipc EXCEPT ![u] = @ \cup {"shm"}]
  /\ Advance(u) /\ UNCHANGED <<single, fds, disk, held>>
DoSemGet(u) ==
  /\ Calls(u, "semget") /\ InUse("sem") < Semaphores
  /\ ipc' = [ipc EXCEPT ![u] = @ \cup {"sem"}]
  /\ Advance(u) /\ UNCHANGED <<single, fds, disk, held>>
NoSemaphore(u) ==
  /\ Calls(u, "semget") /\ InUse("sem") >= Semaphores
  /\ ipc' = [ipc EXCEPT ![u] = @ \ {"shm"}]
  /\ todo' = [todo EXCEPT ![u] = <<ShmGet>> \o @]
  /\ UNCHANGED <<single, test, begun, fate, leaks, ownVars, disk, deaf, faults>>
DoSemOp(u) ==
  /\ Calls(u, "semop") /\ "sem" \in ipc[u]
  /\ \/ On(u) = "wait" /\ "taken" \notin ipc[u] /\ ipc' = [ipc EXCEPT ![u] = @ \cup {"taken"}]
     \/ On(u) = "signal" /\ ipc' = [ipc EXCEPT ![u] = @ \ {"taken"}]
  /\ Advance(u) /\ UNCHANGED <<single, fds, disk, held>>
clear_ipc(u) == [ipc EXCEPT ![u] = {}]
DoClear(u) ==
  /\ Calls(u, "clear")
  /\ ipc' = clear_ipc(u)
  /\ Advance(u) /\ UNCHANGED <<single, fds, disk, held>>

Does(u) ==
  \/ DoCreat(u) \/ DoOpen(u) \/ DoWrite(u) \/ DoRead(u) \/ DoSeek(u) \/ DoClose(u)
  \/ DoUnlink(u) \/ DoMake(u) \/ DoSocket(u) \/ DoMemory(u) \/ DoTry(u)
  \/ DoFork(u) \/ DoWait(u) \/ DoShmGet(u) \/ DoSemGet(u) \/ NoSemaphore(u) \/ DoSemOp(u) \/ DoClear(u)

-----------------------------------------------------------------------------
(* Calls that fail.                                                        *)

\* Whatever the environment does, these find nothing to work on.
MustFail(u) ==
  \/ (Calls(u, "open") \/ Calls(u, "remove")) /\ File(u) \notin DOMAIN disk
  \/ Calls(u, "make") /\ File(u) \in DOMAIN disk
  \/ Calls(u, "read") /\ ~CanRead(u)
  \/ (Calls(u, "send") \/ Calls(u, "receive")) /\ On(u) \notin DOMAIN fds[u]
  \/ (Calls(u, "shmat") \/ Calls(u, "copy")) /\ "shm" \notin ipc[u]
  \/ (Calls(u, "semctl") \/ Calls(u, "semop")) /\ "sem" \notin ipc[u]
MayFail(u) ==
  /\ faults < MaxFaults
  /\ \E op \in {"creat", "open", "write", "read", "seek", "rewind", "make", "remove", "socket",
                 "send", "receive", "alloc", "try", "shmat", "semctl", "semop"} : Calls(u, op)

\* The test cleans up and returns -1: that is the end of a user of a load
\* point, with all that the system frees for a process.  Of an abort() or a bad access
\* every user dies.  At its first bad access a user of a load point does what it does at
\* SIGTERM (child_sighandler(), driver.c 1604); the second, at once, is fatal.
HandlesSegv(u) == Segv \in Range(Current(u).undo) /\ ~single
Fails(u) ==
  LET undo   == Range(Current(u).undo)
      fd     == Without(fds[u], {c.on : c \in {x \in undo : x.op = "close"}})
      mem    == held[u] \ {c.on : c \in {x \in undo : x.op = "free"}}
      gone   == {FileOf(u, c.file) : c \in {x \in undo : x.op = "unlink"}}
                  \cup IF HandlesSegv(u) THEN {WorkFile} ELSE {}
      d      == Without(disk, gone)
      aborts == {Abort, Segv} \cap undo # {}
  IN  /\ \/ MustFail(u) /\ UNCHANGED faults
         \/ MayFail(u) /\ ~MustFail(u) /\ faults' = faults + 1
      /\ test' = [test EXCEPT ![u] = "none"] /\ todo' = [todo EXCEPT ![u] = <<>>]
      /\ fds' = [fds EXCEPT ![u] = <<>>] /\ held' = [held EXCEPT ![u] = {}]
      /\ disk' = d
      /\ leaks' = leaks \cup Leftovers(u, Current(u).op, fd, mem, d)
      /\ ipc' = IF Clear \in undo \/ HandlesSegv(u) THEN clear_ipc(u) ELSE ipc
      /\ fate' = [fate EXCEPT ![u] = IF aborts THEN "aborted" ELSE IF single THEN @ ELSE "failed"]
      /\ UNCHANGED <<single, begun, kids, counter, fn2, lost, deaf>>

\* fork() and accept() are not looked at: the test goes on without.
Unnoticed(u) ==
  /\ Calls(u, "fork") \/ Calls(u, "accept")
  /\ faults < MaxFaults /\ faults' = faults + 1
  /\ todo' = [todo EXCEPT ![u] = Tail(@)]
  /\ UNCHANGED <<single, test, begun, fate, leaks, ownVars, ipc, disk, deaf>>

\* A datagram that does not come: the receiver waits for it.
LoseDatagram(u) ==
  /\ Calls(u, "receive") /\ test[u] = "udp_test"
  /\ faults < MaxFaults /\ faults' = faults + 1
  /\ lost' = lost \cup {u}
  /\ UNCHANGED <<single, procVars, fds, held, kids, counter, fn2, ipc, disk, deaf>>

-----------------------------------------------------------------------------
(* Signals: child_sighandler().                                            *)

\* SIGTERM: cleanup() clears the IPC and unlinks the work files of everybody;
\* then the test goes on.
Terminated(u) ==
  /\ ~single /\ fate[u] = "lives" /\ u \notin deaf
  /\ faults < MaxFaults /\ faults' = faults + 1
  /\ deaf' = deaf \cup {u}
  /\ ipc' = clear_ipc(u)
  /\ disk' = Without(disk, {WorkFile})
  /\ UNCHANGED <<single, procVars, ownVars>>

\* SIGALRM: the user is gone with everything that is its own.
AlarmFires(u) ==
  /\ ~single /\ fate[u] = "lives"
  /\ faults < MaxFaults /\ faults' = faults + 1
  /\ fate' = [fate EXCEPT ![u] = "alarm"]
  /\ test' = [test EXCEPT ![u] = "none"] /\ todo' = [todo EXCEPT ![u] = <<>>]
  /\ leaks' = leaks \cup Leftovers(u, "alarm", <<>>, {}, disk)
  /\ fds' = [fds EXCEPT ![u] = <<>>] /\ held' = [held EXCEPT ![u] = {}]
  /\ lost' = lost \ {u}
  /\ UNCHANGED <<single, begun, kids, counter, fn2, ipc, disk, deaf>>

Runs(u) == Returns(u) \/ Does(u) \/ Fails(u)
Next == \E u \in User : \/ Begin(u) \/ Runs(u) \/ KidExits(u)
                        \/ Unnoticed(u) \/ LoseDatagram(u) \/ Terminated(u) \/ AlarmFires(u)
Spec == Init /\ [][Next]_vars

\* The system runs every process, and calls come back; nothing says when a user
\* begins its next test, fails or is told to stop.
FairSpec == Spec /\ \A u \in User : WF_vars(Runs(u)) /\ WF_vars(KidExits(u))

-----------------------------------------------------------------------------
(* Properties.                                                             *)

\* Users do not get into each other's way: while no call fails and no signal comes, no
\* test fails, as long as the last five digits of their process numbers, all that names
\* have of them, tell them apart (NamesApart).  (Names of files from process numbers and
\* a counter, aim_mktemp() and get_list(); reads within the file, disk_rr() and the like.)
FailsOnlyByFault == faults = 0 => \A u \in User : fate[u] = "lives"

\* A test that succeeds has closed, freed and unlinked all it made, so that a
\* user can run tests for ever (the ends of the functions of disk1.c, pipe_test.c...).
SuccessLeavesNothing == \A r \in leaks : r.last # "return"

\* A failed disk test leaves no open descriptor to the tests after it in a single
\* user run, unless it is for want of an aligned buffer (disk1.c:1223, 1305).
FailedDiskTestsClose ==
  \A r \in leaks : r.what = "descriptor" /\ r.test \in DOMAIN DiskTest =>
    r.last = "alloc" /\ r.test \in {"disk_dio_cp", "disk_dio_wrt"}

\* A disk test that cannot write, as when the disk is full, does not keep the blocks it
\* has written: it unlinks its file.  The tests named keep it; disk_rd() is about to and
\* unlinks another file instead, fn2 (disk1.c:484, also 372, 577, 1483, 1586).
FullDiskGivenBack ==
  \A r \in leaks : r.what = "file" /\ r.last = "write" =>
    r.test \in {"disk_rd", "disk_rw", "disk_brw", "disk_cp", "disk_bcp"}

\* A segment or semaphore, of which the system has few, outlives its test only
\* when SIGALRM ends the user (FATAL_SHARED_MEM, clear_ipc(), child_sighandler()).
IpcReleased ==
  \A u \in User : ipc[u] # {} => test[u] = "shared_memory" \/ fate[u] = "alarm"

\* Every test ends, also when there are more users than segments or semaphores
\* (create_shared_memory() waits for them), unless a datagram or a segment is lost.
EveryTestEnds ==
  \A u \in User : test[u] # "none" ~>
    \/ test[u] = "none" \/ u \in lost
    \/ \E v \in User : fate[v] = "alarm" /\ ipc[v] # {}

\* A test that fails says so to its caller and does not die of it, unless it is one of
\* three: disk_src() is to "handle bad allocate" (disk_src.c:176) and frees its names
\* twice, mem_rtns_1() does not look at malloc(), and shared_memory() copies to the
\* segment that the handler of SIGTERM has cleared (pipe_test.c:676, driver.c:1609).
FailuresReturned ==
  [][\A u \in User : fate[u] # "aborted" /\ fate'[u] = "aborted" =>
       \/ test[u] \in {"disk_src", "mem_rtns_1"}
       \/ test[u] = "shared_memory" /\ u \in deaf]_vars

\* When a test that copies, writes or updates a file removes it, the file has the blocks
\* that the test reports to have moved or that it made the file with
\* (res->d = disk_iteration_count, disk1.c:1260, 1325; "update it", disk1.c:824).
BlocksAsReported ==
  \A u \in User :
    /\ Calls(u, "unlink") /\ File(u) \in DOMAIN disk
    /\ test[u] \in {"disk_cp", "disk_dio_cp", "disk_dio_wrt", "sync_disk_update"}
    => disk[File(u)] = Blocks
=============================================================================
