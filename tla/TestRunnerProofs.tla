---- MODULE TestRunnerProofs ----
(***************************************************************************)
(* The invariants of TestRunner, for every number of users, blocks and     *)
(* rounds and any list of tests, where names are told apart (NamesApart).  *)
(*                                                                         *)
(* None of them is inductive: that read() finds a block depends on the     *)
(* writes before it, and that nothing is left at the end on every call of  *)
(* the test.  The inductive invariant IInv says of each user that what it  *)
(* holds matches some state of the account of TestPrograms from which the  *)
(* calls it has still to make are a path to the end; that names of files   *)
(* to come are free; and the properties themselves.                        *)
(*                                                                         *)
(* A lemma for each call shows that the user goes on to the next state of  *)
(* the path (..Done); a lemma for each action, that the invariant is kept  *)
(* (..Keeps).  Last, of the tests that wait for a segment: what they wait  *)
(* for is held by one that goes on.                                        *)
(***************************************************************************)
EXTENDS TestPrograms, NamesApart, FiniteSetTheorems

(***************************************************************************)
(* One lemma for each kind of call: what a step with it says.              *)
(***************************************************************************)

\* What a step with creat() says.
LEMMA SaysCreat ==
  ASSUME NEW p, NEW a, NEW c, NEW b, Step(p, a, c, b), c.op = "creat"
  PROVE  /\ Bounded(b)
         /\ c.file \in p.uses /\ c.on \in {"fd", "fd2"}
         /\ Has(a, {Fd(c.on), Entry(c.file)}, {}, b)
         /\ c.on = "fd" => b.file = c.file /\ b.lo <= 0 /\ 0 <= b.hi /\ a.top <= b.top
         /\ c.on = "fd2" => b.file = a.file /\ b.lo <= a.lo /\ a.hi <= b.hi /\ 0 <= b.top
         /\ c.file = "temp" => b.size <= 0
         /\ c.file # "temp" => b.size <= a.size
BY DEF Step, Names, Finds, After, Takes, Drops, Stands, Stands2, Sized, OnFile, Restarts, Advances,
   Bounded, Has, Keeps

\* What a step with open() says.
LEMMA SaysOpen ==
  ASSUME NEW p, NEW a, NEW c, NEW b, Step(p, a, c, b), c.op = "open"
  PROVE  /\ Bounded(b)
         /\ c.file \in p.uses \cup {"work"} /\ c.on \in {"fd", "fd2"}
         /\ Has(a, {Fd(c.on)}, {}, b)
         /\ c.on = "fd" => b.file = c.file /\ b.lo <= 0 /\ 0 <= b.hi /\ a.top <= b.top
         /\ c.on = "fd2" => b.file = a.file /\ b.lo <= a.lo /\ a.hi <= b.hi /\ 0 <= b.top
         /\ b.size <= a.size
         /\ c.file = "work" \/ Entry(c.file) \in a.must
BY DEF Step, Names, Finds, After, Takes, Drops, Stands, Stands2, Sized, OnFile, Restarts, Advances,
   Bounded, Has, Keeps

\* What a step with write() says.
LEMMA SaysWrite ==
  ASSUME NEW p, NEW a, NEW c, NEW b, Step(p, a, c, b), c.op = "write"
  PROVE  /\ Bounded(b)
         /\ c.on \in {"fd", "fd2"} /\ b.file = a.file /\ Fd(c.on) \in a.must
         /\ Has(a, {}, {}, b)
         /\ c.on = "fd" => b.lo <= a.lo + 1 /\ a.hi + 1 <= b.hi /\ a.top <= b.top
         /\ c.on = "fd2" => b.lo <= a.lo /\ a.hi <= b.hi /\ a.top + 1 <= b.top
         /\ b.size <= a.size \/ (c.on = "fd" /\ a.file = "temp" /\ b.size <= a.lo + 1)
BY DEF Step, Names, Finds, After, Takes, Drops, Stands, Stands2, Sized, OnFile, Restarts, Advances,
   Bounded, Has, Keeps

\* What a step with read() says.
LEMMA SaysRead ==
  ASSUME NEW p, NEW a, NEW c, NEW b, Step(p, a, c, b), c.op = "read"
  PROVE  /\ Bounded(b)
         /\ c.on = "fd" /\ b.file = a.file
         /\ Has(a, {}, {}, b)
         /\ b.lo <= a.lo + 1 /\ a.hi + 1 <= b.hi /\ a.top <= b.top
         /\ b.size <= a.size
         /\ Fd("fd") \in a.must
         /\ (a.file = "work" /\ a.hi < Blocks) \/ (a.file = "temp" /\ Entry("temp") \in a.must /\ a.hi < a.size)
BY DEF Step, Names, Finds, After, Takes, Drops, Stands, Stands2, Sized, OnFile, Restarts, Advances,
   Bounded, Has, Keeps

\* What a step with lseek() to a block says.
LEMMA SaysSeek ==
  ASSUME NEW p, NEW a, NEW c, NEW b, Step(p, a, c, b), c.op = "seek"
  PROVE  /\ Bounded(b)
         /\ c.on = "fd" /\ b.file = a.file /\ c.range \in Int /\ 1 <= c.range
         /\ Has(a, {}, {}, b)
         /\ b.lo <= 0 /\ c.range - 1 <= b.hi /\ a.top <= b.top
         /\ b.size <= a.size
BY DEF Step, Names, Finds, After, Takes, Drops, Stands, Stands2, Sized, OnFile, Restarts, Advances,
   Bounded, Has, Keeps

\* What a step with lseek() to the start says.
LEMMA SaysRewind ==
  ASSUME NEW p, NEW a, NEW c, NEW b, Step(p, a, c, b), c.op = "rewind"
  PROVE  /\ Bounded(b)
         /\ c.on = "fd" /\ b.file = a.file
         /\ Has(a, {}, {}, b)
         /\ b.lo <= 0 /\ 0 <= b.hi /\ a.top <= b.top
         /\ b.size <= a.size
BY DEF Step, Names, Finds, After, Takes, Drops, Stands, Stands2, Sized, OnFile, Restarts, Advances,
   Bounded, Has, Keeps

\* What a step with close() says.
LEMMA SaysClose ==
  ASSUME NEW p, NEW a, NEW c, NEW b, Step(p, a, c, b), c.op = "close"
  PROVE  /\ Bounded(b)
         /\ Keeps(a, b)
         /\ Has(a, {}, {Fd(c.on)}, b)
BY DEF Step, Names, Finds, After, Takes, Drops, Stands, Stands2, Sized, OnFile, Restarts, Advances,
   Bounded, Has, Keeps

\* What a step with unlink() says.
LEMMA SaysUnlink ==
  ASSUME NEW p, NEW a, NEW c, NEW b, Step(p, a, c, b), c.op \in {"unlink", "remove"}
  PROVE  /\ Bounded(b)
         /\ Keeps(a, b)
         /\ c.file \in p.uses
         /\ Has(a, {}, {Entry(c.file)}, b)
         /\ c.op = "remove" => Entry(c.file) \in a.must
BY DEF Step, Names, Finds, After, Takes, Drops, Stands, Stands2, Sized, OnFile, Restarts, Advances,
   Bounded, Has, Keeps

\* What a step with link() or mkfifo() says.
LEMMA SaysMake ==
  ASSUME NEW p, NEW a, NEW c, NEW b, Step(p, a, c, b), c.op = "make"
  PROVE  /\ Bounded(b)
         /\ Keeps(a, b)
         /\ c.file \in p.uses \ {"temp"} /\ Entry(c.file) \notin a.may
         /\ Has(a, {Entry(c.file)}, {}, b)
BY DEF Step, Names, Finds, After, Takes, Drops, Stands, Stands2, Sized, OnFile, Restarts, Advances,
   Bounded, Has, Keeps

\* What a step with socket() and the like says.
LEMMA SaysSocket ==
  ASSUME NEW p, NEW a, NEW c, NEW b, Step(p, a, c, b), c.op = "socket"
  PROVE  /\ Bounded(b)
         /\ Keeps(a, b)
         /\ c.on \cap {"fd", "fd2"} = {}
         /\ Has(a, {Fd(x) : x \in c.on}, {}, b)
BY DEF Step, Names, Finds, After, Takes, Drops, Stands, Stands2, Sized, OnFile, Restarts, Advances,
   Bounded, Has, Keeps

\* What a step with accept() says.
LEMMA SaysAccept ==
  ASSUME NEW p, NEW a, NEW c, NEW b, Step(p, a, c, b), c.op = "accept"
  PROVE  /\ Bounded(b)
         /\ Keeps(a, b)
         /\ c.on \notin {"fd", "fd2"}
         /\ Has(a, {Fd(c.on)}, {}, b)
BY DEF Step, Names, Finds, After, Takes, Drops, Stands, Stands2, Sized, OnFile, Restarts, Advances,
   Bounded, Has, Keeps

\* What a step with malloc() and the like says.
LEMMA SaysAlloc ==
  ASSUME NEW p, NEW a, NEW c, NEW b, Step(p, a, c, b), c.op = "alloc"
  PROVE  /\ Bounded(b)
         /\ Keeps(a, b)
         /\ c.on \in MemNames
         /\ Has(a, {Mem(c.on)}, {}, b)
BY DEF Step, Names, Finds, After, Takes, Drops, Stands, Stands2, Sized, OnFile, Restarts, Advances,
   Bounded, Has, Keeps

\* What a step with free() and the like says.
LEMMA SaysFree ==
  ASSUME NEW p, NEW a, NEW c, NEW b, Step(p, a, c, b), c.op = "free"
  PROVE  /\ Bounded(b)
         /\ Keeps(a, b)
         /\ Has(a, {}, {Mem(c.on)}, b)
BY DEF Step, Names, Finds, After, Takes, Drops, Stands, Stands2, Sized, OnFile, Restarts, Advances,
   Bounded, Has, Keeps

\* What a step with a call that changes nothing says.
LEMMA SaysTry ==
  ASSUME NEW p, NEW a, NEW c, NEW b, Step(p, a, c, b), c.op \in {"try", "shmat", "copy", "semctl",
         "send", "receive"}
  PROVE  /\ Bounded(b)
         /\ Keeps(a, b)
         /\ Has(a, {}, {}, b)
         /\ c.op \in {"shmat", "copy"} => Ipc("shm") \in a.must
         /\ c.op = "semctl" => Ipc("sem") \in a.must
         /\ c.op \in {"send", "receive"} => Fd(c.on) \in a.must
BY DEF Step, Names, Finds, After, Takes, Drops, Stands, Stands2, Sized, OnFile, Restarts, Advances,
   Bounded, Has, Keeps

\* What a step with fork() says.
LEMMA SaysFork ==
  ASSUME NEW p, NEW a, NEW c, NEW b, Step(p, a, c, b), c.op = "fork"
  PROVE  /\ Bounded(b)
         /\ Keeps(a, b)
         /\ Has(a, {Kid}, {}, b)
BY DEF Step, Names, Finds, After, Takes, Drops, Stands, Stands2, Sized, OnFile, Restarts, Advances,
   Bounded, Has, Keeps

\* What a step with wait() says.
LEMMA SaysWait ==
  ASSUME NEW p, NEW a, NEW c, NEW b, Step(p, a, c, b), c.op = "wait"
  PROVE  /\ Bounded(b)
         /\ Keeps(a, b)
         /\ Has(a, {}, {Kid}, b)
BY DEF Step, Names, Finds, After, Takes, Drops, Stands, Stands2, Sized, OnFile, Restarts, Advances,
   Bounded, Has, Keeps

\* What a step with shmget() says.
LEMMA SaysShmGet ==
  ASSUME NEW p, NEW a, NEW c, NEW b, Step(p, a, c, b), c.op = "shmget"
  PROVE  /\ Bounded(b)
         /\ Keeps(a, b)
         /\ p.ipc /\ Ipc("shm") \notin a.may
         /\ Has(a, {Ipc("shm")}, {}, b)
BY DEF Step, Names, Finds, After, Takes, Drops, Stands, Stands2, Sized, OnFile, Restarts, Advances,
   Bounded, Has, Keeps

\* What a step with semget() says.
LEMMA SaysSemGet ==
  ASSUME NEW p, NEW a, NEW c, NEW b, Step(p, a, c, b), c.op = "semget"
  PROVE  /\ Bounded(b)
         /\ Keeps(a, b)
         /\ p.ipc
         /\ Has(a, {Ipc("sem")}, {}, b)
         /\ Ipc("shm") \in a.may
BY DEF Step, Names, Finds, After, Takes, Drops, Stands, Stands2, Sized, OnFile, Restarts, Advances,
   Bounded, Has, Keeps

\* What a step with semop() says.
LEMMA SaysSemOp ==
  ASSUME NEW p, NEW a, NEW c, NEW b, Step(p, a, c, b), c.op = "semop"
  PROVE  /\ Bounded(b)
         /\ Keeps(a, b)
         /\ p.ipc
         /\ Ipc("sem") \in a.must /\ c.on \in {"wait", "signal"}
         /\ c.on = "wait" => Ipc("taken") \notin a.may
         /\ c.on = "wait" => Has(a, {Ipc("taken")}, {}, b)
         /\ c.on = "signal" => Has(a, {}, {Ipc("taken")}, b)
BY DEF Step, Names, Finds, After, Takes, Drops, Stands, Stands2, Sized, OnFile, Restarts, Advances,
   Bounded, Has, Keeps

\* What a step with clear_ipc() says.
LEMMA SaysClear ==
  ASSUME NEW p, NEW a, NEW c, NEW b, Step(p, a, c, b), c.op = "clear"
  PROVE  /\ Bounded(b)
         /\ Keeps(a, b)
         /\ Has(a, {}, {Ipc("shm"), Ipc("sem"), Ipc("taken")}, b)
BY DEF Step, Names, Finds, After, Takes, Drops, Stands, Stands2, Sized, OnFile, Restarts, Advances,
   Bounded, Has, Keeps

(***************************************************************************)
(* The invariant: what a user has is what the way to the end of its test   *)
(* says it may have.                                                       *)
(***************************************************************************)
NewNames == {"creat", "fifo", "link0", "link1", "link2"}
FileNames == NewNames \cup Kept

\* The user has nothing but X; while nothing goes wrong, it has all of X.
Within(u, X) ==
  /\ \A x \in DOMAIN fds[u] : Fd(x) \in X
  /\ \A m \in held[u] : Mem(m) \in X
  /\ \A w \in ipc[u] : Ipc(w) \in X
  /\ kids[u] > 0 => Kid \in X
  /\ \A n \in Uses(test[u]) : FileOf(u, n) \in DOMAIN disk => Entry(n) \in X
HasAll(u, X) ==
  /\ \A x : Fd(x) \in X => x \in DOMAIN fds[u]
  /\ \A w : Ipc(w) \in X => w \in ipc[u]
  /\ \A n : Entry(n) \in X => n \in Uses(test[u]) /\ FileOf(u, n) \in DOMAIN disk
\* Where its descriptors stand, and how long its file is.
Where(u, a) ==
  /\ "fd" \in DOMAIN fds[u] => /\ a.lo <= fds[u]["fd"].pos /\ fds[u]["fd"].pos <= a.hi
                               /\ fds[u]["fd"].file = FileOf(u, a.file)
  /\ "fd2" \in DOMAIN fds[u] => fds[u]["fd2"].pos <= a.top
  /\ faults = 0 /\ Entry("temp") \in a.must => a.size <= disk[FileOf(u, "temp")]
\* Every file that a test reads or writes is open, whatever goes wrong.
Opened(u, X) == \A x \in {"fd", "fd2"} : Fd(x) \in X => x \in DOMAIN fds[u]
Matches(u, a) ==
  Within(u, a.may) /\ (faults = 0 => HasAll(u, a.must)) /\ Opened(u, a.must) /\ Where(u, a)
Busy(u) ==
  test[u] # "none" =>
    \E a, b : Matches(u, a) /\ b.may = {} /\ Path(Profile(test[u]), todo[u], a, b)

\* A user between two tests, or gone.
Rests(u) ==
  /\ test[u] = "none" => todo[u] = <<>> /\ fds[u] = <<>> /\ held[u] = {}
  /\ fate[u] # "lives" => test[u] = "none"
  /\ fate[u] = "lives" /\ test[u] = "none" => kids[u] = 0 /\ ipc[u] = {}
  /\ ipc[u] # {} => test[u] = "shared_memory" \/ fate[u] = "alarm"
Descriptors(u) ==
  /\ fds[u] = [x \in DOMAIN fds[u] |-> fds[u][x]]
  /\ \A x \in DOMAIN fds[u] :
       /\ fds[u][x] = [file |-> fds[u][x].file, pos |-> fds[u][x].pos]
       /\ fds[u][x].pos \in Nat /\ (x \notin {"fd", "fd2"} => fds[u][x].pos = 0)

Files == disk = [x \in DOMAIN disk |-> disk[x]] /\ \A x \in DOMAIN disk : disk[x] \in Nat
\* What the calls of a test change, and what they do not.
Kinds ==
  /\ todo = [u \in User |-> todo[u]] /\ fds = [u \in User |-> fds[u]]
  /\ held \in [User -> SUBSET MemNames] /\ kids \in [User -> {0, 1}]
  /\ ipc \in [User -> SUBSET {"shm", "sem", "taken"}] /\ faults \in 0 .. MaxFaults /\ Files
Fixed ==
  /\ single \in BOOLEAN
  /\ test \in [User -> TestsOf[single] \cup {"none"}]
  /\ fn2 = [u \in User |-> fn2[u]]
  /\ counter \in [User -> -1 .. NumSuffixes - 1] /\ begun \in [User -> 0 .. MaxTests[single]]
  /\ fate \in [User -> {"lives", "failed", "aborted", "alarm"}]
  /\ deaf \subseteq User /\ lost \subseteq User
\* Files of tests to come are not there; the work file is as long as it was made.
Fresh == \A f \in NewNames, v \in User, n \in Nat : n > begun[v] => <<f, v, n>> \notin DOMAIN disk
WorkThere == faults = 0 => WorkFile \in DOMAIN disk /\ disk[WorkFile] >= Blocks

IInv ==
  /\ Kinds /\ Fixed /\ (\A u \in User : Busy(u) /\ Rests(u) /\ Descriptors(u))
  /\ Fresh /\ WorkThere
  /\ FailsOnlyByFault /\ SuccessLeavesNothing /\ FailedDiskTestsClose

\* The files of different users, and those of a user, are different.
LEMMA FilesApart ==
  /\ \A u \in User, f \in FileNames : FileOf(u, f) # WorkFile
  /\ \A u, v \in User, f, g \in FileNames : FileOf(u, f) = FileOf(v, g) => u = v /\ f = g
  /\ \A u, v \in User, f \in FileNames, g \in NewNames : \A n :
       FileOf(u, f) = <<g, v, n>> => u = v /\ n = begun[u]
<1> DEFINE first(f) == IF f = "temp" THEN "tmpb" ELSE f
           second(u, f) == IF f \in Kept THEN Key(u) ELSE u
<1>1. ASSUME NEW u \in User, NEW f \in FileNames
      PROVE  FileOf(u, f)[1] = first(f) /\ FileOf(u, f)[2] = second(u, f)
             /\ (f \in NewNames => FileOf(u, f) = <<f, u, begun[u]>>)
  BY DEF FileOf, FileNames, NewNames, Kept
<1>2. WorkFile[1] = "tmpa.common"
  BY DEF WorkFile
<1>3. \A u, v \in User : Key(u) = Key(v) => u = v
  BY PidsApart DEF Key
<1>4. \A f, g \in FileNames : first(f) = first(g) => f = g
  BY DEF FileNames, NewNames, Kept
<1>5. \A f \in FileNames : first(f) # "tmpa.common"
  BY DEF FileNames, NewNames, Kept
<1>6. ASSUME NEW u \in User, NEW v \in User, NEW f \in FileNames, NEW g \in NewNames, NEW n,
             FileOf(u, f) = <<g, v, n>>
      PROVE  u = v /\ n = begun[u]
  <2>1. /\ <<g, v, n>>[1] = g /\ <<g, v, n>>[2] = v /\ <<g, v, n>>[3] = n /\ g \in FileNames
        /\ first(g) = g
    BY DEF FileNames, NewNames
  <2>2. f = g
    BY <1>1, <1>4, <1>6, <2>1
  <2>3. <<g, v, n>> = <<f, u, begun[u]>>
    BY <1>1, <1>6, <2>2
  <2>4. <<f, u, begun[u]>>[2] = u /\ <<f, u, begun[u]>>[3] = begun[u]
    OBVIOUS
  <2> QED
    BY <2>1, <2>3, <2>4
<1> HIDE DEF first
<1>7. ASSUME NEW u \in User, NEW v \in User, NEW f \in FileNames, NEW g \in FileNames,
             FileOf(u, f) = FileOf(v, g)
      PROVE  u = v /\ f = g
  <2>1. f = g /\ second(u, f) = second(v, g)
    BY <1>1, <1>4, <1>7
  <2> QED
    BY <1>3, <2>1
<1>8. \A u \in User, f \in FileNames : FileOf(u, f) # WorkFile
  BY <1>1, <1>2, <1>5
<1> QED
  BY <1>6, <1>7, <1>8

\* A test uses names of files that its user alone uses.
LEMMA UsesNames ==
  /\ \A t : Uses(t) \subseteq FileNames
  /\ \A t \in DOMAIN Program : FilesOf(t) \subseteq Uses(t)
  /\ DOMAIN Program = DOMAIN DiskTest \cup DOMAIN SystemTest
<1>1. \A t : Uses(t) \subseteq FileNames
  BY DEF Uses, FileNames, NewNames, Kept
<1>2. ASSUME NEW t \in DOMAIN Program PROVE FilesOf(t) \subseteq Uses(t)
  <2> DEFINE q == Program[t]
             p == Profile(t)
  <2>1. PICK a, b : Path(p, q, a, b)
    BY Programs DEF Completes, Finishes
  <2>2. PICK A : Chain(p, q, A)
    BY <2>1 DEF Path
  <2>3. PICK T : q \in Seq(T)
    BY <2>1 DEF Path, IsSequence
  <2>4. DOMAIN q = 1 .. Len(q)
    BY <2>3, LenProperties
  <2>5. \A i \in DOMAIN q : q[i].file \in p.uses \cup {"", "work"}
    BY <2>2, <2>4 DEF Chain, Step, Names
  <2>6. t # "none"
    BY TestNames, Programs
  <2> HIDE DEF q
  <2>7. \A c \in Range(q) : c.file \in Uses(t) \cup {"", "work"}
    BY <2>5 DEF Range, Profile
  <2> QED
    BY <2>6, <2>7 DEF FilesOf, q
<1> QED
  BY <1>1, <1>2, Programs
\* What another user does, and what ends, does not change what a user may do next.
LEMMA Undisturbed ==
  ASSUME Files, NEW v \in User, Busy(v),
         test'[v] = test[v], todo'[v] = todo[v], fds'[v] = fds[v], held'[v] = held[v],
         counter'[v] = counter[v], fn2'[v] = fn2[v], begun'[v] = begun[v],
         ipc'[v] \subseteq ipc[v], kids'[v] > 0 => kids[v] > 0,
         faults' = 0 => faults = 0 /\ ipc'[v] = ipc[v],
         \A n \in FileNames : FileOf(v, n) \in DOMAIN disk' => FileOf(v, n) \in DOMAIN disk,
         \A n \in FileNames :
           faults' = 0 /\ FileOf(v, n) \in DOMAIN disk =>
             FileOf(v, n) \in DOMAIN disk' /\ disk[FileOf(v, n)] <= disk'[FileOf(v, n)],
         Files'
  PROVE  Busy(v)'
<1>1. \A n : FileOf(v, n)' = FileOf(v, n)
  BY DEF FileOf, Key
<1>2. CASE test[v] = "none"
  BY <1>2 DEF Busy
<1>3. CASE test[v] # "none"
  <2>1. PICK a, b : Matches(v, a) /\ b.may = {} /\ Path(Profile(test[v]), todo[v], a, b)
    BY <1>3 DEF Busy
  <2>2. Bounded(a)
    BY <2>1 DEF Path
  <2>3. Uses(test[v]) \subseteq FileNames
    BY UsesNames
  <2>4. Within(v, a.may)'
    <3>1. Within(v, a.may)
      BY <2>1 DEF Matches
    <3> QED
      BY <1>1, <2>3, <3>1 DEF Within
  <2>5. ASSUME faults' = 0 PROVE HasAll(v, a.must)'
    <3>1. HasAll(v, a.must)
      BY <2>1, <2>5 DEF Matches
    <3> QED
      BY <1>1, <2>3, <2>5, <3>1 DEF HasAll
  <2>6. Where(v, a)'
    <3>1. Where(v, a)
      BY <2>1 DEF Matches
    <3>2. ASSUME faults' = 0, Entry("temp") \in a.must
          PROVE  a.size <= disk'[FileOf(v, "temp")]
      <4>1. faults = 0 /\ a.size <= disk[FileOf(v, "temp")] /\ HasAll(v, a.must)
        BY <2>1, <3>1, <3>2 DEF Where, Matches
      <4>2. FileOf(v, "temp") \in DOMAIN disk /\ "temp" \in FileNames
        BY <2>3, <3>2, <4>1 DEF HasAll
      <4>3. /\ FileOf(v, "temp") \in DOMAIN disk'
            /\ disk[FileOf(v, "temp")] <= disk'[FileOf(v, "temp")]
        BY <3>2, <4>2
      <4>4. disk[FileOf(v, "temp")] \in Nat /\ disk'[FileOf(v, "temp")] \in Nat /\ a.size \in Int
        BY <2>2, <4>2, <4>3 DEF Files, Bounded
      <4> QED
        BY <4>1, <4>3, <4>4
    <3> QED
      BY <1>1, <3>1, <3>2 DEF Where
  <2>7. Opened(v, a.must)'
    BY <2>1 DEF Matches, Opened
  <2>8. Matches(v, a)'
    BY <2>4, <2>5, <2>6, <2>7 DEF Matches
  <2> QED
    BY <1>3, <2>1, <2>8 DEF Busy
<1> QED
  BY <1>2, <1>3
\* What every call that is made by user u leaves as it is, and what it keeps to.
Frame(u) ==
  /\ UNCHANGED <<single, test, begun, fate, leaks, counter, fn2, lost, deaf>>
  /\ \A v \in User \ {u} : todo'[v] = todo[v] /\ fds'[v] = fds[v] /\ held'[v] = held[v]
                           /\ kids'[v] = kids[v] /\ ipc'[v] = ipc[v]
\* Only files of user u come, go or are cut off.
Touches(u) ==
  /\ \A x \in DOMAIN disk' \ DOMAIN disk : \E f \in FileNames : x = FileOf(u, f)
  /\ \A x \in DOMAIN disk :
       \/ x \in DOMAIN disk' /\ disk[x] <= disk'[x]
       \/ \E f \in FileNames : x = FileOf(u, f)
Done(u) ==
  /\ test[u] # "none" /\ Frame(u) /\ Kinds' /\ Touches(u)
  /\ faults' = 0 => faults = 0
  /\ ipc'[u] \subseteq ipc[u] \/ test[u] = "shared_memory"
  /\ Busy(u)' /\ Descriptors(u)'

\* What a user does with its own files leaves those of the others alone.
LEMMA SparesOthers ==
  ASSUME NEW u \in User, NEW v \in User \ {u}, Touches(u)
  PROVE  /\ \A n \in FileNames : FileOf(v, n) \in DOMAIN disk' => FileOf(v, n) \in DOMAIN disk
         /\ \A n \in FileNames : FileOf(v, n) \in DOMAIN disk =>
              FileOf(v, n) \in DOMAIN disk' /\ disk[FileOf(v, n)] <= disk'[FileOf(v, n)]
BY FilesApart DEF Touches

\* It leaves the work file, and the names of tests to come, alone too.
LEMMA SparesShared ==
  ASSUME NEW u \in User, Touches(u), faults' = 0 => faults = 0, begun' = begun, Files, Files'
  PROVE  (Fresh => Fresh') /\ (WorkThere => WorkThere')
<1>1. ASSUME Fresh PROVE Fresh'
  BY <1>1, FilesApart DEF Fresh, Touches, FileNames
<1>2. ASSUME WorkThere PROVE WorkThere'
  <2> SUFFICES ASSUME faults' = 0 PROVE WorkFile \in DOMAIN disk' /\ disk'[WorkFile] >= Blocks
    BY DEF WorkThere, WorkFile
  <2>1. WorkFile \in DOMAIN disk /\ disk[WorkFile] >= Blocks
    BY <1>2 DEF WorkThere
  <2>2. WorkFile \in DOMAIN disk' /\ disk[WorkFile] <= disk'[WorkFile]
    BY <2>1, FilesApart DEF Touches
  <2>3. disk[WorkFile] \in Nat /\ disk'[WorkFile] \in Nat
    BY <2>1, <2>2 DEF Files
  <2> QED
    BY <2>1, <2>2, <2>3, BlocksAssumption
<1> QED
  BY <1>1, <1>2

\* The invariant holds after a call if the user is still on its way.
LEMMA DoneKeeps ==
  ASSUME IInv, NEW u \in User, Done(u)
  PROVE  IInv'
<1>1. Kinds' /\ Fixed'
  <2>1. Fixed /\ Kinds'
    BY DEF IInv, Done
  <2>2. UNCHANGED <<single, test, begun, fate, counter, fn2, lost, deaf>>
    BY DEF Done, Frame
  <2> QED
    BY <2>1, <2>2 DEF Fixed
<1>2. ASSUME NEW v \in User PROVE Busy(v)'
  <2>1. CASE v = u
    BY <2>1 DEF Done
  <2>2. CASE v # u
    <3>1. v \in User \ {u} /\ Files /\ Files' /\ Busy(v)
      <4>1. Kinds /\ Kinds' /\ Busy(v)
        BY DEF IInv, Done
      <4> QED
        BY <2>2, <4>1 DEF Kinds
    <3>2. /\ test'[v] = test[v] /\ todo'[v] = todo[v] /\ fds'[v] = fds[v] /\ held'[v] = held[v]
          /\ counter'[v] = counter[v] /\ fn2'[v] = fn2[v] /\ begun'[v] = begun[v]
          /\ ipc'[v] = ipc[v] /\ kids'[v] = kids[v] /\ (faults' = 0 => faults = 0) /\ Touches(u)
      BY <2>2 DEF Done, Frame
    <3> QED
      BY <3>1, <3>2, SparesOthers, Undisturbed
  <2> QED
    BY <2>1, <2>2
<1>3. ASSUME NEW v \in User PROVE Rests(v)'
  <2>1. CASE v = u
    BY <2>1 DEF IInv, Done, Rests, Frame
  <2>2. CASE v # u
    BY <2>2 DEF IInv, Done, Rests, Frame
  <2> QED
    BY <2>1, <2>2
<1>4. ASSUME NEW v \in User PROVE Descriptors(v)'
  <2>1. CASE v = u
    BY <2>1 DEF Done
  <2>2. CASE v # u
    BY <2>2 DEF IInv, Done, Descriptors, Frame
  <2> QED
    BY <2>1, <2>2
<1>5. Fresh' /\ WorkThere'
  <2>1. Kinds /\ Kinds' /\ Fresh /\ WorkThere /\ Touches(u) /\ (faults' = 0 => faults = 0)
    BY DEF IInv, Done
  <2>2. begun' = begun
    BY DEF Done, Frame
  <2>3. Files /\ Files'
    BY <2>1 DEF Kinds
  <2> QED
    BY <2>1, <2>2, <2>3, SparesShared
<1>6. FailsOnlyByFault' /\ SuccessLeavesNothing' /\ FailedDiskTestsClose'
  BY DEF IInv, Done, Frame, FailsOnlyByFault, SuccessLeavesNothing, FailedDiskTestsClose
<1> QED
  BY <1>1, <1>2, <1>3, <1>4, <1>5, <1>6 DEF IInv

\* The way on from where a user is.
LEMMA OnTheWay ==
  ASSUME IInv, NEW u \in User, todo[u] # <<>>
  PROVE  /\ test[u] # "none" /\ test[u] \in DOMAIN Program /\ fate[u] = "lives"
         /\ \E a, s, e : /\ Matches(u, a) /\ Bounded(a) /\ e.may = {}
                         /\ Step(Profile(test[u]), a, Current(u), s)
                         /\ Path(Profile(test[u]), Tail(todo[u]), s, e)
<1>1. test[u] # "none" /\ fate[u] = "lives"
  BY DEF IInv, Rests
<1>2. test[u] \in DOMAIN Program
  <2>1. test \in [User -> TestsOf[single] \cup {"none"}] /\ single \in BOOLEAN
    BY DEF IInv, Fixed
  <2>2. TestsOf[single] \subseteq DOMAIN Program
    BY <2>1, RunnerAssumption
  <2> QED
    BY <1>1, <2>1, <2>2
<1>3. PICK a, e : Matches(u, a) /\ e.may = {} /\ Path(Profile(test[u]), todo[u], a, e)
  BY <1>1 DEF IInv, Busy
<1>4. Bounded(a)
  BY <1>3 DEF Path
<1>5. \E s : Step(Profile(test[u]), a, Head(todo[u]), s) /\ Path(Profile(test[u]), Tail(todo[u]), s, e)
  BY <1>3, PathFirst
<1> QED
  BY <1>1, <1>2, <1>3, <1>4, <1>5 DEF Current

\* The user goes on with the next call.
LEMMA GoesOn ==
  ASSUME NEW u \in User, NEW s, NEW e, Matches(u, s)', e.may = {},
         Path(Profile(test[u]), todo'[u], s, e), test'[u] = test[u]
  PROVE  Busy(u)'
BY DEF Busy
\* What one call must show for the invariant to hold after it.
LEMMA CallDone ==
  ASSUME NEW u \in User, test[u] # "none", Frame(u), Kinds', Touches(u), faults' = 0 => faults = 0,
         ipc'[u] \subseteq ipc[u] \/ test[u] = "shared_memory", Descriptors(u)',
         NEW s, NEW e, Path(Profile(test[u]), todo'[u], s, e), e.may = {},
         Within(u, s.may)', faults' = 0 => HasAll(u, s.must)', Opened(u, s.must)', Where(u, s)'
  PROVE  Done(u)
<1>1. test'[u] = test[u]
  BY DEF Frame
<1>2. Matches(u, s)'
  BY DEF Matches
<1>3. Busy(u)'
  BY <1>1, <1>2, GoesOn
<1> QED
  BY <1>3 DEF Done

\* A call gives no name another file.
LEMMA SameNames ==
  ASSUME NEW u \in User, Frame(u)
  PROVE  \A n : FileOf(u, n)' = FileOf(u, n)
BY DEF Frame, FileOf, Key

\* A call that leaves fd and fd2, and the file with the blocks, as they are.
LEMMA WhereKept ==
  ASSUME NEW u \in User, Frame(u), Kinds', faults' = 0 => faults = 0,
         NEW a, Matches(u, a), Bounded(a), NEW s, Bounded(s), Keeps(a, s),
         Descriptors(u), Files,
         "fd" \in DOMAIN fds'[u] => "fd" \in DOMAIN fds[u] /\ fds'[u]["fd"] = fds[u]["fd"],
         "fd2" \in DOMAIN fds'[u] => "fd2" \in DOMAIN fds[u] /\ fds'[u]["fd2"] = fds[u]["fd2"],
         faults' = 0 /\ Entry("temp") \in s.must =>
           Entry("temp") \in a.must,
         faults' = 0 /\ Entry("temp") \in s.must /\ FileOf(u, "temp") \in DOMAIN disk =>
           FileOf(u, "temp") \in DOMAIN disk' /\ disk[FileOf(u, "temp")] <= disk'[FileOf(u, "temp")]
  PROVE  Where(u, s)'
<1>1. \A n : FileOf(u, n)' = FileOf(u, n)
  BY SameNames
<1>2. Where(u, a) /\ (faults = 0 => HasAll(u, a.must))
  BY DEF Matches
<1>3. ASSUME "fd" \in DOMAIN fds'[u]
      PROVE  /\ s.lo <= fds'[u]["fd"].pos /\ fds'[u]["fd"].pos <= s.hi
             /\ fds'[u]["fd"].file = FileOf(u, s.file)
  <2> DEFINE x == fds[u]["fd"].pos
  <2>1. x \in Nat /\ fds'[u]["fd"] = fds[u]["fd"]
    BY <1>3 DEF Descriptors
  <2>2. a.lo <= x /\ x <= a.hi /\ fds[u]["fd"].file = FileOf(u, a.file)
    BY <1>2, <1>3 DEF Where
  <2>3. s.lo <= a.lo /\ a.hi <= s.hi /\ s.file = a.file
    BY DEF Keeps
  <2>4. s.lo \in Int /\ a.lo \in Int /\ a.hi \in Int /\ s.hi \in Int
    BY DEF Bounded
  <2> HIDE DEF x
  <2>5. s.lo <= x /\ x <= s.hi
    BY <2>1, <2>2, <2>3, <2>4
  <2> QED
    BY <2>1, <2>2, <2>3, <2>5 DEF x
<1>4. ASSUME "fd2" \in DOMAIN fds'[u] PROVE fds'[u]["fd2"].pos <= s.top
  <2> DEFINE x == fds[u]["fd2"].pos
  <2>1. x \in Nat /\ fds'[u]["fd2"] = fds[u]["fd2"]
    BY <1>4 DEF Descriptors
  <2>2. x <= a.top /\ a.top <= s.top /\ a.top \in Int /\ s.top \in Int
    BY <1>2, <1>4 DEF Where, Keeps, Bounded
  <2> HIDE DEF x
  <2>3. x <= s.top
    BY <2>1, <2>2
  <2> QED
    BY <2>1, <2>3 DEF x
<1>5. ASSUME faults' = 0, Entry("temp") \in s.must PROVE s.size <= disk'[FileOf(u, "temp")]
  <2> DEFINE x == FileOf(u, "temp")
  <2>1. Entry("temp") \in a.must /\ faults = 0
    BY <1>5
  <2>2. x \in DOMAIN disk /\ a.size <= disk[x]
    BY <1>2, <2>1 DEF Where, HasAll
  <2>3. x \in DOMAIN disk' /\ disk[x] <= disk'[x]
    BY <1>5, <2>2
  <2>4. disk[x] \in Nat /\ disk'[x] \in Nat
    BY <2>2, <2>3 DEF Files, Kinds
  <2>5. s.size <= a.size /\ s.size \in Int /\ a.size \in Int
    BY DEF Keeps, Bounded
  <2> HIDE DEF x
  <2> QED
    BY <2>2, <2>3, <2>4, <2>5 DEF x
<1> QED
  BY <1>1, <1>3, <1>4, <1>5 DEF Where

\* After close() the user is still on its way.
LEMMA CloseDone ==
  ASSUME IInv, NEW u \in User, DoClose(u)
  PROVE  Done(u)
<1> DEFINE c == Current(u)
<1>1. todo[u] # <<>> /\ c.op = "close"
  BY DEF DoClose, Calls
<1>2. PICK a, s, e : /\ Matches(u, a) /\ Bounded(a) /\ e.may = {}
                     /\ Step(Profile(test[u]), a, c, s)
                     /\ Path(Profile(test[u]), Tail(todo[u]), s, e)
  BY <1>1, OnTheWay
<1>3. Bounded(s) /\ Keeps(a, s) /\ Has(a, {}, {Fd(c.on)}, s)
  BY <1>1, <1>2, SaysClose
<1>4. Kinds /\ Files /\ Descriptors(u) /\ test[u] # "none"
  BY <1>1, OnTheWay DEF IInv, Kinds
<1>5. Frame(u) /\ todo'[u] = Tail(todo[u])
  BY <1>4 DEF DoClose, Advance, Frame, Kinds
<1>6. Kinds' /\ UNCHANGED <<held, kids, ipc, disk, faults>>
  BY <1>4 DEF DoClose, Advance, Kinds, Files
<1>7. fds'[u] = Without(fds[u], {c.on})
  BY <1>4 DEF DoClose, Kinds, On
<1>8. DOMAIN fds'[u] = DOMAIN fds[u] \ {c.on} /\ \A x \in DOMAIN fds'[u] : fds'[u][x] = fds[u][x]
  BY <1>7 DEF Without
<1>9. Descriptors(u)'
  BY <1>4, <1>7, <1>8 DEF Descriptors, Without
<1>10. Touches(u)
  BY <1>6 DEF Touches, Kinds, Files
<1>11. Within(u, s.may)'
  BY <1>2, <1>3, <1>5, <1>6, <1>8, SameNames, Different DEF Matches, Within, Has, Frame
<1>12. faults' = 0 => HasAll(u, s.must)'
  BY <1>2, <1>3, <1>5, <1>6, <1>8, SameNames, Different DEF Matches, HasAll, Has, Frame
<1>13. /\ Entry("temp") \in s.must => Entry("temp") \in a.must
       /\ FileOf(u, "temp") \in DOMAIN disk =>
            FileOf(u, "temp") \in DOMAIN disk' /\ disk[FileOf(u, "temp")] <= disk'[FileOf(u, "temp")]
  BY <1>3, <1>4, <1>6, Different DEF Has, Files
<1>14. Where(u, s)'
  BY <1>2, <1>3, <1>4, <1>5, <1>6, <1>8, <1>13, WhereKept
<1>15. Opened(u, s.must)'
  BY <1>2, <1>3, <1>8, Different DEF Matches, Opened, Has
<1> QED
  BY <1>2, <1>4, <1>5, <1>6, <1>9, <1>10, <1>11, <1>12, <1>14, <1>15, CallDone

\* After socket() and the like the user is still on its way.
LEMMA SocketDone ==
  ASSUME IInv, NEW u \in User, DoSocket(u), Calls(u, "socket")
  PROVE  Done(u)
<1> DEFINE c == Current(u)
<1>1. todo[u] # <<>> /\ c.op = "socket"
  BY DEF DoSocket, Calls
<1>2. PICK a, s, e : /\ Matches(u, a) /\ Bounded(a) /\ e.may = {}
                     /\ Step(Profile(test[u]), a, c, s)
                     /\ Path(Profile(test[u]), Tail(todo[u]), s, e)
  BY <1>1, OnTheWay
<1>3. /\ Bounded(s) /\ Keeps(a, s) /\ Has(a, {Fd(x) : x \in c.on}, {}, s)
      /\ c.on \cap {"fd", "fd2"} = {}
  BY <1>1, <1>2, SaysSocket
<1>4. Kinds /\ Files /\ Descriptors(u) /\ test[u] # "none"
  BY <1>1, OnTheWay DEF IInv, Kinds
<1>5. Frame(u) /\ todo'[u] = Tail(todo[u])
  BY <1>4 DEF DoSocket, Advance, Frame, Kinds, With, Calls
<1>6. /\ fds' = [fds EXCEPT ![u] = Put(@, c.on, [file |-> WorkFile, pos |-> 0])]
      /\ todo' = [todo EXCEPT ![u] = Tail(@)] /\ UNCHANGED <<held, kids, ipc, disk, faults>>
  BY <1>1 DEF DoSocket, Advance, Calls, On, File, With, clear_ipc
<1>7. Kinds' /\ UNCHANGED <<held, kids, ipc, disk, faults>>
  BY <1>3, <1>4, <1>6 DEF Kinds, Files
<1>8. fds'[u] = Put(fds[u], c.on, [file |-> WorkFile, pos |-> 0])
  BY <1>4, <1>6 DEF Kinds
<1>9. /\ DOMAIN fds'[u] = DOMAIN fds[u] \cup c.on
      /\ \A x \in DOMAIN fds'[u] : fds'[u][x] = IF x \in c.on THEN [file |-> WorkFile, pos |-> 0] ELSE fds[u][x]
  BY <1>7, <1>8 DEF Put
<1>10. Descriptors(u)'
  BY <1>4, <1>7, <1>8, <1>9 DEF Descriptors, Put
<1>11. Touches(u)
  BY <1>7 DEF Touches, Kinds, Files
<1>12. Within(u, s.may)'
  BY <1>2, <1>3, <1>5, <1>7, <1>9, SameNames, Different DEF Matches, Within, Has, Frame
<1>13. faults' = 0 => HasAll(u, s.must)'
  BY <1>2, <1>3, <1>5, <1>7, <1>9, SameNames, Different DEF Matches, HasAll, Has, Frame
<1>14. /\ Entry("temp") \in s.must => Entry("temp") \in a.must
       /\ FileOf(u, "temp") \in DOMAIN disk =>
            FileOf(u, "temp") \in DOMAIN disk' /\ disk[FileOf(u, "temp")] <= disk'[FileOf(u, "temp")]
  BY <1>3, <1>4, <1>7, Different DEF Has, Files
<1>15. Where(u, s)'
  BY <1>2, <1>3, <1>4, <1>5, <1>7, <1>9, <1>14, WhereKept
<1>16. Opened(u, s.must)'
  BY <1>2, <1>3, <1>9, Different DEF Matches, Opened, Has
<1> QED
  BY <1>2, <1>4, <1>5, <1>7, <1>10, <1>11, <1>12, <1>13, <1>15, <1>16, CallDone

\* After accept() the user is still on its way.
LEMMA AcceptDone ==
  ASSUME IInv, NEW u \in User, DoSocket(u), Calls(u, "accept")
  PROVE  Done(u)
<1> DEFINE c == Current(u)
<1>1. todo[u] # <<>> /\ c.op = "accept"
  BY DEF DoSocket, Calls
<1>2. PICK a, s, e : /\ Matches(u, a) /\ Bounded(a) /\ e.may = {}
                     /\ Step(Profile(test[u]), a, c, s)
                     /\ Path(Profile(test[u]), Tail(todo[u]), s, e)
  BY <1>1, OnTheWay
<1>3. Bounded(s) /\ Keeps(a, s) /\ Has(a, {Fd(c.on)}, {}, s) /\ c.on \notin {"fd", "fd2"}
  BY <1>1, <1>2, SaysAccept
<1>4. Kinds /\ Files /\ Descriptors(u) /\ test[u] # "none"
  BY <1>1, OnTheWay DEF IInv, Kinds
<1>5. Frame(u) /\ todo'[u] = Tail(todo[u])
  BY <1>4 DEF DoSocket, Advance, Frame, Kinds, With, Calls
<1>6. /\ fds' = [fds EXCEPT ![u] = Put(@, {c.on}, [file |-> WorkFile, pos |-> 0])]
      /\ todo' = [todo EXCEPT ![u] = Tail(@)] /\ UNCHANGED <<held, kids, ipc, disk, faults>>
  BY <1>1 DEF DoSocket, Advance, Calls, On, File, With, clear_ipc
<1>7. Kinds' /\ UNCHANGED <<held, kids, ipc, disk, faults>>
  BY <1>3, <1>4, <1>6 DEF Kinds, Files
<1>8. fds'[u] = Put(fds[u], {c.on}, [file |-> WorkFile, pos |-> 0])
  BY <1>4, <1>6 DEF Kinds
<1>9. /\ DOMAIN fds'[u] = DOMAIN fds[u] \cup {c.on}
      /\ \A x \in DOMAIN fds'[u] : fds'[u][x] = IF x \in {c.on} THEN [file |-> WorkFile, pos |-> 0] ELSE fds[u][x]
  BY <1>7, <1>8 DEF Put
<1>10. Descriptors(u)'
  BY <1>4, <1>7, <1>8, <1>9 DEF Descriptors, Put
<1>11. Touches(u)
  BY <1>7 DEF Touches, Kinds, Files
<1>12. Within(u, s.may)'
  BY <1>2, <1>3, <1>5, <1>7, <1>9, SameNames, Different DEF Matches, Within, Has, Frame
<1>13. faults' = 0 => HasAll(u, s.must)'
  BY <1>2, <1>3, <1>5, <1>7, <1>9, SameNames, Different DEF Matches, HasAll, Has, Frame
<1>14. /\ Entry("temp") \in s.must => Entry("temp") \in a.must
       /\ FileOf(u, "temp") \in DOMAIN disk =>
            FileOf(u, "temp") \in DOMAIN disk' /\ disk[FileOf(u, "temp")] <= disk'[FileOf(u, "temp")]
  BY <1>3, <1>4, <1>7, Different DEF Has, Files
<1>15. Where(u, s)'
  BY <1>2, <1>3, <1>4, <1>5, <1>7, <1>9, <1>14, WhereKept
<1>16. Opened(u, s.must)'
  BY <1>2, <1>3, <1>9, Different DEF Matches, Opened, Has
<1> QED
  BY <1>2, <1>4, <1>5, <1>7, <1>10, <1>11, <1>12, <1>13, <1>15, <1>16, CallDone

\* After malloc() and the like the user is still on its way.
LEMMA AllocDone ==
  ASSUME IInv, NEW u \in User, DoMemory(u), Calls(u, "alloc")
  PROVE  Done(u)
<1> DEFINE c == Current(u)
<1>1. todo[u] # <<>> /\ c.op = "alloc"
  BY DEF DoMemory, Calls
<1>2. PICK a, s, e : /\ Matches(u, a) /\ Bounded(a) /\ e.may = {}
                     /\ Step(Profile(test[u]), a, c, s)
                     /\ Path(Profile(test[u]), Tail(todo[u]), s, e)
  BY <1>1, OnTheWay
<1>3. Bounded(s) /\ Keeps(a, s) /\ Has(a, {Mem(c.on)}, {}, s) /\ c.on \in MemNames
  BY <1>1, <1>2, SaysAlloc
<1>4. Kinds /\ Files /\ Descriptors(u) /\ test[u] # "none"
  BY <1>1, OnTheWay DEF IInv, Kinds
<1>5. Frame(u) /\ todo'[u] = Tail(todo[u])
  BY <1>4 DEF DoMemory, Advance, Frame, Kinds, Calls
<1>6. /\ held' = [held EXCEPT ![u] = @ \cup {c.on}] /\ todo' = [todo EXCEPT ![u] = Tail(@)]
      /\ UNCHANGED <<fds, kids, ipc, disk, faults>>
  BY <1>1 DEF DoMemory, Advance, Calls, On, File, With, clear_ipc
<1>7. Kinds' /\ UNCHANGED <<fds, kids, ipc, disk, faults>>
  BY <1>3, <1>4, <1>6 DEF Kinds, Files, MemNames
<1>8. held'[u] = held[u] \cup {c.on}
  BY <1>4, <1>6 DEF Kinds
<1>9. fds'[u] = fds[u] /\ held'[u] = held[u] \cup {c.on}
  BY <1>7, <1>8
<1>10. Descriptors(u)'
  BY <1>4, <1>7, <1>8, <1>9 DEF Descriptors
<1>11. Touches(u)
  BY <1>7 DEF Touches, Kinds, Files
<1>12. Within(u, s.may)'
  BY <1>2, <1>3, <1>5, <1>7, <1>9, SameNames, Different DEF Matches, Within, Has, Frame
<1>13. faults' = 0 => HasAll(u, s.must)'
  BY <1>2, <1>3, <1>5, <1>7, <1>9, SameNames, Different DEF Matches, HasAll, Has, Frame
<1>14. /\ Entry("temp") \in s.must => Entry("temp") \in a.must
       /\ FileOf(u, "temp") \in DOMAIN disk =>
            FileOf(u, "temp") \in DOMAIN disk' /\ disk[FileOf(u, "temp")] <= disk'[FileOf(u, "temp")]
  BY <1>3, <1>4, <1>7, Different DEF Has, Files
<1>15. Where(u, s)'
  BY <1>2, <1>3, <1>4, <1>5, <1>7, <1>9, <1>14, WhereKept
<1>16. Opened(u, s.must)'
  BY <1>2, <1>3, <1>9, Different DEF Matches, Opened, Has
<1> QED
  BY <1>2, <1>4, <1>5, <1>7, <1>10, <1>11, <1>12, <1>13, <1>15, <1>16, CallDone

\* After free() and the like the user is still on its way.
LEMMA FreeDone ==
  ASSUME IInv, NEW u \in User, DoMemory(u), Calls(u, "free")
  PROVE  Done(u)
<1> DEFINE c == Current(u)
<1>1. todo[u] # <<>> /\ c.op = "free"
  BY DEF DoMemory, Calls
<1>2. PICK a, s, e : /\ Matches(u, a) /\ Bounded(a) /\ e.may = {}
                     /\ Step(Profile(test[u]), a, c, s)
                     /\ Path(Profile(test[u]), Tail(todo[u]), s, e)
  BY <1>1, OnTheWay
<1>3. Bounded(s) /\ Keeps(a, s) /\ Has(a, {}, {Mem(c.on)}, s)
  BY <1>1, <1>2, SaysFree
<1>4. Kinds /\ Files /\ Descriptors(u) /\ test[u] # "none"
  BY <1>1, OnTheWay DEF IInv, Kinds
<1>5. Frame(u) /\ todo'[u] = Tail(todo[u])
  BY <1>4 DEF DoMemory, Advance, Frame, Kinds, Calls
<1>6. /\ held' = [held EXCEPT ![u] = @ \ {c.on}] /\ todo' = [todo EXCEPT ![u] = Tail(@)]
      /\ UNCHANGED <<fds, kids, ipc, disk, faults>>
  BY <1>1 DEF DoMemory, Advance, Calls, On, File, With, clear_ipc
<1>7. Kinds' /\ UNCHANGED <<fds, kids, ipc, disk, faults>>
  BY <1>3, <1>4, <1>6 DEF Kinds, Files, MemNames
<1>8. held'[u] = held[u] \ {c.on}
  BY <1>4, <1>6 DEF Kinds
<1>9. fds'[u] = fds[u] /\ held'[u] = held[u] \ {c.on}
  BY <1>7, <1>8
<1>10. Descriptors(u)'
  BY <1>4, <1>7, <1>8, <1>9 DEF Descriptors
<1>11. Touches(u)
  BY <1>7 DEF Touches, Kinds, Files
<1>12. Within(u, s.may)'
  BY <1>2, <1>3, <1>5, <1>7, <1>9, SameNames, Different DEF Matches, Within, Has, Frame
<1>13. faults' = 0 => HasAll(u, s.must)'
  BY <1>2, <1>3, <1>5, <1>7, <1>9, SameNames, Different DEF Matches, HasAll, Has, Frame
<1>14. /\ Entry("temp") \in s.must => Entry("temp") \in a.must
       /\ FileOf(u, "temp") \in DOMAIN disk =>
            FileOf(u, "temp") \in DOMAIN disk' /\ disk[FileOf(u, "temp")] <= disk'[FileOf(u, "temp")]
  BY <1>3, <1>4, <1>7, Different DEF Has, Files
<1>15. Where(u, s)'
  BY <1>2, <1>3, <1>4, <1>5, <1>7, <1>9, <1>14, WhereKept
<1>16. Opened(u, s.must)'
  BY <1>2, <1>3, <1>9, Different DEF Matches, Opened, Has
<1> QED
  BY <1>2, <1>4, <1>5, <1>7, <1>10, <1>11, <1>12, <1>13, <1>15, <1>16, CallDone

\* After a call that changes nothing the user is still on its way.
LEMMA TryDone ==
  ASSUME IInv, NEW u \in User, DoTry(u)
  PROVE  Done(u)
<1> DEFINE c == Current(u)
<1>1. todo[u] # <<>> /\ c.op \in {"try", "shmat", "copy", "semctl", "send", "receive"}
  BY DEF DoTry, Calls
<1>2. PICK a, s, e : /\ Matches(u, a) /\ Bounded(a) /\ e.may = {}
                     /\ Step(Profile(test[u]), a, c, s)
                     /\ Path(Profile(test[u]), Tail(todo[u]), s, e)
  BY <1>1, OnTheWay
<1>3. Bounded(s) /\ Keeps(a, s) /\ Has(a, {}, {}, s)
  BY <1>1, <1>2, SaysTry
<1>4. Kinds /\ Files /\ Descriptors(u) /\ test[u] # "none"
  BY <1>1, OnTheWay DEF IInv, Kinds
<1>5. Frame(u) /\ todo'[u] = Tail(todo[u])
  BY <1>4 DEF DoTry, Advance, Frame, Kinds
<1>6. todo' = [todo EXCEPT ![u] = Tail(@)] /\ UNCHANGED <<fds, held, kids, ipc, disk, faults>>
  BY <1>1 DEF DoTry, Advance, Calls, On, File, With, clear_ipc
<1>7. Kinds' /\ UNCHANGED <<fds, held, kids, ipc, disk, faults>>
  BY <1>3, <1>4, <1>6 DEF Kinds, Files
<1>8. fds'[u] = fds[u]
  BY <1>7
<1>9. Descriptors(u)'
  BY <1>4, <1>7, <1>8 DEF Descriptors
<1>10. Touches(u)
  BY <1>7 DEF Touches, Kinds, Files
<1>11. Within(u, s.may)'
  BY <1>2, <1>3, <1>5, <1>7, <1>8, SameNames, Different DEF Matches, Within, Has, Frame
<1>12. faults' = 0 => HasAll(u, s.must)'
  BY <1>2, <1>3, <1>5, <1>7, <1>8, SameNames, Different DEF Matches, HasAll, Has, Frame
<1>13. /\ Entry("temp") \in s.must => Entry("temp") \in a.must
       /\ FileOf(u, "temp") \in DOMAIN disk =>
            FileOf(u, "temp") \in DOMAIN disk' /\ disk[FileOf(u, "temp")] <= disk'[FileOf(u, "temp")]
  BY <1>3, <1>4, <1>7, Different DEF Has, Files
<1>14. Where(u, s)'
  BY <1>2, <1>3, <1>4, <1>5, <1>7, <1>8, <1>13, WhereKept
<1>15. Opened(u, s.must)'
  BY <1>2, <1>3, <1>8, Different DEF Matches, Opened, Has
<1> QED
  BY <1>2, <1>4, <1>5, <1>7, <1>9, <1>10, <1>11, <1>12, <1>14, <1>15, CallDone

\* After fork() the user is still on its way.
LEMMA ForkDone ==
  ASSUME IInv, NEW u \in User, DoFork(u)
  PROVE  Done(u)
<1> DEFINE c == Current(u)
<1>1. todo[u] # <<>> /\ c.op = "fork"
  BY DEF DoFork, Calls
<1>2. PICK a, s, e : /\ Matches(u, a) /\ Bounded(a) /\ e.may = {}
                     /\ Step(Profile(test[u]), a, c, s)
                     /\ Path(Profile(test[u]), Tail(todo[u]), s, e)
  BY <1>1, OnTheWay
<1>3. Bounded(s) /\ Keeps(a, s) /\ Has(a, {Kid}, {}, s)
  BY <1>1, <1>2, SaysFork
<1>4. Kinds /\ Files /\ Descriptors(u) /\ test[u] # "none"
  BY <1>1, OnTheWay DEF IInv, Kinds
<1>5. Frame(u) /\ todo'[u] = Tail(todo[u])
  BY <1>4 DEF DoFork, Advance, Frame, Kinds
<1>6. kids[u] = 0
  BY <1>1, <1>2, <1>4 DEF Step, CleansUp, Matches, Within, Kinds
<1>7. /\ kids' = [kids EXCEPT ![u] = @ + 1] /\ todo' = [todo EXCEPT ![u] = Tail(@)]
      /\ UNCHANGED <<fds, held, ipc, disk, faults>>
  BY <1>1 DEF DoFork, Advance, Calls, On, File, With, clear_ipc
<1>8. kids' = [kids EXCEPT ![u] = 1]
  BY <1>4, <1>6, <1>7 DEF Kinds
<1>9. Kinds' /\ UNCHANGED <<fds, held, ipc, disk, faults>>
  BY <1>3, <1>4, <1>7, <1>8 DEF Kinds, Files
<1>10. kids'[u] = 1
  BY <1>4, <1>6, <1>7 DEF Kinds
<1>11. fds'[u] = fds[u] /\ kids'[u] = 1
  BY <1>9, <1>10
<1>12. Descriptors(u)'
  BY <1>4, <1>9, <1>10, <1>11 DEF Descriptors
<1>13. Touches(u)
  BY <1>9 DEF Touches, Kinds, Files
<1>14. Within(u, s.may)'
  BY <1>2, <1>3, <1>5, <1>9, <1>11, SameNames, Different DEF Matches, Within, Has, Frame
<1>15. faults' = 0 => HasAll(u, s.must)'
  BY <1>2, <1>3, <1>5, <1>9, <1>11, SameNames, Different DEF Matches, HasAll, Has, Frame
<1>16. /\ Entry("temp") \in s.must => Entry("temp") \in a.must
       /\ FileOf(u, "temp") \in DOMAIN disk =>
            FileOf(u, "temp") \in DOMAIN disk' /\ disk[FileOf(u, "temp")] <= disk'[FileOf(u, "temp")]
  BY <1>3, <1>4, <1>9, Different DEF Has, Files
<1>17. Where(u, s)'
  BY <1>2, <1>3, <1>4, <1>5, <1>9, <1>11, <1>16, WhereKept
<1>18. Opened(u, s.must)'
  BY <1>2, <1>3, <1>11, Different DEF Matches, Opened, Has
<1> QED
  BY <1>2, <1>4, <1>5, <1>9, <1>12, <1>13, <1>14, <1>15, <1>17, <1>18, CallDone

\* After wait() the user is still on its way.
LEMMA WaitDone ==
  ASSUME IInv, NEW u \in User, DoWait(u)
  PROVE  Done(u)
<1> DEFINE c == Current(u)
<1>1. todo[u] # <<>> /\ c.op = "wait"
  BY DEF DoWait, Calls
<1>2. PICK a, s, e : /\ Matches(u, a) /\ Bounded(a) /\ e.may = {}
                     /\ Step(Profile(test[u]), a, c, s)
                     /\ Path(Profile(test[u]), Tail(todo[u]), s, e)
  BY <1>1, OnTheWay
<1>3. Bounded(s) /\ Keeps(a, s) /\ Has(a, {}, {Kid}, s)
  BY <1>1, <1>2, SaysWait
<1>4. Kinds /\ Files /\ Descriptors(u) /\ test[u] # "none"
  BY <1>1, OnTheWay DEF IInv, Kinds
<1>5. Frame(u) /\ todo'[u] = Tail(todo[u])
  BY <1>4 DEF DoWait, Advance, Frame, Kinds
<1>6. todo' = [todo EXCEPT ![u] = Tail(@)] /\ UNCHANGED <<fds, held, kids, ipc, disk, faults>>
  BY <1>1 DEF DoWait, Advance, Calls, On, File, With, clear_ipc
<1>7. Kinds' /\ UNCHANGED <<fds, held, kids, ipc, disk, faults>>
  BY <1>3, <1>4, <1>6 DEF Kinds, Files
<1>8. kids[u] = 0
  BY <1>4, <1>6 DEF Kinds, DoWait
<1>9. fds'[u] = fds[u] /\ kids'[u] = 0
  BY <1>7, <1>8
<1>10. Descriptors(u)'
  BY <1>4, <1>7, <1>8, <1>9 DEF Descriptors
<1>11. Touches(u)
  BY <1>7 DEF Touches, Kinds, Files
<1>12. Within(u, s.may)'
  BY <1>2, <1>3, <1>5, <1>7, <1>9, SameNames, Different DEF Matches, Within, Has, Frame
<1>13. faults' = 0 => HasAll(u, s.must)'
  BY <1>2, <1>3, <1>5, <1>7, <1>9, SameNames, Different DEF Matches, HasAll, Has, Frame
<1>14. /\ Entry("temp") \in s.must => Entry("temp") \in a.must
       /\ FileOf(u, "temp") \in DOMAIN disk =>
            FileOf(u, "temp") \in DOMAIN disk' /\ disk[FileOf(u, "temp")] <= disk'[FileOf(u, "temp")]
  BY <1>3, <1>4, <1>7, Different DEF Has, Files
<1>15. Where(u, s)'
  BY <1>2, <1>3, <1>4, <1>5, <1>7, <1>9, <1>14, WhereKept
<1>16. Opened(u, s.must)'
  BY <1>2, <1>3, <1>9, Different DEF Matches, Opened, Has
<1> QED
  BY <1>2, <1>4, <1>5, <1>7, <1>10, <1>11, <1>12, <1>13, <1>15, <1>16, CallDone

\* After shmget() the user is still on its way.
LEMMA ShmGetDone ==
  ASSUME IInv, NEW u \in User, DoShmGet(u)
  PROVE  Done(u)
<1> DEFINE c == Current(u)
<1>1. todo[u] # <<>> /\ c.op = "shmget"
  BY DEF DoShmGet, Calls
<1>2. PICK a, s, e : /\ Matches(u, a) /\ Bounded(a) /\ e.may = {}
                     /\ Step(Profile(test[u]), a, c, s)
                     /\ Path(Profile(test[u]), Tail(todo[u]), s, e)
  BY <1>1, OnTheWay
<1>3. Bounded(s) /\ Keeps(a, s) /\ Has(a, {Ipc("shm")}, {}, s) /\ Profile(test[u]).ipc
  BY <1>1, <1>2, SaysShmGet
<1>4. Kinds /\ Files /\ Descriptors(u) /\ test[u] # "none"
  BY <1>1, OnTheWay DEF IInv, Kinds
<1>5. Frame(u) /\ todo'[u] = Tail(todo[u])
  BY <1>4 DEF DoShmGet, Advance, Frame, Kinds
<1>6. /\ ipc' = [ipc EXCEPT ![u] = @ \cup {"shm"}] /\ todo' = [todo EXCEPT ![u] = Tail(@)]
      /\ UNCHANGED <<fds, held, kids, disk, faults>>
  BY <1>1 DEF DoShmGet, Advance, Calls, On, File, With, clear_ipc
<1>7. Kinds' /\ UNCHANGED <<fds, held, kids, disk, faults>>
  BY <1>3, <1>4, <1>6 DEF Kinds, Files
<1>8. ipc'[u] = ipc[u] \cup {"shm"}
  BY <1>4, <1>6 DEF Kinds
<1>9. fds'[u] = fds[u] /\ ipc'[u] = ipc[u] \cup {"shm"}
  BY <1>7, <1>8
<1>10. Descriptors(u)'
  BY <1>4, <1>7, <1>8, <1>9 DEF Descriptors
<1>11. Touches(u)
  BY <1>7 DEF Touches, Kinds, Files
<1>12. Within(u, s.may)'
  BY <1>2, <1>3, <1>5, <1>7, <1>9, SameNames, Different DEF Matches, Within, Has, Frame
<1>13. faults' = 0 => HasAll(u, s.must)'
  BY <1>2, <1>3, <1>5, <1>7, <1>9, SameNames, Different DEF Matches, HasAll, Has, Frame
<1>14. /\ Entry("temp") \in s.must => Entry("temp") \in a.must
       /\ FileOf(u, "temp") \in DOMAIN disk =>
            FileOf(u, "temp") \in DOMAIN disk' /\ disk[FileOf(u, "temp")] <= disk'[FileOf(u, "temp")]
  BY <1>3, <1>4, <1>7, Different DEF Has, Files
<1>15. Where(u, s)'
  BY <1>2, <1>3, <1>4, <1>5, <1>7, <1>9, <1>14, WhereKept
<1>16. test[u] = "shared_memory"
  BY <1>3 DEF Profile
<1>17. Opened(u, s.must)'
  BY <1>2, <1>3, <1>9, Different DEF Matches, Opened, Has
<1> QED
  BY <1>2, <1>4, <1>5, <1>7, <1>10, <1>11, <1>12, <1>13, <1>15, <1>16, <1>17, CallDone

\* After semget() the user is still on its way.
LEMMA SemGetDone ==
  ASSUME IInv, NEW u \in User, DoSemGet(u)
  PROVE  Done(u)
<1> DEFINE c == Current(u)
<1>1. todo[u] # <<>> /\ c.op = "semget"
  BY DEF DoSemGet, Calls
<1>2. PICK a, s, e : /\ Matches(u, a) /\ Bounded(a) /\ e.may = {}
                     /\ Step(Profile(test[u]), a, c, s)
                     /\ Path(Profile(test[u]), Tail(todo[u]), s, e)
  BY <1>1, OnTheWay
<1>3. Bounded(s) /\ Keeps(a, s) /\ Has(a, {Ipc("sem")}, {}, s) /\ Profile(test[u]).ipc
  BY <1>1, <1>2, SaysSemGet
<1>4. Kinds /\ Files /\ Descriptors(u) /\ test[u] # "none"
  BY <1>1, OnTheWay DEF IInv, Kinds
<1>5. Frame(u) /\ todo'[u] = Tail(todo[u])
  BY <1>4 DEF DoSemGet, Advance, Frame, Kinds
<1>6. /\ ipc' = [ipc EXCEPT ![u] = @ \cup {"sem"}] /\ todo' = [todo EXCEPT ![u] = Tail(@)]
      /\ UNCHANGED <<fds, held, kids, disk, faults>>
  BY <1>1 DEF DoSemGet, Advance, Calls, On, File, With, clear_ipc
<1>7. Kinds' /\ UNCHANGED <<fds, held, kids, disk, faults>>
  BY <1>3, <1>4, <1>6 DEF Kinds, Files
<1>8. ipc'[u] = ipc[u] \cup {"sem"}
  BY <1>4, <1>6 DEF Kinds
<1>9. fds'[u] = fds[u] /\ ipc'[u] = ipc[u] \cup {"sem"}
  BY <1>7, <1>8
<1>10. Descriptors(u)'
  BY <1>4, <1>7, <1>8, <1>9 DEF Descriptors
<1>11. Touches(u)
  BY <1>7 DEF Touches, Kinds, Files
<1>12. Within(u, s.may)'
  BY <1>2, <1>3, <1>5, <1>7, <1>9, SameNames, Different DEF Matches, Within, Has, Frame
<1>13. faults' = 0 => HasAll(u, s.must)'
  BY <1>2, <1>3, <1>5, <1>7, <1>9, SameNames, Different DEF Matches, HasAll, Has, Frame
<1>14. /\ Entry("temp") \in s.must => Entry("temp") \in a.must
       /\ FileOf(u, "temp") \in DOMAIN disk =>
            FileOf(u, "temp") \in DOMAIN disk' /\ disk[FileOf(u, "temp")] <= disk'[FileOf(u, "temp")]
  BY <1>3, <1>4, <1>7, Different DEF Has, Files
<1>15. Where(u, s)'
  BY <1>2, <1>3, <1>4, <1>5, <1>7, <1>9, <1>14, WhereKept
<1>16. test[u] = "shared_memory"
  BY <1>3 DEF Profile
<1>17. Opened(u, s.must)'
  BY <1>2, <1>3, <1>9, Different DEF Matches, Opened, Has
<1> QED
  BY <1>2, <1>4, <1>5, <1>7, <1>10, <1>11, <1>12, <1>13, <1>15, <1>16, <1>17, CallDone

\* After semop() that takes the semaphore the user is still on its way.
LEMMA SemWaitDone ==
  ASSUME IInv, NEW u \in User, DoSemOp(u), On(u) = "wait"
  PROVE  Done(u)
<1> DEFINE c == Current(u)
<1>1. todo[u] # <<>> /\ c.op = "semop"
  BY DEF DoSemOp, Calls
<1>2. PICK a, s, e : /\ Matches(u, a) /\ Bounded(a) /\ e.may = {}
                     /\ Step(Profile(test[u]), a, c, s)
                     /\ Path(Profile(test[u]), Tail(todo[u]), s, e)
  BY <1>1, OnTheWay
<1>3. Bounded(s) /\ Keeps(a, s) /\ Has(a, {Ipc("taken")}, {}, s) /\ Profile(test[u]).ipc
  BY <1>1, <1>2, SaysSemOp DEF On
<1>4. Kinds /\ Files /\ Descriptors(u) /\ test[u] # "none"
  BY <1>1, OnTheWay DEF IInv, Kinds
<1>5. Frame(u) /\ todo'[u] = Tail(todo[u])
  BY <1>4 DEF DoSemOp, Advance, Frame, Kinds
<1>6. /\ ipc' = [ipc EXCEPT ![u] = @ \cup {"taken"}] /\ todo' = [todo EXCEPT ![u] = Tail(@)]
      /\ UNCHANGED <<fds, held, kids, disk, faults>>
  BY <1>1 DEF DoSemOp, Advance, Calls, On, File, With, clear_ipc
<1>7. Kinds' /\ UNCHANGED <<fds, held, kids, disk, faults>>
  BY <1>3, <1>4, <1>6 DEF Kinds, Files
<1>8. ipc'[u] = ipc[u] \cup {"taken"}
  BY <1>4, <1>6 DEF Kinds
<1>9. fds'[u] = fds[u] /\ ipc'[u] = ipc[u] \cup {"taken"}
  BY <1>7, <1>8
<1>10. Descriptors(u)'
  BY <1>4, <1>7, <1>8, <1>9 DEF Descriptors
<1>11. Touches(u)
  BY <1>7 DEF Touches, Kinds, Files
<1>12. Within(u, s.may)'
  BY <1>2, <1>3, <1>5, <1>7, <1>9, SameNames, Different DEF Matches, Within, Has, Frame
<1>13. faults' = 0 => HasAll(u, s.must)'
  BY <1>2, <1>3, <1>5, <1>7, <1>9, SameNames, Different DEF Matches, HasAll, Has, Frame
<1>14. /\ Entry("temp") \in s.must => Entry("temp") \in a.must
       /\ FileOf(u, "temp") \in DOMAIN disk =>
            FileOf(u, "temp") \in DOMAIN disk' /\ disk[FileOf(u, "temp")] <= disk'[FileOf(u, "temp")]
  BY <1>3, <1>4, <1>7, Different DEF Has, Files
<1>15. Where(u, s)'
  BY <1>2, <1>3, <1>4, <1>5, <1>7, <1>9, <1>14, WhereKept
<1>16. test[u] = "shared_memory"
  BY <1>3 DEF Profile
<1>17. Opened(u, s.must)'
  BY <1>2, <1>3, <1>9, Different DEF Matches, Opened, Has
<1> QED
  BY <1>2, <1>4, <1>5, <1>7, <1>10, <1>11, <1>12, <1>13, <1>15, <1>16, <1>17, CallDone

\* After semop() that gives it back the user is still on its way.
LEMMA SemSignalDone ==
  ASSUME IInv, NEW u \in User, DoSemOp(u), On(u) = "signal"
  PROVE  Done(u)
<1> DEFINE c == Current(u)
<1>1. todo[u] # <<>> /\ c.op = "semop"
  BY DEF DoSemOp, Calls
<1>2. PICK a, s, e : /\ Matches(u, a) /\ Bounded(a) /\ e.may = {}
                     /\ Step(Profile(test[u]), a, c, s)
                     /\ Path(Profile(test[u]), Tail(todo[u]), s, e)
  BY <1>1, OnTheWay
<1>3. Bounded(s) /\ Keeps(a, s) /\ Has(a, {}, {Ipc("taken")}, s) /\ Profile(test[u]).ipc
  BY <1>1, <1>2, SaysSemOp DEF On
<1>4. Kinds /\ Files /\ Descriptors(u) /\ test[u] # "none"
  BY <1>1, OnTheWay DEF IInv, Kinds
<1>5. Frame(u) /\ todo'[u] = Tail(todo[u])
  BY <1>4 DEF DoSemOp, Advance, Frame, Kinds
<1>6. /\ ipc' = [ipc EXCEPT ![u] = @ \ {"taken"}] /\ todo' = [todo EXCEPT ![u] = Tail(@)]
      /\ UNCHANGED <<fds, held, kids, disk, faults>>
  BY <1>1 DEF DoSemOp, Advance, Calls, On, File, With, clear_ipc
<1>7. Kinds' /\ UNCHANGED <<fds, held, kids, disk, faults>>
  BY <1>3, <1>4, <1>6 DEF Kinds, Files
<1>8. ipc'[u] = ipc[u] \ {"taken"}
  BY <1>4, <1>6 DEF Kinds
<1>9. fds'[u] = fds[u] /\ ipc'[u] = ipc[u] \ {"taken"}
  BY <1>7, <1>8
<1>10. Descriptors(u)'
  BY <1>4, <1>7, <1>8, <1>9 DEF Descriptors
<1>11. Touches(u)
  BY <1>7 DEF Touches, Kinds, Files
<1>12. Within(u, s.may)'
  BY <1>2, <1>3, <1>5, <1>7, <1>9, SameNames, Different DEF Matches, Within, Has, Frame
<1>13. faults' = 0 => HasAll(u, s.must)'
  BY <1>2, <1>3, <1>5, <1>7, <1>9, SameNames, Different DEF Matches, HasAll, Has, Frame
<1>14. /\ Entry("temp") \in s.must => Entry("temp") \in a.must
       /\ FileOf(u, "temp") \in DOMAIN disk =>
            FileOf(u, "temp") \in DOMAIN disk' /\ disk[FileOf(u, "temp")] <= disk'[FileOf(u, "temp")]
  BY <1>3, <1>4, <1>7, Different DEF Has, Files
<1>15. Where(u, s)'
  BY <1>2, <1>3, <1>4, <1>5, <1>7, <1>9, <1>14, WhereKept
<1>16. test[u] = "shared_memory"
  BY <1>3 DEF Profile
<1>17. Opened(u, s.must)'
  BY <1>2, <1>3, <1>9, Different DEF Matches, Opened, Has
<1> QED
  BY <1>2, <1>4, <1>5, <1>7, <1>10, <1>11, <1>12, <1>13, <1>15, <1>16, <1>17, CallDone

\* After clear_ipc() the user is still on its way.
LEMMA ClearDone ==
  ASSUME IInv, NEW u \in User, DoClear(u)
  PROVE  Done(u)
<1> DEFINE c == Current(u)
<1>1. todo[u] # <<>> /\ c.op = "clear"
  BY DEF DoClear, Calls
<1>2. PICK a, s, e : /\ Matches(u, a) /\ Bounded(a) /\ e.may = {}
                     /\ Step(Profile(test[u]), a, c, s)
                     /\ Path(Profile(test[u]), Tail(todo[u]), s, e)
  BY <1>1, OnTheWay
<1>3. Bounded(s) /\ Keeps(a, s) /\ Has(a, {}, {Ipc("shm"), Ipc("sem"), Ipc("taken")}, s)
  BY <1>1, <1>2, SaysClear
<1>4. Kinds /\ Files /\ Descriptors(u) /\ test[u] # "none"
  BY <1>1, OnTheWay DEF IInv, Kinds
<1>5. Frame(u) /\ todo'[u] = Tail(todo[u])
  BY <1>4 DEF DoClear, Advance, Frame, Kinds, clear_ipc
<1>6. /\ ipc' = [ipc EXCEPT ![u] = {}] /\ todo' = [todo EXCEPT ![u] = Tail(@)]
      /\ UNCHANGED <<fds, held, kids, disk, faults>>
  BY <1>1 DEF DoClear, Advance, Calls, On, File, With, clear_ipc
<1>7. Kinds' /\ UNCHANGED <<fds, held, kids, disk, faults>>
  BY <1>3, <1>4, <1>6 DEF Kinds, Files
<1>8. ipc'[u] = {}
  BY <1>4, <1>6 DEF Kinds
<1>9. fds'[u] = fds[u] /\ ipc'[u] = {}
  BY <1>7, <1>8
<1>10. Descriptors(u)'
  BY <1>4, <1>7, <1>8, <1>9 DEF Descriptors
<1>11. Touches(u)
  BY <1>7 DEF Touches, Kinds, Files
<1>12. Within(u, s.may)'
  BY <1>2, <1>3, <1>5, <1>7, <1>9, SameNames, Different DEF Matches, Within, Has, Frame
<1>13. ipc[u] \subseteq {"shm", "sem", "taken"}
  BY <1>4 DEF Kinds
<1>14. faults' = 0 => HasAll(u, s.must)'
  BY <1>2, <1>3, <1>5, <1>7, <1>9, <1>13, SameNames, Different DEF Matches, HasAll, Has, Frame
<1>15. /\ Entry("temp") \in s.must => Entry("temp") \in a.must
       /\ FileOf(u, "temp") \in DOMAIN disk =>
            FileOf(u, "temp") \in DOMAIN disk' /\ disk[FileOf(u, "temp")] <= disk'[FileOf(u, "temp")]
  BY <1>3, <1>4, <1>7, Different DEF Has, Files
<1>16. Where(u, s)'
  BY <1>2, <1>3, <1>4, <1>5, <1>7, <1>9, <1>15, WhereKept
<1>17. Opened(u, s.must)'
  BY <1>2, <1>3, <1>9, Different DEF Matches, Opened, Has
<1> QED
  BY <1>2, <1>4, <1>5, <1>7, <1>8, <1>10, <1>11, <1>12, <1>14, <1>16, <1>17, CallDone

\* After unlink() the user is still on its way.
LEMMA UnlinkDone ==
  ASSUME IInv, NEW u \in User, DoUnlink(u)
  PROVE  Done(u)
<1> DEFINE c == Current(u)
<1>1. todo[u] # <<>> /\ c.op \in {"unlink", "remove"}
  BY DEF DoUnlink, Calls
<1>2. PICK a, s, e : /\ Matches(u, a) /\ Bounded(a) /\ e.may = {}
                     /\ Step(Profile(test[u]), a, c, s)
                     /\ Path(Profile(test[u]), Tail(todo[u]), s, e)
  BY <1>1, OnTheWay
<1>3. /\ Bounded(s) /\ Keeps(a, s) /\ Has(a, {}, {Entry(c.file)}, s)
      /\ c.file \in Profile(test[u]).uses
  BY <1>1, <1>2, SaysUnlink
<1>4. Kinds /\ Files /\ Descriptors(u) /\ test[u] # "none"
  BY <1>1, OnTheWay DEF IInv, Kinds
<1>5. Frame(u) /\ todo'[u] = Tail(todo[u])
  BY <1>4 DEF DoUnlink, Advance, Frame, Kinds
<1>6. c.file \in Uses(test[u]) /\ c.file \in FileNames
  BY <1>3, UsesNames DEF Profile
<1>7. /\ disk' = Without(disk, {FileOf(u, c.file)}) /\ todo' = [todo EXCEPT ![u] = Tail(@)]
      /\ UNCHANGED <<fds, held, kids, ipc, faults>>
  BY <1>1 DEF DoUnlink, Advance, Calls, On, File, With, clear_ipc
<1>8. Kinds' /\ UNCHANGED <<fds, held, kids, ipc, faults>>
  BY <1>3, <1>4, <1>6, <1>7 DEF Kinds, Files, Without
<1>9. disk' = Without(disk, {FileOf(u, c.file)})
  BY <1>4, <1>7 DEF Kinds
<1>10. /\ DOMAIN disk' = DOMAIN disk \ {FileOf(u, c.file)} /\ fds'[u] = fds[u]
       /\ \A x \in DOMAIN disk' : disk'[x] = disk[x]
  BY <1>8, <1>9 DEF Without
<1>11. Descriptors(u)'
  BY <1>4, <1>8, <1>9, <1>10 DEF Descriptors
<1>12. Touches(u)
  BY <1>6, <1>8, <1>9, <1>10 DEF Touches, Kinds, Files
<1>13. Within(u, s.may)'
  BY <1>2, <1>3, <1>5, <1>6, <1>8, <1>10, FilesApart, UsesNames, SameNames, Different DEF Matches,
     Within, Has, Frame
<1>14. ASSUME faults' = 0 PROVE HasAll(u, s.must)'
  <2>1. HasAll(u, a.must)
    BY <1>2, <1>8, <1>14 DEF Matches
  <2>2. test'[u] = test[u] /\ ipc'[u] = ipc[u] /\ \A n : FileOf(u, n)' = FileOf(u, n)
    BY <1>5, <1>8, SameNames DEF Frame
  <2>3. ASSUME NEW n, Entry(n) \in s.must
        PROVE  n \in Uses(test[u]) /\ FileOf(u, n) \in DOMAIN disk'
    <3>1. Entry(n) \in a.must /\ n # c.file
      BY <1>3, <2>3, Different DEF Has
    <3>2. n \in Uses(test[u]) /\ FileOf(u, n) \in DOMAIN disk
      BY <2>1, <3>1 DEF HasAll
    <3>3. FileOf(u, n) # FileOf(u, c.file)
      BY <1>6, <3>1, <3>2, FilesApart, UsesNames
    <3> QED
      BY <1>10, <3>2, <3>3
  <2>4. \A x : (Fd(x) \in s.must => Fd(x) \in a.must) /\ (Ipc(x) \in s.must => Ipc(x) \in a.must)
    BY <1>3 DEF Has
  <2> QED
    BY <1>10, <2>1, <2>2, <2>3, <2>4 DEF HasAll
<1>15. Entry("temp") \in s.must =>
         /\ Entry("temp") \in a.must
         /\ FileOf(u, "temp") \in DOMAIN disk =>
            FileOf(u, "temp") \in DOMAIN disk' /\ disk[FileOf(u, "temp")] <= disk'[FileOf(u, "temp")]
  BY <1>3, <1>4, <1>6, <1>10, FilesApart, Different DEF Has, Files, FileNames, Kept
<1>16. Where(u, s)'
  BY <1>2, <1>3, <1>4, <1>5, <1>8, <1>10, <1>15, WhereKept
<1>17. Opened(u, s.must)'
  BY <1>2, <1>3, <1>10, Different DEF Matches, Opened, Has
<1> QED
  BY <1>2, <1>4, <1>5, <1>8, <1>11, <1>12, <1>13, <1>14, <1>16, <1>17, CallDone

\* After link() or mkfifo() the user is still on its way.
LEMMA MakeDone ==
  ASSUME IInv, NEW u \in User, DoMake(u)
  PROVE  Done(u)
<1> DEFINE c == Current(u)
<1>1. todo[u] # <<>> /\ c.op = "make"
  BY DEF DoMake, Calls
<1>2. PICK a, s, e : /\ Matches(u, a) /\ Bounded(a) /\ e.may = {}
                     /\ Step(Profile(test[u]), a, c, s)
                     /\ Path(Profile(test[u]), Tail(todo[u]), s, e)
  BY <1>1, OnTheWay
<1>3. /\ Bounded(s) /\ Keeps(a, s) /\ Has(a, {Entry(c.file)}, {}, s)
      /\ c.file \in Profile(test[u]).uses \ {"temp"} /\ Entry(c.file) \notin a.may
  BY <1>1, <1>2, SaysMake
<1>4. Kinds /\ Files /\ Descriptors(u) /\ test[u] # "none"
  BY <1>1, OnTheWay DEF IInv, Kinds
<1>5. Frame(u) /\ todo'[u] = Tail(todo[u])
  BY <1>4 DEF DoMake, Advance, Frame, Kinds
<1>6. c.file \in Uses(test[u]) /\ c.file \in FileNames
  BY <1>3, UsesNames DEF Profile
<1>7. /\ disk' = Put(disk, {FileOf(u, c.file)}, 0) /\ todo' = [todo EXCEPT ![u] = Tail(@)]
      /\ UNCHANGED <<fds, held, kids, ipc, faults>>
  BY <1>1 DEF DoMake, Advance, Calls, On, File, With, clear_ipc
<1>8. Kinds' /\ UNCHANGED <<fds, held, kids, ipc, faults>>
  BY <1>3, <1>4, <1>6, <1>7 DEF Kinds, Files, Put
<1>9. disk' = Put(disk, {FileOf(u, c.file)}, 0) /\ FileOf(u, c.file) \notin DOMAIN disk
  BY <1>4, <1>7 DEF Kinds, DoMake, File
<1>10. /\ DOMAIN disk' = DOMAIN disk \cup {FileOf(u, c.file)} /\ fds'[u] = fds[u]
       /\ \A x \in DOMAIN disk : disk'[x] = disk[x]
  BY <1>8, <1>9 DEF Put
<1>11. Descriptors(u)'
  BY <1>4, <1>8, <1>9, <1>10 DEF Descriptors
<1>12. Touches(u)
  BY <1>4, <1>6, <1>10 DEF Touches, Files
<1>13. Within(u, s.may)'
  BY <1>2, <1>3, <1>5, <1>6, <1>8, <1>10, FilesApart, UsesNames, SameNames, Different DEF Matches,
     Within, Has, Frame
<1>14. faults' = 0 => HasAll(u, s.must)'
  BY <1>2, <1>3, <1>5, <1>6, <1>8, <1>10, FilesApart, UsesNames, SameNames, Different DEF Matches,
     HasAll, Has, Frame
<1>15. FileOf(u, "temp") \in DOMAIN disk =>
         FileOf(u, "temp") \in DOMAIN disk' /\ disk[FileOf(u, "temp")] <= disk'[FileOf(u, "temp")]
  BY <1>4, <1>10 DEF Files
<1>16. Entry("temp") \in s.must => Entry("temp") \in a.must
  BY <1>3, Different DEF Has
<1>17. Where(u, s)'
  BY <1>2, <1>3, <1>4, <1>5, <1>8, <1>10, <1>15, <1>16, WhereKept
<1>18. Opened(u, s.must)'
  BY <1>2, <1>3, <1>10, Different DEF Matches, Opened, Has
<1> QED
  BY <1>2, <1>4, <1>5, <1>8, <1>11, <1>12, <1>13, <1>14, <1>17, <1>18, CallDone

(***************************************************************************)
(* The calls that move a descriptor, or make a file longer or empty.       *)
(***************************************************************************)

\* Descriptor fd, where it is.
LEMMA FdKept ==
  ASSUME NEW u, NEW a, NEW s, Where(u, a), Bounded(a), Bounded(s), Descriptors(u),
         s.lo <= a.lo, a.hi <= s.hi, s.file = a.file, "fd" \in DOMAIN fds[u]
  PROVE  /\ s.lo <= fds[u]["fd"].pos /\ fds[u]["fd"].pos <= s.hi
         /\ fds[u]["fd"].file = FileOf(u, s.file)
<1> DEFINE x == fds[u]["fd"].pos
<1>1. x \in Nat /\ a.lo <= x /\ x <= a.hi /\ fds[u]["fd"].file = FileOf(u, a.file)
  BY DEF Descriptors, Where
<1>2. s.lo \in Int /\ a.lo \in Int /\ a.hi \in Int /\ s.hi \in Int
  BY DEF Bounded
<1> HIDE DEF x
<1>3. s.lo <= x /\ x <= s.hi
  BY <1>1, <1>2
<1> QED
  BY <1>1, <1>3 DEF x

\* Descriptor fd moved on by a block.
LEMMA FdMoved ==
  ASSUME NEW u, NEW a, NEW s, Where(u, a), Bounded(a), Bounded(s), Descriptors(u),
         s.lo <= a.lo + 1, a.hi + 1 <= s.hi, s.file = a.file, "fd" \in DOMAIN fds[u]
  PROVE  /\ s.lo <= fds[u]["fd"].pos + 1 /\ fds[u]["fd"].pos + 1 <= s.hi
         /\ fds[u]["fd"].pos \in Nat /\ a.lo <= fds[u]["fd"].pos
         /\ fds[u]["fd"].file = FileOf(u, s.file)
<1> DEFINE x == fds[u]["fd"].pos
<1>1. x \in Nat /\ a.lo <= x /\ x <= a.hi /\ fds[u]["fd"].file = FileOf(u, a.file)
  BY DEF Descriptors, Where
<1>2. s.lo \in Int /\ a.lo \in Int /\ a.hi \in Int /\ s.hi \in Int
  BY DEF Bounded
<1> HIDE DEF x
<1>3. s.lo <= x + 1 /\ x + 1 <= s.hi
  BY <1>1, <1>2
<1> QED
  BY <1>1, <1>3 DEF x

\* Descriptor fd2, where it is or moved on by a block.
LEMMA Fd2Kept ==
  ASSUME NEW u, NEW a, NEW s, Where(u, a), Bounded(a), Bounded(s), Descriptors(u),
         "fd2" \in DOMAIN fds[u]
  PROVE  /\ a.top <= s.top => fds[u]["fd2"].pos <= s.top
         /\ a.top + 1 <= s.top => fds[u]["fd2"].pos + 1 <= s.top
         /\ fds[u]["fd2"].pos \in Nat
<1> DEFINE x == fds[u]["fd2"].pos
<1>1. x \in Nat /\ x <= a.top
  BY DEF Descriptors, Where
<1>2. s.top \in Int /\ a.top \in Int
  BY DEF Bounded
<1> HIDE DEF x
<1>3. (a.top <= s.top => x <= s.top) /\ (a.top + 1 <= s.top => x + 1 <= s.top)
  BY <1>1, <1>2
<1> QED
  BY <1>1, <1>3 DEF x

\* The file with the blocks does not get shorter.
LEMMA FileKept ==
  ASSUME NEW u, NEW a, NEW s, Matches(u, a), Bounded(a), Bounded(s), Files, Files', faults = 0,
         Entry("temp") \in a.must, s.size <= a.size,
         FileOf(u, "temp") \in DOMAIN disk =>
           FileOf(u, "temp") \in DOMAIN disk' /\ disk[FileOf(u, "temp")] <= disk'[FileOf(u, "temp")]
  PROVE  s.size <= disk'[FileOf(u, "temp")]
<1> DEFINE x == FileOf(u, "temp")
<1>1. x \in DOMAIN disk /\ a.size <= disk[x]
  BY DEF Matches, Where, HasAll
<1>2. disk[x] \in Nat /\ disk'[x] \in Nat /\ s.size \in Int /\ a.size \in Int /\ disk[x] <= disk'[x]
  BY <1>1 DEF Files, Bounded
<1> HIDE DEF x
<1>3. s.size <= disk'[x]
  BY <1>1, <1>2
<1> QED
  BY <1>3 DEF x

\* Where descriptors stand after a call, from its three parts.
LEMMA WhereShown ==
  ASSUME NEW u \in User, NEW s, Frame(u),
         "fd" \in DOMAIN fds'[u] => /\ s.lo <= fds'[u]["fd"].pos /\ fds'[u]["fd"].pos <= s.hi
                                    /\ fds'[u]["fd"].file = FileOf(u, s.file),
         "fd2" \in DOMAIN fds'[u] => fds'[u]["fd2"].pos <= s.top,
         faults' = 0 /\ Entry("temp") \in s.must => s.size <= disk'[FileOf(u, "temp")]
  PROVE  Where(u, s)'
<1>1. \A n : FileOf(u, n)' = FileOf(u, n)
  BY SameNames
<1> QED
  BY <1>1 DEF Where

\* After creat() the user is still on its way.
LEMMA CreatDone ==
  ASSUME IInv, NEW u \in User, DoCreat(u)
  PROVE  Done(u)
<1> DEFINE c == Current(u)
<1>1. todo[u] # <<>> /\ c.op = "creat"
  BY DEF DoCreat, Calls
<1>2. PICK a, s, e : /\ Matches(u, a) /\ Bounded(a) /\ e.may = {}
                     /\ Step(Profile(test[u]), a, c, s)
                     /\ Path(Profile(test[u]), Tail(todo[u]), s, e)
  BY <1>1, OnTheWay
<1>3. Kinds /\ Files /\ Descriptors(u) /\ test[u] # "none"
  BY <1>1, OnTheWay DEF IInv, Kinds
<1>4. Frame(u) /\ todo'[u] = Tail(todo[u])
  BY <1>3 DEF DoCreat, Advance, Frame, Kinds, With, Moves
<1>5. Where(u, a) /\ Opened(u, a.must) /\ Within(u, a.may) /\ (faults = 0 => HasAll(u, a.must))
  BY <1>2 DEF Matches
<1> DEFINE x == FileOf(u, c.file)
           r == [file |-> x, pos |-> 0]
<1>6. /\ Bounded(s) /\ c.file \in Profile(test[u]).uses /\ c.on \in {"fd", "fd2"}
      /\ Has(a, {Fd(c.on), Entry(c.file)}, {}, s)
      /\ c.on = "fd" => s.file = c.file /\ s.lo <= 0 /\ 0 <= s.hi /\ a.top <= s.top
      /\ c.on = "fd2" => s.file = a.file /\ s.lo <= a.lo /\ a.hi <= s.hi /\ 0 <= s.top
      /\ c.file = "temp" => s.size <= 0
      /\ c.file # "temp" => s.size <= a.size
  BY <1>1, <1>2, SaysCreat
<1>7. c.file \in Uses(test[u]) /\ c.file \in FileNames
  BY <1>6, UsesNames DEF Profile
<1>8. /\ fds' = [fds EXCEPT ![u] = Put(@, {c.on}, r)] /\ disk' = Put(disk, {x}, 0)
      /\ todo' = [todo EXCEPT ![u] = Tail(@)] /\ UNCHANGED <<held, kids, ipc, faults>>
  BY DEF DoCreat, Advance, On, File, With
<1> HIDE DEF x
<1>9. /\ fds'[u] = Put(fds[u], {c.on}, r) /\ DOMAIN fds'[u] = DOMAIN fds[u] \cup {c.on}
      /\ fds'[u][c.on] = r /\ \A y \in DOMAIN fds[u] \ {c.on} : fds'[u][y] = fds[u][y]
      /\ DOMAIN disk' = DOMAIN disk \cup {x} /\ disk'[x] = 0
      /\ \A y \in DOMAIN disk \ {x} : disk'[y] = disk[y]
  <2>1. fds'[u] = Put(fds[u], {c.on}, r)
    BY <1>3, <1>8 DEF Kinds
  <2> QED
    BY <1>8, <2>1 DEF Put
<1>10. Kinds'
  BY <1>3, <1>8 DEF Kinds, Files, Put
<1>11. Files /\ Files'
  BY <1>3, <1>10 DEF Kinds
<1>12. Descriptors(u)'
  BY <1>3, <1>6, <1>9 DEF Descriptors, Put
<1>13. Touches(u)
  <2>1. ASSUME NEW y \in DOMAIN disk, y # x PROVE y \in DOMAIN disk' /\ disk[y] <= disk'[y]
    BY <1>9, <1>11, <2>1 DEF Files
  <2> QED
    BY <1>7, <1>9, <2>1 DEF Touches, x
<1>14. Within(u, s.may)'
  <2>1. test'[u] = test[u] /\ \A n : FileOf(u, n)' = FileOf(u, n)
    BY <1>4, SameNames DEF Frame
  <2>2. \A n \in Uses(test[u]) : FileOf(u, n) \in DOMAIN disk' => Entry(n) \in s.may
    BY <1>5, <1>6, <1>7, <1>9, FilesApart, UsesNames DEF Within, Has, x
  <2>3. \A y \in DOMAIN fds'[u] : Fd(y) \in s.may
    BY <1>5, <1>6, <1>9 DEF Within, Has
  <2> QED
    BY <1>5, <1>6, <1>8, <2>1, <2>2, <2>3 DEF Within, Has
<1>15. faults' = 0 => HasAll(u, s.must)'
  <2> SUFFICES ASSUME faults' = 0 PROVE HasAll(u, s.must)'
    OBVIOUS
  <2>1. test'[u] = test[u] /\ \A n : FileOf(u, n)' = FileOf(u, n)
    BY <1>4, SameNames DEF Frame
  <2>2. HasAll(u, a.must)
    BY <1>5, <1>8
  <2>3. ASSUME NEW y, Fd(y) \in s.must PROVE y \in DOMAIN fds'[u]
    BY <1>6, <1>9, <2>2, <2>3, Different DEF HasAll, Has
  <2>4. ASSUME NEW w, Ipc(w) \in s.must PROVE w \in ipc'[u]
    <3>1. Ipc(w) \in a.must
      BY <1>6, <2>4, Different DEF Has
    <3> QED
      BY <1>8, <2>2, <3>1 DEF HasAll
  <2>5. ASSUME NEW n, Entry(n) \in s.must
        PROVE  n \in Uses(test[u]) /\ FileOf(u, n) \in DOMAIN disk'
    BY <1>6, <1>7, <1>9, <2>2, <2>5, Different DEF HasAll, Has, x
  <2> QED
    BY <2>1, <2>3, <2>4, <2>5 DEF HasAll
<1>16. Opened(u, s.must)'
  BY <1>5, <1>6, <1>9, Different DEF Opened, Has
<1>17. "fd" \in DOMAIN fds'[u] => /\ s.lo <= fds'[u]["fd"].pos /\ fds'[u]["fd"].pos <= s.hi
                                  /\ fds'[u]["fd"].file = FileOf(u, s.file)
  <2>1. CASE c.on = "fd"
    BY <1>6, <1>9, <2>1 DEF x
  <2>2. CASE c.on # "fd"
    <3> SUFFICES ASSUME "fd" \in DOMAIN fds'[u]
                 PROVE  /\ s.lo <= fds'[u]["fd"].pos /\ fds'[u]["fd"].pos <= s.hi
                        /\ fds'[u]["fd"].file = FileOf(u, s.file)
      OBVIOUS
    <3>1. "fd" \in DOMAIN fds[u] /\ fds'[u]["fd"] = fds[u]["fd"]
      BY <1>9, <2>2
    <3> QED
      BY <1>2, <1>3, <1>5, <1>6, <2>2, <3>1, FdKept
  <2> QED
    BY <2>1, <2>2
<1>18. "fd2" \in DOMAIN fds'[u] => fds'[u]["fd2"].pos <= s.top
  <2>1. CASE c.on = "fd2"
    BY <1>6, <1>9, <2>1
  <2>2. CASE c.on # "fd2"
    <3> SUFFICES ASSUME "fd2" \in DOMAIN fds'[u] PROVE fds'[u]["fd2"].pos <= s.top
      OBVIOUS
    <3>1. "fd2" \in DOMAIN fds[u] /\ fds'[u]["fd2"] = fds[u]["fd2"]
      BY <1>9, <2>2
    <3> QED
      BY <1>2, <1>3, <1>5, <1>6, <2>2, <3>1, Fd2Kept
  <2> QED
    BY <2>1, <2>2
<1>19. faults' = 0 /\ Entry("temp") \in s.must => s.size <= disk'[FileOf(u, "temp")]
  <2>1. CASE c.file = "temp"
    BY <1>6, <1>9, <2>1 DEF x
  <2>2. CASE c.file # "temp"
    <3> SUFFICES ASSUME faults' = 0, Entry("temp") \in s.must PROVE s.size <= disk'[FileOf(u, "temp")]
      OBVIOUS
    <3>1. Entry("temp") \in a.must /\ s.size <= a.size /\ faults = 0
      BY <1>6, <1>8, <2>2, Different DEF Has
    <3>2. FileOf(u, "temp") \in DOMAIN disk =>
            FileOf(u, "temp") \in DOMAIN disk' /\ disk[FileOf(u, "temp")] <= disk'[FileOf(u, "temp")]
      <4>1. FileOf(u, "temp") # x
        BY <1>7, <2>2, FilesApart DEF x, FileNames, Kept
      <4> QED
        BY <1>9, <1>11, <4>1 DEF Files
    <3> QED
      BY <1>2, <1>6, <1>11, <3>1, <3>2, FileKept
  <2> QED
    BY <2>1, <2>2
<1>20. Where(u, s)'
  BY <1>4, <1>17, <1>18, <1>19, WhereShown
<1> QED
  BY <1>2, <1>3, <1>4, <1>8, <1>10, <1>12, <1>13, <1>14, <1>15, <1>16, <1>20, CallDone

\* After open() the user is still on its way.
LEMMA OpenDone ==
  ASSUME IInv, NEW u \in User, DoOpen(u)
  PROVE  Done(u)
<1> DEFINE c == Current(u)
<1>1. todo[u] # <<>> /\ c.op = "open"
  BY DEF DoOpen, Calls
<1>2. PICK a, s, e : /\ Matches(u, a) /\ Bounded(a) /\ e.may = {}
                     /\ Step(Profile(test[u]), a, c, s)
                     /\ Path(Profile(test[u]), Tail(todo[u]), s, e)
  BY <1>1, OnTheWay
<1>3. Kinds /\ Files /\ Descriptors(u) /\ test[u] # "none"
  BY <1>1, OnTheWay DEF IInv, Kinds
<1>4. Frame(u) /\ todo'[u] = Tail(todo[u])
  BY <1>3 DEF DoOpen, Advance, Frame, Kinds, With, Moves
<1>5. Where(u, a) /\ Opened(u, a.must) /\ Within(u, a.may) /\ (faults = 0 => HasAll(u, a.must))
  BY <1>2 DEF Matches
<1> DEFINE x == FileOf(u, c.file)
           r == [file |-> x, pos |-> 0]
<1>6. /\ Bounded(s) /\ c.on \in {"fd", "fd2"} /\ Has(a, {Fd(c.on)}, {}, s)
      /\ c.on = "fd" => s.file = c.file /\ s.lo <= 0 /\ 0 <= s.hi /\ a.top <= s.top
      /\ c.on = "fd2" => s.file = a.file /\ s.lo <= a.lo /\ a.hi <= s.hi /\ 0 <= s.top
      /\ s.size <= a.size
  BY <1>1, <1>2, SaysOpen
<1>7. /\ fds' = [fds EXCEPT ![u] = Put(@, {c.on}, r)]
      /\ todo' = [todo EXCEPT ![u] = Tail(@)] /\ UNCHANGED <<held, kids, ipc, disk, faults>>
  BY DEF DoOpen, Advance, On, File, With
<1> HIDE DEF x
<1>8. /\ fds'[u] = Put(fds[u], {c.on}, r) /\ DOMAIN fds'[u] = DOMAIN fds[u] \cup {c.on}
      /\ fds'[u][c.on] = r /\ \A y \in DOMAIN fds[u] \ {c.on} : fds'[u][y] = fds[u][y]
  <2>1. fds'[u] = Put(fds[u], {c.on}, r)
    BY <1>3, <1>7 DEF Kinds
  <2> QED
    BY <1>7, <2>1 DEF Put
<1>9. Kinds'
  BY <1>3, <1>7 DEF Kinds, Files
<1>10. Files /\ Files'
  BY <1>3, <1>9 DEF Kinds
<1>11. Descriptors(u)'
  BY <1>3, <1>6, <1>8 DEF Descriptors, Put
<1>12. Touches(u)
  BY <1>7, <1>10 DEF Touches, Files
<1>13. Within(u, s.may)'
  BY <1>4, <1>5, <1>6, <1>7, <1>8, SameNames DEF Within, Has, Frame
<1>14. faults' = 0 => HasAll(u, s.must)'
  <2> SUFFICES ASSUME faults' = 0 PROVE HasAll(u, s.must)'
    OBVIOUS
  <2>1. test'[u] = test[u] /\ \A n : FileOf(u, n)' = FileOf(u, n)
    BY <1>4, SameNames DEF Frame
  <2>2. HasAll(u, a.must)
    BY <1>5, <1>7
  <2>3. ASSUME NEW y, Fd(y) \in s.must PROVE y \in DOMAIN fds'[u]
    BY <1>6, <1>8, <2>2, <2>3, Different DEF HasAll, Has
  <2>4. ASSUME NEW w, Ipc(w) \in s.must PROVE w \in ipc'[u]
    <3>1. Ipc(w) \in a.must
      BY <1>6, <2>4, Different DEF Has
    <3> QED
      BY <1>7, <2>2, <3>1 DEF HasAll
  <2>5. ASSUME NEW n, Entry(n) \in s.must
        PROVE  n \in Uses(test[u]) /\ FileOf(u, n) \in DOMAIN disk'
    BY <1>6, <1>7, <2>2, <2>5, Different DEF HasAll, Has
  <2> QED
    BY <2>1, <2>3, <2>4, <2>5 DEF HasAll
<1>15. Opened(u, s.must)'
  BY <1>5, <1>6, <1>8, Different DEF Opened, Has
<1>16. "fd" \in DOMAIN fds'[u] => /\ s.lo <= fds'[u]["fd"].pos /\ fds'[u]["fd"].pos <= s.hi
                                  /\ fds'[u]["fd"].file = FileOf(u, s.file)
  <2>1. CASE c.on = "fd"
    BY <1>6, <1>8, <2>1 DEF x
  <2>2. CASE c.on # "fd"
    <3> SUFFICES ASSUME "fd" \in DOMAIN fds'[u]
                 PROVE  /\ s.lo <= fds'[u]["fd"].pos /\ fds'[u]["fd"].pos <= s.hi
                        /\ fds'[u]["fd"].file = FileOf(u, s.file)
      OBVIOUS
    <3>1. "fd" \in DOMAIN fds[u] /\ fds'[u]["fd"] = fds[u]["fd"]
      BY <1>8, <2>2
    <3> QED
      BY <1>2, <1>3, <1>5, <1>6, <2>2, <3>1, FdKept
  <2> QED
    BY <2>1, <2>2
<1>17. "fd2" \in DOMAIN fds'[u] => fds'[u]["fd2"].pos <= s.top
  <2>1. CASE c.on = "fd2"
    BY <1>6, <1>8, <2>1
  <2>2. CASE c.on # "fd2"
    <3> SUFFICES ASSUME "fd2" \in DOMAIN fds'[u] PROVE fds'[u]["fd2"].pos <= s.top
      OBVIOUS
    <3>1. "fd2" \in DOMAIN fds[u] /\ fds'[u]["fd2"] = fds[u]["fd2"]
      BY <1>8, <2>2
    <3> QED
      BY <1>2, <1>3, <1>5, <1>6, <2>2, <3>1, Fd2Kept
  <2> QED
    BY <2>1, <2>2
<1>18. faults' = 0 /\ Entry("temp") \in s.must => s.size <= disk'[FileOf(u, "temp")]
  <2> SUFFICES ASSUME faults' = 0, Entry("temp") \in s.must PROVE s.size <= disk'[FileOf(u, "temp")]
    OBVIOUS
  <2>1. Entry("temp") \in a.must /\ faults = 0
    BY <1>6, <1>7, Different DEF Has
  <2>2. FileOf(u, "temp") \in DOMAIN disk =>
          FileOf(u, "temp") \in DOMAIN disk' /\ disk[FileOf(u, "temp")] <= disk'[FileOf(u, "temp")]
    BY <1>7, <1>10 DEF Files
  <2> QED
    BY <1>2, <1>6, <1>10, <2>1, <2>2, FileKept
<1>19. Where(u, s)'
  BY <1>4, <1>16, <1>17, <1>18, WhereShown
<1> QED
  BY <1>2, <1>3, <1>4, <1>7, <1>9, <1>11, <1>12, <1>13, <1>14, <1>15, <1>19, CallDone

\* What moving a descriptor does.
LEMMA MovesTo ==
  ASSUME Kinds, NEW u \in User, Descriptors(u), NEW x \in {"fd", "fd2"}, NEW p \in Nat,
         fds' = [fds EXCEPT ![u][x].pos = p]
  PROVE  /\ Descriptors(u)' /\ fds' = [v \in User |-> fds'[v]] /\ \A v \in User \ {u} : fds'[v] = fds[v]
         /\ DOMAIN fds'[u] = DOMAIN fds[u]
         /\ x \in DOMAIN fds[u] => fds'[u][x].pos = p /\ fds'[u][x].file = fds[u][x].file
         /\ \A y \in DOMAIN fds[u] \ {x} : fds'[u][y] = fds[u][y]
<1>1. fds = [v \in User |-> fds[v]]
  BY DEF Kinds
<1>2. fds' = [v \in User |-> fds'[v]] /\ \A v \in User \ {u} : fds'[v] = fds[v]
  BY <1>1
<1>3. fds'[u] = [fds[u] EXCEPT ![x].pos = p]
  BY <1>1
<1> DEFINE F == fds[u]
           G == fds'[u]
<1>4. F = [y \in DOMAIN F |-> F[y]] /\ \A y \in DOMAIN F : F[y] = [file |-> F[y].file, pos |-> F[y].pos]
  BY DEF Descriptors
<1>5. G = [F EXCEPT ![x].pos = p]
  BY <1>3
<1> HIDE DEF F, G
<1>6. /\ DOMAIN G = DOMAIN F /\ \A y \in DOMAIN F \ {x} : G[y] = F[y]
      /\ G = [y \in DOMAIN G |-> G[y]]
      /\ x \in DOMAIN F => G[x] = [F[x] EXCEPT !.pos = p]
  BY <1>4, <1>5
<1>7. x \in DOMAIN F => G[x] = [file |-> F[x].file, pos |-> p]
  BY <1>4, <1>6
<1>8. x \in DOMAIN F => G[x].pos = p /\ G[x].file = F[x].file /\ G[x] = [file |-> G[x].file, pos |-> G[x].pos]
  BY <1>7
<1>9. Descriptors(u)'
  <2>1. \A y \in DOMAIN F : F[y].pos \in Nat /\ (y \notin {"fd", "fd2"} => F[y].pos = 0)
    BY DEF Descriptors, F
  <2>2. ASSUME NEW y \in DOMAIN G
        PROVE  /\ G[y] = [file |-> G[y].file, pos |-> G[y].pos]
               /\ G[y].pos \in Nat /\ (y \notin {"fd", "fd2"} => G[y].pos = 0)
    BY <1>4, <1>6, <1>8, <2>1
  <2> QED
    BY <1>6, <2>2 DEF Descriptors, G
<1> QED
  BY <1>2, <1>6, <1>8, <1>9 DEF F, G

\* After read() the user is still on its way.
LEMMA ReadDone ==
  ASSUME IInv, NEW u \in User, DoRead(u)
  PROVE  Done(u)
<1> DEFINE c == Current(u)
<1>1. todo[u] # <<>> /\ c.op = "read"
  BY DEF DoRead, Calls
<1>2. PICK a, s, e : /\ Matches(u, a) /\ Bounded(a) /\ e.may = {}
                     /\ Step(Profile(test[u]), a, c, s)
                     /\ Path(Profile(test[u]), Tail(todo[u]), s, e)
  BY <1>1, OnTheWay
<1>3. Kinds /\ Files /\ Descriptors(u) /\ test[u] # "none"
  BY <1>1, OnTheWay DEF IInv, Kinds
<1>4. Where(u, a) /\ Opened(u, a.must) /\ Within(u, a.may) /\ (faults = 0 => HasAll(u, a.must))
  BY <1>2 DEF Matches
<1> DEFINE n == fds[u]["fd"].pos + 1
<1>5. /\ Bounded(s) /\ c.on = "fd" /\ s.file = a.file /\ Has(a, {}, {}, s)
      /\ s.lo <= a.lo + 1 /\ a.hi + 1 <= s.hi /\ a.top <= s.top /\ s.size <= a.size
      /\ Fd("fd") \in a.must
  BY <1>1, <1>2, SaysRead
<1>6. "fd" \in DOMAIN fds[u]
  BY <1>4, <1>5 DEF Opened
<1>7. n \in Nat /\ s.lo <= n /\ n <= s.hi /\ fds[u]["fd"].file = FileOf(u, s.file)
  BY <1>2, <1>3, <1>4, <1>5, <1>6, FdMoved
<1>8. /\ fds' = [fds EXCEPT ![u][c.on].pos = n]
      /\ todo' = [todo EXCEPT ![u] = Tail(@)] /\ UNCHANGED <<held, kids, ipc, disk, faults>>
  BY <1>5 DEF DoRead, Advance, On, Moves
<1> HIDE DEF n
<1>9. /\ Descriptors(u)' /\ fds' = [v \in User |-> fds'[v]] /\ \A v \in User \ {u} : fds'[v] = fds[v]
      /\ DOMAIN fds'[u] = DOMAIN fds[u]
      /\ c.on \in DOMAIN fds[u] => fds'[u][c.on].pos = n /\ fds'[u][c.on].file = fds[u][c.on].file
      /\ \A y \in DOMAIN fds[u] \ {c.on} : fds'[u][y] = fds[u][y]
  BY <1>3, <1>5, <1>7, <1>8, MovesTo
<1>10. Frame(u) /\ todo'[u] = Tail(todo[u])
  BY <1>3, <1>8, <1>9 DEF DoRead, Advance, Frame, Kinds
<1>11. /\ todo' = [todo EXCEPT ![u] = Tail(@)] /\ UNCHANGED <<held, kids, ipc, faults>>
       /\ fds' = [v \in User |-> fds'[v]] /\ Files'
  BY <1>3, <1>8, <1>9 DEF Files
<1>12. Kinds'
  BY <1>3, <1>11 DEF Kinds
<1>13. Files /\ Files'
  BY <1>3, <1>12 DEF Kinds
<1>14. Descriptors(u)'
  BY <1>9
<1>15. Touches(u)
  BY <1>8, <1>13 DEF Touches, Files
<1>16. Within(u, s.may)'
  BY <1>4, <1>5, <1>8, <1>9, <1>10, SameNames DEF Within, Has, Frame
<1>17. faults' = 0 => HasAll(u, s.must)'
  BY <1>4, <1>5, <1>8, <1>9, <1>10, SameNames, Different DEF HasAll, Has, Frame
<1>18. Opened(u, s.must)'
  BY <1>4, <1>5, <1>9, Different DEF Opened, Has
<1>19. "fd" \in DOMAIN fds'[u] => /\ s.lo <= fds'[u]["fd"].pos /\ fds'[u]["fd"].pos <= s.hi
                                  /\ fds'[u]["fd"].file = FileOf(u, s.file)
  BY <1>5, <1>6, <1>7, <1>9
<1>20. "fd2" \in DOMAIN fds'[u] => fds'[u]["fd2"].pos <= s.top
  <2> SUFFICES ASSUME "fd2" \in DOMAIN fds'[u] PROVE fds'[u]["fd2"].pos <= s.top
    OBVIOUS
  <2>1. "fd2" \in DOMAIN fds[u] /\ fds'[u]["fd2"] = fds[u]["fd2"]
    BY <1>5, <1>9
  <2> QED
    BY <1>2, <1>3, <1>4, <1>5, <2>1, Fd2Kept
<1>21. faults' = 0 /\ Entry("temp") \in s.must => s.size <= disk'[FileOf(u, "temp")]
  <2> SUFFICES ASSUME faults' = 0, Entry("temp") \in s.must PROVE s.size <= disk'[FileOf(u, "temp")]
    OBVIOUS
  <2>1. Entry("temp") \in a.must /\ faults = 0
    BY <1>5, <1>8, Different DEF Has
  <2>2. FileOf(u, "temp") \in DOMAIN disk =>
          FileOf(u, "temp") \in DOMAIN disk' /\ disk[FileOf(u, "temp")] <= disk'[FileOf(u, "temp")]
    BY <1>8, <1>13 DEF Files
  <2> QED
    BY <1>2, <1>5, <1>13, <2>1, <2>2, FileKept
<1>22. Where(u, s)'
  BY <1>10, <1>19, <1>20, <1>21, WhereShown
<1> QED
  BY <1>2, <1>3, <1>8, <1>10, <1>12, <1>14, <1>15, <1>16, <1>17, <1>18, <1>22, CallDone

\* After lseek() to a block the user is still on its way.
LEMMA SeekDone ==
  ASSUME IInv, NEW u \in User, DoSeek(u), Calls(u, "seek")
  PROVE  Done(u)
<1> DEFINE c == Current(u)
<1>1. todo[u] # <<>> /\ c.op = "seek"
  BY DEF DoSeek, Calls
<1>2. PICK a, s, e : /\ Matches(u, a) /\ Bounded(a) /\ e.may = {}
                     /\ Step(Profile(test[u]), a, c, s)
                     /\ Path(Profile(test[u]), Tail(todo[u]), s, e)
  BY <1>1, OnTheWay
<1>3. Kinds /\ Files /\ Descriptors(u) /\ test[u] # "none"
  BY <1>1, OnTheWay DEF IInv, Kinds
<1>4. Where(u, a) /\ Opened(u, a.must) /\ Within(u, a.may) /\ (faults = 0 => HasAll(u, a.must))
  BY <1>2 DEF Matches
<1>5. /\ Bounded(s) /\ c.on = "fd" /\ s.file = a.file /\ Has(a, {}, {}, s)
      /\ s.lo <= 0 /\ c.range - 1 <= s.hi /\ a.top <= s.top /\ s.size <= a.size /\ c.range \in Int
  BY <1>1, <1>2, SaysSeek
<1>6. PICK n \in 0 .. c.range - 1 : Moves(u, n)
  BY <1>1 DEF DoSeek, Calls
<1>7. n \in Nat /\ s.lo <= n /\ n <= s.hi
  <2>1. s.lo \in Int /\ s.hi \in Int
    BY <1>5 DEF Bounded
  <2> QED
    BY <1>5, <1>6, <2>1
<1>8. /\ fds' = [fds EXCEPT ![u][c.on].pos = n]
      /\ todo' = [todo EXCEPT ![u] = Tail(@)] /\ UNCHANGED <<held, kids, ipc, disk, faults>>
  BY <1>6 DEF DoSeek, Advance, On, Moves
<1>9. /\ Descriptors(u)' /\ fds' = [v \in User |-> fds'[v]] /\ \A v \in User \ {u} : fds'[v] = fds[v]
      /\ DOMAIN fds'[u] = DOMAIN fds[u]
      /\ c.on \in DOMAIN fds[u] => fds'[u][c.on].pos = n /\ fds'[u][c.on].file = fds[u][c.on].file
      /\ \A y \in DOMAIN fds[u] \ {c.on} : fds'[u][y] = fds[u][y]
  BY <1>3, <1>5, <1>7, <1>8, MovesTo
<1>10. Frame(u) /\ todo'[u] = Tail(todo[u])
  BY <1>3, <1>8, <1>9 DEF DoSeek, Advance, Frame, Kinds
<1>11. /\ todo' = [todo EXCEPT ![u] = Tail(@)] /\ UNCHANGED <<held, kids, ipc, faults>>
       /\ fds' = [v \in User |-> fds'[v]] /\ Files'
  BY <1>3, <1>8, <1>9 DEF Files
<1>12. Kinds'
  BY <1>3, <1>11 DEF Kinds
<1>13. Files /\ Files'
  BY <1>3, <1>12 DEF Kinds
<1>14. Descriptors(u)'
  BY <1>9
<1>15. Touches(u)
  BY <1>8, <1>13 DEF Touches, Files
<1>16. Within(u, s.may)'
  BY <1>4, <1>5, <1>8, <1>9, <1>10, SameNames DEF Within, Has, Frame
<1>17. faults' = 0 => HasAll(u, s.must)'
  BY <1>4, <1>5, <1>8, <1>9, <1>10, SameNames, Different DEF HasAll, Has, Frame
<1>18. Opened(u, s.must)'
  BY <1>4, <1>5, <1>9, Different DEF Opened, Has
<1>19. "fd" \in DOMAIN fds'[u] => /\ s.lo <= fds'[u]["fd"].pos /\ fds'[u]["fd"].pos <= s.hi
                                  /\ fds'[u]["fd"].file = FileOf(u, s.file)
  BY <1>4, <1>5, <1>7, <1>9 DEF Where
<1>20. "fd2" \in DOMAIN fds'[u] => fds'[u]["fd2"].pos <= s.top
  <2> SUFFICES ASSUME "fd2" \in DOMAIN fds'[u] PROVE fds'[u]["fd2"].pos <= s.top
    OBVIOUS
  <2>1. "fd2" \in DOMAIN fds[u] /\ fds'[u]["fd2"] = fds[u]["fd2"]
    BY <1>5, <1>9
  <2> QED
    BY <1>2, <1>3, <1>4, <1>5, <2>1, Fd2Kept
<1>21. faults' = 0 /\ Entry("temp") \in s.must => s.size <= disk'[FileOf(u, "temp")]
  <2> SUFFICES ASSUME faults' = 0, Entry("temp") \in s.must PROVE s.size <= disk'[FileOf(u, "temp")]
    OBVIOUS
  <2>1. Entry("temp") \in a.must /\ faults = 0
    BY <1>5, <1>8, Different DEF Has
  <2>2. FileOf(u, "temp") \in DOMAIN disk =>
          FileOf(u, "temp") \in DOMAIN disk' /\ disk[FileOf(u, "temp")] <= disk'[FileOf(u, "temp")]
    BY <1>8, <1>13 DEF Files
  <2> QED
    BY <1>2, <1>5, <1>13, <2>1, <2>2, FileKept
<1>22. Where(u, s)'
  BY <1>10, <1>19, <1>20, <1>21, WhereShown
<1> QED
  BY <1>2, <1>3, <1>8, <1>10, <1>12, <1>14, <1>15, <1>16, <1>17, <1>18, <1>22, CallDone

\* After lseek() to the start the user is still on its way.
LEMMA RewindDone ==
  ASSUME IInv, NEW u \in User, DoSeek(u), Calls(u, "rewind")
  PROVE  Done(u)
<1> DEFINE c == Current(u)
<1>1. todo[u] # <<>> /\ c.op = "rewind"
  BY DEF DoSeek, Calls
<1>2. PICK a, s, e : /\ Matches(u, a) /\ Bounded(a) /\ e.may = {}
                     /\ Step(Profile(test[u]), a, c, s)
                     /\ Path(Profile(test[u]), Tail(todo[u]), s, e)
  BY <1>1, OnTheWay
<1>3. Kinds /\ Files /\ Descriptors(u) /\ test[u] # "none"
  BY <1>1, OnTheWay DEF IInv, Kinds
<1>4. Where(u, a) /\ Opened(u, a.must) /\ Within(u, a.may) /\ (faults = 0 => HasAll(u, a.must))
  BY <1>2 DEF Matches
<1>5. /\ Bounded(s) /\ c.on = "fd" /\ s.file = a.file /\ Has(a, {}, {}, s)
      /\ s.lo <= 0 /\ 0 <= s.hi /\ a.top <= s.top /\ s.size <= a.size
  BY <1>1, <1>2, SaysRewind
<1> DEFINE n == 0
<1>6. n \in Nat /\ s.lo <= n /\ n <= s.hi
  BY <1>5
<1>7. /\ fds' = [fds EXCEPT ![u][c.on].pos = n]
      /\ todo' = [todo EXCEPT ![u] = Tail(@)] /\ UNCHANGED <<held, kids, ipc, disk, faults>>
  BY <1>1 DEF DoSeek, Calls, Advance, On, Moves
<1> HIDE DEF n
<1>8. /\ Descriptors(u)' /\ fds' = [v \in User |-> fds'[v]] /\ \A v \in User \ {u} : fds'[v] = fds[v]
      /\ DOMAIN fds'[u] = DOMAIN fds[u]
      /\ c.on \in DOMAIN fds[u] => fds'[u][c.on].pos = n /\ fds'[u][c.on].file = fds[u][c.on].file
      /\ \A y \in DOMAIN fds[u] \ {c.on} : fds'[u][y] = fds[u][y]
  BY <1>3, <1>5, <1>6, <1>7, MovesTo
<1>9. Frame(u) /\ todo'[u] = Tail(todo[u])
  BY <1>3, <1>7, <1>8 DEF DoSeek, Advance, Frame, Kinds
<1>10. /\ todo' = [todo EXCEPT ![u] = Tail(@)] /\ UNCHANGED <<held, kids, ipc, faults>>
       /\ fds' = [v \in User |-> fds'[v]] /\ Files'
  BY <1>3, <1>7, <1>8 DEF Files
<1>11. Kinds'
  BY <1>3, <1>10 DEF Kinds
<1>12. Files /\ Files'
  BY <1>3, <1>11 DEF Kinds
<1>13. Descriptors(u)'
  BY <1>8
<1>14. Touches(u)
  BY <1>7, <1>12 DEF Touches, Files
<1>15. Within(u, s.may)'
  BY <1>4, <1>5, <1>7, <1>8, <1>9, SameNames DEF Within, Has, Frame
<1>16. faults' = 0 => HasAll(u, s.must)'
  BY <1>4, <1>5, <1>7, <1>8, <1>9, SameNames, Different DEF HasAll, Has, Frame
<1>17. Opened(u, s.must)'
  BY <1>4, <1>5, <1>8, Different DEF Opened, Has
<1>18. "fd" \in DOMAIN fds'[u] => /\ s.lo <= fds'[u]["fd"].pos /\ fds'[u]["fd"].pos <= s.hi
                                  /\ fds'[u]["fd"].file = FileOf(u, s.file)
  BY <1>4, <1>5, <1>6, <1>8 DEF Where
<1>19. "fd2" \in DOMAIN fds'[u] => fds'[u]["fd2"].pos <= s.top
  <2> SUFFICES ASSUME "fd2" \in DOMAIN fds'[u] PROVE fds'[u]["fd2"].pos <= s.top
    OBVIOUS
  <2>1. "fd2" \in DOMAIN fds[u] /\ fds'[u]["fd2"] = fds[u]["fd2"]
    BY <1>5, <1>8
  <2> QED
    BY <1>2, <1>3, <1>4, <1>5, <2>1, Fd2Kept
<1>20. faults' = 0 /\ Entry("temp") \in s.must => s.size <= disk'[FileOf(u, "temp")]
  <2> SUFFICES ASSUME faults' = 0, Entry("temp") \in s.must PROVE s.size <= disk'[FileOf(u, "temp")]
    OBVIOUS
  <2>1. Entry("temp") \in a.must /\ faults = 0
    BY <1>5, <1>7, Different DEF Has
  <2>2. FileOf(u, "temp") \in DOMAIN disk =>
          FileOf(u, "temp") \in DOMAIN disk' /\ disk[FileOf(u, "temp")] <= disk'[FileOf(u, "temp")]
    BY <1>7, <1>12 DEF Files
  <2> QED
    BY <1>2, <1>5, <1>12, <2>1, <2>2, FileKept
<1>21. Where(u, s)'
  BY <1>9, <1>18, <1>19, <1>20, WhereShown
<1> QED
  BY <1>2, <1>3, <1>7, <1>9, <1>11, <1>13, <1>14, <1>15, <1>16, <1>17, <1>21, CallDone

\* After write() the user is still on its way.
LEMMA WriteDone ==
  ASSUME IInv, NEW u \in User, DoWrite(u)
  PROVE  Done(u)
<1> DEFINE c == Current(u)
<1>1. todo[u] # <<>> /\ c.op = "write"
  BY DEF DoWrite, Calls
<1>2. PICK a, s, e : /\ Matches(u, a) /\ Bounded(a) /\ e.may = {}
                     /\ Step(Profile(test[u]), a, c, s)
                     /\ Path(Profile(test[u]), Tail(todo[u]), s, e)
  BY <1>1, OnTheWay
<1>3. Kinds /\ Files /\ Descriptors(u) /\ test[u] # "none"
  BY <1>1, OnTheWay DEF IInv, Kinds
<1>4. Where(u, a) /\ Opened(u, a.must) /\ Within(u, a.may) /\ (faults = 0 => HasAll(u, a.must))
  BY <1>2 DEF Matches
<1> DEFINE n == fds[u][c.on].pos + 1
           f == fds[u][c.on].file
<1>5. /\ Bounded(s) /\ c.on \in {"fd", "fd2"} /\ s.file = a.file /\ Fd(c.on) \in a.must
      /\ Has(a, {}, {}, s)
      /\ c.on = "fd" => s.lo <= a.lo + 1 /\ a.hi + 1 <= s.hi /\ a.top <= s.top
      /\ c.on = "fd2" => s.lo <= a.lo /\ a.hi <= s.hi /\ a.top + 1 <= s.top
      /\ s.size <= a.size \/ (c.on = "fd" /\ a.file = "temp" /\ s.size <= a.lo + 1)
  BY <1>1, <1>2, SaysWrite
<1>6. c.on \in DOMAIN fds[u]
  BY <1>4, <1>5 DEF Opened
<1>7. n \in Nat
  <2>1. fds[u][c.on].pos \in Nat
    BY <1>3, <1>6 DEF Descriptors
  <2> QED
    BY <2>1
<1>8. /\ fds' = [fds EXCEPT ![u][c.on].pos = n]
      /\ disk' = IF f \in DOMAIN disk /\ disk[f] < n THEN [disk EXCEPT ![f] = n] ELSE disk
      /\ todo' = [todo EXCEPT ![u] = Tail(@)] /\ UNCHANGED <<held, kids, ipc, faults>>
  BY DEF DoWrite, Advance, On, Moves, OpenFile
<1>9. c.on = "fd" => s.lo <= n /\ n <= s.hi /\ f = FileOf(u, s.file) /\ a.lo + 1 <= n
  <2> SUFFICES ASSUME c.on = "fd" PROVE s.lo <= n /\ n <= s.hi /\ f = FileOf(u, s.file) /\ a.lo + 1 <= n
    OBVIOUS
  <2>1. /\ s.lo <= n /\ n <= s.hi /\ fds[u]["fd"].pos \in Nat /\ a.lo <= fds[u]["fd"].pos
        /\ f = FileOf(u, s.file)
    BY <1>2, <1>3, <1>4, <1>5, <1>6, FdMoved
  <2>2. a.lo + 1 <= n
    BY <1>2, <2>1 DEF Bounded
  <2> QED
    BY <2>1, <2>2
<1> HIDE DEF n, f
<1>10. Files /\ Files' /\ DOMAIN disk' = DOMAIN disk /\ \A y \in DOMAIN disk : disk[y] <= disk'[y]
  BY <1>3, <1>7, <1>8 DEF Files
<1>11. f \in DOMAIN disk => n <= disk'[f]
  BY <1>3, <1>7, <1>8 DEF Files
<1>12. /\ Descriptors(u)' /\ fds' = [v \in User |-> fds'[v]] /\ \A v \in User \ {u} : fds'[v] = fds[v]
       /\ DOMAIN fds'[u] = DOMAIN fds[u]
       /\ c.on \in DOMAIN fds[u] => fds'[u][c.on].pos = n /\ fds'[u][c.on].file = fds[u][c.on].file
       /\ \A y \in DOMAIN fds[u] \ {c.on} : fds'[u][y] = fds[u][y]
  BY <1>3, <1>5, <1>7, <1>8, MovesTo
<1>13. Frame(u) /\ todo'[u] = Tail(todo[u])
  BY <1>3, <1>8, <1>12 DEF DoWrite, Advance, Frame, Kinds
<1>14. /\ todo' = [todo EXCEPT ![u] = Tail(@)] /\ UNCHANGED <<held, kids, ipc, faults>>
       /\ fds' = [v \in User |-> fds'[v]] /\ Files'
  BY <1>8, <1>10, <1>12
<1>15. Kinds'
  BY <1>3, <1>14 DEF Kinds
<1>16. Descriptors(u)'
  BY <1>12
<1>17. Touches(u)
  BY <1>10 DEF Touches
<1>18. Within(u, s.may)'
  BY <1>4, <1>5, <1>8, <1>10, <1>12, <1>13, SameNames DEF Within, Has, Frame
<1>19. faults' = 0 => HasAll(u, s.must)'
  BY <1>4, <1>5, <1>8, <1>10, <1>12, <1>13, SameNames, Different DEF HasAll, Has, Frame
<1>20. Opened(u, s.must)'
  BY <1>4, <1>5, <1>12, Different DEF Opened, Has
<1>21. "fd" \in DOMAIN fds'[u] => /\ s.lo <= fds'[u]["fd"].pos /\ fds'[u]["fd"].pos <= s.hi
                                  /\ fds'[u]["fd"].file = FileOf(u, s.file)
  <2>1. CASE c.on = "fd"
    BY <1>6, <1>9, <1>12, <2>1 DEF f
  <2>2. CASE c.on # "fd"
    <3> SUFFICES ASSUME "fd" \in DOMAIN fds'[u]
                 PROVE  /\ s.lo <= fds'[u]["fd"].pos /\ fds'[u]["fd"].pos <= s.hi
                        /\ fds'[u]["fd"].file = FileOf(u, s.file)
      OBVIOUS
    <3>1. "fd" \in DOMAIN fds[u] /\ fds'[u]["fd"] = fds[u]["fd"]
      BY <1>12, <2>2
    <3> QED
      BY <1>2, <1>3, <1>4, <1>5, <2>2, <3>1, FdKept
  <2> QED
    BY <2>1, <2>2
<1>22. "fd2" \in DOMAIN fds'[u] => fds'[u]["fd2"].pos <= s.top
  <2> SUFFICES ASSUME "fd2" \in DOMAIN fds'[u] PROVE fds'[u]["fd2"].pos <= s.top
    OBVIOUS
  <2>1. CASE c.on = "fd2"
    <3>1. fds[u]["fd2"].pos + 1 <= s.top
      BY <1>2, <1>3, <1>4, <1>5, <1>6, <2>1, Fd2Kept
    <3> QED
      BY <1>6, <1>12, <2>1, <3>1 DEF n
  <2>2. CASE c.on # "fd2"
    <3>1. "fd2" \in DOMAIN fds[u] /\ fds'[u]["fd2"] = fds[u]["fd2"]
      BY <1>12, <2>2
    <3> QED
      BY <1>2, <1>3, <1>4, <1>5, <2>2, <3>1, Fd2Kept
  <2> QED
    BY <2>1, <2>2
<1>23. faults' = 0 /\ Entry("temp") \in s.must => s.size <= disk'[FileOf(u, "temp")]
  <2> SUFFICES ASSUME faults' = 0, Entry("temp") \in s.must PROVE s.size <= disk'[FileOf(u, "temp")]
    OBVIOUS
  <2>1. Entry("temp") \in a.must /\ faults = 0
    BY <1>5, <1>8, Different DEF Has
  <2>2. CASE s.size <= a.size
    <3>1. FileOf(u, "temp") \in DOMAIN disk =>
            FileOf(u, "temp") \in DOMAIN disk' /\ disk[FileOf(u, "temp")] <= disk'[FileOf(u, "temp")]
      BY <1>10
    <3> QED
      BY <1>2, <1>5, <1>10, <2>1, <2>2, <3>1, FileKept
  <2>3. CASE c.on = "fd" /\ a.file = "temp" /\ s.size <= a.lo + 1
    <3>1. f = FileOf(u, "temp") /\ a.lo + 1 <= n
      BY <1>5, <1>9, <2>3
    <3>2. f \in DOMAIN disk
      BY <1>4, <2>1, <3>1 DEF HasAll
    <3>3. n <= disk'[f] /\ disk'[f] \in Nat /\ s.size \in Int /\ a.lo \in Int
      BY <1>2, <1>5, <1>10, <1>11, <3>2 DEF Files, Bounded
    <3>4. s.size <= disk'[f]
      BY <1>7, <2>3, <3>1, <3>3
    <3> QED
      BY <3>1, <3>4
  <2> QED
    BY <1>5, <2>2, <2>3
<1>24. Where(u, s)'
  BY <1>13, <1>21, <1>22, <1>23, WhereShown
<1> QED
  BY <1>2, <1>3, <1>8, <1>13, <1>15, <1>16, <1>17, <1>18, <1>19, <1>20, <1>24, CallDone

(***************************************************************************)
(* A call made a second time, and one that fails and goes unnoticed.       *)
(***************************************************************************)

\* semget() fails: create_shared_memory() goes on to shmat() all the same.
LEMMA NoSemaphoreDone ==
  ASSUME IInv, NEW u \in User, NoSemaphore(u)
  PROVE  Done(u)
<1> DEFINE c == Current(u)
           p == Profile(test[u])
<1>1. todo[u] # <<>> /\ c.op = "semget"
  BY DEF NoSemaphore, Calls
<1>2. Kinds /\ Files /\ Descriptors(u) /\ test[u] # "none"
  BY <1>1, OnTheWay DEF IInv, Kinds
<1>3. PICK a, e : Matches(u, a) /\ e.may = {} /\ Path(p, todo[u], a, e)
  BY <1>2 DEF IInv, Busy
<1>4. PICK s : Step(p, a, c, s)
  BY <1>1, <1>3, PathFirst DEF Current
<1>5. p.ipc /\ Ipc("shm") \in a.may /\ Kid \notin a.may /\ Bounded(a)
  BY <1>1, <1>3, <1>4, SaysSemGet DEF Step, CleansUp, Path
<1> DEFINE b == At(a.may \ {Ipc("shm")}, a.must \ {Ipc("shm")}, a.file, a.lo, a.hi, a.top, a.size)
<1>6. /\ b.may = a.may \ {Ipc("shm")} /\ b.must = a.must \ {Ipc("shm")} /\ b.file = a.file /\ b.lo = a.lo
      /\ b.hi = a.hi /\ b.top = a.top /\ b.size = a.size
  BY DEF At
<1> HIDE DEF b
<1>7. Bounded(b)
  BY <1>5, <1>6 DEF Bounded
<1>8. Has(b, {Ipc("shm")}, {}, a)
  BY <1>5, <1>6 DEF Has
<1>9. Keeps(b, a) /\ Keeps(a, b)
  BY <1>5, <1>6 DEF Keeps, Bounded
<1>10. Step(p, b, ShmGet, a)
  BY <1>5, <1>6, <1>8, <1>9, StepShmGet
<1>11. Path(p, <<ShmGet>> \o todo[u], b, e)
  BY <1>3, <1>7, <1>10, PathPrefix
<1>12. /\ ipc' = [ipc EXCEPT ![u] = @ \ {"shm"}] /\ todo' = [todo EXCEPT ![u] = <<ShmGet>> \o @]
       /\ UNCHANGED <<fds, held, kids, disk, faults>>
  BY DEF NoSemaphore, ownVars
<1>13. Frame(u) /\ todo'[u] = <<ShmGet>> \o todo[u] /\ ipc'[u] = ipc[u] \ {"shm"}
  BY <1>2, <1>12 DEF NoSemaphore, ownVars, Frame, Kinds
<1>14. Kinds'
  BY <1>2, <1>12 DEF Kinds, Files
<1>15. Descriptors(u)'
  BY <1>2, <1>12 DEF Descriptors
<1>16. Touches(u)
  BY <1>2, <1>12 DEF Touches, Files
<1>17. Within(u, b.may)'
  BY <1>3, <1>6, <1>12, <1>13, SameNames, Different DEF Matches, Within, Frame
<1>18. faults' = 0 => HasAll(u, b.must)'
  BY <1>3, <1>6, <1>12, <1>13, SameNames, Different DEF Matches, HasAll, Frame
<1>19. Opened(u, b.must)'
  BY <1>3, <1>6, <1>12 DEF Matches, Opened
<1>20. /\ Entry("temp") \in b.must => Entry("temp") \in a.must
       /\ FileOf(u, "temp") \in DOMAIN disk =>
            FileOf(u, "temp") \in DOMAIN disk' /\ disk[FileOf(u, "temp")] <= disk'[FileOf(u, "temp")]
  BY <1>2, <1>6, <1>12 DEF Files
<1>21. Where(u, b)'
  BY <1>2, <1>3, <1>5, <1>7, <1>9, <1>12, <1>13, <1>14, <1>20, WhereKept
<1> QED
  BY <1>2, <1>3, <1>11, <1>12, <1>13, <1>14, <1>15, <1>16, <1>17, <1>18, <1>19, <1>21, CallDone

\* After a fork() or accept() that failed the test goes on without.
LEMMA UnnoticedDone ==
  ASSUME IInv, NEW u \in User, Unnoticed(u)
  PROVE  Done(u)
<1> DEFINE c == Current(u)
<1>1. todo[u] # <<>> /\ c.op \in {"fork", "accept"}
  BY DEF Unnoticed, Calls
<1>2. PICK a, s, e : /\ Matches(u, a) /\ Bounded(a) /\ e.may = {}
                     /\ Step(Profile(test[u]), a, c, s)
                     /\ Path(Profile(test[u]), Tail(todo[u]), s, e)
  BY <1>1, OnTheWay
<1>3. Bounded(s) /\ Keeps(a, s) /\ a.may \subseteq s.may
  BY <1>1, <1>2, SaysFork, SaysAccept DEF Has
<1>4. \A x \in {"fd", "fd2"} : Fd(x) \in s.must => Fd(x) \in a.must
  <2>1. CASE c.op = "fork"
    BY <1>2, <2>1, SaysFork, Different DEF Has
  <2>2. CASE c.op = "accept"
    BY <1>2, <2>2, SaysAccept, Different DEF Has
  <2> QED
    BY <1>1, <2>1, <2>2
<1>5. Kinds /\ Files /\ Descriptors(u) /\ test[u] # "none"
  BY <1>1, OnTheWay DEF IInv, Kinds
<1>6. /\ todo' = [todo EXCEPT ![u] = Tail(@)] /\ faults' = faults + 1 /\ faults < MaxFaults
      /\ UNCHANGED <<fds, held, kids, ipc, disk>>
  BY DEF Unnoticed, ownVars
<1>7. Frame(u) /\ todo'[u] = Tail(todo[u])
  BY <1>5, <1>6 DEF Unnoticed, ownVars, Frame, Kinds
<1>8. faults' # 0 /\ faults' \in 0 .. MaxFaults
  BY <1>5, <1>6, RunnerAssumption DEF Kinds
<1>9. Kinds'
  BY <1>5, <1>6, <1>8 DEF Kinds, Files
<1>10. Descriptors(u)'
  BY <1>5, <1>6 DEF Descriptors
<1>11. Touches(u)
  BY <1>5, <1>6 DEF Touches, Files
<1>12. Within(u, s.may)'
  BY <1>2, <1>3, <1>6, <1>7, SameNames DEF Matches, Within, Frame
<1>13. Opened(u, s.must)'
  BY <1>2, <1>4, <1>6 DEF Matches, Opened
<1>14. Where(u, s)'
  BY <1>2, <1>3, <1>5, <1>6, <1>7, <1>8, <1>9, WhereKept
<1> QED
  BY <1>2, <1>5, <1>6, <1>7, <1>8, <1>9, <1>10, <1>11, <1>12, <1>13, <1>14, CallDone

\* Every call that works keeps the invariant.
LEMMA DoesKeeps ==
  ASSUME IInv, NEW u \in User, Does(u)
  PROVE  IInv'
<1>1. CASE DoCreat(u)
  BY <1>1, CreatDone, DoneKeeps
<1>2. CASE DoOpen(u)
  BY <1>2, OpenDone, DoneKeeps
<1>3. CASE DoWrite(u)
  BY <1>3, WriteDone, DoneKeeps
<1>4. CASE DoRead(u)
  BY <1>4, ReadDone, DoneKeeps
<1>5. CASE DoSeek(u)
  <2>1. Calls(u, "seek") \/ Calls(u, "rewind")
    BY <1>5 DEF DoSeek
  <2> QED
    BY <1>5, <2>1, SeekDone, RewindDone, DoneKeeps
<1>6. CASE DoClose(u)
  BY <1>6, CloseDone, DoneKeeps
<1>7. CASE DoUnlink(u)
  BY <1>7, UnlinkDone, DoneKeeps
<1>8. CASE DoMake(u)
  BY <1>8, MakeDone, DoneKeeps
<1>9. CASE DoSocket(u)
  <2>1. Calls(u, "socket") \/ Calls(u, "accept")
    BY <1>9 DEF DoSocket
  <2> QED
    BY <1>9, <2>1, SocketDone, AcceptDone, DoneKeeps
<1>10. CASE DoMemory(u)
  <2>1. Calls(u, "alloc") \/ Calls(u, "free")
    BY <1>10 DEF DoMemory
  <2> QED
    BY <1>10, <2>1, AllocDone, FreeDone, DoneKeeps
<1>11. CASE DoTry(u)
  BY <1>11, TryDone, DoneKeeps
<1>12. CASE DoFork(u)
  BY <1>12, ForkDone, DoneKeeps
<1>13. CASE DoWait(u)
  BY <1>13, WaitDone, DoneKeeps
<1>14. CASE DoShmGet(u)
  BY <1>14, ShmGetDone, DoneKeeps
<1>15. CASE DoSemGet(u)
  BY <1>15, SemGetDone, DoneKeeps
<1>16. CASE NoSemaphore(u)
  BY <1>16, NoSemaphoreDone, DoneKeeps
<1>17. CASE DoSemOp(u)
  <2>1. On(u) = "wait" \/ On(u) = "signal"
    BY <1>17 DEF DoSemOp
  <2> QED
    BY <1>17, <2>1, SemWaitDone, SemSignalDone, DoneKeeps
<1>18. CASE DoClear(u)
  BY <1>18, ClearDone, DoneKeeps
<1> QED
  BY <1>1, <1>2, <1>3, <1>4, <1>5, <1>6, <1>7, <1>8, <1>9, <1>10, <1>11, <1>12, <1>13, <1>14, 
     <1>15, <1>16, <1>17, <1>18 DEF Does

(***************************************************************************)
(* What is not a call that works.                                          *)
(***************************************************************************)

\* A user for whom nothing changes but that children end and what others do.
LEMMA OthersGoOn ==
  ASSUME IInv, NEW v \in User, Kinds',
         test'[v] = test[v], todo'[v] = todo[v], fds'[v] = fds[v], held'[v] = held[v],
         counter'[v] = counter[v], fn2'[v] = fn2[v], begun'[v] = begun[v], fate'[v] = fate[v],
         ipc'[v] \subseteq ipc[v], kids'[v] > 0 => kids[v] > 0,
         faults' = 0 => faults = 0 /\ ipc'[v] = ipc[v] /\ disk' = disk,
         DOMAIN disk' \subseteq DOMAIN disk
  PROVE  Busy(v)' /\ Rests(v)' /\ Descriptors(v)'
<1>1. Kinds /\ Files /\ Files' /\ Busy(v) /\ Rests(v) /\ Descriptors(v)
  BY DEF IInv, Kinds
<1>2. Busy(v)'
  <2>1. \A n \in FileNames : FileOf(v, n) \in DOMAIN disk' => FileOf(v, n) \in DOMAIN disk
    OBVIOUS
  <2>2. \A n \in FileNames :
          faults' = 0 /\ FileOf(v, n) \in DOMAIN disk =>
            FileOf(v, n) \in DOMAIN disk' /\ disk[FileOf(v, n)] <= disk'[FileOf(v, n)]
    BY <1>1 DEF Files
  <2> QED
    BY <1>1, <2>1, <2>2, Undisturbed
<1>3. Rests(v)'
  <2>1. kids[v] \in {0, 1} /\ kids'[v] \in {0, 1}
    BY <1>1 DEF Kinds
  <2> QED
    BY <1>1, <2>1 DEF Rests
<1>4. Descriptors(v)'
  BY <1>1 DEF Descriptors
<1> QED
  BY <1>2, <1>3, <1>4

\* Steps after which something has gone wrong, and no more files are there.
LEMMA FreshKept ==
  ASSUME Fresh, DOMAIN disk' \subseteq DOMAIN disk, begun' = begun
  PROVE  Fresh'
BY DEF Fresh

\* A test begins: its own new names are free, and what it may find are old files of its user.
LEMMA BeginKeeps ==
  ASSUME IInv, NEW u \in User, Begin(u)
  PROVE  IInv'
<1>1. PICK t \in TestsOf[single] :
        /\ test' = [test EXCEPT ![u] = t] /\ todo' = [todo EXCEPT ![u] = Program[t]]
        /\ counter' = [counter EXCEPT ![u] = IF "temp" \in FilesOf(t) THEN aim_mktemp(@) ELSE @]
        /\ fn2' = [fn2 EXCEPT ![u] = IF "temp" \in FilesOf(t) /\ t \notin LocalName
                                     THEN counter'[u] ELSE @]
  BY DEF Begin
<1>2. /\ begun' = [begun EXCEPT ![u] = @ + 1] /\ begun[u] < MaxTests[single]
      /\ UNCHANGED <<single, fds, held, kids, lost, fate, leaks, ipc, disk, deaf, faults>>
      /\ test[u] = "none" /\ fate[u] = "lives"
  BY DEF Begin
<1>3. /\ Kinds /\ Fixed /\ (\A v \in User : Busy(v) /\ Rests(v) /\ Descriptors(v)) /\ Fresh
      /\ WorkThere
  BY DEF IInv
<1>4. /\ todo[u] = <<>> /\ fds[u] = <<>> /\ held[u] = {} /\ kids[u] = 0 /\ ipc[u] = {}
  BY <1>2, <1>3 DEF Rests
<1>5. t \in DOMAIN Program /\ MaxTests[single] \in Nat /\ begun[u] \in Nat /\ t # "none"
  <2>1. single \in BOOLEAN /\ begun[u] \in Nat
    BY <1>3 DEF Fixed
  <2>2. TestsOf[single] \subseteq DOMAIN Program /\ MaxTests[single] \in Nat
    BY <2>1, RunnerAssumption
  <2> QED
    BY <2>1, <2>2, Programs, TestNames
<1>6. Kinds'
  BY <1>1, <1>2, <1>3 DEF Kinds, Files
<1>7. Fixed'
  <2>1. NumSuffixes \in Nat /\ NumSuffixes > 0
    BY DEF NumSuffixes
  <2>2. counter[u] \in -1 .. NumSuffixes - 1
    BY <1>3 DEF Fixed
  <2>3. aim_mktemp(counter[u]) \in -1 .. NumSuffixes - 1
    BY <2>1, <2>2 DEF aim_mktemp
  <2>4. counter' \in [User -> -1 .. NumSuffixes - 1]
    BY <1>1, <1>3, <2>2, <2>3 DEF Fixed
  <2>5. fn2' = [v \in User |-> fn2'[v]]
    BY <1>1, <1>3 DEF Fixed
  <2>6. begun' \in [User -> 0 .. MaxTests[single]]
    BY <1>2, <1>3, <1>5 DEF Fixed
  <2>7. test' \in [User -> TestsOf[single] \cup {"none"}]
    BY <1>1, <1>3 DEF Fixed
  <2> QED
    BY <1>2, <1>3, <2>4, <2>5, <2>6, <2>7 DEF Fixed
<1>8. ASSUME NEW v \in User PROVE Busy(v)' /\ Rests(v)' /\ Descriptors(v)'
  <2>1. CASE v # u
    <3>1. /\ test'[v] = test[v] /\ todo'[v] = todo[v] /\ counter'[v] = counter[v]
          /\ fn2'[v] = fn2[v] /\ begun'[v] = begun[v] /\ fds'[v] = fds[v] /\ held'[v] = held[v]
          /\ fate'[v] = fate[v] /\ ipc'[v] = ipc[v] /\ kids'[v] = kids[v]
          /\ disk' = disk /\ faults' = faults
      BY <1>1, <1>2, <1>3, <2>1 DEF Kinds, Fixed
    <3> QED
      BY <1>6, <3>1, OthersGoOn
  <2>2. CASE v = u
    <3>1. test'[u] = t /\ todo'[u] = Program[t] /\ begun'[u] = begun[u] + 1
      BY <1>1, <1>2, <1>3 DEF Kinds, Fixed
    <3>2. PICK a, b : /\ b.may = {} /\ Path(Profile(t), Program[t], a, b)
                      /\ Old(t) \subseteq a.may /\ a.must = {}
      BY <1>5, Programs DEF Completes, Finishes
    <3>3. ASSUME NEW n \in Uses(t), FileOf(u, n)' \in DOMAIN disk' PROVE Entry(n) \in a.may
      <4>1. n \in FileNames
        BY UsesNames
      <4>2. CASE n \in Kept
        BY <3>2, <4>2 DEF Old
      <4>3. CASE n \in NewNames
        <5>1. FileOf(u, n)' = <<n, u, begun[u] + 1>>
          BY <3>1, <4>3 DEF FileOf, NewNames
        <5>2. <<n, u, begun[u] + 1>> \notin DOMAIN disk
          BY <1>3, <1>5, <4>3 DEF Fresh
        <5> QED
          BY <1>2, <3>3, <5>1, <5>2
      <4> QED
        BY <4>1, <4>2, <4>3 DEF FileNames
    <3>4. fds'[u] = <<>> /\ held'[u] = {} /\ ipc'[u] = {} /\ kids'[u] = 0
      BY <1>2, <1>4
    <3>5. DOMAIN fds'[u] = {}
      BY <3>4
    <3>6. Within(u, a.may)'
      BY <3>1, <3>3, <3>4, <3>5 DEF Within
    <3>7. HasAll(u, a.must)' /\ Opened(u, a.must)' /\ Where(u, a)'
      BY <3>2, <3>5 DEF HasAll, Opened, Where
    <3>8. Busy(u)'
      BY <3>1, <3>2, <3>6, <3>7 DEF Busy, Matches
    <3>9. Rests(u)'
      BY <1>2, <1>5, <3>1, <3>4 DEF Rests
    <3>10. Descriptors(u)'
      BY <1>2, <1>3 DEF Descriptors
    <3> QED
      BY <2>2, <3>8, <3>9, <3>10
  <2> QED
    BY <2>1, <2>2
<1>9. Fresh'
  <2>1. \A v \in User, n \in Nat : n > begun'[v] => n > begun[v]
    <3>1. \A v \in User : begun[v] \in Nat /\ begun'[v] \in Nat /\ begun'[v] >= begun[v]
      BY <1>2, <1>3, <1>5 DEF Fixed
    <3> QED
      BY <3>1
  <2> QED
    BY <1>2, <1>3, <2>1 DEF Fresh
<1>10. WorkThere' /\ FailsOnlyByFault' /\ SuccessLeavesNothing' /\ FailedDiskTestsClose'
  BY <1>2, <1>3 DEF IInv, WorkThere, FailsOnlyByFault, SuccessLeavesNothing, FailedDiskTestsClose,
     WorkFile
<1> QED
  BY <1>6, <1>7, <1>8, <1>9, <1>10 DEF IInv

\* A test at its end has nothing.
LEMMA NothingLeft ==
  ASSUME IInv, NEW u \in User, test[u] # "none", todo[u] = <<>>
  PROVE  /\ DOMAIN fds[u] = {} /\ held[u] = {} /\ ipc[u] = {} /\ kids[u] = 0
         /\ \A n \in FilesOf(test[u]) : FileOf(u, n) \notin DOMAIN disk
<1>1. PICK a, b : Matches(u, a) /\ b.may = {} /\ Path(Profile(test[u]), <<>>, a, b)
  BY DEF IInv, Busy
<1>2. a.may = {}
  BY <1>1, PathEmpty
<1>3. Within(u, {})
  BY <1>1, <1>2 DEF Matches
<1>4. kids[u] \in {0, 1}
  BY DEF IInv, Kinds
<1>5. test[u] \in DOMAIN Program
  <2>1. single \in BOOLEAN /\ test[u] \in TestsOf[single]
    BY DEF IInv, Fixed
  <2> QED
    BY <2>1, RunnerAssumption
<1> QED
  BY <1>3, <1>4, <1>5, UsesNames DEF Within

\* A test returns 0.
LEMMA ReturnsKeeps ==
  ASSUME IInv, NEW u \in User, Returns(u)
  PROVE  IInv'
<1>1. /\ test[u] # "none" /\ todo[u] = <<>>
      /\ leaks' = leaks \cup Leftovers(u, "return", fds[u], held[u], disk)
      /\ test' = [test EXCEPT ![u] = "none"]
      /\ fds' = [fds EXCEPT ![u] = <<>>] /\ held' = [held EXCEPT ![u] = {}]
      /\ UNCHANGED <<single, todo, kids, counter, fn2, begun, fate, lost, ipc, disk, deaf, faults>>
  BY DEF Returns
<1>2. /\ DOMAIN fds[u] = {} /\ held[u] = {} /\ ipc[u] = {} /\ kids[u] = 0
      /\ \A n \in FilesOf(test[u]) : FileOf(u, n) \notin DOMAIN disk
  BY <1>1, NothingLeft
<1>3. leaks' = leaks
  <2>1. Leftovers(u, "return", fds[u], held[u], disk) = {}
    BY <1>2 DEF Leftovers
  <2> QED
    BY <1>1, <2>1
<1>4. /\ Kinds /\ Fixed /\ (\A v \in User : Busy(v) /\ Rests(v) /\ Descriptors(v)) /\ Fresh
      /\ WorkThere
  BY DEF IInv
<1>5. Kinds'
  BY <1>1, <1>4 DEF Kinds, Files
<1>6. Fixed'
  BY <1>1, <1>4 DEF Fixed
<1>7. ASSUME NEW v \in User PROVE Busy(v)' /\ Rests(v)' /\ Descriptors(v)'
  <2>1. CASE v # u
    <3>1. /\ test'[v] = test[v] /\ fds'[v] = fds[v] /\ held'[v] = held[v]
      BY <1>1, <1>4, <2>1 DEF Kinds, Fixed
    <3> QED
      BY <1>1, <1>5, <3>1, OthersGoOn
  <2>2. CASE v = u
    <3>1. test'[u] = "none" /\ fds'[u] = <<>> /\ held'[u] = {}
      BY <1>1, <1>4 DEF Kinds, Fixed
    <3>2. Busy(u)' /\ Rests(u)'
      BY <1>1, <1>2, <3>1 DEF Busy, Rests
    <3>3. Descriptors(u)'
      BY <3>1 DEF Descriptors
    <3> QED
      BY <2>2, <3>2, <3>3
  <2> QED
    BY <2>1, <2>2
<1>8. Fresh' /\ WorkThere' /\ FailsOnlyByFault' /\ SuccessLeavesNothing' /\ FailedDiskTestsClose'
  BY <1>1, <1>3 DEF IInv, Fresh, WorkThere, FailsOnlyByFault, SuccessLeavesNothing,
     FailedDiskTestsClose, WorkFile
<1> QED
  BY <1>5, <1>6, <1>7, <1>8 DEF IInv

\* A child ends.
LEMMA KidExitsKeeps ==
  ASSUME IInv, NEW u \in User, KidExits(u)
  PROVE  IInv'
<1>1. /\ kids[u] > 0 /\ kids' = [kids EXCEPT ![u] = @ - 1]
      /\ UNCHANGED <<single, test, todo, begun, fate, leaks, fds, held, counter, fn2, lost, ipc, disk, deaf, faults>>
  BY DEF KidExits, procVars
<1>2. Kinds /\ Fixed
  BY DEF IInv
<1>3. kids' \in [User -> {0, 1}] /\ \A v \in User : kids'[v] > 0 => kids[v] > 0
  BY <1>1, <1>2 DEF Kinds
<1>4. Kinds' /\ Fixed'
  BY <1>1, <1>2, <1>3 DEF Kinds, Fixed, Files
<1>5. ASSUME NEW v \in User PROVE Busy(v)' /\ Rests(v)' /\ Descriptors(v)'
  BY <1>1, <1>3, <1>4, OthersGoOn
<1>6. Fresh' /\ WorkThere' /\ FailsOnlyByFault' /\ SuccessLeavesNothing' /\ FailedDiskTestsClose'
  BY <1>1 DEF IInv, Fresh, WorkThere, FailsOnlyByFault, SuccessLeavesNothing, FailedDiskTestsClose,
     WorkFile
<1> QED
  BY <1>4, <1>5, <1>6 DEF IInv

\* A datagram is lost.
LEMMA LoseDatagramKeeps ==
  ASSUME IInv, NEW u \in User, LoseDatagram(u)
  PROVE  IInv'
<1>1. /\ faults < MaxFaults /\ faults' = faults + 1 /\ lost' = lost \cup {u}
      /\ UNCHANGED <<single, test, todo, begun, fate, leaks, fds, held, kids, counter, fn2, ipc, disk, deaf>>
  BY DEF LoseDatagram, procVars
<1>2. Kinds /\ Fixed /\ Fresh
  BY DEF IInv
<1>3. faults' # 0 /\ faults' \in 0 .. MaxFaults
  BY <1>1, <1>2, RunnerAssumption DEF Kinds
<1>4. Kinds' /\ Fixed'
  BY <1>1, <1>2, <1>3 DEF Kinds, Fixed, Files
<1>5. ASSUME NEW v \in User PROVE Busy(v)' /\ Rests(v)' /\ Descriptors(v)'
  BY <1>1, <1>3, <1>4, OthersGoOn
<1>6. Fresh'
  BY <1>1, <1>2, FreshKept
<1>7. WorkThere' /\ FailsOnlyByFault' /\ SuccessLeavesNothing' /\ FailedDiskTestsClose'
  BY <1>1, <1>3 DEF IInv, WorkThere, FailsOnlyByFault, SuccessLeavesNothing, FailedDiskTestsClose
<1> QED
  BY <1>4, <1>5, <1>6, <1>7 DEF IInv

\* SIGTERM: the work file and the IPC of the user go.
LEMMA TerminatedKeeps ==
  ASSUME IInv, NEW u \in User, Terminated(u)
  PROVE  IInv'
<1>1. /\ faults < MaxFaults /\ faults' = faults + 1 /\ deaf' = deaf \cup {u}
      /\ ipc' = [ipc EXCEPT ![u] = {}] /\ disk' = Without(disk, {WorkFile})
      /\ UNCHANGED <<single, test, todo, begun, fate, leaks, fds, held, kids, counter, fn2, lost>>
  BY DEF Terminated, procVars, ownVars, clear_ipc
<1>2. Kinds /\ Fixed /\ Fresh
  BY DEF IInv
<1>3. faults' # 0 /\ faults' \in 0 .. MaxFaults
  BY <1>1, <1>2, RunnerAssumption DEF Kinds
<1>4. Files' /\ DOMAIN disk' \subseteq DOMAIN disk
  BY <1>1, <1>2 DEF Kinds, Files, Without
<1>5. ipc' \in [User -> SUBSET {"shm", "sem", "taken"}] /\ \A v \in User : ipc'[v] \subseteq ipc[v]
  BY <1>1, <1>2 DEF Kinds
<1>6. Kinds' /\ Fixed'
  <2>1. Kinds'
    BY <1>1, <1>2, <1>3, <1>4, <1>5 DEF Kinds
  <2> QED
    BY <1>1, <1>2, <2>1 DEF Fixed
<1>7. ASSUME NEW v \in User PROVE Busy(v)' /\ Rests(v)' /\ Descriptors(v)'
  BY <1>1, <1>3, <1>4, <1>5, <1>6, OthersGoOn
<1>8. Fresh'
  BY <1>1, <1>2, <1>4, FreshKept
<1>9. WorkThere' /\ FailsOnlyByFault' /\ SuccessLeavesNothing' /\ FailedDiskTestsClose'
  BY <1>1, <1>3 DEF IInv, WorkThere, FailsOnlyByFault, SuccessLeavesNothing, FailedDiskTestsClose
<1> QED
  BY <1>6, <1>7, <1>8, <1>9 DEF IInv

\* What a test leaves behind is a descriptor, a file or memory.
LEMMA LeftoversAre ==
  ASSUME NEW u, NEW op, NEW fd, NEW mem, mem \subseteq MemNames, NEW d, NEW r \in Leftovers(u,
         op, fd, mem, d)
  PROVE  r.test = test[u] /\ r.last = op /\ (r.what = "descriptor" => \E x : x \in DOMAIN fd)
BY DEF Leftovers, MemNames

\* SIGALRM: the user goes.
LEMMA AlarmFiresKeeps ==
  ASSUME IInv, NEW u \in User, AlarmFires(u)
  PROVE  IInv'
<1>1. /\ faults < MaxFaults /\ faults' = faults + 1 /\ fate' = [fate EXCEPT ![u] = "alarm"]
      /\ test' = [test EXCEPT ![u] = "none"] /\ todo' = [todo EXCEPT ![u] = <<>>]
      /\ leaks' = leaks \cup Leftovers(u, "alarm", <<>>, {}, disk)
      /\ fds' = [fds EXCEPT ![u] = <<>>] /\ held' = [held EXCEPT ![u] = {}]
      /\ lost' = lost \ {u}
      /\ UNCHANGED <<single, begun, kids, counter, fn2, ipc, disk, deaf>>
  BY DEF AlarmFires
<1>2. Kinds /\ Fixed /\ Fresh
  BY DEF IInv
<1>3. faults' # 0 /\ faults' \in 0 .. MaxFaults
  BY <1>1, <1>2, RunnerAssumption DEF Kinds
<1>4. Kinds'
  BY <1>1, <1>2, <1>3 DEF Kinds, Files
<1>5. Fixed'
  BY <1>1, <1>2 DEF Fixed
<1>6. ASSUME NEW v \in User PROVE Busy(v)' /\ Rests(v)' /\ Descriptors(v)'
  <2>1. CASE v # u
    <3>1. /\ test'[v] = test[v] /\ todo'[v] = todo[v] /\ fds'[v] = fds[v] /\ held'[v] = held[v]
          /\ fate'[v] = fate[v]
      BY <1>1, <1>2, <2>1 DEF Kinds, Fixed
    <3> QED
      BY <1>1, <1>3, <1>4, <3>1, OthersGoOn
  <2>2. CASE v = u
    <3>1. /\ test'[u] = "none" /\ todo'[u] = <<>> /\ fds'[u] = <<>> /\ held'[u] = {}
          /\ fate'[u] = "alarm"
      BY <1>1, <1>2 DEF Kinds, Fixed
    <3>2. Busy(u)' /\ Rests(u)'
      BY <3>1 DEF Busy, Rests
    <3>3. Descriptors(u)'
      BY <3>1 DEF Descriptors
    <3> QED
      BY <2>2, <3>2, <3>3
  <2> QED
    BY <2>1, <2>2
<1>7. Fresh'
  BY <1>1, <1>2, FreshKept
<1>8. \A r \in leaks' \ leaks : r.last = "alarm" /\ r.what # "descriptor"
  <2>1. {} \subseteq MemNames /\ DOMAIN <<>> = {}
    OBVIOUS
  <2> QED
    BY <1>1, <2>1, LeftoversAre
<1>9. WorkThere' /\ FailsOnlyByFault' /\ SuccessLeavesNothing' /\ FailedDiskTestsClose'
  BY <1>3, <1>8 DEF IInv, WorkThere, FailsOnlyByFault, SuccessLeavesNothing, FailedDiskTestsClose
<1> QED
  BY <1>4, <1>5, <1>6, <1>7, <1>9 DEF IInv

(***************************************************************************)
(* A call that fails.                                                      *)
(***************************************************************************)

\* While nothing goes wrong, a read finds a block.
LEMMA ReadsWithin ==
  ASSUME IInv, NEW u \in User, faults = 0, Calls(u, "read")
  PROVE  CanRead(u)
<1> DEFINE c == Current(u)
           x == fds[u]["fd"].pos
<1>1. todo[u] # <<>> /\ c.op = "read"
  BY DEF Calls
<1>2. PICK a, s : Matches(u, a) /\ Bounded(a) /\ Step(Profile(test[u]), a, c, s)
  BY <1>1, OnTheWay
<1>3. /\ c.on = "fd" /\ Fd("fd") \in a.must
      /\ \/ a.file = "work" /\ a.hi < Blocks
         \/ a.file = "temp" /\ Entry("temp") \in a.must /\ a.hi < a.size
  BY <1>1, <1>2, SaysRead
<1>4. Descriptors(u) /\ Files /\ WorkThere
  BY DEF IInv, Kinds
<1>5. Where(u, a) /\ Opened(u, a.must) /\ HasAll(u, a.must)
  BY <1>2 DEF Matches
<1>6. "fd" \in DOMAIN fds[u]
  BY <1>3, <1>5 DEF Opened
<1>7. x \in Nat /\ x <= a.hi /\ fds[u]["fd"].file = FileOf(u, a.file)
  BY <1>4, <1>5, <1>6 DEF Descriptors, Where
<1>8. a.hi \in Int /\ a.size \in Int /\ Blocks \in Int
  BY <1>2, BlocksAssumption DEF Bounded
<1> HIDE DEF x
<1>9. CASE a.file = "work"
  <2>1. FileOf(u, "work") = WorkFile
    BY DEF FileOf
  <2>2. WorkFile \in DOMAIN disk /\ disk[WorkFile] >= Blocks /\ disk[WorkFile] \in Nat
    BY <1>4 DEF WorkThere, Files
  <2>3. a.hi < Blocks
    BY <1>3, <1>9
  <2> HIDE DEF WorkFile
  <2>4. x < disk[WorkFile]
    BY <1>7, <1>8, <2>2, <2>3
  <2> QED
    BY <1>3, <1>7, <1>9, <2>1, <2>4 DEF CanRead, OpenFile, On, x
<1>10. CASE a.file = "temp"
  <2> DEFINE f == FileOf(u, "temp")
  <2>1. Entry("temp") \in a.must /\ a.hi < a.size
    BY <1>3, <1>10
  <2>2. f \in DOMAIN disk /\ a.size <= disk[f] /\ disk[f] \in Nat
    BY <1>4, <1>5, <2>1 DEF HasAll, Where, Files
  <2> HIDE DEF f
  <2>3. x < disk[f]
    BY <1>7, <1>8, <2>1, <2>2
  <2> QED
    BY <1>3, <1>7, <1>10, <2>3 DEF CanRead, OpenFile, On, x, f
<1> QED
  BY <1>3, <1>9, <1>10

\* While nothing goes wrong, a call finds what it is made on.
LEMMA FindsAll ==
  ASSUME IInv, NEW u \in User, faults = 0
  PROVE  ~MustFail(u)
<1> SUFFICES ASSUME MustFail(u) PROVE FALSE
  OBVIOUS
<1> DEFINE c == Current(u)
<1>1. todo[u] # <<>>
  BY DEF MustFail, Calls
<1>2. PICK a, s : Matches(u, a) /\ Bounded(a) /\ Step(Profile(test[u]), a, c, s)
  BY <1>1, OnTheWay
<1>3. Finds(a, c) /\ Names(Profile(test[u]), c)
  BY <1>2 DEF Step
<1>4. Within(u, a.may) /\ HasAll(u, a.must)
  BY <1>2 DEF Matches
<1>5. WorkFile \in DOMAIN disk
  BY DEF IInv, WorkThere
<1>6. CASE (Calls(u, "open") \/ Calls(u, "remove")) /\ File(u) \notin DOMAIN disk
  <2>1. c.file = "work" \/ Entry(c.file) \in a.must
    BY <1>3, <1>6 DEF Finds, Calls
  <2>2. FileOf(u, "work") = WorkFile
    BY DEF FileOf
  <2> QED
    BY <1>4, <1>5, <1>6, <2>1, <2>2 DEF HasAll, File
<1>7. CASE Calls(u, "make") /\ File(u) \in DOMAIN disk
  <2>1. Entry(c.file) \notin a.may /\ c.file \in Uses(test[u])
    BY <1>3, <1>7 DEF Finds, Names, Calls, Profile
  <2> QED
    BY <1>4, <1>7, <2>1 DEF Within, File
<1>8. CASE Calls(u, "read") /\ ~CanRead(u)
  BY <1>8, ReadsWithin
<1>9. CASE (Calls(u, "send") \/ Calls(u, "receive")) /\ On(u) \notin DOMAIN fds[u]
  BY <1>3, <1>4, <1>9 DEF Finds, Calls, On, HasAll
<1>10. CASE (Calls(u, "shmat") \/ Calls(u, "copy")) /\ "shm" \notin ipc[u]
  BY <1>3, <1>4, <1>10 DEF Finds, Calls, HasAll
<1>11. CASE (Calls(u, "semctl") \/ Calls(u, "semop")) /\ "sem" \notin ipc[u]
  BY <1>3, <1>4, <1>11 DEF Finds, Calls, HasAll
<1> QED
  BY <1>6, <1>7, <1>8, <1>9, <1>10, <1>11 DEF MustFail

\* Which calls can fail.
LEMMA FailsFallible ==
  ASSUME NEW u, MustFail(u) \/ MayFail(u)
  PROVE  todo[u] # <<>> /\ Current(u).op \in Fallible
BY DEF MustFail, MayFail, Calls, Fallible

\* A call fails, the test cleans up and is over.
LEMMA FailsKeeps ==
  ASSUME IInv, NEW u \in User, Fails(u)
  PROVE  IInv'
<1> DEFINE c     == Current(u)
           undo  == Range(c.undo)
           fd    == Without(fds[u], {x.on : x \in {y \in undo : y.op = "close"}})
           mem   == held[u] \ {x.on : x \in {y \in undo : y.op = "free"}}
           files == {FileOf(u, x.file) : x \in {y \in undo : y.op = "unlink"}}
                      \cup IF HandlesSegv(u) THEN {WorkFile} ELSE {}
           dies  == {Abort, Segv} \cap undo # {}
           clears == Clear \in undo \/ HandlesSegv(u)
<1>1. /\ test' = [test EXCEPT ![u] = "none"] /\ todo' = [todo EXCEPT ![u] = <<>>]
      /\ fds' = [fds EXCEPT ![u] = <<>>] /\ held' = [held EXCEPT ![u] = {}]
      /\ leaks' = leaks \cup Leftovers(u, c.op, fd, mem, disk')
      /\ ipc' = IF clears THEN clear_ipc(u) ELSE ipc
      /\ fate' = [fate EXCEPT ![u] = IF dies THEN "aborted" ELSE IF single THEN @ ELSE "failed"]
      /\ UNCHANGED <<single, begun, kids, counter, fn2, lost, deaf>>
  BY DEF Fails
<1>2. disk' = Without(disk, files)
  BY DEF Fails
<1>3. (MustFail(u) /\ faults' = faults) \/ (MayFail(u) /\ faults' = faults + 1 /\ faults < MaxFaults)
  BY DEF Fails, MayFail
<1>4. todo[u] # <<>> /\ c.op \in Fallible
  BY <1>3, FailsFallible
<1>5. /\ test[u] # "none" /\ fate[u] = "lives"
      /\ \E a, s : Matches(u, a) /\ Bounded(a) /\ Step(Profile(test[u]), a, c, s)
  BY <1>4, OnTheWay
<1>6. PICK a, s : Matches(u, a) /\ Bounded(a) /\ Step(Profile(test[u]), a, c, s)
  BY <1>5
<1>7. Within(u, a.may) /\ CleansUp(Profile(test[u]), a, c)
  BY <1>6 DEF Matches, Step
<1> HIDE DEF c, undo, fd, mem, files, dies, clears
<1>8. Kinds /\ Fixed /\ Fresh
  BY DEF IInv
<1>9. faults' # 0 /\ faults' \in 0 .. MaxFaults
  <2>1. faults \in 0 .. MaxFaults /\ MaxFaults \in Nat
    BY <1>8, RunnerAssumption DEF Kinds
  <2>2. faults = 0 => ~MustFail(u)
    BY FindsAll
  <2> QED
    BY <1>3, <2>1, <2>2
<1>10. Files' /\ DOMAIN disk' \subseteq DOMAIN disk
  BY <1>2, <1>8 DEF Kinds, Files, Without
<1>11. ipc' \in [User -> SUBSET {"shm", "sem", "taken"}] /\ \A v \in User : ipc'[v] \subseteq ipc[v]
  <2>1. CASE clears
    BY <1>1, <1>8, <2>1 DEF Kinds, clear_ipc
  <2>2. CASE ~clears
    BY <1>1, <1>8, <2>2 DEF Kinds
  <2> QED
    BY <2>1, <2>2
<1>12. Kinds'
  BY <1>1, <1>8, <1>9, <1>10, <1>11 DEF Kinds
<1>13. Fixed'
  <2>1. fate' \in [User -> {"lives", "failed", "aborted", "alarm"}]
    BY <1>1, <1>8 DEF Fixed
  <2>2. test' \in [User -> TestsOf[single] \cup {"none"}]
    BY <1>1, <1>8 DEF Fixed
  <2> QED
    BY <1>1, <1>8, <2>1, <2>2 DEF Fixed
<1>14. kids[u] = 0 /\ ipc'[u] = {}
  <2>1. c.op # "wait"
    BY <1>4 DEF Fallible
  <2>2. kids[u] = 0
    BY <1>7, <1>8, <2>1 DEF CleansUp, Within, Kinds
  <2>3. CASE clears
    BY <1>1, <1>8, <2>2, <2>3 DEF clear_ipc, Kinds
  <2>4. CASE ~clears
    <3>1. \A w : Ipc(w) \notin a.may
      BY <1>4, <1>7, <2>4 DEF CleansUp, undo, clears
    <3> QED
      BY <1>1, <1>7, <2>2, <2>4, <3>1 DEF Within
  <2> QED
    BY <2>2, <2>3, <2>4
<1>15. ASSUME NEW v \in User PROVE Busy(v)' /\ Rests(v)' /\ Descriptors(v)'
  <2>1. CASE v # u
    <3>1. /\ test'[v] = test[v] /\ todo'[v] = todo[v] /\ fds'[v] = fds[v] /\ held'[v] = held[v]
          /\ fate'[v] = fate[v]
      BY <1>1, <1>8, <2>1 DEF Kinds, Fixed
    <3> QED
      BY <1>1, <1>9, <1>10, <1>11, <1>12, <3>1, OthersGoOn
  <2>2. CASE v = u
    <3>1. test'[u] = "none" /\ todo'[u] = <<>> /\ fds'[u] = <<>> /\ held'[u] = {}
      BY <1>1, <1>8 DEF Kinds, Fixed
    <3>2. Busy(u)' /\ Rests(u)'
      BY <1>1, <1>14, <3>1 DEF Busy, Rests
    <3>3. Descriptors(u)'
      BY <3>1 DEF Descriptors
    <3> QED
      BY <2>2, <3>2, <3>3
  <2> QED
    BY <2>1, <2>2
<1>16. Fresh'
  BY <1>1, <1>8, <1>10, FreshKept
<1>17. ASSUME NEW r \in Leftovers(u, c.op, fd, mem, disk')
       PROVE  /\ r.last # "return"
              /\ r.what = "descriptor" /\ r.test \in DOMAIN DiskTest =>
                   r.last = "alloc" /\ r.test \in {"disk_dio_cp", "disk_dio_wrt"}
  <2>1. mem \subseteq MemNames
    BY <1>8 DEF Kinds, mem
  <2>2. r.test = test[u] /\ r.last = c.op /\ (r.what = "descriptor" => \E x : x \in DOMAIN fd)
    BY <1>17, <2>1, LeftoversAre
  <2>3. r.last # "return"
    BY <1>4, <2>2 DEF Fallible
  <2>4. ASSUME r.what = "descriptor", r.test \in DOMAIN DiskTest
        PROVE  r.last = "alloc" /\ r.test \in {"disk_dio_cp", "disk_dio_wrt"}
    <3>1. PICK x : x \in DOMAIN fd
      BY <2>2, <2>4
    <3>2. x \in DOMAIN fds[u] /\ x \notin {y.on : y \in {z \in undo : z.op = "close"}}
      BY <3>1 DEF fd, Without
    <3>3. Fd(x) \in a.may
      BY <1>7, <3>2 DEF Within
    <3>4. Close(x) \notin undo
      <4>1. Close(x).op = "close" /\ Close(x).on = x
        BY DEF Close, Call
      <4> QED
        BY <3>2, <4>1
    <3>5. c.op \in Loose(test[u])
      BY <1>4, <1>7, <3>3, <3>4 DEF CleansUp, Profile, undo
    <3> QED
      BY <2>2, <2>4, <3>5 DEF Loose, AlignedTests
  <2> QED
    BY <2>3, <2>4
<1>18. WorkThere' /\ FailsOnlyByFault' /\ SuccessLeavesNothing' /\ FailedDiskTestsClose'
  BY <1>1, <1>9, <1>17 DEF IInv, WorkThere, FailsOnlyByFault, SuccessLeavesNothing,
     FailedDiskTestsClose
<1> QED
  BY <1>12, <1>13, <1>15, <1>16, <1>18 DEF IInv

(***************************************************************************)
(* The theorems.                                                           *)
(***************************************************************************)

\* The invariant holds at the start.
LEMMA InitiallyOK == Init => IInv
<1> SUFFICES ASSUME Init PROVE IInv
  OBVIOUS
<1>1. /\ single \in BOOLEAN
      /\ test = [u \in User |-> "none"] /\ todo = [u \in User |-> <<>>]
      /\ fds = [u \in User |-> <<>>] /\ held = [u \in User |-> {}]
      /\ kids = [u \in User |-> 0] /\ counter = [u \in User |-> -1] /\ fn2 = counter
      /\ begun = [u \in User |-> 0] /\ fate = [u \in User |-> "lives"]
      /\ ipc = [u \in User |-> {}]
      /\ disk = [f \in {WorkFile} |-> Blocks]
      /\ deaf = {} /\ lost = {} /\ leaks = {} /\ faults = 0
  BY DEF Init
<1>2. Files
  BY <1>1, BlocksAssumption DEF Files
<1>3. Kinds
  <2>1. 0 \in 0 .. MaxFaults
    BY RunnerAssumption
  <2> QED
    BY <1>1, <1>2, <2>1 DEF Kinds
<1>4. Fixed
  <2>1. -1 \in -1 .. NumSuffixes - 1
    BY DEF NumSuffixes
  <2>2. 0 \in 0 .. MaxTests[single]
    BY <1>1, RunnerAssumption
  <2> QED
    BY <1>1, <2>1, <2>2 DEF Fixed
<1>5. \A u \in User : Busy(u) /\ Rests(u)
  BY <1>1 DEF Busy, Rests
<1>6. ASSUME NEW u \in User PROVE Descriptors(u)
  BY <1>1 DEF Descriptors
<1>7. Fresh
  BY <1>1 DEF Fresh, WorkFile, NewNames
<1>8. WorkThere
  BY <1>1, BlocksAssumption DEF WorkThere
<1>9. FailsOnlyByFault /\ SuccessLeavesNothing /\ FailedDiskTestsClose
  BY <1>1 DEF FailsOnlyByFault, SuccessLeavesNothing, FailedDiskTestsClose
<1> QED
  BY <1>3, <1>4, <1>5, <1>6, <1>7, <1>8, <1>9 DEF IInv

\* A step of something else.
LEMMA StutterKeeps == IInv /\ UNCHANGED vars => IInv'
<1> SUFFICES ASSUME IInv, UNCHANGED vars PROVE IInv'
  OBVIOUS
<1>1. UNCHANGED <<single, test, todo, begun, fate, leaks, fds, held, kids, counter, fn2, lost, ipc, disk, deaf, faults>>
  BY DEF vars, procVars, ownVars
<1>2. Kinds' /\ Fixed'
  BY <1>1 DEF IInv, Kinds, Fixed, Files
<1>3. ASSUME NEW v \in User PROVE Busy(v)' /\ Rests(v)' /\ Descriptors(v)'
  BY <1>1, <1>2, OthersGoOn
<1>4. Fresh' /\ WorkThere' /\ FailsOnlyByFault' /\ SuccessLeavesNothing' /\ FailedDiskTestsClose'
  BY <1>1 DEF IInv, Fresh, WorkThere, FailsOnlyByFault, SuccessLeavesNothing, FailedDiskTestsClose
<1> QED
  BY <1>2, <1>3, <1>4 DEF IInv

\* Where descriptors stand while a test goes on.
LEMMA WithinFile ==
  ASSUME IInv, NEW u \in User, NEW fd \in DOMAIN fds[u]
  PROVE  fds[u][fd].pos \in 0 .. Blocks + 1
<1>1. Descriptors(u) /\ Rests(u) /\ Busy(u)
  BY DEF IInv
<1>2. CASE fd \notin {"fd", "fd2"}
  <2>1. fds[u][fd].pos = 0
    BY <1>1, <1>2 DEF Descriptors
  <2> QED
    BY <2>1, BlocksAssumption
<1>3. CASE fd \in {"fd", "fd2"}
  <2>1. test[u] # "none"
    BY <1>1 DEF Rests
  <2>2. PICK a, b : Matches(u, a) /\ Path(Profile(test[u]), todo[u], a, b)
    BY <1>1, <2>1 DEF Busy
  <2>3. a.hi \in 0 .. Blocks + 1 /\ a.top \in 0 .. Blocks + 1 /\ fds[u][fd].pos \in Nat
    BY <1>1, <2>2 DEF Path, Bounded, Descriptors
  <2>4. fds[u][fd].pos <= a.hi \/ fds[u][fd].pos <= a.top
    BY <1>3, <2>2 DEF Matches, Where
  <2> QED
    BY <2>3, <2>4, BlocksAssumption
<1> QED
  BY <1>2, <1>3

\* The invariant implies the types.
LEMMA TypesOK == IInv => TypeOK
<1> SUFFICES ASSUME IInv PROVE TypeOK
  OBVIOUS
<1>1. ASSUME NEW u \in User
      PROVE  /\ test[u] \in TestsOf[single] \cup {"none"}
             /\ test[u] = "none" => todo[u] = <<>>
             /\ held[u] \subseteq {"buf", "break", "cwd", "list", "array", "table"}
             /\ \A fd \in DOMAIN fds[u] : fds[u][fd].pos \in 0 .. Blocks + 1
  <2>1. Kinds /\ Fixed /\ Rests(u)
    BY DEF IInv
  <2>2. held[u] \subseteq MemNames
    BY <2>1 DEF Kinds
  <2> QED
    BY <2>1, <2>2, WithinFile DEF Fixed, Rests, MemNames
<1>2. /\ kids \in [User -> {0, 1}] /\ ipc \in [User -> SUBSET {"shm", "sem", "taken"}]
      /\ faults \in 0 .. MaxFaults
  BY DEF IInv, Kinds
<1>3. /\ counter \in [User -> -1 .. NumSuffixes - 1] /\ begun \in [User -> 0 .. MaxTests[single]]
      /\ fate \in [User -> {"lives", "failed", "aborted", "alarm"}] /\ deaf \subseteq User
      /\ lost \subseteq User
  BY DEF IInv, Fixed
<1> QED
  BY <1>1, <1>2, <1>3 DEF TypeOK

\* What a user has is at any time what the rest of its test accounts for.
THEOREM Invariance == Spec => []IInv
<1>1. ASSUME IInv, [Next]_vars PROVE IInv'
  <2>1. CASE UNCHANGED vars
    BY <1>1, <2>1, StutterKeeps
  <2>2. ASSUME NEW u \in User,
               Begin(u) \/ Runs(u) \/ KidExits(u) \/ Unnoticed(u) \/ LoseDatagram(u) \/ Terminated(u) \/ AlarmFires(u)
        PROVE  IInv'
    <3>1. CASE Begin(u)
      BY <1>1, <3>1, BeginKeeps
    <3>2. CASE Returns(u)
      BY <1>1, <3>2, ReturnsKeeps
    <3>3. CASE Does(u)
      BY <1>1, <3>3, DoesKeeps
    <3>4. CASE Fails(u)
      BY <1>1, <3>4, FailsKeeps
    <3>5. CASE KidExits(u)
      BY <1>1, <3>5, KidExitsKeeps
    <3>6. CASE Unnoticed(u)
      BY <1>1, <3>6, UnnoticedDone, DoneKeeps
    <3>7. CASE LoseDatagram(u)
      BY <1>1, <3>7, LoseDatagramKeeps
    <3>8. CASE Terminated(u)
      BY <1>1, <3>8, TerminatedKeeps
    <3>9. CASE AlarmFires(u)
      BY <1>1, <3>9, AlarmFiresKeeps
    <3> QED
      BY <2>2, <3>1, <3>2, <3>3, <3>4, <3>5, <3>6, <3>7, <3>8, <3>9 DEF Runs
  <2> QED
    BY <1>1, <2>1, <2>2 DEF Next
<1> QED
  BY <1>1, InitiallyOK, PTL DEF Spec

\* Types, with the position of every descriptor at most one block past the blocks of a file
\* (do_write() and do_read() in disk1.c).
THEOREM TypeCorrect == Spec => []TypeOK
BY Invariance, TypesOK, PTL

\* While no call fails and no signal comes, no test fails, whoever runs next to it: names are
\* apart, files long enough, descriptors open (aim_mktemp(), get_list(), disk_rr() and the like).
THEOREM NobodyInTheWay == Spec => []FailsOnlyByFault
<1>1. IInv => FailsOnlyByFault
  BY DEF IInv
<1> QED
  BY <1>1, Invariance, PTL

\* A test that succeeds has closed, freed and unlinked all it made, whatever other users and
\* failures before it left (the ends of the functions of disk1.c, pipe_test.c and the others).
THEOREM TestsLeaveNothing == Spec => []SuccessLeavesNothing
<1>1. IInv => SuccessLeavesNothing
  BY DEF IInv
<1> QED
  BY <1>1, Invariance, PTL

\* A disk test that fails has closed its files, but for disk_dio_cp() and disk_dio_wrt() that
\* get no aligned buffer (the error returns of disk1.c).
THEOREM DiskTestsClose == Spec => []FailedDiskTestsClose
<1>1. IInv => FailedDiskTestsClose
  BY DEF IInv
<1> QED
  BY <1>1, Invariance, PTL

\* Only SIGALRM, or the test that has it, keeps a segment or semaphore (FATAL_SHARED_MEM,
\* clear_ipc(), child_sighandler()).
THEOREM SegmentsReleased == Spec => []IpcReleased
<1>1. IInv => IpcReleased
  BY DEF IInv, Rests, IpcReleased
<1> QED
  BY <1>1, Invariance, PTL

(***************************************************************************)
(* Nobody waits for ever on somebody who waits.                            *)
(***************************************************************************)

\* The guards of Runs(u): there is a call that user u can make, or it can return.
CanRun(u) ==
  \/ test[u] # "none" /\ todo[u] = <<>>
  \/ \E op \in {"creat", "open", "write", "read", "rewind", "close", "unlink", "remove", "make",
                "socket", "accept", "send", "receive", "alloc", "free", "try", "fork",
                "semget", "shmat", "copy", "semctl", "clear"} : Calls(u, op)
  \/ Calls(u, "seek") /\ 1 <= Current(u).range
  \/ Calls(u, "wait") /\ kids[u] = 0
  \/ Calls(u, "shmget") /\ InUse("shm") < Segments
  \/ Calls(u, "semop") /\ \/ "sem" \notin ipc[u] \/ On(u) = "signal"
                          \/ On(u) = "wait" /\ "taken" \notin ipc[u]
MayGoOn(u) == CanRun(u) \/ kids[u] > 0

\* A user that has lost a datagram waits for it in udp_test().
LostWaits == \A u \in lost : test[u] = "udp_test" /\ todo[u] # <<>>

\* A step by user u that is not lost leaves those that are where they are.
LEMMA LostStay ==
  ASSUME Kinds, Fixed, LostWaits, NEW u \in User, u \notin lost, lost' = lost,
         \A v \in User \ {u} : test'[v] = test[v] /\ todo'[v] = todo[v]
  PROVE  LostWaits'
BY DEF LostWaits, Fixed

\* The others either do not touch lost, or add a receiver to it or take one out.
LEMMA LostWaitsStep == Kinds /\ Fixed /\ LostWaits /\ [Next]_vars => LostWaits'
<1> SUFFICES ASSUME Kinds, Fixed, LostWaits, [Next]_vars PROVE LostWaits'
  OBVIOUS
<1>1. CASE UNCHANGED vars
  BY <1>1 DEF vars, procVars, ownVars, LostWaits
<1>2. ASSUME NEW u \in User,
             Begin(u) \/ Runs(u) \/ KidExits(u) \/ Unnoticed(u) \/ LoseDatagram(u) \/ Terminated(u) \/ AlarmFires(u)
      PROVE  LostWaits'
  <2>1. /\ todo = [v \in User |-> todo[v]] /\ test \in [User -> TestsOf[single] \cup {"none"}]
        /\ lost \subseteq User
    BY DEF Kinds, Fixed
  <2>2. CASE Begin(u)
    <3>1. u \notin lost
      BY <2>2 DEF Begin, LostWaits
    <3>2. lost' = lost /\ \A v \in User \ {u} : test'[v] = test[v] /\ todo'[v] = todo[v]
      BY <2>1, <2>2 DEF Begin
    <3> QED
      BY <3>1, <3>2, LostStay
  <2>3. CASE Returns(u)
    <3>1. u \notin lost
      BY <2>3 DEF Returns, LostWaits
    <3>2. lost' = lost /\ \A v \in User \ {u} : test'[v] = test[v] /\ todo'[v] = todo[v]
      BY <2>1, <2>3 DEF Returns
    <3> QED
      BY <3>1, <3>2, LostStay
  <2>4. CASE Does(u)
    <3>1. u \notin lost
      BY <2>4 DEF Does, DoCreat, DoOpen, DoWrite, DoRead, DoSeek, DoClose, DoUnlink, DoMake, DoSocket,
         DoMemory, DoTry, DoFork, DoWait, DoShmGet, DoSemGet, NoSemaphore, DoSemOp, DoClear, Calls
    <3>2. /\ lost' = lost /\ test' = test
          /\ \/ todo' = [todo EXCEPT ![u] = Tail(@)]
             \/ todo' = [todo EXCEPT ![u] = <<ShmGet>> \o @]
      BY <2>4 DEF Does, DoCreat, DoOpen, DoWrite, DoRead, DoSeek, DoClose, DoUnlink, DoMake, DoSocket,
         DoMemory, DoTry, DoFork, DoWait, DoShmGet, DoSemGet, NoSemaphore, DoSemOp, DoClear, Advance,
         ownVars
    <3>3. \A v \in User \ {u} : test'[v] = test[v] /\ todo'[v] = todo[v]
      BY <2>1, <3>2
    <3> QED
      BY <3>1, <3>2, <3>3, LostStay
  <2>5. CASE Fails(u)
    <3>1. u \notin lost
      BY <2>5 DEF Fails, MustFail, MayFail, Calls
    <3>2. lost' = lost /\ \A v \in User \ {u} : test'[v] = test[v] /\ todo'[v] = todo[v]
      BY <2>1, <2>5 DEF Fails
    <3> QED
      BY <3>1, <3>2, LostStay
  <2>6. CASE KidExits(u) \/ Terminated(u)
    BY <2>6 DEF KidExits, Terminated, procVars, ownVars, LostWaits
  <2>7. CASE Unnoticed(u)
    <3>1. u \notin lost
      BY <2>7 DEF Unnoticed, Calls
    <3>2. lost' = lost /\ \A v \in User \ {u} : test'[v] = test[v] /\ todo'[v] = todo[v]
      BY <2>1, <2>7 DEF Unnoticed, ownVars
    <3> QED
      BY <3>1, <3>2, LostStay
  <2>8. CASE LoseDatagram(u)
    BY <2>8 DEF LoseDatagram, Calls, procVars, LostWaits
  <2>9. CASE AlarmFires(u)
    <3>1. lost' = lost \ {u} /\ \A v \in User \ {u} : test'[v] = test[v] /\ todo'[v] = todo[v]
      BY <2>1, <2>9 DEF AlarmFires
    <3> QED
      BY <2>1, <3>1 DEF LostWaits
  <2> QED
    BY <1>2, <2>2, <2>3, <2>4, <2>5, <2>6, <2>7, <2>8, <2>9 DEF Runs
<1> QED
  BY <1>1, <1>2 DEF Next

\* A user that is not waiting for a datagram goes on, or waits for a segment.
LEMMA GoesOnOrWaits ==
  ASSUME IInv, NEW u \in User, test[u] # "none", u \notin lost
  PROVE  /\ MayGoOn(u) \/ (Calls(u, "shmget") /\ ~(InUse("shm") < Segments))
         /\ "shm" \in ipc[u] => MayGoOn(u)
<1>1. CASE todo[u] = <<>>
  BY <1>1 DEF MayGoOn, CanRun
<1>2. CASE todo[u] # <<>>
  <2> DEFINE c == Current(u)
  <2>1. PICK a, s, e : /\ Matches(u, a) /\ Step(Profile(test[u]), a, c, s)
    BY <1>2, OnTheWay
  <2>2. Calls(u, c.op)
    BY <1>2 DEF Calls
  <2>3. kids[u] \in {0, 1} /\ \A w \in ipc[u] : Ipc(w) \in a.may
    BY <2>1 DEF IInv, Kinds, Matches, Within
  <2>4. c.op \in {"creat", "open", "write", "read", "seek", "rewind", "close", "unlink", "remove", "make",
                  "socket", "accept", "send", "receive", "alloc", "free", "try", "fork", "wait",
                  "shmget", "semget", "shmat", "copy", "semctl", "semop", "clear"}
    BY <2>1 DEF Step, Names
  <2>5. CASE c.op = "seek"
    <3>1. 1 <= c.range
      BY <2>1, <2>5 DEF Step, Names
    <3> QED
      BY <2>2, <2>5, <3>1 DEF MayGoOn, CanRun
  <2>6. CASE c.op = "wait"
    BY <2>2, <2>3, <2>6 DEF MayGoOn, CanRun
  <2>7. CASE c.op = "shmget"
    <3>1. "shm" \notin ipc[u]
      BY <2>1, <2>3, <2>7, SaysShmGet
    <3> QED
      BY <2>2, <2>7, <3>1 DEF MayGoOn, CanRun
  <2>8. CASE c.op = "semop"
    <3>1. On(u) \in {"wait", "signal"} /\ (On(u) = "wait" => "taken" \notin ipc[u])
      BY <2>1, <2>3, <2>8, SaysSemOp DEF On
    <3> QED
      BY <2>2, <2>8, <3>1 DEF MayGoOn, CanRun
  <2>9. CASE c.op \notin {"seek", "wait", "shmget", "semop"}
    <3> HIDE DEF c
    <3>1. c.op \in {"creat", "open", "write", "read", "rewind", "close", "unlink", "remove", "make",
                    "socket", "accept", "send", "receive", "alloc", "free", "try", "fork",
                    "semget", "shmat", "copy", "semctl", "clear"}
      BY <2>4, <2>9
    <3> QED
      BY <2>2, <3>1 DEF MayGoOn, CanRun
  <2> QED
    BY <2>5, <2>6, <2>7, <2>8, <2>9
<1> QED
  BY <1>1, <1>2

\* A user with a test goes on, or waits for what will not come or for one that goes on.
SomebodyGoesOn ==
  \A u \in User : test[u] # "none" =>
    \/ MayGoOn(u)
    \/ u \in lost /\ test[u] = "udp_test"
    \/ /\ Calls(u, "shmget")
       /\ \E v \in User : "shm" \in ipc[v] /\ (MayGoOn(v) \/ fate[v] = "alarm")

\* Nobody waits for somebody who waits: as long as the system has shared memory at all,
\* a test that has not ended can go on, or waits for a datagram that was lost, or for a
\* segment that is held by a user who can go on or was ended by SIGALRM; and whoever
\* holds a segment does not wait for another one (create_shared_memory(), pipe_test.c).
THEOREM SomebodyGoesOnHolds == ASSUME Segments > 0 PROVE Spec => []SomebodyGoesOn
<1>1. Init => LostWaits
  BY DEF Init, LostWaits
<1>2. IInv => Kinds /\ Fixed
  BY DEF IInv
<1>3. Spec => []LostWaits
  BY <1>1, <1>2, LostWaitsStep, Invariance, PTL DEF Spec
<1>4. IInv /\ LostWaits => SomebodyGoesOn
  <2> SUFFICES ASSUME IInv, LostWaits, NEW u \in User, test[u] # "none", ~MayGoOn(u), u \notin lost
               PROVE  /\ Calls(u, "shmget")
                      /\ \E v \in User : "shm" \in ipc[v] /\ (MayGoOn(v) \/ fate[v] = "alarm")
    BY DEF SomebodyGoesOn, LostWaits
  <2>1. Calls(u, "shmget") /\ ~(InUse("shm") < Segments)
    BY GoesOnOrWaits
  <2>2. {w \in User : "shm" \in ipc[w]} # {}
    <3>1. InUse("shm") # 0
      BY <2>1
    <3> QED
      BY <3>1, FS_EmptySet DEF InUse
  <2>3. PICK v \in User : "shm" \in ipc[v]
    BY <2>2
  <2>4. test[v] = "shared_memory" \/ fate[v] = "alarm"
    BY <2>3 DEF IInv, Rests
  <2>5. CASE test[v] = "shared_memory"
    <3>1. v \notin lost
      BY <2>5 DEF LostWaits
    <3> QED
      BY <2>1, <2>3, <2>5, <3>1, GoesOnOrWaits
  <2> QED
    BY <2>1, <2>3, <2>4, <2>5
<1> QED
  BY <1>3, <1>4, Invariance, PTL
=============================================================================
