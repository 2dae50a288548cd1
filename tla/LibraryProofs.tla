--------------------------- MODULE LibraryProofs ----------------------------
(***************************************************************************)
(* Proofs about libltp: forker(), the options and the loop of a test, the  *)
(* methods of i/o, and temporary directories, with one inductive invariant *)
(* for each; and its random choices and buffers, as functions, for         *)
(* arguments of any size.                                                  *)
(***************************************************************************)
EXTENDS Forks, TestLoop, AsyncIo, TmpDir, RandomChoice, BufferPatterns, FiniteSetTheorems,
        SequenceTheorems, WellFoundedInduction, TLAPS

(***************************************************************************)
(* forker(), for any number of copies and tables of any size.  There is    *)
(* one process that still forks: the first in mode 0, the last in mode 1.  *)
(* What each process knows follows from its number and from that.          *)
(***************************************************************************)

N == Len(process)
Memory == [cnt : Int, npids : Nat, pids : [Slots -> Nat], ret : Int]

\* A table with the pids of n forks.
Table(n) == [i \in Slots |-> IF i <= n /\ i < MaxPids THEN i + 1 ELSE 0]
Known(p) == IF mode = 0 THEN (IF p = 1 THEN N - 1 ELSE p - 1) ELSE (IF p < N THEN p ELSE N - 1)
Active == IF mode = 0 THEN 1 ELSE N

Tables ==
  /\ process \in Seq(Memory) /\ N >= 1
  /\ \A p \in 1 .. N : process[p].npids = Known(p) /\ process[p].pids = Table(Known(p))
Parents ==
  /\ parent \in Seq(Nat) /\ Len(parent) = N /\ parent[1] = 0
  /\ \A p \in 2 .. N : parent[p] = IF mode = 0 THEN 1 ELSE p - 1
Turns ==
  /\ mode \in {0, 1} /\ ncopies \in Nat \ {0} /\ N <= ncopies /\ refused \in BOOLEAN
  /\ process[Active].cnt = N
  /\ \A p \in 1 .. N : p # Active => process[p].ret # Running
  /\ process[Active].ret = Running => ~refused
  /\ process[Active].ret # Running => refused \/ N = ncopies
  /\ mode = 1 => \A p \in 1 .. N - 1 : process[p].ret = p - 1
  /\ mode = 1 /\ ~refused => process[N].ret \in {Running, N - 1}

\* What the memories, the parents and the turns of all processes are at any time.
ForksInv == Tables /\ Parents /\ Turns

\* The first process, before its first fork.
LEMMA ForksInvInit == ForkInit => ForksInv
<1> SUFFICES ASSUME ForkInit PROVE ForksInv
  OBVIOUS
<1> DEFINE m == [cnt |-> 1, npids |-> 0, pids |-> [i \in Slots |-> 0], ret |-> Running]
<1>1. process = <<m>> /\ parent = <<0>> /\ ~refused /\ mode \in {0, 1} /\ ncopies \in Nat \ {0}
      /\ refused \in BOOLEAN
  BY ForksAssumption DEF ForkInit
<1>2. m \in Memory /\ m.cnt = 1 /\ m.npids = 0 /\ m.pids = [i \in Slots |-> 0] /\ m.ret = Running
  BY DEF Memory, Running
<1>3. Table(0) = [i \in Slots |-> 0]
  BY DEF Table, Slots
<1> HIDE DEF m
<1>4. N = 1 /\ process[1] = m /\ process \in Seq(Memory)
  BY <1>1, <1>2 DEF N
<1>5. Known(1) = 0 /\ Active = 1
  BY <1>4 DEF Known, Active
<1>6. Tables
  BY <1>2, <1>3, <1>4, <1>5 DEF Tables
<1>7. Parents
  BY <1>1, <1>4 DEF Parents
<1>8. Turns
  BY <1>1, <1>2, <1>4, <1>5 DEF Turns, Running
<1> QED
  BY <1>6, <1>7, <1>8 DEF ForksInv

\* An entry more.
LEMMA TableEntered ==
  ASSUME NEW s \in Memory, NEW n \in Nat, s.npids = n, s.pids = Table(n)
  PROVE  /\ Entered(s, n + 2) \in Memory
         /\ Entered(s, n + 2).npids = n + 1 /\ Entered(s, n + 2).pids = Table(n + 1)
         /\ Entered(s, n + 2).cnt = s.cnt /\ Entered(s, n + 2).ret = s.ret
<1>1. MaxPids \in Nat \ {0}
  BY ForksAssumption
<1> DEFINE pids == IF n + 1 < MaxPids THEN [Table(n) EXCEPT ![n + 1] = n + 2] ELSE Table(n)
<1>2. pids = Table(n + 1)
  <2>1. CASE n + 1 < MaxPids
    <3>1. n + 1 \in Slots
      BY <1>1, <2>1 DEF Slots
    <3>2. ASSUME NEW i \in Slots
          PROVE  [Table(n) EXCEPT ![n + 1] = n + 2][i] = Table(n + 1)[i]
      BY <1>1, <2>1, <3>1 DEF Table, Slots
    <3>3. [Table(n) EXCEPT ![n + 1] = n + 2] = [i \in Slots |-> [Table(n) EXCEPT ![n + 1] = n + 2][i]]
      BY DEF Table
    <3>4. Table(n + 1) = [i \in Slots |-> Table(n + 1)[i]]
      BY DEF Table
    <3> QED
      BY <2>1, <3>2, <3>3, <3>4
  <2>2. CASE ~(n + 1 < MaxPids)
    <3>1. \A i \in Slots : (i <= n /\ i < MaxPids) <=> (i <= n + 1 /\ i < MaxPids)
      BY <1>1, <2>2 DEF Slots
    <3> QED
      BY <2>2, <3>1 DEF Table
  <2> QED
    BY <2>1, <2>2
<1>3. Table(n + 1) \in [Slots -> Nat]
  BY <1>1 DEF Table, Slots
<1>4. Entered(s, n + 2) = [s EXCEPT !.npids = n + 1, !.pids = pids]
  BY DEF Entered, Memory
<1>5. Entered(s, n + 2) = [s EXCEPT !.npids = n + 1, !.pids = Table(n + 1)]
  BY <1>2, <1>4
<1> HIDE DEF pids
<1> DEFINE s1 == [s EXCEPT !.npids = n + 1]
<1>6. /\ s1 \in Memory /\ s1.npids = n + 1 /\ s1.cnt = s.cnt /\ s1.ret = s.ret
      /\ Entered(s, n + 2) = [s1 EXCEPT !.pids = Table(n + 1)]
  BY <1>5 DEF Memory
<1> HIDE DEF s1
<1> QED
  BY <1>3, <1>6 DEF Memory

\* What returning and going on change.
LEMMA AfterFork ==
  ASSUME NEW s \in Memory, NEW r \in Int
  PROVE  /\ Returned(s, r) \in Memory /\ Returned(s, r).ret = r
         /\ Returned(s, r).npids = s.npids /\ Returned(s, r).pids = s.pids /\ Returned(s, r).cnt = s.cnt
         /\ NextTurn(s) \in Memory /\ NextTurn(s).cnt = s.cnt + 1
         /\ NextTurn(s).npids = s.npids /\ NextTurn(s).pids = s.pids /\ NextTurn(s).ret = s.ret
BY DEF Returned, NextTurn, Memory

\* The process that forks is the active one, which knows all pids so far.
LEMMA OnlyActive ==
  ASSUME ForksInv, NEW p \in Pids, process[p].ret = Running
  PROVE  /\ p = Active /\ p \in 1 .. N /\ process[p] \in Memory /\ process[p].cnt = N
         /\ Known(p) = N - 1 /\ N \in Nat \ {0} /\ ~refused
<1>1. p \in 1 .. N /\ N \in Nat \ {0}
  BY DEF ForksInv, Tables, Pids, N
<1>2. p = Active
  BY <1>1 DEF ForksInv, Turns
<1>3. process[p] \in Memory
  BY <1>1 DEF ForksInv, Tables, N
<1> QED
  BY <1>1, <1>2, <1>3 DEF ForksInv, Turns, Known, Active

\* A fork, one that fails and a return keep it: the child of mode 0 and the parent of
\* mode 1 are through, the other one goes on with one copy more.
LEMMA ForksInvStep == ForksInv /\ [ForkNext]_forkVars => ForksInv'
<1> SUFFICES ASSUME ForksInv, [ForkNext]_forkVars PROVE ForksInv'
  OBVIOUS
<1>1. CASE UNCHANGED forkVars
  BY <1>1 DEF forkVars, ForksInv, Tables, Parents, Turns, N, Known, Active
<1>2. ASSUME NEW p \in Pids, fork(p)
      PROVE  ForksInv'
  <2>1. process[p].ret = Running /\ process[p].cnt < ncopies
    BY <1>2 DEF fork, Forks
  <2>2. /\ p = Active /\ p \in 1 .. N /\ process[p] \in Memory /\ process[p].cnt = N
        /\ Known(p) = N - 1 /\ N \in Nat \ {0} /\ ~refused
    BY <2>1, OnlyActive
  <2> DEFINE known == Entered(process[p], N + 1)
             after == ParentForks(p, known, N + 1)
  <2>3. /\ known \in Memory /\ known.npids = N /\ known.pids = Table(N)
        /\ known.cnt = N /\ known.ret = Running
    <3>1. process[p].npids = N - 1 /\ process[p].pids = Table(N - 1)
      BY <2>2 DEF ForksInv, Tables
    <3>2. N - 1 \in Nat /\ N - 1 + 2 = N + 1 /\ N - 1 + 1 = N
      BY <2>2
    <3> HIDE DEF known
    <3>3. known = Entered(process[p], N - 1 + 2)
      BY <3>2 DEF known
    <3> QED
      BY <2>1, <2>2, <3>1, <3>2, <3>3, TableEntered
  <2>4. /\ process' = Append([process EXCEPT ![p] = after.p], after.child)
        /\ parent' = Append(parent, p)
        /\ UNCHANGED <<mode, ncopies, refused>>
    BY <1>2 DEF fork, N
  <2> HIDE DEF known
  <2>5. /\ after.p \in Memory /\ after.child \in Memory
        /\ after.p.npids = N /\ after.child.npids = N
        /\ after.p.pids = Table(N) /\ after.child.pids = Table(N)
        /\ mode = 0 => after.p.cnt = N + 1 /\ after.p.ret = Running /\ after.child.ret = N
        /\ mode = 1 => after.child.cnt = N + 1 /\ after.child.ret = Running /\ after.p.ret = N - 1
    <3>1. CASE mode = 1
      <4>1. after.p = Returned(known, known.cnt - 1) /\ after.child = NextTurn(known)
        BY <3>1 DEF ParentForks
      <4> QED
        BY <2>2, <2>3, <3>1, <4>1, AfterFork
    <3>2. CASE mode # 1
      <4>1. after.p = NextTurn(known) /\ after.child = Returned(known, known.cnt)
        BY <3>2 DEF ParentForks
      <4> QED
        BY <2>2, <2>3, <3>2, <4>1, AfterFork
    <3> QED
      BY <3>1, <3>2
  <2> HIDE DEF after
  <2>6. /\ N' = N + 1 /\ process' \in Seq(Memory)
        /\ process'[N + 1] = after.child /\ process'[p] = after.p
        /\ \A q \in 1 .. N : q # p => process'[q] = process[q]
    BY <2>2, <2>4, <2>5 DEF N, ForksInv, Tables
  <2>7. /\ parent' \in Seq(Nat) /\ Len(parent') = N + 1 /\ parent'[N + 1] = p
        /\ \A q \in 1 .. N : parent'[q] = parent[q]
    BY <2>2, <2>4 DEF ForksInv, Parents
  <2>8. Parents'
    <3>1. parent[1] = 0 /\ \A q \in 2 .. N : parent[q] = IF mode = 0 THEN 1 ELSE q - 1
      BY DEF ForksInv, Parents
    <3>2. p = (IF mode = 0 THEN 1 ELSE (N + 1) - 1) /\ mode' = mode
      BY <2>2, <2>4 DEF Active
    <3>3. \A q \in 2 .. N + 1 : q \in 2 .. N \/ q = N + 1
      BY <2>2
    <3>4. \A q \in 2 .. N + 1 : parent'[q] = IF mode = 0 THEN 1 ELSE q - 1
      BY <2>2, <2>7, <3>1, <3>2, <3>3
    <3> QED
      BY <2>2, <2>6, <2>7, <3>1, <3>2, <3>4 DEF Parents
  <2>9. Turns'
    <3>1. mode \in {0, 1} /\ ncopies \in Nat \ {0} /\ N + 1 <= ncopies
      BY <2>1, <2>2 DEF ForksInv, Turns
    <3>2. CASE mode = 0
      <4>1. Active = 1 /\ Active' = 1 /\ p = 1
        BY <2>2, <2>4, <3>2 DEF Active
      <4>2. process'[1].cnt = N + 1 /\ process'[1].ret = Running
        BY <2>5, <2>6, <3>2, <4>1
      <4>3. ASSUME NEW q \in 1 .. N + 1, q # 1
            PROVE  process'[q].ret # Running
        <5>1. CASE q = N + 1
          BY <2>2, <2>5, <2>6, <3>2, <5>1 DEF Running
        <5>2. CASE q # N + 1
          <6>1. q \in 1 .. N /\ process'[q] = process[q]
            BY <2>2, <2>6, <4>1, <4>3, <5>2
          <6> QED
            BY <4>1, <4>3, <6>1 DEF ForksInv, Turns
        <5> QED
          BY <5>1, <5>2
      <4>4. ~refused' /\ refused' \in BOOLEAN /\ mode' = 0 /\ mode' # 1 /\ ncopies' = ncopies
        BY <2>2, <2>4, <3>2 DEF ForksInv, Turns
      <4>5. /\ process'[Active'].cnt = N' /\ process'[Active'].ret = Running
            /\ \A q \in 1 .. N' : q # Active' => process'[q].ret # Running
            /\ N' <= ncopies' /\ mode' \in {0, 1} /\ ncopies' \in Nat \ {0}
        BY <2>6, <3>1, <4>1, <4>2, <4>3, <4>4
      <4> QED
        BY <4>4, <4>5, Zenon DEF Turns
    <3>3. CASE mode = 1
      BY <2>2, <2>4, <2>5, <2>6, <3>1, <3>3 DEF ForksInv, Turns, Active, Running
    <3> QED
      BY <3>1, <3>2, <3>3
  <2>10. ASSUME NEW q \in 1 .. N + 1
         PROVE  process'[q].npids = Known(q)' /\ process'[q].pids = Table(Known(q)')
    <3>1. CASE q = N + 1
      <4>1. Known(q)' = N
        BY <2>2, <2>4, <2>6, <3>1 DEF Known
      <4> QED
        BY <2>5, <2>6, <3>1, <4>1
    <3>2. CASE q = p
      <4>1. Known(q)' = N
        BY <2>2, <2>4, <2>6, <3>2 DEF Known, Active, ForksInv, Turns
      <4> QED
        BY <2>5, <2>6, <3>2, <4>1
    <3>3. CASE q \in 1 .. N /\ q # p
      <4>1. Known(q)' = Known(q)
        BY <2>2, <2>4, <2>6, <3>3 DEF Known, Active, ForksInv, Turns
      <4> QED
        BY <2>6, <3>3, <4>1 DEF ForksInv, Tables
    <3> QED
      BY <2>2, <3>1, <3>2, <3>3
  <2>11. Tables'
    <3>1. \A n : Table(n)' = Table(n)
      BY DEF Table, Slots
    <3> QED
      BY <2>2, <2>6, <2>10, <3>1 DEF Tables
  <2> QED
    BY <2>8, <2>9, <2>11 DEF ForksInv
<1>3. ASSUME NEW p \in Pids, NEW s \in Memory, process[p].ret = Running,
             process' = [process EXCEPT ![p] = s], UNCHANGED <<mode, ncopies, parent>>,
             s.npids = process[p].npids, s.pids = process[p].pids, s.cnt = process[p].cnt,
             s.ret # Running, refused' \in BOOLEAN,
             refused' \/ (N = ncopies /\ s.ret = N - 1)
      PROVE  ForksInv'
  <2>1. /\ p = Active /\ p \in 1 .. N /\ process[p] \in Memory /\ process[p].cnt = N
        /\ Known(p) = N - 1 /\ N \in Nat \ {0} /\ ~refused
    BY <1>3, OnlyActive
  <2>2. /\ N' = N /\ process' \in Seq(Memory) /\ process'[p] = s
        /\ \A q \in 1 .. N : q # p => process'[q] = process[q]
    BY <1>3, <2>1 DEF N, ForksInv, Tables
  <2>3. Active' = Active /\ \A q : Known(q)' = Known(q)
    BY <1>3, <2>2 DEF Active, Known
  <2>4. Parents'
    BY <1>3, <2>2 DEF ForksInv, Parents
  <2>5. Turns'
    <3>1. process'[Active].cnt = N /\ process'[Active].ret # Running
      BY <1>3, <2>1, <2>2
    <3>2. mode = 1 => \A q \in 1 .. N - 1 : process'[q].ret = q - 1
      BY <2>1, <2>2 DEF ForksInv, Turns, Active
    <3>3. mode = 1 /\ ~refused' => process'[N].ret \in {Running, N - 1}
      BY <1>3, <2>1, <2>2 DEF Active
    <3> QED
      BY <1>3, <2>1, <2>2, <2>3, <3>1, <3>2, <3>3 DEF ForksInv, Turns
  <2>6. Tables'
    <3>1. \A n : Table(n)' = Table(n)
      BY DEF Table, Slots
    <3>2. ASSUME NEW q \in 1 .. N
          PROVE  process'[q].npids = Known(q) /\ process'[q].pids = Table(Known(q))
      BY <1>3, <2>1, <2>2 DEF ForksInv, Tables
    <3> QED
      BY <2>2, <2>3, <3>1, <3>2 DEF ForksInv, Tables
  <2> QED
    BY <2>4, <2>5, <2>6 DEF ForksInv
<1>4. ASSUME NEW p \in Pids, fork_Fails(p)
      PROVE  ForksInv'
  <2>1. process[p].ret = Running
    BY <1>4 DEF fork_Fails, Forks
  <2>2. process[p] \in Memory /\ process[p].cnt = N /\ N \in Nat \ {0}
    BY <2>1, OnlyActive
  <2> DEFINE r == IF mode = 1 THEN 0 ELSE process[p].cnt - 1
  <2>3. r \in Int /\ r # Running
    BY <2>2 DEF Running
  <2>4. process' = [process EXCEPT ![p] = Returned(process[p], r)]
        /\ refused' = TRUE /\ UNCHANGED <<mode, ncopies, parent>>
    BY <1>4 DEF fork_Fails
  <2> HIDE DEF r
  <2> DEFINE s == Returned(process[p], r)
  <2>5. /\ s \in Memory /\ s.npids = process[p].npids /\ s.pids = process[p].pids
        /\ s.cnt = process[p].cnt /\ s.ret # Running
    BY <2>2, <2>3, AfterFork
  <2>6. process' = [process EXCEPT ![p] = s]
    BY <2>4
  <2>7. refused' \in BOOLEAN /\ refused'
    BY <2>4
  <2> HIDE DEF s
  <2> QED
    BY <1>3, <2>1, <2>4, <2>5, <2>6, <2>7
<1>5. ASSUME NEW p \in Pids, forker_Returns(p)
      PROVE  ForksInv'
  <2>1. process[p].ret = Running /\ process[p].cnt >= ncopies
    BY <1>5 DEF forker_Returns
  <2>2. /\ process[p] \in Memory /\ process[p].cnt = N /\ N \in Nat \ {0} /\ Known(p) = N - 1
        /\ ~refused /\ p \in 1 .. N
    BY <2>1, OnlyActive
  <2>3. N = ncopies
    BY <2>1, <2>2 DEF ForksInv, Turns
  <2> DEFINE s == Returned(process[p], process[p].cnt - 1)
             t == IF s.npids < MaxPids THEN [s EXCEPT !.pids = [@ EXCEPT ![s.npids + 1] = 0]] ELSE s
  <2>4. /\ s \in Memory /\ s.npids = N - 1 /\ s.pids = Table(N - 1) /\ s.cnt = N /\ s.ret = N - 1
        /\ process[p].npids = N - 1 /\ process[p].pids = Table(N - 1)
    BY <2>2, AfterFork DEF ForksInv, Tables
  <2>5. process' = [process EXCEPT ![p] = t] /\ UNCHANGED <<mode, ncopies, parent, refused>>
    BY <1>5 DEF forker_Returns
  <2> HIDE DEF s
  <2>6. [Table(N - 1) EXCEPT ![N - 1 + 1] = 0] = Table(N - 1)
    <3> DEFINE ended == [Table(N - 1) EXCEPT ![N - 1 + 1] = 0]
    <3>1. ASSUME NEW i \in Slots
          PROVE  ended[i] = Table(N - 1)[i]
      <4>1. i = N - 1 + 1 => ~(i <= N - 1)
        BY <2>2 DEF Slots
      <4>2. CASE i = N - 1 + 1
        BY <4>1, <4>2 DEF Table
      <4>3. CASE i # N - 1 + 1
        BY <4>3 DEF Table
      <4> QED
        BY <4>2, <4>3
    <3>2. ended = [i \in Slots |-> ended[i]]
      BY DEF Table
    <3>3. Table(N - 1) = [i \in Slots |-> Table(N - 1)[i]]
      BY DEF Table
    <3> HIDE DEF ended
    <3>4. ended = Table(N - 1)
      BY <3>1, <3>2, <3>3
    <3> QED
      BY <3>4 DEF ended
  <2>7. t = s
    <3>1. CASE s.npids < MaxPids
      <4>1. t = [s EXCEPT !.pids = s.pids]
        BY <2>4, <2>6, <3>1
      <4> QED
        BY <2>4, <4>1 DEF Memory
    <3>2. CASE ~(s.npids < MaxPids)
      BY <3>2
    <3> QED
      BY <3>1, <3>2
  <2> HIDE DEF t
  <2>8. s.ret # Running /\ refused' \in BOOLEAN
    BY <2>2, <2>4, <2>5 DEF Running, ForksInv, Turns
  <2> QED
    BY <1>3, <2>1, <2>2, <2>3, <2>4, <2>5, <2>7, <2>8
<1> QED
  BY <1>1, <1>2, <1>4, <1>5 DEF ForkNext

\* It holds in all behaviours of forker().
THEOREM ForksInvariance == ForkSpec => []ForksInv
BY ForksInvInit, ForksInvStep, PTL DEF ForkSpec

\* What forker() tells its processes of each other: the tables hold the pids up to
\* MaxPids - 1 of them, the copies are as many as asked for unless a fork failed, and
\* the values returned tell the processes of mode 1 apart; for any number of copies
\* and any size of the table.
THEOREM ForksKnownHolds == ForkSpec => []ForksKnown
<1>1. ForksInv => ForksKnown
  <2> SUFFICES ASSUME ForksInv, Stopped PROVE
        /\ \A p \in Pids : Listed(p) = {q \in Older(p) \cup Children(p) : q <= MaxPids}
        /\ mode = 0 => Children(1) = Pids \ {1}
        /\ ~refused => Len(process) = ncopies
        /\ mode = 1 /\ ~refused => IsInjective([p \in Pids |-> process[p].ret])
    BY DEF ForksKnown
  <2>1. Pids = 1 .. N /\ N \in Nat \ {0} /\ mode \in {0, 1} /\ MaxPids \in Nat \ {0}
    BY ForksAssumption DEF ForksInv, Tables, Turns, Pids, N
  <2>2. /\ Active \in Pids /\ process[Active].ret # Running
    BY <2>1 DEF Active, Stopped
  <2>3. ASSUME NEW p \in Pids
        PROVE  Listed(p) = {q \in Older(p) \cup Children(p) : q <= MaxPids}
    <3>1. p \in 1 .. N /\ Known(p) \in Nat /\ process[p].pids = Table(Known(p))
      BY <2>1, <2>3 DEF Known, ForksInv, Tables
    <3>2. Older(p) \cup Children(p) = 2 .. Known(p) + 1
      <4>1. \A q \in 2 .. N : parent[q] = IF mode = 0 THEN 1 ELSE q - 1
        BY DEF ForksInv, Parents
      <4>2. parent[1] # p
        BY <3>1 DEF ForksInv, Parents
      <4>3. \A q \in 1 .. N : q = 1 \/ q \in 2 .. N
        BY <2>1
      <4>4. Children(p) = {q \in 2 .. N : p = IF mode = 0 THEN 1 ELSE q - 1}
        BY <2>1, <4>1, <4>2, <4>3 DEF Children
      <4>5. CASE mode = 0
        BY <2>1, <3>1, <4>4, <4>5 DEF Known, Older
      <4>6. CASE mode = 1
        BY <2>1, <3>1, <4>4, <4>6 DEF Known, Older
      <4> QED
        BY <2>1, <4>5, <4>6
    <3>3. \A j \in Slots : (\A k \in 1 .. j : process[p].pids[k] # 0) <=> j <= Known(p) /\ j < MaxPids
      <4> DEFINE n == Known(p)
      <4>1. n \in Nat /\ process[p].pids = Table(n)
        BY <3>1
      <4> HIDE DEF n
      <4> SUFFICES ASSUME NEW j \in Slots
                   PROVE (\A k \in 1 .. j : Table(n)[k] # 0) <=> j <= n /\ j < MaxPids
        BY <4>1 DEF n
      <4>2. \A k \in Slots : Table(n)[k] # 0 <=> k <= n /\ k < MaxPids
        BY <4>1 DEF Table, Slots
      <4>3. j \in 1 .. j /\ 1 .. j \subseteq Slots /\ \A k \in 1 .. j : k <= j
        BY <2>1 DEF Slots
      <4> QED
        BY <2>1, <4>1, <4>2, <4>3 DEF Slots
    <3>4. Listed(p) = {i + 1 : i \in {j \in Slots : j <= Known(p) /\ j < MaxPids}}
      BY <3>1, <3>3 DEF Listed, Table, Slots
    <3>5. {i + 1 : i \in {j \in Slots : j <= Known(p) /\ j < MaxPids}}
            = {q \in 2 .. Known(p) + 1 : q <= MaxPids}
      <4>1. ASSUME NEW q \in 2 .. Known(p) + 1, q <= MaxPids
            PROVE  q - 1 \in {j \in Slots : j <= Known(p) /\ j < MaxPids} /\ q = (q - 1) + 1
        BY <2>1, <3>1, <4>1 DEF Slots
      <4>2. ASSUME NEW i \in Slots, i <= Known(p), i < MaxPids
            PROVE  i + 1 \in 2 .. Known(p) + 1 /\ i + 1 <= MaxPids
        BY <2>1, <3>1, <4>2 DEF Slots
      <4> QED
        BY <4>1, <4>2
    <3> QED
      BY <3>2, <3>4, <3>5
  <2>4. mode = 0 => Children(1) = Pids \ {1}
    BY <2>1 DEF ForksInv, Parents, Children
  <2>5. ~refused => Len(process) = ncopies
    BY <2>2 DEF ForksInv, Turns, N
  <2>6. mode = 1 /\ ~refused => IsInjective([p \in Pids |-> process[p].ret])
    <3> SUFFICES ASSUME mode = 1, ~refused
                 PROVE  \A p \in Pids : process[p].ret = p - 1
      BY <2>1 DEF IsInjective
    <3>1. Active = N /\ process[N].ret = N - 1
      BY <2>2 DEF Active, ForksInv, Turns
    <3> QED
      BY <2>1, <3>1 DEF ForksInv, Turns
  <2> QED
    BY <2>3, <2>4, <2>5, <2>6
<1> QED
  BY <1>1, ForksInvariance, PTL
-----------------------------------------------------------------------------
(***************************************************************************)
(* Options and loop, for any command line, environment, clock and number   *)
(* of passes.  The STD_ variables are those of the options read so far     *)
(* (Parsing), and what was asked for when all are read (Settled); the time *)
(* to stop is that of a reading of the clock plus the duration (Looping).  *)
(***************************************************************************)

\* The variables have their kinds; the clock does not go back.
LoopKinds ==
  /\ command \in [line : Commands, env : Envs] /\ optind \in 0 .. Len(command.line)
  /\ std \in [count : Int, infinite : BOOLEAN, duration : Int, delay : Int, copies : Int,
              pause : BOOLEAN, functional : BOOLEAN]
  /\ copies \in Int /\ now \in Nat /\ start \in Starts /\ passes \in Nat
  /\ loop.first \in BOOLEAN /\ loop.stop \in Int /\ DOMAIN loop = {"first", "stop", "end"}
  /\ phase \in {"delay", "done"} => ~loop.first
  /\ phase \in {"parse", "setup", "handler", "pausing"} => loop.first
  /\ loop.first /\ phase # "done" => passes = 0
  /\ phase = "parse" => copies = 1

\* A value is that of the last of the first k options of a line with its letter, or the default.
Told(line, k, letter, value, default) ==
  \/ /\ \A i \in 1 .. k : line[i][1] # letter
     /\ value = default
  \/ \E i \in 1 .. k :
       /\ line[i][1] = letter /\ value = line[i][2]
       /\ \A j \in 1 .. k : j > i => line[j][1] # letter
Parsing ==
  phase = "parse" =>
    /\ Told(command.line, optind, "i", std.count, 1)
    /\ Told(command.line, optind, "I", std.duration, 0)
    /\ Told(command.line, optind, "c", std.copies, 1)
    /\ std.count = 0 => std.infinite
    /\ std.duration = 0 /\ (\E i \in 1 .. optind : command.line[i][1] = "I") => std.infinite

AskedPasses == Given("i", "ITERATION", 1)
AskedTime == Given("I", "DURATION", -1)
AskedCopies == Given("c", "COPIES", 1)
\* What parse_opts() leaves in the STD_ variables.
Settled ==
  /\ AskedTime \in Int
  /\ AskedPasses # 0 => std.count = AskedPasses
  /\ AskedPasses = 0 \/ AskedTime = 0 => std.infinite
  /\ AskedTime > 0 => std.duration = AskedTime
  /\ AskedTime < 0 => std.duration = 0 \/ (HasOption("I") /\ std.duration = AskedTime)
  /\ std.copies = AskedCopies

Wraps ==
  \/ start + now + (IF AskedTime > 0 THEN AskedTime ELSE 0) >= ClockRange
  \/ start + AskedTime < -ClockRange
MaxOf(n, least) == IF n > least THEN n ELSE least
\* The time to stop was set at some time since the start; without a time to go on for, the
\* passes stay within their number.
Looping ==
  /\ ~loop.first /\ std.duration # 0 =>
       \E t \in 0 .. now : loop.stop = Wrapped(get_current_time(t) + std.duration)
  /\ ~std.infinite /\ AskedTime < 0 /\ ~(HasOption("I") /\ Wraps) => passes <= MaxOf(AskedPasses, 0)
  /\ copies > 1 => copies <= AskedCopies
Over ==
  phase = "done" =>
    /\ ~std.infinite /\ (std.count = 0 \/ passes >= std.count)
    /\ std.duration # 0 => get_current_time(now) >= loop.stop

LoopInv ==
  /\ LoopKinds /\ Parsing
  /\ phase # "parse" => Settled /\ Looping
  /\ Over

\* A remainder of a number below the divisor is the number.
LEMMA SmallRemainder ==
  ASSUME NEW k \in Nat, NEW m \in Nat, k < m
  PROVE  k % m = k
<1>1. PICK q \in Int : q = k \div m
  BY SMT
<1>2. k = m * q + (k % m) /\ 0 <= k % m /\ k % m < m
  BY <1>1, SMT
<1>3. q = 0
  <2>1. CASE q >= 1
    <3>1. m * q >= m
      BY <2>1, SMT
    <3> QED
      BY <3>1, <1>2, SMT
  <2>2. CASE q <= -1
    <3>1. m * q <= -m
      BY <2>2, SMT
    <3> QED
      BY <3>1, <1>2, SMT
  <2> QED
    BY <2>1, <2>2, SMT
<1> QED
  BY <1>2, <1>3, SMT
\* Within its range the clock shows the time.
LEMMA WithinRange ==
  ASSUME NEW t \in Int, -ClockRange <= t, t < ClockRange
  PROVE  Wrapped(t) = t
<1>1. ClockRange \in Nat
  BY LoopAssumption
<1>2. t + ClockRange \in Nat /\ 2 * ClockRange \in Nat /\ t + ClockRange < 2 * ClockRange
  BY <1>1, SMT
<1>3. (t + ClockRange) % (2 * ClockRange) = t + ClockRange
  BY <1>2, SmallRemainder
<1> QED
  BY <1>1, <1>3 DEF Wrapped

\* The clock shows whole numbers.
LEMMA WrappedInt == ASSUME NEW t \in Int PROVE Wrapped(t) \in Int
<1>1. ClockRange \in Nat /\ ClockRange > 0
  BY LoopAssumption
<1>2. t + ClockRange \in Int /\ 2 * ClockRange \in Int /\ 2 * ClockRange > 0
  BY <1>1, SMT
<1>3. (t + ClockRange) % (2 * ClockRange) \in Int
  BY <1>2, SMT
<1> QED
  BY <1>1, <1>3 DEF Wrapped

StdVars == [count : Int, infinite : BOOLEAN, duration : Int, delay : Int, copies : Int,
            pause : BOOLEAN, functional : BOOLEAN]

\* What is known of a command line and of the environment.
LEMMA LineOptions ==
  ASSUME command \in [line : Commands, env : Envs]
  PROVE  /\ command.line \in Seq({"i", "I", "P", "c", "p", "f"} \X Int)
         /\ \A name \in DOMAIN command.env : command.env[name] \in Int
BY LoopAssumption

\* What an option does to the variables that count.
LEMMA OptionIs ==
  ASSUME NEW s \in StdVars, NEW opt \in {"i", "I", "P", "c", "p", "f"} \X Int
  PROVE  /\ Option(opt, s) \in StdVars
         /\ Option(opt, s).count = IF opt[1] = "i" THEN opt[2] ELSE s.count
         /\ Option(opt, s).duration = IF opt[1] = "I" THEN opt[2] ELSE s.duration
         /\ Option(opt, s).copies = IF opt[1] = "c" THEN opt[2] ELSE s.copies
         /\ s.infinite \/ (opt[1] \in {"i", "I"} /\ opt[2] = 0) => Option(opt, s).infinite
<1>1. CASE opt[1] = "i"
  <2>1. Option(opt, s) = [s EXCEPT !.count = opt[2], !.infinite = s.infinite \/ opt[2] = 0]
    BY <1>1 DEF Option
  <2>2. (s.infinite \/ opt[2] = 0) \in BOOLEAN
    OBVIOUS
  <2> QED
    BY <1>1, <2>1, <2>2 DEF StdVars
<1>2. CASE opt[1] = "I"
  <2>1. Option(opt, s) = [s EXCEPT !.duration = opt[2], !.infinite = s.infinite \/ opt[2] = 0]
    BY <1>2 DEF Option
  <2>2. (s.infinite \/ opt[2] = 0) \in BOOLEAN
    OBVIOUS
  <2> QED
    BY <1>2, <2>1, <2>2 DEF StdVars
<1>3. CASE opt[1] \in {"P", "c", "p", "f"}
  BY <1>3 DEF Option, StdVars
<1> QED
  BY <1>1, <1>2, <1>3

\* What the environment does to them.
LEMMA FromEnvIs ==
  ASSUME NEW s \in StdVars, command \in [line : Commands, env : Envs]
  PROVE  /\ FromEnv(s) \in StdVars
         /\ FromEnv(s).count = IF Asked("ITERATION", "i") /\ command.env["ITERATION"] # 0
                                 THEN command.env["ITERATION"] ELSE s.count
         /\ FromEnv(s).duration = IF Asked("DURATION", "I") /\ command.env["DURATION"] >= 0
                                    THEN command.env["DURATION"] ELSE s.duration
         /\ FromEnv(s).copies = IF Asked("COPIES", "c") THEN command.env["COPIES"] ELSE s.copies
         /\ s.infinite => FromEnv(s).infinite
         /\ Asked("ITERATION", "i") /\ command.env["ITERATION"] = 0 => FromEnv(s).infinite
         /\ Asked("DURATION", "I") /\ command.env["DURATION"] = 0 => FromEnv(s).infinite
<1> DEFINE val(name) == command.env[name]
           s1 == IF ~Asked("ITERATION", "i") THEN s
                 ELSE IF val("ITERATION") = 0 THEN [s EXCEPT !.infinite = TRUE]
                 ELSE [s EXCEPT !.count = val("ITERATION")]
           s2 == IF Asked("NO_FUNC_CHECK", "") THEN [s1 EXCEPT !.functional = FALSE] ELSE s1
           s3 == IF Asked("DURATION", "I") /\ val("DURATION") >= 0
                   THEN [s2 EXCEPT !.duration = val("DURATION"), !.infinite = @ \/ val("DURATION") = 0]
                   ELSE s2
           s4 == IF Asked("DELAY", "P") /\ val("DELAY") >= 0 THEN [s3 EXCEPT !.delay = val("DELAY")] ELSE s3
           s5 == IF Asked("COPIES", "c") THEN [s4 EXCEPT !.copies = val("COPIES")] ELSE s4
<1>1. FromEnv(s) = s5
  BY DEF FromEnv
<1>2. \A name, letter : Asked(name, letter) => val(name) \in Int
  BY LineOptions DEF Asked
<1>3. /\ s1 \in StdVars /\ s1.duration = s.duration /\ s1.copies = s.copies
      /\ s1.count = IF Asked("ITERATION", "i") /\ val("ITERATION") # 0 THEN val("ITERATION") ELSE s.count
      /\ s.infinite => s1.infinite
      /\ Asked("ITERATION", "i") /\ val("ITERATION") = 0 => s1.infinite
  BY <1>2 DEF StdVars
<1> HIDE DEF s1
<1>4. /\ s2 \in StdVars /\ s2.duration = s1.duration /\ s2.copies = s1.copies /\ s2.count = s1.count
      /\ s2.infinite = s1.infinite
  BY <1>3 DEF StdVars
<1> HIDE DEF s2
<1>5. /\ s3 \in StdVars /\ s3.copies = s2.copies /\ s3.count = s2.count
      /\ s3.duration = IF Asked("DURATION", "I") /\ val("DURATION") >= 0 THEN val("DURATION") ELSE s2.duration
      /\ s2.infinite => s3.infinite
      /\ Asked("DURATION", "I") /\ val("DURATION") = 0 => s3.infinite
  <2>1. CASE Asked("DURATION", "I") /\ val("DURATION") >= 0
    <3>1. s3 = [s2 EXCEPT !.duration = val("DURATION"), !.infinite = s2.infinite \/ val("DURATION") = 0]
      BY <2>1
    <3>2. (s2.infinite \/ val("DURATION") = 0) \in BOOLEAN /\ val("DURATION") \in Int
      BY <2>1, <1>2
    <3> HIDE DEF s3, val
    <3> QED
      BY <2>1, <3>1, <3>2, <1>4 DEF StdVars
  <2>2. CASE ~(Asked("DURATION", "I") /\ val("DURATION") >= 0)
    <3>1. s3 = s2
      BY <2>2
    <3>2. Asked("DURATION", "I") => val("DURATION") # 0
      BY <2>2, <1>2
    <3> HIDE DEF s3, val
    <3> QED
      BY <2>2, <3>1, <3>2, <1>4
  <2> QED
    BY <2>1, <2>2
<1> HIDE DEF s3
<1>6. /\ s4 \in StdVars /\ s4.copies = s3.copies /\ s4.count = s3.count /\ s4.duration = s3.duration
      /\ s4.infinite = s3.infinite
  BY <1>5, <1>2 DEF StdVars
<1> HIDE DEF s4
<1>7. /\ s5 \in StdVars /\ s5.count = s4.count /\ s5.duration = s4.duration /\ s5.infinite = s4.infinite
      /\ s5.copies = IF Asked("COPIES", "c") THEN val("COPIES") ELSE s4.copies
  BY <1>6, <1>2 DEF StdVars
<1> HIDE DEF s5
<1>8. FromEnv(s).infinite = s3.infinite /\ (s1.infinite => s3.infinite)
  BY <1>1, <1>4, <1>5, <1>6, <1>7
<1> QED
  BY <1>1, <1>3, <1>4, <1>5, <1>6, <1>7, <1>8

\* One more option is told.
LEMMA ToldNext ==
  ASSUME NEW line, NEW k \in Nat, NEW letter, NEW value, NEW value2, NEW default,
         Told(line, k, letter, value, default),
         value2 = IF line[k + 1][1] = letter THEN line[k + 1][2] ELSE value
  PROVE  Told(line, k + 1, letter, value2, default)
<1>1. 1 .. (k + 1) = (1 .. k) \union {k + 1} /\ \A i \in 1 .. k : k + 1 > i /\ ~(i > k + 1)
  OBVIOUS
<1>2. CASE line[k + 1][1] = letter
  <2>1. k + 1 \in 1 .. (k + 1) /\ \A j \in 1 .. (k + 1) : ~(j > k + 1)
    OBVIOUS
  <2> QED
    BY <1>2, <2>1 DEF Told
<1>3. CASE line[k + 1][1] # letter
  <2>1. value2 = value
    BY <1>3
  <2>2. CASE (\A i \in 1 .. k : line[i][1] # letter) /\ value = default
    BY <1>1, <1>3, <2>1, <2>2 DEF Told
  <2>3. CASE \E i \in 1 .. k : /\ line[i][1] = letter /\ value = line[i][2]
                               /\ \A j \in 1 .. k : j > i => line[j][1] # letter
    BY <1>1, <1>3, <2>1, <2>3 DEF Told
  <2> QED
    BY <2>2, <2>3 DEF Told
<1> QED
  BY <1>2, <1>3

\* All told, the value is that of the last option.
LEMMA ToldAll ==
  ASSUME NEW letter, NEW value, NEW default, command.line \in Seq({"i", "I", "P", "c", "p", "f"} \X Int),
         Told(command.line, Len(command.line), letter, value, default)
  PROVE  /\ HasOption(letter) => value = command.line[LastOption(letter)][2]
         /\ ~HasOption(letter) => value = default
<1>1. Opts = 1 .. Len(command.line) /\ Len(command.line) \in Nat
  BY DEF Opts
<1>2. CASE \A i \in Opts : command.line[i][1] # letter
  BY <1>1, <1>2 DEF Told, HasOption
<1>3. CASE \E i \in Opts : /\ command.line[i][1] = letter /\ value = command.line[i][2]
                           /\ \A j \in Opts : j > i => command.line[j][1] # letter
  <2>1. PICK i \in Opts : /\ command.line[i][1] = letter /\ value = command.line[i][2]
                          /\ \A j \in Opts : j > i => command.line[j][1] # letter
    BY <1>3
  <2>2. \A k \in Opts : (/\ command.line[k][1] = letter
                         /\ \A j \in Opts : j > k => command.line[j][1] # letter) => k = i
    BY <1>1, <2>1
  <2>3. LastOption(letter) = i
    BY <2>1, <2>2 DEF LastOption
  <2> QED
    BY <2>1, <2>3 DEF HasOption
<1> QED
  BY <1>1, <1>2, <1>3 DEF Told

\* Before the first option.
LEMMA LoopInvInit == LoopInit => LoopInv
<1> SUFFICES ASSUME LoopInit PROVE LoopInv
  OBVIOUS
<1>1. command.line \in Seq({"i", "I", "P", "c", "p", "f"} \X Int) /\ Len(command.line) \in Nat
  BY LineOptions DEF LoopInit
<1>2. std \in StdVars /\ std.count = 1 /\ std.duration = 0 /\ std.copies = 1
  BY DEF LoopInit, StdVars
<1>3. LoopKinds
  BY <1>1, <1>2 DEF LoopInit, LoopKinds, StdVars
<1>4. Parsing
  BY <1>2 DEF LoopInit, Parsing, Told
<1> QED
  BY <1>3, <1>4 DEF LoopInv, LoopInit, Over

\* An option is read.
LEMMA ParseOptionStep == LoopInv /\ ParseOption => LoopInv'
<1> SUFFICES ASSUME LoopInv, ParseOption PROVE LoopInv'
  OBVIOUS
<1> DEFINE opt == command.line[optind + 1]
<1>1. /\ phase = "parse" /\ phase' = "parse" /\ command' = command /\ optind' = optind + 1
      /\ optind < Len(command.line) /\ std' = Option(opt, std) /\ copies' = copies /\ now' = now
      /\ start' = start /\ loop' = loop /\ passes' = passes
  BY DEF ParseOption
<1>2. /\ command.line \in Seq({"i", "I", "P", "c", "p", "f"} \X Int)
      /\ Len(command.line) \in Nat /\ optind \in 0 .. Len(command.line) /\ std \in StdVars
  BY LineOptions DEF LoopInv, LoopKinds, StdVars
<1>3. optind \in Nat /\ optind + 1 \in 1 .. Len(command.line) /\ opt \in {"i", "I", "P", "c", "p", "f"} \X Int
  BY <1>1, <1>2
<1> HIDE DEF opt
<1>4. /\ std' \in StdVars
      /\ std'.count = IF opt[1] = "i" THEN opt[2] ELSE std.count
      /\ std'.duration = IF opt[1] = "I" THEN opt[2] ELSE std.duration
      /\ std'.copies = IF opt[1] = "c" THEN opt[2] ELSE std.copies
      /\ std.infinite \/ (opt[1] \in {"i", "I"} /\ opt[2] = 0) => std'.infinite
  BY <1>1, <1>2, <1>3, OptionIs
<1>5. LoopKinds'
  BY <1>1, <1>2, <1>3, <1>4 DEF LoopInv, LoopKinds, StdVars
<1>6. /\ Told(command.line, optind, "i", std.count, 1)
      /\ Told(command.line, optind, "I", std.duration, 0)
      /\ Told(command.line, optind, "c", std.copies, 1)
      /\ std.count = 0 => std.infinite
      /\ std.duration = 0 /\ (\E i \in 1 .. optind : command.line[i][1] = "I") => std.infinite
  BY <1>1 DEF LoopInv, Parsing
<1>7. Told(command.line, optind + 1, "i", std'.count, 1)
  BY <1>3, <1>4, <1>6, ToldNext DEF opt
<1>8. Told(command.line, optind + 1, "I", std'.duration, 0)
  BY <1>3, <1>4, <1>6, ToldNext DEF opt
<1>9. Told(command.line, optind + 1, "c", std'.copies, 1)
  BY <1>3, <1>4, <1>6, ToldNext DEF opt
<1>10. std'.count = 0 => std'.infinite
  BY <1>4, <1>6
<1>11. ASSUME std'.duration = 0, NEW i \in 1 .. (optind + 1), command.line[i][1] = "I" PROVE std'.infinite
  <2>1. i \in 1 .. optind \/ i = optind + 1
    BY <1>3
  <2> QED
    BY <1>4, <1>6, <1>11, <2>1 DEF opt
<1>12. Parsing'
  BY <1>1, <1>7, <1>8, <1>9, <1>10, <1>11 DEF Parsing
<1> QED
  BY <1>1, <1>5, <1>12 DEF LoopInv, Over

\* The environment is read.
LEMMA ParseEnvStep == LoopInv /\ ParseEnv => LoopInv'
<1> SUFFICES ASSUME LoopInv, ParseEnv PROVE LoopInv'
  OBVIOUS
<1>1. /\ phase = "parse" /\ phase' = "setup" /\ command' = command /\ optind' = optind
      /\ optind = Len(command.line) /\ std' = FromEnv(std) /\ copies' = copies /\ now' = now
      /\ start' = start /\ loop' = loop /\ passes' = passes
  BY DEF ParseEnv
<1>2. /\ command \in [line : Commands, env : Envs]
      /\ command.line \in Seq({"i", "I", "P", "c", "p", "f"} \X Int)
      /\ Len(command.line) \in Nat /\ std \in StdVars
      /\ \A name \in DOMAIN command.env : command.env[name] \in Int
  BY LineOptions DEF LoopInv, LoopKinds, StdVars
<1> DEFINE vars == command.env
<1>3. /\ std' \in StdVars
      /\ std'.count = IF Asked("ITERATION", "i") /\ vars["ITERATION"] # 0 THEN vars["ITERATION"] ELSE std.count
      /\ std'.duration = IF Asked("DURATION", "I") /\ vars["DURATION"] >= 0 THEN vars["DURATION"] ELSE std.duration
      /\ std'.copies = IF Asked("COPIES", "c") THEN vars["COPIES"] ELSE std.copies
      /\ std.infinite => std'.infinite
      /\ Asked("ITERATION", "i") /\ vars["ITERATION"] = 0 => std'.infinite
      /\ Asked("DURATION", "I") /\ vars["DURATION"] = 0 => std'.infinite
  BY <1>1, <1>2, FromEnvIs
<1>4. LoopKinds'
  BY <1>1, <1>2, <1>3 DEF LoopInv, LoopKinds, StdVars
<1>5. /\ Told(command.line, Len(command.line), "i", std.count, 1)
      /\ Told(command.line, Len(command.line), "I", std.duration, 0)
      /\ Told(command.line, Len(command.line), "c", std.copies, 1)
      /\ std.count = 0 => std.infinite
      /\ std.duration = 0 /\ HasOption("I") => std.infinite
  BY <1>1, <1>2 DEF LoopInv, Parsing, HasOption, Opts
<1>6. \A name, letter : Asked(name, letter) <=> name \in DOMAIN vars /\ ~HasOption(letter)
  BY DEF Asked, HasOption, Opts
<1>7. /\ HasOption("i") => std.count = command.line[LastOption("i")][2]
      /\ ~HasOption("i") => std.count = 1
  BY <1>2, <1>5, ToldAll
<1>8. /\ HasOption("I") => std.duration = command.line[LastOption("I")][2]
      /\ ~HasOption("I") => std.duration = 0
  BY <1>2, <1>5, ToldAll
<1>9. /\ HasOption("c") => std.copies = command.line[LastOption("c")][2]
      /\ ~HasOption("c") => std.copies = 1
  BY <1>2, <1>5, ToldAll
<1> HIDE DEF vars
<1>10. /\ AskedPasses # 0 => std'.count = AskedPasses
       /\ AskedPasses = 0 => std'.infinite
  <2>1. AskedPasses = IF HasOption("i") THEN std.count
                      ELSE IF "ITERATION" \in DOMAIN vars THEN vars["ITERATION"] ELSE 1
    BY <1>7 DEF AskedPasses, Given, vars
  <2> QED
    BY <1>3, <1>5, <1>6, <1>7, <2>1
<1>11. /\ AskedTime \in Int
       /\ AskedTime = 0 => std'.infinite
       /\ AskedTime > 0 => std'.duration = AskedTime
       /\ AskedTime < 0 => std'.duration = 0 \/ (HasOption("I") /\ std'.duration = AskedTime)
  <2>1. AskedTime = IF HasOption("I") THEN std.duration
                    ELSE IF "DURATION" \in DOMAIN vars THEN vars["DURATION"] ELSE -1
    BY <1>8 DEF AskedTime, Given, vars
  <2>2. "DURATION" \in DOMAIN vars => vars["DURATION"] \in Int
    BY <1>2 DEF vars
  <2>3. std.duration \in Int
    BY <1>2 DEF StdVars
  <2>4. CASE HasOption("I")
    BY <1>3, <1>5, <1>6, <2>1, <2>3, <2>4
  <2>5. CASE ~HasOption("I") /\ "DURATION" \in DOMAIN vars
    BY <1>3, <1>6, <1>8, <2>1, <2>2, <2>5
  <2>6. CASE ~HasOption("I") /\ "DURATION" \notin DOMAIN vars
    BY <1>3, <1>6, <1>8, <2>1, <2>6
  <2> QED
    BY <2>4, <2>5, <2>6
<1>12. std'.copies = AskedCopies
  <2>1. AskedCopies = IF HasOption("c") THEN std.copies
                      ELSE IF "COPIES" \in DOMAIN vars THEN vars["COPIES"] ELSE 1
    BY <1>9 DEF AskedCopies, Given, vars
  <2> QED
    BY <1>3, <1>6, <1>9, <2>1
<1>13. AskedTime' = AskedTime /\ AskedPasses' = AskedPasses /\ AskedCopies' = AskedCopies /\ (HasOption("I")' <=> HasOption("I"))
  BY <1>1 DEF AskedTime, AskedPasses, AskedCopies, Given, HasOption, LastOption, Opts
<1>14. Settled'
  BY <1>10, <1>11, <1>12, <1>13 DEF Settled
<1>15. loop'.first /\ passes' = 0 /\ copies' = 1
  BY <1>1 DEF LoopInv, LoopKinds
<1>16. AskedCopies \in Int /\ AskedPasses \in Int
  BY <1>3, <1>10, <1>12 DEF StdVars
<1>17. Looping'
  BY <1>13, <1>15, <1>16 DEF Looping, MaxOf
<1> QED
  BY <1>1, <1>4, <1>14, <1>17 DEF LoopInv, Parsing, Over

\* What was asked for is settled once the command and the STD_ variables are.
LEMMA StillAsked ==
  command' = command =>
    /\ AskedTime' = AskedTime /\ AskedPasses' = AskedPasses /\ AskedCopies' = AskedCopies
    /\ HasOption("I")' <=> HasOption("I")
BY DEF AskedTime, AskedPasses, AskedCopies, Given, HasOption, LastOption, Opts

\* What was settled does not depend on the clock, the processes or the passes.
LEMMA StillSettled == command' = command /\ std' = std /\ Settled => Settled'
BY StillAsked DEF Settled

\* The copies are forked.
LEMMA SetupStep == LoopInv /\ usc_global_setup_hook => LoopInv'
<1> SUFFICES ASSUME LoopInv, usc_global_setup_hook PROVE LoopInv'
  OBVIOUS
<1>1. /\ phase = "setup" /\ phase' \in {"handler", "loop"}
      /\ copies' \in 1 .. (IF std.copies > 1 THEN std.copies ELSE 1)
      /\ std' = std /\ command' = command /\ optind' = optind /\ now' = now /\ start' = start
      /\ loop' = loop /\ passes' = passes
  BY DEF usc_global_setup_hook, ToLoop
<1>2. std.copies \in Int /\ loop.first
  BY <1>1 DEF LoopInv, LoopKinds
<1>3. LoopKinds'
  BY <1>1, <1>2 DEF LoopInv, LoopKinds
<1>4. Settled /\ Looping
  BY <1>1 DEF LoopInv
<1>5. Settled'
  BY <1>1, <1>4, StillSettled
<1>6. copies' > 1 => copies' <= AskedCopies
  BY <1>1, <1>2, <1>4 DEF Settled
<1>7. Wraps' <=> Wraps
  BY <1>1, StillAsked DEF Wraps
<1>8. Looping'
  BY <1>1, <1>2, <1>4, <1>6, <1>7, StillAsked DEF Looping
<1> QED
  BY <1>1, <1>3, <1>5, <1>8 DEF LoopInv, Parsing, Over

\* The process waits, or a signal comes.
LEMMA PauseStep == LoopInv /\ (Pause \/ SIGUSR1) => LoopInv'
<1> SUFFICES ASSUME LoopInv, Pause \/ SIGUSR1 PROVE LoopInv'
  OBVIOUS
<1>1. /\ phase \in {"setup", "handler", "pausing"} /\ phase' \in {"pausing", "loop", "killed"}
      /\ std' = std /\ command' = command /\ optind' = optind /\ copies' = copies /\ now' = now
      /\ start' = start /\ loop' = loop /\ passes' = passes
  BY DEF Pause, SIGUSR1
<1>2. LoopKinds'
  BY <1>1 DEF LoopInv, LoopKinds
<1>3. Settled' /\ Looping
  BY <1>1, StillSettled DEF LoopInv
<1>4. Wraps' <=> Wraps
  BY <1>1, StillAsked DEF Wraps
<1>5. Looping'
  BY <1>1, <1>3, <1>4, StillAsked DEF Looping, get_current_time
<1> QED
  BY <1>1, <1>2, <1>3, <1>5 DEF LoopInv, Parsing, Over

\* Time goes by.
LEMMA TickStep == LoopInv /\ Tick => LoopInv'
<1> SUFFICES ASSUME LoopInv, Tick PROVE LoopInv'
  OBVIOUS
<1>1. /\ phase \in {"loop", "delay"} /\ phase' = phase /\ now' = now + 1
      /\ std' = std /\ command' = command /\ optind' = optind /\ copies' = copies
      /\ start' = start /\ loop' = loop /\ passes' = passes
  BY DEF Tick
<1>2. now \in Nat /\ start \in Int /\ ClockRange \in Nat
  BY LoopAssumption DEF LoopInv, LoopKinds
<1>3. LoopKinds'
  BY <1>1, <1>2 DEF LoopInv, LoopKinds
<1>4. Settled' /\ Looping /\ AskedTime \in Int
  BY <1>1, StillSettled DEF LoopInv, Settled
<1>5. Wraps => Wraps'
  BY <1>1, <1>2, <1>4, StillAsked DEF Wraps
<1>6. 0 .. now \subseteq 0 .. (now + 1)
  BY <1>2
<1>7. ASSUME ~loop'.first, std'.duration # 0
      PROVE  \E t \in 0 .. now' : loop'.stop = Wrapped(get_current_time(t)' + std'.duration)
  BY <1>1, <1>4, <1>6, <1>7 DEF Looping, get_current_time, Wrapped
<1>8. Looping'
  BY <1>1, <1>4, <1>5, <1>7, StillAsked DEF Looping
<1> QED
  BY <1>1, <1>3, <1>4, <1>8 DEF LoopInv, Parsing, Over

\* A time that is asked for below 0, on a clock that does not wrap round, is over at once.
LEMMA OverAtOnce ==
  ASSUME LoopKinds, Settled, AskedTime < 0, std.duration = AskedTime, ~Wraps,
         NEW t \in 0 .. now, NEW stop, stop = Wrapped(get_current_time(t) + std.duration)
  PROVE  ~(get_current_time(now) < stop)
<1>1. now \in Nat /\ t \in Nat /\ t <= now /\ start \in Int /\ -ClockRange <= start /\ ClockRange \in Nat
      /\ AskedTime \in Int
  BY LoopAssumption DEF LoopKinds, Settled
<1>2. start + now < ClockRange /\ start + AskedTime >= -ClockRange
  BY <1>1 DEF Wraps
<1>3. get_current_time(now) = start + now /\ get_current_time(t) = start + t
  <2>1. start + now \in Int /\ start + t \in Int /\ -ClockRange <= start + now /\ -ClockRange <= start + t
        /\ start + t < ClockRange
    BY <1>1, <1>2
  <2> QED
    BY <1>2, <2>1, WithinRange DEF get_current_time
<1>4. stop = start + t + AskedTime
  <2>1. start + t + AskedTime \in Int /\ -ClockRange <= start + t + AskedTime
        /\ start + t + AskedTime < ClockRange
    BY <1>1, <1>2
  <2> QED
    BY <1>3, <2>1, WithinRange
<1> QED
  BY <1>1, <1>3, <1>4

\* A time that is asked for has gone by when the clock, which has not wrapped round, shows the end.
LEMMA TimeIsUp ==
  ASSUME LoopKinds, AskedTime \in Int, AskedTime > 0, ~Wraps,
         NEW t \in 0 .. now, get_current_time(now) >= Wrapped(get_current_time(t) + AskedTime)
  PROVE  now >= AskedTime
<1>1. now \in Nat /\ t \in Nat /\ t <= now /\ start \in Int /\ -ClockRange <= start /\ ClockRange \in Nat
      /\ AskedTime \in Int
  BY LoopAssumption DEF LoopKinds
<1>2. start + now + AskedTime < ClockRange
  BY <1>1 DEF Wraps
<1>3. get_current_time(now) = start + now /\ get_current_time(t) = start + t
  <2>1. start + now \in Int /\ start + t \in Int /\ -ClockRange <= start + now /\ -ClockRange <= start + t
        /\ start + t < ClockRange /\ start + now < ClockRange
    BY <1>1, <1>2
  <2> QED
    BY <2>1, WithinRange DEF get_current_time
<1>4. Wrapped(get_current_time(t) + AskedTime) = start + t + AskedTime
  <2>1. start + t + AskedTime \in Int /\ -ClockRange <= start + t + AskedTime
        /\ start + t + AskedTime < ClockRange
    BY <1>1, <1>2
  <2> QED
    BY <1>3, <2>1, WithinRange
<1> QED
  BY <1>1, <1>3, <1>4

\* A time to stop that a reading of the clock gave.
Clocked(stop) ==
  std.duration # 0 => \E t \in 0 .. now : stop = Wrapped(get_current_time(t) + std.duration)

\* One more pass, or the end.
LEMMA TurnStep ==
  ASSUME LoopInv, phase \in {"loop", "delay"}, NEW stop \in Int, Turn(stop),
         UNCHANGED <<std, command, optind, copies, now, start>>,
         loop'.first = FALSE, loop'.stop = stop, DOMAIN loop' = {"first", "stop", "end"},
         Clocked(stop)
  PROVE  LoopInv'
<1>1. LoopKinds /\ Settled /\ Looping
  BY DEF LoopInv
<1>2. /\ passes \in Nat /\ passes' \in Nat /\ phase' \in {"loop", "done"}
      /\ passes' = passes \/ (passes' = passes + 1 /\ KeepGoing(stop))
      /\ phase' = "done" => ~KeepGoing(stop) /\ passes' = passes
  BY <1>1 DEF Turn, LoopKinds
<1>3. LoopKinds'
  <2>1. loop'.first = FALSE /\ loop'.stop \in Int
    OBVIOUS
  <2> QED
    BY <1>1, <1>2, <2>1 DEF LoopKinds
<1>4. Settled'
  BY <1>1, StillSettled
<1>5. Wraps' <=> Wraps
  BY StillAsked DEF Wraps
<1>6. /\ std.infinite \in BOOLEAN /\ std.count \in Int /\ std.duration \in Int /\ AskedTime \in Int
  BY <1>1 DEF LoopKinds, Settled
<1>7. ASSUME ~std.infinite, AskedTime < 0, ~(HasOption("I") /\ Wraps)
      PROVE  passes' <= MaxOf(AskedPasses, 0)
  <2>1. passes <= MaxOf(AskedPasses, 0) /\ std.count = AskedPasses
    BY <1>1, <1>7 DEF Looping, Settled
  <2>2. CASE std.count # 0 /\ passes < std.count
    BY <1>2, <1>6, <2>1, <2>2 DEF MaxOf
  <2>3. CASE ~(std.count # 0 /\ passes < std.count)
    <3>1. ~(std.duration # 0 /\ get_current_time(now) < stop)
      <4>1. CASE std.duration = 0
        BY <4>1
      <4>2. CASE std.duration # 0
        <5>1. PICK t \in 0 .. now : stop = Wrapped(get_current_time(t) + std.duration)
          BY <4>2 DEF Clocked
        <5>2. std.duration = AskedTime /\ ~Wraps
          BY <1>1, <1>7, <4>2 DEF Settled
        <5> QED
          BY <1>1, <1>7, <5>1, <5>2, OverAtOnce
      <4> QED
        BY <4>1, <4>2
    <3> QED
      BY <1>2, <1>7, <2>1, <2>3, <3>1 DEF KeepGoing
  <2> QED
    BY <2>2, <2>3
<1>8. Looping'
  <2>1. ASSUME std'.duration # 0
        PROVE  \E t \in 0 .. now' : loop'.stop = Wrapped(get_current_time(t)' + std'.duration)
    BY <2>1 DEF Clocked, get_current_time, Wrapped
  <2> QED
    BY <1>1, <1>5, <1>7, <2>1, StillAsked DEF Looping
<1>9. Over'
  <2> SUFFICES ASSUME phase' = "done"
               PROVE  /\ ~std'.infinite /\ (std'.count = 0 \/ passes' >= std'.count)
                      /\ std'.duration # 0 => get_current_time(now)' >= loop'.stop
    BY DEF Over
  <2>1. ~KeepGoing(stop) /\ passes' = passes /\ get_current_time(now)' = get_current_time(now)
    BY <1>2 DEF get_current_time, Wrapped
  <2>2. get_current_time(now) \in Int
    <3>1. start + now \in Int
      BY <1>1, LoopAssumption DEF LoopKinds
    <3> QED
      BY <3>1, WrappedInt DEF get_current_time
  <2> QED
    BY <1>2, <1>6, <2>1, <2>2 DEF KeepGoing
<1>10. Parsing'
  BY <1>2 DEF Parsing
<1> QED
  BY <1>3, <1>4, <1>8, <1>9, <1>10 DEF LoopInv

\* The test asks whether it goes on.
LEMMA LoopingStep == LoopInv /\ usc_test_looping => LoopInv'
<1> SUFFICES ASSUME LoopInv, usc_test_looping PROVE LoopInv'
  OBVIOUS
<1>1. /\ phase = "loop" /\ UNCHANGED <<std, command, optind, copies, now, start>>
      /\ LoopKinds /\ Settled /\ Looping
  BY DEF usc_test_looping, LoopInv
<1>2. /\ now \in Nat /\ start \in Int /\ std.duration \in Int /\ std.delay \in Int
      /\ loop.stop \in Int /\ DOMAIN loop = {"first", "stop", "end"}
  BY <1>1, LoopAssumption DEF LoopKinds
<1>3. get_current_time(now) \in Int
  <2>1. start + now \in Int
    BY <1>2
  <2> QED
    BY <2>1, WrappedInt DEF get_current_time
<1>4. CASE loop.first
  <2> DEFINE stop == IF std.duration # 0 THEN Wrapped(get_current_time(now) + std.duration) ELSE 0
  <2>1. loop' = [loop EXCEPT !.first = FALSE, !.stop = stop] /\ Turn(stop)
    BY <1>4 DEF usc_test_looping
  <2>2. stop \in Int
    <3>1. get_current_time(now) + std.duration \in Int
      BY <1>2, <1>3
    <3> QED
      BY <3>1, WrappedInt
  <2>3. Clocked(stop)
    <3>1. now \in 0 .. now
      BY <1>2
    <3> QED
      BY <3>1 DEF Clocked
  <2> HIDE DEF stop
  <2>4. loop'.first = FALSE /\ loop'.stop = stop /\ DOMAIN loop' = {"first", "stop", "end"}
    BY <1>2, <2>1
  <2> QED
    BY <1>1, <2>1, <2>2, <2>3, <2>4, TurnStep
<1>5. CASE ~loop.first /\ std.delay # 0
  <2>1. /\ loop' = [loop EXCEPT !.end = Wrapped(get_current_time(now) + std.delay)]
        /\ phase' = "delay" /\ passes' = passes
    BY <1>5 DEF usc_test_looping
  <2>2. (loop.first)' = loop.first /\ loop'.stop = loop.stop /\ DOMAIN loop' = {"first", "stop", "end"}
    BY <1>2, <2>1
  <2>3. LoopKinds'
    BY <1>1, <1>5, <2>1, <2>2 DEF LoopKinds
  <2>4. Settled' /\ (Wraps' <=> Wraps)
    BY <1>1, StillSettled, StillAsked DEF Wraps
  <2>5. ASSUME std'.duration # 0
        PROVE  \E t \in 0 .. now' : loop'.stop = Wrapped(get_current_time(t)' + std'.duration)
    BY <1>1, <1>5, <2>2, <2>5 DEF Looping, get_current_time, Wrapped
  <2>6. Looping'
    BY <1>1, <2>1, <2>4, <2>5, StillAsked DEF Looping
  <2> QED
    BY <2>1, <2>3, <2>4, <2>6 DEF LoopInv, Parsing, Over
<1>6. CASE ~loop.first /\ std.delay = 0
  <2>1. Turn(loop.stop) /\ loop' = loop
    BY <1>6 DEF usc_test_looping
  <2>2. Clocked(loop.stop)
    BY <1>1, <1>6 DEF Looping, Clocked
  <2>3. /\ loop'.first = FALSE /\ loop'.stop = loop.stop /\ loop.stop \in Int
        /\ DOMAIN loop' = {"first", "stop", "end"}
    BY <1>1, <1>2, <1>6, <2>1 DEF LoopKinds
  <2> QED
    BY <1>1, <2>1, <2>2, <2>3, TurnStep
<1> QED
  BY <1>4, <1>5, <1>6

\* The delay before a pass is over.
LEMMA DelayStep == LoopInv /\ DelayEnds => LoopInv'
<1> SUFFICES ASSUME LoopInv, DelayEnds PROVE LoopInv'
  OBVIOUS
<1>1. /\ phase = "delay" /\ Turn(loop.stop) /\ loop' = loop
      /\ UNCHANGED <<std, command, optind, copies, now, start>>
      /\ LoopKinds /\ Settled /\ Looping
  BY DEF DelayEnds, LoopInv
<1>2. /\ loop'.first = FALSE /\ loop'.stop = loop.stop /\ loop.stop \in Int
      /\ DOMAIN loop' = {"first", "stop", "end"}
  BY <1>1 DEF LoopKinds
<1>3. Clocked(loop.stop)
  <2>1. ~loop.first
    BY <1>1 DEF LoopKinds
  <2> QED
    BY <1>1, <2>1 DEF Looping, Clocked
<1> QED
  BY <1>1, <1>2, <1>3, TurnStep

\* Every step keeps the invariant of the loop.
LEMMA LoopInvStep == LoopInv /\ [LoopNext]_loopVars => LoopInv'
<1> SUFFICES ASSUME LoopInv, [LoopNext]_loopVars PROVE LoopInv'
  OBVIOUS
<1>1. CASE UNCHANGED loopVars
  <2>1. /\ std' = std /\ command' = command /\ optind' = optind /\ copies' = copies /\ now' = now
        /\ start' = start /\ loop' = loop /\ passes' = passes /\ phase' = phase
    BY <1>1 DEF loopVars
  <2>2. LoopKinds' /\ Parsing'
    BY <2>1 DEF LoopInv, LoopKinds, Parsing, Told
  <2>3. Over'
    BY <2>1 DEF LoopInv, Over, get_current_time, Wrapped
  <2>4. ASSUME phase # "parse" PROVE Settled' /\ Looping'
    <3>1. Settled /\ Looping /\ Settled'
      BY <2>1, <2>4, StillSettled DEF LoopInv
    <3>2. Wraps' <=> Wraps
      BY <2>1, StillAsked DEF Wraps
    <3> QED
      BY <2>1, <3>1, <3>2, StillAsked DEF Looping, get_current_time, Wrapped
  <2> QED
    BY <2>1, <2>2, <2>3, <2>4 DEF LoopInv
<1> QED
  BY <1>1, ParseOptionStep, ParseEnvStep, SetupStep, PauseStep, TickStep, LoopingStep, DelayStep DEF LoopNext

\* The invariant of options and loop.
THEOREM LoopInvariance == LoopInit /\ [][LoopNext]_loopVars => []LoopInv
BY LoopInvInit, LoopInvStep, PTL

\* What the loop has come to is what was asked for.
LEMMA AsAsked == LoopInv => LoopsAsAsked
<1> SUFFICES ASSUME LoopInv PROVE LoopsAsAsked
  OBVIOUS
<1>1. LoopKinds /\ copies \in Int
  BY DEF LoopInv, LoopKinds
<1>2. copies > 1 => copies <= AskedCopies
  <2>1. CASE phase # "parse"
    BY <2>1 DEF LoopInv, Looping
  <2>2. CASE phase = "parse"
    BY <2>2 DEF LoopInv, LoopKinds
  <2> QED
    BY <2>1, <2>2
<1>3. ASSUME phase = "done"
      PROVE  /\ AskedPasses # 0 /\ AskedTime # 0 /\ passes >= AskedPasses
             /\ AskedTime < 0 => passes = MaxOf(AskedPasses, 0) \/ (HasOption("I") /\ Wraps)
             /\ AskedTime > 0 /\ ~Wraps => now >= AskedTime
  <2>1. /\ Settled /\ Looping /\ ~loop.first
        /\ ~std.infinite /\ (std.count = 0 \/ passes >= std.count)
        /\ std.duration # 0 => get_current_time(now) >= loop.stop
    BY <1>3 DEF LoopInv, LoopKinds, Over
  <2>2. AskedPasses # 0 /\ AskedTime # 0 /\ AskedTime \in Int /\ std.count = AskedPasses
    BY <2>1 DEF Settled
  <2>3. passes >= AskedPasses /\ passes \in Nat /\ AskedPasses \in Int
    BY <1>1, <2>1, <2>2 DEF LoopKinds
  <2>4. ASSUME AskedTime < 0, ~(HasOption("I") /\ Wraps) PROVE passes = MaxOf(AskedPasses, 0)
    <3>1. passes <= MaxOf(AskedPasses, 0)
      BY <2>1, <2>4 DEF Looping
    <3> QED
      BY <2>3, <3>1 DEF MaxOf
  <2>5. ASSUME AskedTime > 0, ~Wraps PROVE now >= AskedTime
    <3>1. std.duration = AskedTime
      BY <2>1, <2>5 DEF Settled
    <3>2. PICK t \in 0 .. now : loop.stop = Wrapped(get_current_time(t) + AskedTime)
      BY <2>1, <2>2, <3>1 DEF Looping
    <3> QED
      BY <1>1, <2>1, <2>2, <2>5, <3>1, <3>2, TimeIsUp
  <2> QED
    BY <2>2, <2>3, <2>4, <2>5
<1> QED
  BY <1>2, <1>3 DEF LoopsAsAsked, AskedPasses, AskedTime, AskedCopies, MaxOf, Wraps

\* The loop does what was asked for, whatever the options, the environment and the clock.
\* (parse_opts(), usc_global_setup_hook(), usc_test_looping().)
THEOREM LoopsAsAskedHolds == LoopInit /\ [][LoopNext]_loopVars => []LoopsAsAsked
BY LoopInvariance, AsAsked, PTL
-----------------------------------------------------------------------------
(***************************************************************************)
(* The methods of i/o, for any sequence of calls.                          *)
(***************************************************************************)

AsyncKinds ==
  /\ made \in Nat
  /\ held \in BOOLEAN /\ deferred \in BOOLEAN /\ received \in BOOLEAN
  /\ transfer \in {"none", "underway", "done", "failed"}
  /\ step \in {"start", "issue"} => transfer = "none"
  /\ step \in {"wait", "waiting", "check"} => transfer # "none"
  /\ step = "spin" => sgi
  /\ ~sgi => notify = "none"

\* In the first call, only its own transfer signals, and signals are held only from the start of the
\* transfer to a wait that lets them go, or a check.
FirstCall ==
  made = 0 =>
    /\ ~orphan /\ (received \/ deferred => Finished)
    /\ held => /\ step \notin {"start", "issue"} /\ (sgi => sig)
               /\ step = "spin" => notify # "signal"
               /\ step = "waiting" => sgi \/ WaitCall = "pause"
               /\ step = "check" => sgi \/ CallFor = "slistio" \/ WaitCall = "pause"

\* The signal of a transfer that is over has not been lost.
Heard == step \in {"wait", "waiting"} /\ Finished /\ Signals => deferred \/ received
\* A wait of UNICOS that ends early.
Early ==
  step = "check" /\ transfer = "underway" /\ ~sgi =>
    WaitCall = "pause" \/ (WaitCall = "sigactive" /\ made > 0)

AsyncInv == AsyncKinds /\ FirstCall /\ Heard /\ Early

\* A step within a call keeps the way it waits; IRIX does not wait by signal.
LEMMA SameCall ==
  /\ request' = request /\ method' = method => WaitCall' = WaitCall /\ CallFor' = CallFor /\ (sgi' <=> sgi)
  /\ sgi => WaitCall \in {"suspend", "active"}
<1>1. request' = request /\ method' = method => WaitCall' = WaitCall /\ CallFor' = CallFor /\ (sgi' <=> sgi)
  BY DEF WaitCall, WaitSet, CallFor, IoSet, sgi
<1>2. ASSUME sgi PROVE WaitCall \in {"suspend", "active"}
  BY <1>2 DEF WaitCall, WaitSet
<1> QED
  BY <1>1, <1>2

\* Before the first call.
LEMMA AsyncInvInit == AsyncInit => AsyncInv
<1> SUFFICES ASSUME AsyncInit PROVE AsyncInv
  OBVIOUS
<1>1. made = 0 /\ step = "start" /\ notify = "none" /\ transfer = "none"
  BY DEF AsyncInit
<1>2. ~held /\ ~deferred /\ ~received /\ ~orphan
  BY DEF AsyncInit
<1>3. held \in BOOLEAN /\ deferred \in BOOLEAN /\ received \in BOOLEAN
  BY DEF AsyncInit
<1>4. AsyncKinds
  BY <1>1, <1>3 DEF AsyncKinds
<1>5. FirstCall /\ Heard /\ Early
  BY <1>1, <1>2 DEF FirstCall, Heard, Early
<1> QED
  BY <1>4, <1>5 DEF AsyncInv

\* A call begins.
LEMMA PrepareStep == AsyncInv /\ Prepare => AsyncInv' /\ Answers
<1> SUFFICES ASSUME AsyncInv, Prepare PROVE AsyncInv' /\ Answers
  OBVIOUS
<1>1. /\ step = "start" /\ step' \in {"issue", "returned"} /\ received' = FALSE
      /\ request' = request /\ made' = made /\ held' = held /\ deferred' = deferred
      /\ transfer' = transfer /\ orphan' = orphan
      /\ step' = "returned" => answer' = "error"
      /\ ~sgi => notify' = "none"
  BY DEF Prepare, Return
<1>2. sgi' <=> sgi
  BY <1>1 DEF sgi
<1>3. transfer' = "none" /\ AsyncKinds'
  BY <1>1, <1>2 DEF AsyncInv, AsyncKinds
<1>4. made = 0 => ~held' /\ ~deferred' /\ ~orphan'
  BY <1>1, <1>3 DEF AsyncInv, AsyncKinds, FirstCall, Finished
<1>5. FirstCall' /\ Heard' /\ Early'
  BY <1>1, <1>3, <1>4 DEF FirstCall, Heard, Early, Finished
<1>6. Answers
  BY <1>1, <1>3, <1>4 DEF Answers, DoneIsSize, UnderwayIsKnown, SignalsLetGo, SignalNotMissed, Finished
<1> QED
  BY <1>3, <1>5, <1>6 DEF AsyncInv

\* A synchronous call.
LEMMA MoveStep == AsyncInv /\ step = "issue" /\ Move => AsyncInv' /\ Answers
<1> SUFFICES ASSUME AsyncInv, step = "issue", Move PROVE AsyncInv' /\ Answers
  OBVIOUS
<1>1. /\ step' = "returned" /\ transfer' \in {"done", "none"} /\ (transfer' = "done" <=> answer' = "size")
      /\ answer' \in {"size", "error"}
      /\ request' = request /\ made' = made /\ held' = held /\ deferred' = deferred
      /\ method' = method /\ sig' = sig /\ notify' = notify /\ received' = received /\ orphan' = orphan
  BY DEF Move, Return
<1>2. AsyncKinds'
  BY <1>1, SameCall DEF AsyncInv, AsyncKinds
<1>3. made = 0 => ~held /\ ~deferred /\ ~received /\ ~orphan
  BY DEF AsyncInv, AsyncKinds, FirstCall, Finished
<1>4. FirstCall' /\ Heard' /\ Early'
  BY <1>1, <1>3 DEF FirstCall, Heard, Early
<1>5. Answers
  BY <1>1, <1>3 DEF Answers, DoneIsSize, UnderwayIsKnown, SignalsLetGo, SignalNotMissed
<1> QED
  BY <1>2, <1>4, <1>5 DEF AsyncInv

\* An asynchronous call is refused.
LEMMA RefusedStep == AsyncInv /\ step = "issue" /\ Refused => AsyncInv' /\ Answers
<1> SUFFICES ASSUME AsyncInv, step = "issue", Refused PROVE AsyncInv' /\ Answers
  OBVIOUS
<1>1. /\ step' = "returned" /\ answer' = "error" /\ transfer' = transfer /\ transfer = "none"
      /\ request' = request /\ made' = made /\ method' = method /\ sig' = sig /\ notify' = notify
      /\ orphan' = orphan
      /\ (held' = FALSE /\ deferred' = FALSE /\ received' = (received \/ deferred))
         \/ (held' = held /\ deferred' = deferred /\ received' = received)
  BY DEF Refused, Release, Return, AsyncInv, AsyncKinds
<1>2. AsyncKinds'
  BY <1>1, SameCall DEF AsyncInv, AsyncKinds
<1>3. made = 0 => ~held' /\ ~deferred' /\ ~received' /\ ~orphan'
  BY <1>1 DEF AsyncInv, AsyncKinds, FirstCall, Finished
<1>4. FirstCall' /\ Heard' /\ Early'
  BY <1>1, <1>3 DEF FirstCall, Heard, Early
<1>5. Answers
  BY <1>1, <1>3 DEF Answers, DoneIsSize, UnderwayIsKnown, SignalsLetGo, SignalNotMissed
<1> QED
  BY <1>2, <1>4, <1>5 DEF AsyncInv

\* An asynchronous call has begun its transfer.
LEMMA StartedStep == AsyncInv /\ step = "issue" /\ Started => AsyncInv' /\ Answers
<1> SUFFICES ASSUME AsyncInv, step = "issue", Started PROVE AsyncInv' /\ Answers
  OBVIOUS
<1>1. /\ step' = "wait" /\ transfer' = "underway" /\ transfer = "none" /\ held' = (held \/ (sgi => sig))
      /\ request' = request /\ made' = made /\ method' = method /\ sig' = sig /\ notify' = notify
      /\ deferred' = deferred /\ received' = received /\ orphan' = orphan
  BY DEF Started, AsyncInv, AsyncKinds
<1>2. AsyncKinds'
  BY <1>1, SameCall DEF AsyncInv, AsyncKinds, sgi
<1>3. made = 0 => ~held /\ ~deferred /\ ~received /\ ~orphan
  BY <1>1 DEF AsyncInv, AsyncKinds, FirstCall, Finished
<1>4. FirstCall' /\ Heard' /\ Early'
  BY <1>1, <1>3, SameCall DEF FirstCall, Heard, Early, Finished
<1>5. Answers
  BY <1>1 DEF Answers, SignalNotMissed
<1> QED
  BY <1>2, <1>4, <1>5 DEF AsyncInv

\* The list call that waits.
LEMMA ListDoneStep == AsyncInv /\ step = "issue" /\ CallFor = "slistio" /\ ListDone => AsyncInv' /\ Answers
<1> SUFFICES ASSUME AsyncInv, step = "issue", CallFor = "slistio", ListDone PROVE AsyncInv' /\ Answers
  OBVIOUS
<1>1. /\ step' = "check" /\ transfer' \in {"done", "failed"} /\ held' = (held \/ (sgi => sig))
      /\ deferred' = (deferred \/ Signals)
      /\ request' = request /\ made' = made /\ method' = method /\ sig' = sig /\ notify' = notify
      /\ received' = received /\ orphan' = orphan
  BY DEF ListDone
<1>2. AsyncKinds'
  BY <1>1, SameCall DEF AsyncInv, AsyncKinds
<1>3. made = 0 => ~held /\ ~orphan
  BY DEF AsyncInv, FirstCall
<1>4. FirstCall' /\ Heard' /\ Early'
  BY <1>1, <1>3, SameCall DEF FirstCall, Heard, Early, Finished
<1>5. Answers
  BY <1>1 DEF Answers, SignalNotMissed
<1> QED
  BY <1>2, <1>4, <1>5 DEF AsyncInv

\* The wait begins, after which signals of UNICOS are on but for pause().
LEMMA WaitStep == AsyncInv /\ Wait => AsyncInv' /\ Answers
<1> SUFFICES ASSUME AsyncInv, Wait PROVE AsyncInv' /\ Answers
  OBVIOUS
<1>1. /\ step = "wait" /\ step' = "waiting"
      /\ IF ~sgi /\ WaitCall # "pause"
           THEN held' = FALSE /\ deferred' = FALSE /\ received' = (received \/ deferred)
           ELSE held' = held /\ deferred' = deferred /\ received' = received
      /\ request' = request /\ made' = made /\ method' = method /\ sig' = sig /\ notify' = notify
      /\ transfer' = transfer /\ orphan' = orphan /\ (received' \/ deferred' <=> received \/ deferred)
  BY DEF Wait, Release
<1>2. AsyncKinds'
  BY <1>1, SameCall DEF AsyncInv, AsyncKinds
<1>3. FirstCall'
  BY <1>1, SameCall DEF AsyncInv, AsyncKinds, FirstCall, Finished
<1>4. Heard' /\ Early'
  BY <1>1, SameCall DEF AsyncInv, Heard, Early, Finished, Signals, sgi
<1>5. Answers
  BY <1>1, <1>4, SameCall DEF Answers, SignalNotMissed, Heard, Signals
<1> QED
  BY <1>2, <1>3, <1>4, <1>5 DEF AsyncInv

\* The wait is over.
LEMMA WaitedStep == AsyncInv /\ Waited => AsyncInv' /\ Answers
<1> SUFFICES ASSUME AsyncInv, Waited PROVE AsyncInv' /\ Answers
  OBVIOUS
<1>0. WaitCall \in {"suspend", "active", "sigactive", "pause"}
  BY DEF WaitCall
<1>1. /\ step = "waiting" /\ step' = "check"
      /\ request' = request /\ made' = made /\ method' = method /\ sig' = sig /\ notify' = notify
      /\ transfer' = transfer /\ orphan' = orphan
  BY DEF Waited
<1>2. \/ WaitCall \in {"suspend", "active"} /\ Finished
         /\ held' = held /\ deferred' = deferred /\ received' = received
      \/ WaitCall = "sigactive" /\ received /\ held' = held /\ deferred' = deferred /\ received' = received
      \/ WaitCall = "pause" /\ deferred
         /\ held' = FALSE /\ deferred' = FALSE /\ received' = (received \/ deferred)
  BY <1>0 DEF Waited, Release
<1>3. AsyncKinds'
  BY <1>1, <1>2, SameCall DEF AsyncInv, AsyncKinds
<1>4. FirstCall'
  BY <1>1, <1>2, SameCall DEF AsyncInv, AsyncKinds, FirstCall, Finished
<1>5. Heard' /\ Early'
  BY <1>1, <1>2, SameCall DEF AsyncInv, AsyncKinds, FirstCall, Heard, Early, Finished
<1>6. Answers
  BY <1>1 DEF Answers, SignalNotMissed
<1> QED
  BY <1>3, <1>4, <1>5, <1>6 DEF AsyncInv

\* The wait fails or is interrupted.
LEMMA InterruptedStep == AsyncInv /\ Interrupted => AsyncInv' /\ Answers
<1> SUFFICES ASSUME AsyncInv, Interrupted PROVE AsyncInv' /\ Answers
  OBVIOUS
<1>1. /\ step = "waiting" /\ WaitCall \in {"suspend", "pause"}
      /\ \/ WaitCall = "suspend" /\ step' = "returned" /\ answer' = "error"
         \/ (WaitCall = "pause" \/ notify = "signal") /\ step' = "check"
      /\ request' = request /\ made' = made /\ method' = method /\ sig' = sig /\ notify' = notify
      /\ held' = held /\ deferred' = deferred /\ received' = received
      /\ transfer' = transfer /\ orphan' = orphan
  BY DEF Interrupted, Return
<1>2. AsyncKinds'
  BY <1>1, SameCall DEF AsyncInv, AsyncKinds
<1>3. FirstCall'
  BY <1>1, SameCall DEF AsyncInv, AsyncKinds, FirstCall, Finished
<1>4. Heard' /\ Early'
  BY <1>1, SameCall DEF AsyncInv, AsyncKinds, Heard, Early
<1>5. Answers
  BY <1>1 DEF AsyncInv, AsyncKinds, FirstCall,
              Answers, DoneIsSize, UnderwayIsKnown, SignalsLetGo, SignalNotMissed
<1> QED
  BY <1>2, <1>3, <1>4, <1>5 DEF AsyncInv

\* The check, which lets the signal go if it was one that was waited for.
LEMMA CheckStep == AsyncInv /\ Check => AsyncInv' /\ Answers
<1> SUFFICES ASSUME AsyncInv, Check PROVE AsyncInv' /\ Answers
  OBVIOUS
<1>0. transfer \in {"done", "failed", "underway"}
  BY DEF AsyncInv, AsyncKinds, Check
<1>1. /\ step = "check"
      /\ \/ transfer = "done" /\ step' = "returned" /\ answer' = "size"
         \/ transfer = "failed" /\ step' = "returned" /\ answer' = "error"
         \/ transfer = "underway" /\ sgi /\ step' = "spin"
         \/ transfer = "underway" /\ ~sgi /\ step' = "returned" /\ answer' = "zero"
      /\ request' = request /\ made' = made /\ method' = method /\ sig' = sig /\ notify' = notify
      /\ transfer' = transfer /\ orphan' = orphan
  BY <1>0 DEF Check, Return
<1>2. \/ notify = "signal" /\ held' = FALSE /\ deferred' = FALSE /\ received' = (received \/ deferred)
      \/ notify # "signal" /\ held' = held /\ deferred' = deferred /\ received' = received
  BY DEF Check, Release
<1>3. AsyncKinds'
  BY <1>1, <1>2, SameCall DEF AsyncInv, AsyncKinds
<1>4. FirstCall'
  BY <1>1, <1>2, SameCall DEF AsyncInv, AsyncKinds, FirstCall, Finished
<1>5. Heard' /\ Early'
  BY <1>1 DEF Heard, Early
<1>6. Answers
  <2>1. SignalNotMissed
    BY <1>1 DEF SignalNotMissed
  <2>2. step' = "returned" => DoneIsSize /\ (answer' = "size" => transfer' = "done") /\ UnderwayIsKnown
    BY <1>1 DEF AsyncInv, Early, DoneIsSize, UnderwayIsKnown
  <2>3. step' = "returned" => SignalsLetGo
    BY <1>1, <1>2 DEF AsyncInv, AsyncKinds, FirstCall, SignalsLetGo
  <2> QED
    BY <2>1, <2>2, <2>3 DEF Answers
<1> QED
  BY <1>3, <1>4, <1>5, <1>6 DEF AsyncInv

\* aio_error() is asked until the transfer is over.
LEMMA SpunStep == AsyncInv /\ Spun => AsyncInv' /\ Answers
<1> SUFFICES ASSUME AsyncInv, Spun PROVE AsyncInv' /\ Answers
  OBVIOUS
<1>1. /\ step = "spin" /\ transfer \in {"done", "failed"} /\ step' = "returned"
      /\ answer' \in {"zero", "error"}
      /\ request' = request /\ made' = made /\ method' = method /\ sig' = sig /\ notify' = notify
      /\ held' = held /\ deferred' = deferred /\ received' = received
      /\ transfer' = transfer /\ orphan' = orphan
  BY DEF Spun, Finished, Return
<1>2. AsyncKinds'
  BY <1>1, SameCall DEF AsyncInv, AsyncKinds
<1>3. FirstCall' /\ Heard' /\ Early'
  BY <1>1 DEF AsyncInv, AsyncKinds, FirstCall, Heard, Early, Finished
<1>4. Answers
  BY <1>1 DEF AsyncInv, AsyncKinds, FirstCall,
              Answers, DoneIsSize, UnderwayIsKnown, SignalsLetGo, SignalNotMissed
<1> QED
  BY <1>2, <1>3, <1>4 DEF AsyncInv

\* The kernel ends a transfer, of this call or of an earlier one.
LEMMA CompleteStep == AsyncInv /\ (Complete \/ CompleteOrphan) => AsyncInv' /\ Answers
<1> SUFFICES ASSUME AsyncInv, Complete \/ CompleteOrphan PROVE AsyncInv' /\ Answers
  OBVIOUS
<1>1. /\ request' = request /\ made' = made /\ method' = method /\ sig' = sig /\ notify' = notify
      /\ held' = held /\ step' = step
      /\ \/ deferred' = (deferred \/ held) /\ received' = (received \/ ~held)
         \/ deferred' = deferred /\ received' = received
  BY DEF Complete, CompleteOrphan, Signal
<1>2. CASE Complete
  <2>1. /\ transfer = "underway" /\ transfer' \in {"done", "failed"} /\ orphan' = orphan
        /\ Signals => deferred' \/ received'
    BY <1>2 DEF Complete, Signal
  <2>2. AsyncKinds'
    BY <1>1, <2>1, SameCall DEF AsyncInv, AsyncKinds
  <2>3. FirstCall'
    BY <1>1, <2>1, SameCall DEF AsyncInv, AsyncKinds, FirstCall, Finished
  <2>4. Heard' /\ Early'
    BY <1>1, <2>1, SameCall DEF AsyncInv, AsyncKinds, Heard, Early, Finished, Signals
  <2>5. Answers
    BY <1>1, <2>4, SameCall DEF Answers, SignalNotMissed, Heard, Signals
  <2> QED
    BY <2>2, <2>3, <2>4, <2>5 DEF AsyncInv
<1>3. CASE CompleteOrphan
  <2>1. orphan /\ orphan' = FALSE /\ transfer' = transfer
    BY <1>3 DEF CompleteOrphan
  <2>2. AsyncKinds'
    BY <1>1, <2>1, SameCall DEF AsyncInv, AsyncKinds
  <2>3. FirstCall'
    BY <1>1, <2>1 DEF AsyncInv, FirstCall
  <2>4. Heard' /\ Early'
    BY <1>1, <2>1, SameCall DEF AsyncInv, AsyncKinds, Heard, Early, Finished, Signals
  <2>5. Answers
    BY <1>1, <2>4, SameCall DEF Answers, SignalNotMissed, Heard, Signals
  <2> QED
    BY <2>2, <2>3, <2>4, <2>5 DEF AsyncInv
<1> QED
  BY <1>2, <1>3

\* The next call.
LEMMA AgainStep == AsyncInv /\ Again => AsyncInv' /\ Answers
<1> SUFFICES ASSUME AsyncInv, Again PROVE AsyncInv' /\ Answers
  OBVIOUS
<1>1. /\ step = "returned" /\ step' = "start" /\ made' = made + 1 /\ transfer' = "none"
      /\ request'.system = request.system /\ notify' = notify
      /\ held' = held /\ deferred' = deferred /\ received' = received
  BY DEF Again
<1>2. AsyncKinds' /\ made' # 0
  BY <1>1 DEF AsyncInv, AsyncKinds, sgi
<1>3. FirstCall' /\ Heard' /\ Early'
  BY <1>1, <1>2 DEF FirstCall, Heard, Early
<1>4. Answers
  BY <1>1 DEF Answers, SignalNotMissed
<1> QED
  BY <1>2, <1>3, <1>4 DEF AsyncInv

\* Nothing happens.
LEMMA AsyncStutter == AsyncInv /\ UNCHANGED asyncVars => AsyncInv' /\ Answers
<1> SUFFICES ASSUME AsyncInv, UNCHANGED asyncVars PROVE AsyncInv' /\ Answers
  OBVIOUS
<1>1. /\ request' = request /\ made' = made /\ method' = method /\ sig' = sig /\ notify' = notify
      /\ held' = held /\ deferred' = deferred /\ received' = received /\ step' = step
      /\ transfer' = transfer /\ orphan' = orphan
  BY DEF asyncVars
<1>2. AsyncKinds' /\ FirstCall'
  BY <1>1, SameCall DEF AsyncInv, AsyncKinds, FirstCall, Finished
<1>3. Heard' /\ Early'
  BY <1>1, SameCall DEF AsyncInv, Heard, Early, Finished, Signals
<1>4. Answers
  BY <1>1, <1>3, SameCall DEF AsyncInv, AsyncKinds, Answers, SignalNotMissed, Heard, Signals
<1> QED
  BY <1>2, <1>3, <1>4 DEF AsyncInv

\* What the answer of a call says of its transfer, its buffer and its signal, for any methods and
\* any number of calls one after the other (lio_write_buffer() to lio_check_asyncio()).
THEOREM AsyncAnswersHolds == AsyncInit /\ [][AsyncNext]_asyncVars => AsyncAnswers
<1>1. ASSUME AsyncInv, [AsyncNext]_asyncVars PROVE AsyncInv' /\ Answers
  <2>1. CASE Prepare
    BY <1>1, <2>1, PrepareStep
  <2>2. CASE lio_write \/ lio_read
    <3>1. \/ step = "issue" /\ (Move \/ Refused \/ Started)
          \/ step = "issue" /\ CallFor = "slistio" /\ ListDone
          \/ Wait \/ Waited \/ Interrupted \/ Check \/ Spun
      BY <2>2 DEF lio_write, lio_read, Issue, write_plain, write_async, write_slistio, write_alistio,
         write_vector, write_positioned, write_end, read_plain, read_async, read_slistio,
         read_alistio, read_vector, read_positioned, read_end
    <3> QED
      BY <1>1, <3>1, MoveStep, RefusedStep, StartedStep, ListDoneStep, WaitStep, WaitedStep,
         InterruptedStep, CheckStep, SpunStep
  <2>3. CASE Complete \/ CompleteOrphan
    BY <1>1, <2>3, CompleteStep
  <2>4. CASE Again
    BY <1>1, <2>4, AgainStep
  <2>5. CASE UNCHANGED asyncVars
    BY <1>1, <2>5, AsyncStutter
  <2> QED
    BY <1>1, <2>1, <2>2, <2>3, <2>4, <2>5 DEF AsyncNext
<1> QED
  BY <1>1, AsyncInvInit, PTL DEF AsyncAnswers

(***************************************************************************)
(* tst_tmpdir(), tst_rmdir() and rmobj(), for any contents of a directory  *)
(* and any order of reading them.  The calls of rmobj() that have not      *)
(* returned are the way from TESTDIR down to what is tried now; each of    *)
(* them knows whether something stays that it must not outlive.            *)
(***************************************************************************)

Named == DOMAIN ObjectOf \cup {TestDir, Elsewhere}
Frames == [obj : Named, opened : BOOLEAN, dir : SUBSET Named, ret_val : {-1, 0}]
OnStack(o) == \E i \in DOMAIN calls : calls[i].obj = o

\* The calls go down from TestDir, one directory at a time, and never twice to an object.
Descent ==
  /\ calls[1].obj = TestDir
  /\ \A i \in DOMAIN calls :
       /\ calls[i].obj \in DOMAIN fs /\ calls[i].dir \subseteq EntriesOf(fs, calls[i].obj)
       /\ i + 1 \in DOMAIN calls =>
            /\ fs[calls[i + 1].obj].parent = calls[i].obj
            /\ calls[i].opened /\ calls[i + 1].obj \notin calls[i].dir
  /\ \A i, j \in DOMAIN calls : calls[i].obj = calls[j].obj => i = j

\* A call knows when an object has stayed that it cannot do without.
Failures ==
  \A i \in DOMAIN calls : calls[i].ret_val = -1 =>
    /\ calls[i].opened
    /\ \E o \in EntriesOf(fs, calls[i].obj) :
         o \notin calls[i].dir /\ (i + 1 \in DOMAIN calls => o # calls[i + 1].obj)

\* Of what has been tried, a directory has all its entries tried, or yet to try; and what
\* is finished and still there has a reason.
AllTried ==
  /\ \A i \in DOMAIN calls : calls[i].obj \in tried
  /\ \A i \in DOMAIN calls : calls[i].opened => EntriesOf(fs, calls[i].obj) \subseteq tried \cup calls[i].dir
  /\ \A o \in tried \cap DOMAIN fs : ~OnStack(o) =>
       /\ fs[o].kind = "directory" => EntriesOf(fs, o) \subseteq tried
       /\ fs[o].stuck \/ EntriesOf(fs, o) # {}

RootKept == TestDir \in DOMAIN fs => fs[TestDir] = Object(Elsewhere, "directory", FALSE)
TmpInv ==
  /\ testdir \in {"unset", "own", "given"} /\ relative \in BOOLEAN
  /\ stage \in {"start", "testing", "removing", "removed", "exited"}
  /\ calls \in Seq(Frames) /\ tried \subseteq Named
  /\ DOMAIN fs \subseteq DOMAIN ObjectOf \cup {TestDir} /\ RootKept
  /\ testdir = "given" => TestDir \in DOMAIN fs /\ stage # "removing"
  /\ stage = "start" => testdir # "own"
  /\ stage = "testing" => TestDir \in DOMAIN fs /\ testdir # "unset"
  /\ stage = "exited" => warned
  /\ stage = "removing" =>
       /\ testdir = "own" /\ calls # <<>>
       /\ IF relative THEN calls = <<rmobj_Call(Elsewhere)>> ELSE Descent /\ Failures /\ AllTried
  /\ stage = "removed" /\ testdir # "given" =>
       /\ testdir = "own" /\ (TestDir \in DOMAIN fs => warned)
       /\ ~relative => calls = <<>> /\ TestDir \in tried /\ AllTried

-----------------------------------------------------------------------------
(* What a call leaves when it returns, or makes another.                  *)

\* What a finished call has done to its object: taken it away, or found a reason not to.
Done(result) ==
  /\ \/ result.ret = -1 /\ result.fs = fs /\ (fs[Top.obj].stuck \/ EntriesOf(fs, Top.obj) # {})
     \/ result.ret = 0 /\ result.fs = Without(fs, Top.obj)
  /\ fs[Top.obj].kind = "directory" => EntriesOf(fs, Top.obj) \subseteq tried

\* A removal that is on its way, and has started at the right place.
OnItsWay == TmpInv /\ stage = "removing" /\ ~relative

\* The calls as a stack.
LEMMA Stack ==
  ASSUME OnItsWay
  PROVE  /\ Len(calls) \in Nat \ {0} /\ DOMAIN calls = 1 .. Len(calls)
         /\ Len(calls) \in DOMAIN calls /\ Top \in Frames /\ Top.obj \in DOMAIN fs
         /\ Descent /\ Failures /\ AllTried
<1>1. calls \in Seq(Frames) /\ calls # <<>> /\ Descent /\ Failures /\ AllTried
  BY DEF OnItsWay, TmpInv
<1>2. Len(calls) \in Nat \ {0} /\ DOMAIN calls = 1 .. Len(calls) /\ calls[Len(calls)] \in Frames
  BY <1>1
<1> QED
  BY <1>1, <1>2 DEF Top, Descent

\* What is left of the objects.
LEMMA Left ==
  ASSUME OnItsWay, NEW result, Done(result), fs' = result.fs
  PROVE  /\ DOMAIN fs' \subseteq DOMAIN fs /\ \A o \in DOMAIN fs' : fs'[o] = fs[o]
         /\ \A o \in DOMAIN fs : o \in DOMAIN fs' \/ (result.ret = 0 /\ o = Top.obj)
         /\ \A x : EntriesOf(fs, x)' = EntriesOf(fs, x) \cap DOMAIN fs'
         /\ result.ret = 0 => Top.obj \notin DOMAIN fs'
         /\ RootKept'
<1>1. /\ DOMAIN fs' \subseteq DOMAIN fs /\ \A o \in DOMAIN fs' : fs'[o] = fs[o]
      /\ \A o \in DOMAIN fs : o \in DOMAIN fs' \/ (result.ret = 0 /\ o = Top.obj)
      /\ result.ret = 0 => Top.obj \notin DOMAIN fs'
  <2>1. CASE result.ret = -1
    BY <2>1 DEF Done
  <2>2. CASE result.ret = 0 /\ result.fs = Without(fs, Top.obj)
    BY <2>2 DEF Without
  <2> QED
    BY <2>1, <2>2 DEF Done
<1>2. \A x : EntriesOf(fs, x)' = EntriesOf(fs, x) \cap DOMAIN fs'
  BY <1>1 DEF EntriesOf
<1>3. RootKept'
  BY <1>1 DEF RootKept, OnItsWay, TmpInv
<1> QED
  BY <1>1, <1>2, <1>3

\* What is left of the calls.
LEMMA Popped ==
  ASSUME OnItsWay, NEW result, rmobj_Return(result)
  PROVE  LET n == Len(calls) - 1 IN
         /\ calls' \in Seq(Frames) /\ Len(calls') = n /\ DOMAIN calls' = 1 .. n
         /\ \A i \in 1 .. n :
              /\ calls'[i].obj = calls[i].obj /\ calls'[i].dir = calls[i].dir
              /\ calls'[i].opened = calls[i].opened
              /\ calls'[i].ret_val = -1 => calls[i].ret_val = -1 \/ (i = n /\ result.ret # 0)
<1> DEFINE n == Len(calls) - 1
           Next(i) == IF i = n /\ result.ret # 0 THEN [calls[i] EXCEPT !.ret_val = -1] ELSE calls[i]
<1>1. n \in Nat /\ DOMAIN calls = 1 .. n + 1 /\ calls \in Seq(Frames)
  BY Stack DEF OnItsWay, TmpInv
<1>2. calls' = [i \in 1 .. n |-> Next(i)]
  BY DEF rmobj_Return
<1>3. ASSUME NEW i \in 1 .. n
      PROVE  /\ Next(i) \in Frames /\ Next(i).obj = calls[i].obj /\ Next(i).dir = calls[i].dir
             /\ Next(i).opened = calls[i].opened
             /\ Next(i).ret_val = -1 => calls[i].ret_val = -1 \/ (i = n /\ result.ret # 0)
  <2>1. calls[i] \in Frames
    BY <1>1, <1>3
  <2> QED
    BY <2>1 DEF Frames
<1> HIDE DEF Next, n
<1>4. calls' \in Seq(Frames) /\ Len(calls') = n /\ DOMAIN calls' = 1 .. n
  <2>1. calls' \in [1 .. n -> Frames]
    BY <1>2, <1>3
  <2> QED
    BY <1>1, <2>1
<1>5. \A i \in 1 .. n : calls'[i] = Next(i)
  BY <1>1, <1>2
<1> QED
  BY <1>3, <1>4, <1>5 DEF n

\* The calls that are left go down as before.
LEMMA DescentKept ==
  ASSUME OnItsWay, NEW result, Done(result), rmobj_Return(result), Len(calls) # 1
  PROVE  Descent'
<1> DEFINE n == Len(calls) - 1
<1>1. n \in Nat \ {0} /\ DOMAIN calls = 1 .. n + 1 /\ Descent /\ Top.obj = calls[n + 1].obj
  BY Stack DEF Top
<1>2. /\ DOMAIN calls' = 1 .. n
      /\ \A i \in 1 .. n : calls'[i].obj = calls[i].obj /\ calls'[i].dir = calls[i].dir
                           /\ calls'[i].opened = calls[i].opened
  BY Popped
<1>3. fs' = result.fs
  BY DEF rmobj_Return
<1> HIDE DEF n
<1>4. ASSUME NEW i \in 1 .. n
      PROVE  calls[i].obj # Top.obj
  BY <1>1, <1>4 DEF Descent
<1>5. \A i \in 1 .. n : calls[i].obj \in DOMAIN fs'
  BY <1>1, <1>3, <1>4, Left DEF Descent
<1>6. ASSUME NEW i \in 1 .. n
      PROVE  calls[i].dir \subseteq EntriesOf(fs, calls[i].obj)'
  <2>1. calls[i].dir \subseteq EntriesOf(fs, calls[i].obj)
    BY <1>1, <1>6 DEF Descent
  <2>2. \A o \in calls[i].dir : o # Top.obj
    <3> SUFFICES ASSUME Top.obj \in calls[i].dir PROVE FALSE
      OBVIOUS
    <3>1. fs[Top.obj].parent = calls[i].obj
      BY <2>1 DEF EntriesOf
    <3>2. fs[Top.obj].parent = calls[n].obj /\ Top.obj \notin calls[n].dir
      BY <1>1 DEF Descent
    <3>3. i \in DOMAIN calls /\ n \in DOMAIN calls /\ calls[i].obj = calls[n].obj
      BY <1>1, <1>6, <3>1, <3>2
    <3>4. i = n
      BY <1>1, <3>3 DEF Descent
    <3> QED
      BY <3>2, <3>4
  <2>3. calls[i].dir \subseteq DOMAIN fs'
    BY <1>3, <2>1, <2>2, Left DEF EntriesOf
  <2> QED
    BY <1>3, <1>1, <1>2, <1>6, <2>1, <2>3, Left
<1>7. ASSUME NEW i \in 1 .. n, i + 1 \in 1 .. n
      PROVE  /\ fs'[calls[i + 1].obj].parent = calls[i].obj
             /\ calls[i].opened /\ calls[i + 1].obj \notin calls[i].dir
  <2>0. i \in DOMAIN calls /\ i + 1 \in DOMAIN calls
    BY <1>1, <1>7
  <2>1. /\ fs[calls[i + 1].obj].parent = calls[i].obj
        /\ calls[i].opened /\ calls[i + 1].obj \notin calls[i].dir
    BY <1>1, <2>0 DEF Descent
  <2>2. fs'[calls[i + 1].obj] = fs[calls[i + 1].obj]
    BY <1>3, <1>5, <1>7, Left
  <2> QED
    BY <2>1, <2>2
<1>8. \A i, j \in 1 .. n : calls[i].obj = calls[j].obj => i = j
  BY <1>1 DEF Descent
<1>9. calls[1].obj = TestDir /\ 1 \in 1 .. n
  BY <1>1 DEF Descent
<1>10. \A i \in 1 .. n : i + 1 \in 1 .. n => calls'[i + 1].obj = calls[i + 1].obj
  BY <1>2
<1> QED
  BY <1>2, <1>5, <1>6, <1>7, <1>8, <1>9, <1>10 DEF Descent

\* The call below knows when the object of the finished one has stayed.
LEMMA FailuresKept ==
  ASSUME OnItsWay, NEW result, Done(result), rmobj_Return(result), Len(calls) # 1
  PROVE  Failures'
<1> DEFINE n == Len(calls) - 1
<1>1. n \in Nat \ {0} /\ DOMAIN calls = 1 .. n + 1 /\ Descent /\ Failures /\ Top.obj = calls[n + 1].obj
      /\ Top.obj \in DOMAIN fs
  BY Stack DEF Top
<1>2. /\ DOMAIN calls' = 1 .. n
      /\ \A i \in 1 .. n :
           /\ calls'[i].obj = calls[i].obj /\ calls'[i].dir = calls[i].dir
           /\ calls'[i].opened = calls[i].opened
           /\ calls'[i].ret_val = -1 => calls[i].ret_val = -1 \/ (i = n /\ result.ret # 0)
  BY Popped
<1>3. fs' = result.fs
  BY DEF rmobj_Return
<1> HIDE DEF n
<1>4. n \in DOMAIN calls /\ n + 1 \in DOMAIN calls
  BY <1>1
<1>5. fs[Top.obj].parent = calls[n].obj /\ Top.obj \notin calls[n].dir /\ calls[n].opened
  BY <1>1, <1>4 DEF Descent
<1> SUFFICES ASSUME NEW i \in 1 .. n, calls'[i].ret_val = -1
             PROVE  /\ calls[i].opened
                    /\ \E o \in EntriesOf(fs, calls[i].obj)' :
                         o \notin calls[i].dir /\ (i + 1 \in 1 .. n => o # calls[i + 1].obj)
  <2>1. \A i \in 1 .. n : i + 1 \in 1 .. n => calls'[i + 1].obj = calls[i + 1].obj
    BY <1>2
  <2> QED
    BY <1>2, <2>1 DEF Failures
<1>6. i \in DOMAIN calls
  BY <1>1
<1>7. CASE i = n /\ result.ret # 0
  <2>1. Top.obj \in EntriesOf(fs, calls[n].obj) /\ Top.obj \in DOMAIN fs'
    BY <1>1, <1>3, <1>5, <1>7, Left DEF EntriesOf
  <2>2. Top.obj \in EntriesOf(fs, calls[i].obj)'
    BY <1>3, <1>2, <1>7, <2>1, Left
  <2>3. i + 1 \notin 1 .. n
    BY <1>1, <1>7
  <2> QED
    BY <1>5, <1>7, <2>2, <2>3
<1>8. CASE calls[i].ret_val = -1
  <2>0. calls[i].opened
    BY <1>1, <1>6, <1>8 DEF Failures
  <2>1. PICK o \in EntriesOf(fs, calls[i].obj) :
           o \notin calls[i].dir /\ (i + 1 \in DOMAIN calls => o # calls[i + 1].obj)
    BY <1>1, <1>6, <1>8 DEF Failures
  <2>2. o # Top.obj
    <3> SUFFICES ASSUME o = Top.obj PROVE FALSE
      OBVIOUS
    <3>1. calls[n].obj = calls[i].obj
      BY <1>5, <2>1 DEF EntriesOf
    <3>2. i = n
      BY <1>1, <1>4, <1>6, <3>1 DEF Descent
    <3> QED
      BY <1>1, <1>4, <2>1, <3>2
  <2>3. o \in DOMAIN fs'
    BY <1>3, <2>1, <2>2, Left DEF EntriesOf
  <2>4. o \in EntriesOf(fs, calls[i].obj)'
    BY <1>2, <1>3, <2>1, <2>3, Left
  <2> QED
    BY <1>1, <2>0, <2>1, <2>4
<1> QED
  BY <1>2, <1>7, <1>8

\* The object of the finished call is gone, or has a reason to stay.
LEMMA AllTriedKept ==
  ASSUME OnItsWay, NEW result, Done(result), rmobj_Return(result)
  PROVE  AllTried'
<1> DEFINE n == Len(calls) - 1
<1>1. /\ n \in Nat /\ DOMAIN calls = 1 .. n + 1 /\ Descent /\ AllTried /\ Top.obj = calls[n + 1].obj
      /\ Top.obj \in DOMAIN fs
  BY Stack DEF Top
<1>2. /\ DOMAIN calls' = 1 .. n
      /\ \A i \in 1 .. n : /\ calls'[i].obj = calls[i].obj /\ calls'[i].dir = calls[i].dir
                           /\ calls'[i].opened = calls[i].opened
  BY Popped
<1>3. fs' = result.fs /\ tried' = tried
  BY DEF rmobj_Return
<1> HIDE DEF n
<1>4. ASSUME NEW i \in 1 .. n
      PROVE  /\ calls'[i].obj \in tried
             /\ calls'[i].opened => EntriesOf(fs, calls[i].obj)' \subseteq tried \cup calls[i].dir
  <2>1. i \in DOMAIN calls
    BY <1>1
  <2>2. /\ calls[i].obj \in tried
        /\ calls[i].opened => EntriesOf(fs, calls[i].obj) \subseteq tried \cup calls[i].dir
    BY <1>1, <2>1 DEF AllTried
  <2>3. EntriesOf(fs, calls[i].obj)' \subseteq EntriesOf(fs, calls[i].obj)
    BY <1>2, <1>3, Left
  <2> QED
    BY <1>2, <2>2, <2>3
<1>5. ASSUME NEW o \in tried \cap DOMAIN fs', ~OnStack(o)'
      PROVE  /\ fs'[o].kind = "directory" => EntriesOf(fs, o)' \subseteq tried
             /\ fs'[o].stuck \/ EntriesOf(fs, o)' # {}
  <2>1. o \in DOMAIN fs /\ fs'[o] = fs[o] /\ EntriesOf(fs, o)' = EntriesOf(fs, o) \cap DOMAIN fs'
    BY <1>3, <1>5, Left
  <2>2. \A i \in 1 .. n : calls[i].obj # o
    BY <1>2, <1>5 DEF OnStack
  <2>3. CASE o = Top.obj
    <3>1. result.ret = -1 /\ fs' = fs
      BY <1>3, <1>5, <2>3, Left DEF Done
    <3> QED
      BY <2>1, <2>3, <3>1, <1>3, Left DEF Done
  <2>4. CASE o # Top.obj
    <3>1. ~OnStack(o)
      BY <1>1, <2>2, <2>4 DEF OnStack
    <3>2. /\ fs[o].kind = "directory" => EntriesOf(fs, o) \subseteq tried
          /\ fs[o].stuck \/ EntriesOf(fs, o) # {}
      BY <1>1, <1>5, <2>1, <3>1 DEF AllTried
    <3>3. ASSUME NEW x \in EntriesOf(fs, o)
          PROVE  x \in DOMAIN fs'
      <4> SUFFICES ASSUME x = Top.obj PROVE FALSE
        BY <1>3, Left DEF EntriesOf
      <4>1. fs[Top.obj].parent = o
        BY <3>3 DEF EntriesOf
      <4>2. CASE n = 0
        <5>1. Top.obj = TestDir
          BY <1>1, <4>2 DEF Descent
        <5>2. o = Elsewhere
          BY <1>1, <4>1, <5>1 DEF OnItsWay, TmpInv, RootKept, Object
        <5> QED
          BY <2>1, <5>2, TmpDirAssumption DEF OnItsWay, TmpInv
      <4>3. CASE n # 0
        <5>1. n \in DOMAIN calls /\ n + 1 \in DOMAIN calls /\ n \in 1 .. n
          BY <1>1, <4>3
        <5>2. fs[Top.obj].parent = calls[n].obj
          BY <1>1, <5>1 DEF Descent
        <5> QED
          BY <2>2, <4>1, <5>1, <5>2
      <4> QED
        BY <4>2, <4>3
    <3> QED
      BY <2>1, <3>2, <3>3
  <2> QED
    BY <2>3, <2>4
<1> QED
  BY <1>2, <1>3, <1>4, <1>5 DEF AllTried

\* So a call that has done its work may return.
LEMMA ReturnKept ==
  ASSUME OnItsWay, NEW result, Done(result), rmobj_Return(result), UNCHANGED <<testdir, relative, cwd>>
  PROVE  TmpInv'
<1>1. /\ Len(calls) \in Nat \ {0} /\ Top.obj \in DOMAIN fs
      /\ Descent
  BY Stack
<1>2. calls' \in Seq(Frames) /\ Len(calls') = Len(calls) - 1
  BY Popped
<1>3. fs' = result.fs /\ tried' = tried
  BY DEF rmobj_Return
<1>4. RootKept' /\ DOMAIN fs' \subseteq DOMAIN ObjectOf \cup {TestDir} /\ tried' \subseteq Named
  BY <1>3, Left DEF OnItsWay, TmpInv
<1>5. AllTried' /\ testdir' = "own" /\ relative' = FALSE /\ relative \in BOOLEAN
  BY AllTriedKept DEF OnItsWay, TmpInv
<1>6. CASE Len(calls) = 1
  <2>1. stage' = "removed" /\ warned' = (warned \/ result.ret = -1) /\ calls' = <<>>
    BY <1>2, <1>6 DEF rmobj_Return
  <2>2. Top.obj = TestDir /\ TestDir \in tried
    BY <1>6, Stack DEF Descent, Top, AllTried
  <2>3. TestDir \in DOMAIN fs' => warned'
    BY <1>3, <2>1, <2>2, Left DEF Done
  <2> QED
    BY <1>2, <1>3, <1>4, <1>5, <2>1, <2>2, <2>3 DEF TmpInv
<1>7. CASE Len(calls) # 1
  <2>1. stage' = "removing" /\ calls' # <<>>
    <3>1. Len(calls') # 0 /\ Len(<<>>) = 0
      BY <1>1, <1>2, <1>7
    <3> QED
      BY <1>7, <3>1 DEF rmobj_Return, OnItsWay
  <2> QED
    BY <1>2, <1>4, <1>5, <1>7, <2>1, DescentKept, FailuresKept DEF TmpInv
<1> QED
  BY <1>6, <1>7

\* A directory is read: none of it is tried yet.
LEMMA OpenKept ==
  ASSUME OnItsWay, rmobj_Open, UNCHANGED <<testdir, relative, cwd>>
  PROVE  TmpInv'
<1> DEFINE n == Len(calls)
           opened == [calls[n] EXCEPT !.opened = TRUE, !.dir = EntriesOf(fs, Top.obj)]
<1>1. /\ n \in Nat \ {0} /\ DOMAIN calls = 1 .. n /\ n \in DOMAIN calls
      /\ Descent /\ Failures /\ AllTried /\ Top.obj \in DOMAIN fs /\ Top = calls[n] /\ Top \in Frames
  BY Stack DEF Top
<1>2. /\ calls' = [calls EXCEPT ![n] = opened] /\ ~Top.opened /\ UNCHANGED <<fs, warned, stage, tried>>
  BY <1>1 DEF rmobj_Open
<1>3. EntriesOf(fs, Top.obj) \subseteq Named /\ calls \in Seq(Frames) /\ calls # <<>>
  BY DEF OnItsWay, TmpInv, EntriesOf, Named
<1>4. /\ opened \in Frames /\ opened.obj = calls[n].obj /\ opened.dir = EntriesOf(fs, calls[n].obj)
      /\ opened.ret_val = calls[n].ret_val
  BY <1>1, <1>3 DEF Frames
<1> HIDE DEF opened
<1>5. calls' \in Seq(Frames) /\ calls' # <<>> /\ Len(calls') = n /\ DOMAIN calls' = 1 .. n
  BY <1>1, <1>2, <1>3, <1>4
<1>6. ASSUME NEW i \in 1 .. n
      PROVE  /\ calls'[i].obj = calls[i].obj /\ calls'[i].ret_val = calls[i].ret_val
             /\ i # n => calls'[i] = calls[i]
             /\ i = n => calls'[i].dir = EntriesOf(fs, calls[n].obj)
  BY <1>1, <1>2, <1>4
<1> HIDE DEF n
<1>7. Descent'
  BY <1>1, <1>2, <1>5, <1>6 DEF Descent
<1>8. Failures'
  <2> SUFFICES ASSUME NEW i \in 1 .. n, calls'[i].ret_val = -1
               PROVE  /\ calls'[i].opened
                      /\ \E o \in EntriesOf(fs, calls'[i].obj) :
                           o \notin calls'[i].dir /\ (i + 1 \in 1 .. n => o # calls'[i + 1].obj)
    BY <1>2, <1>5 DEF Failures
  <2>1. i # n /\ calls'[i] = calls[i] /\ calls[i].ret_val = -1
    BY <1>1, <1>2, <1>6 DEF Failures
  <2>2. i + 1 \in 1 .. n => calls'[i + 1].obj = calls[i + 1].obj
    BY <1>6
  <2> QED
    BY <1>1, <1>2, <2>1, <2>2 DEF Failures
<1>9. AllTried'
  BY <1>1, <1>2, <1>5, <1>6 DEF AllTried, OnStack
<1> QED
  BY <1>2, <1>5, <1>7, <1>8, <1>9 DEF OnItsWay, TmpInv, RootKept, Named

\* An entry is tried: the call of its own is one step down.
LEMMA EntryKept ==
  ASSUME OnItsWay, rmobj_Entry, UNCHANGED <<testdir, relative, cwd>>
  PROVE  TmpInv'
<1> DEFINE n == Len(calls)
<1>1. /\ n \in Nat \ {0} /\ DOMAIN calls = 1 .. n /\ n \in DOMAIN calls
      /\ Descent /\ Failures /\ AllTried /\ Top.obj \in DOMAIN fs /\ Top = calls[n] /\ Top \in Frames
      /\ calls \in Seq(Frames)
  BY Stack DEF Top, OnItsWay, TmpInv
<1>2. PICK o \in Top.dir :
         /\ calls' = Append([calls EXCEPT ![n].dir = @ \ {o}], rmobj_Call(o))
         /\ tried' = tried \cup {o}
  BY DEF rmobj_Entry
<1>3. UNCHANGED <<fs, warned, stage, testdir, relative>> /\ Top.opened
  BY DEF rmobj_Entry
<1> DEFINE left == [calls[n] EXCEPT !.dir = @ \ {o}]
           pushed == rmobj_Call(o)
<1>4. /\ left \in Frames /\ left.obj = calls[n].obj /\ left.dir = calls[n].dir \ {o} /\ left.opened
      /\ left.ret_val = calls[n].ret_val
  BY <1>1, <1>3 DEF Frames
<1>5. o \in EntriesOf(fs, Top.obj)
  BY <1>1 DEF Descent
<1>6. /\ pushed \in Frames /\ pushed.obj = o /\ pushed.dir = {} /\ ~pushed.opened /\ pushed.ret_val = 0
      /\ o \in DOMAIN fs /\ o \in Named /\ fs[o].parent = Top.obj
  BY <1>1, <1>5 DEF rmobj_Call, Frames, EntriesOf
<1> DEFINE kept == [calls EXCEPT ![n] = left]
<1>7. calls' = Append(kept, pushed)
  BY <1>1, <1>2
<1> HIDE DEF left, pushed
<1>0. kept \in Seq(Frames) /\ Len(kept) = n /\ \A i \in 1 .. n : kept[i] = IF i = n THEN left ELSE calls[i]
  BY <1>1, <1>4
<1> HIDE DEF kept
<1>8. calls' \in Seq(Frames) /\ calls' # <<>> /\ Len(calls') = n + 1 /\ DOMAIN calls' = 1 .. n + 1
  BY <1>0, <1>1, <1>6, <1>7
<1>9. ASSUME NEW i \in 1 .. n
      PROVE  /\ calls'[i].obj = calls[i].obj /\ calls'[i].ret_val = calls[i].ret_val
             /\ calls'[i].opened = calls[i].opened
             /\ i # n => calls'[i].dir = calls[i].dir
             /\ i = n => calls'[i].dir = calls[i].dir \ {o}
  <2>1. calls'[i] = kept[i]
    BY <1>0, <1>1, <1>6, <1>7
  <2>2. CASE i = n
    <3>1. calls'[i] = left
      BY <1>0, <2>1, <2>2
    <3>2. calls[n].opened /\ left.opened
      BY <1>1, <1>3, <1>4
    <3> QED
      BY <1>1, <1>3, <1>4, <2>2, <3>1, <3>2
  <2>3. CASE i # n
    BY <1>0, <2>1, <2>3
  <2> QED
    BY <2>2, <2>3
<1>10. calls'[n + 1] = pushed
  BY <1>0, <1>1, <1>6, <1>7
<1> HIDE DEF n
\* It is none of those on the stack.
<1>11. ASSUME NEW i \in 1 .. n
       PROVE  calls[i].obj # o
  <2> SUFFICES ASSUME calls[i].obj = o PROVE FALSE
    OBVIOUS
  <2>1. CASE i = 1
    <3>1. o = TestDir
      BY <1>1, <2>1 DEF Descent
    <3>2. Top.obj = Elsewhere
      BY <1>6, <3>1 DEF OnItsWay, TmpInv, RootKept, Object
    <3> QED
      BY <1>1, <3>2, TmpDirAssumption DEF OnItsWay, TmpInv
  <2>2. CASE i # 1
    <3>1. i - 1 \in DOMAIN calls /\ (i - 1) + 1 = i /\ i \in DOMAIN calls
      BY <1>1, <2>2
    <3>2. fs[o].parent = calls[i - 1].obj
      BY <1>1, <3>1 DEF Descent
    <3>3. i - 1 = n
      BY <1>1, <1>6, <3>1, <3>2 DEF Descent
    <3> QED
      BY <1>1, <3>3
  <2> QED
    BY <2>1, <2>2
<1>12. Descent'
  <2>1. ASSUME NEW i \in 1 .. n + 1
        PROVE  calls'[i].obj \in DOMAIN fs /\ calls'[i].dir \subseteq EntriesOf(fs, calls'[i].obj)
    <3>1. CASE i = n + 1
      BY <1>6, <1>10, <3>1
    <3>2. CASE i # n + 1
      <4>1. i \in 1 .. n /\ calls[i].obj \in DOMAIN fs /\ calls[i].dir \subseteq EntriesOf(fs, calls[i].obj)
        BY <1>1, <3>2 DEF Descent
      <4> QED
        BY <1>9, <4>1
    <3> QED
      BY <3>1, <3>2
  <2>2. ASSUME NEW i \in 1 .. n + 1, i + 1 \in 1 .. n + 1
        PROVE  /\ fs[calls'[i + 1].obj].parent = calls'[i].obj
               /\ calls'[i].opened /\ calls'[i + 1].obj \notin calls'[i].dir
    <3>1. CASE i = n
      BY <1>1, <1>3, <1>6, <1>9, <1>10, <3>1
    <3>2. CASE i # n
      <4>1. i \in 1 .. n /\ i + 1 \in 1 .. n
        BY <1>1, <2>2, <3>2
      <4>2. /\ fs[calls[i + 1].obj].parent = calls[i].obj
            /\ calls[i].opened /\ calls[i + 1].obj \notin calls[i].dir
        BY <1>1, <4>1 DEF Descent
      <4> QED
        BY <1>9, <3>2, <4>1, <4>2
    <3> QED
      BY <3>1, <3>2
  <2>3. ASSUME NEW i \in 1 .. n + 1, NEW j \in 1 .. n + 1, calls'[i].obj = calls'[j].obj
        PROVE  i = j
    <3>1. CASE i = n + 1 \/ j = n + 1
      BY <1>1, <1>6, <1>9, <1>10, <1>11, <2>3, <3>1
    <3>2. CASE i # n + 1 /\ j # n + 1
      BY <1>1, <1>9, <2>3, <3>2 DEF Descent
    <3> QED
      BY <3>1, <3>2
  <2>4. calls'[1].obj = TestDir
    BY <1>1, <1>9 DEF Descent
  <2> QED
    BY <1>3, <1>8, <2>1, <2>2, <2>3, <2>4 DEF Descent
<1>13. Failures'
  <2> SUFFICES ASSUME NEW i \in 1 .. n + 1, calls'[i].ret_val = -1
               PROVE  /\ calls'[i].opened
                      /\ \E x \in EntriesOf(fs, calls'[i].obj) :
                           x \notin calls'[i].dir /\ (i + 1 \in 1 .. n + 1 => x # calls'[i + 1].obj)
    BY <1>3, <1>8 DEF Failures
  <2>1. i \in 1 .. n
    BY <1>1, <1>6, <1>10
  <2>2. calls[i].ret_val = -1 /\ calls[i].opened
    BY <1>1, <1>9, <2>1 DEF Failures
  <2>3. PICK x \in EntriesOf(fs, calls[i].obj) :
           x \notin calls[i].dir /\ (i + 1 \in DOMAIN calls => x # calls[i + 1].obj)
    BY <1>1, <2>1, <2>2 DEF Failures
  <2>4. CASE i = n
    BY <1>1, <1>6, <1>9, <1>10, <2>2, <2>3, <2>4
  <2>5. CASE i # n
    <3>1. i + 1 \in 1 .. n
      BY <1>1, <2>1, <2>5
    <3> QED
      BY <1>1, <1>9, <2>1, <2>2, <2>3, <2>5, <3>1
  <2> QED
    BY <2>4, <2>5
<1>14. AllTried'
  <2>1. ASSUME NEW i \in 1 .. n + 1
        PROVE  /\ calls'[i].obj \in tried'
               /\ calls'[i].opened => EntriesOf(fs, calls'[i].obj) \subseteq tried' \cup calls'[i].dir
    <3>1. CASE i = n + 1
      BY <1>2, <1>6, <1>10, <3>1
    <3>2. CASE i # n + 1
      <4>1. i \in 1 .. n /\ i \in DOMAIN calls
        BY <1>1, <3>2
      <4>2. /\ calls[i].obj \in tried
            /\ calls[i].opened => EntriesOf(fs, calls[i].obj) \subseteq tried \cup calls[i].dir
        BY <1>1, <4>1 DEF AllTried
      <4> QED
        BY <1>2, <1>9, <4>1, <4>2
    <3> QED
      BY <3>1, <3>2
  <2>2. ASSUME NEW x \in tried' \cap DOMAIN fs, ~OnStack(x)'
        PROVE  /\ fs[x].kind = "directory" => EntriesOf(fs, x) \subseteq tried'
               /\ fs[x].stuck \/ EntriesOf(fs, x) # {}
    <3>1. \A i \in 1 .. n : calls[i].obj # x
      <4>1. \A i \in 1 .. n : i \in 1 .. n + 1
        BY <1>1
      <4> QED
        BY <1>8, <1>9, <2>2, <4>1 DEF OnStack
    <3>2. x # o /\ ~OnStack(x)
      <4>1. n + 1 \in 1 .. n + 1
        BY <1>1
      <4> QED
        BY <1>1, <1>6, <1>8, <1>10, <2>2, <3>1, <4>1 DEF OnStack
    <3> QED
      BY <1>1, <1>2, <2>2, <3>2 DEF AllTried
  <2> QED
    BY <1>3, <1>8, <2>1, <2>2 DEF AllTried
<1>15. tried' \subseteq Named
  BY <1>2, <1>6 DEF OnItsWay, TmpInv
<1>16. stage = "removing" /\ testdir = "own" /\ relative = FALSE
  BY DEF OnItsWay, TmpInv
<1> QED
  BY <1>3, <1>8, <1>12, <1>13, <1>14, <1>15, <1>16 DEF OnItsWay, TmpInv, RootKept

\* What the three ways to finish a call come to.
LEMMA DoneKinds ==
  ASSUME OnItsWay
  PROVE  /\ fs[Top.obj].kind = "file" => Done(unlink(fs, Top.obj))
         /\ fs[Top.obj].kind = "unreadable" => Done(rmdir(fs, Top.obj))
         /\ Top.opened /\ Top.dir = {} =>
              Done(IF Top.ret_val = -1 THEN [ret |-> -1, fs |-> fs] ELSE rmdir(fs, Top.obj))
<1>1. fs[Top.obj].kind = "file" => Done(unlink(fs, Top.obj))
  BY DEF Done, unlink
<1>2. fs[Top.obj].kind = "unreadable" => Done(rmdir(fs, Top.obj))
  BY DEF Done, unlink, rmdir
<1>3. ASSUME Top.opened, Top.dir = {}
      PROVE  Done(IF Top.ret_val = -1 THEN [ret |-> -1, fs |-> fs] ELSE rmdir(fs, Top.obj))
  <2>1. EntriesOf(fs, Top.obj) \subseteq tried
    BY <1>3, Stack DEF AllTried, Top
  <2>2. Top.ret_val = -1 => EntriesOf(fs, Top.obj) # {}
    BY Stack DEF Failures, Top
  <2>3. CASE Top.ret_val = -1
    BY <2>1, <2>2, <2>3 DEF Done
  <2>4. CASE Top.ret_val # -1
    BY <2>1, <2>4 DEF Done, unlink, rmdir
  <2> QED
    BY <2>3, <2>4
<1> QED
  BY <1>1, <1>2, <1>3

\* A relative TESTDIR is not found, which ends the removal with its warning.
LEMMA NotFound ==
  ASSUME TmpInv, stage = "removing", relative, rmobj
  PROVE  TmpInv'
<1>1. calls = <<rmobj_Call(Elsewhere)>> /\ testdir = "own" /\ DOMAIN fs \subseteq DOMAIN ObjectOf \cup {TestDir}
  BY DEF TmpInv
<1>2. Len(calls) = 1 /\ Top = rmobj_Call(Elsewhere)
  BY <1>1 DEF Top
<1>3. Top.obj = Elsewhere /\ ~Top.opened /\ Top.obj \notin DOMAIN fs
  BY <1>1, <1>2, TmpDirAssumption DEF rmobj_Call
<1>4. rmobj_Return([ret |-> -1, fs |-> fs]) /\ UNCHANGED <<testdir, relative, cwd>>
  BY <1>3 DEF rmobj, rmobj_Missing, rmobj_File, rmobj_Unreadable, rmobj_Open, rmobj_Entry, rmobj_Close
<1>5. fs' = fs /\ stage' = "removed" /\ warned' /\ tried' = tried
  BY <1>2, <1>4 DEF rmobj_Return
<1>6. calls' = <<>> /\ calls' \in Seq(Frames)
  BY <1>2, <1>4 DEF rmobj_Return
<1>7. RootKept'
  BY <1>5 DEF TmpInv, RootKept
<1> QED
  BY <1>1, <1>4, <1>5, <1>6, <1>7 DEF TmpInv

-----------------------------------------------------------------------------
(* The theorems.                                                           *)

\* The invariant of tst_tmpdir() and tst_rmdir(), which look at nothing but these.
LEMMA TmpStep ==
  ASSUME TmpInv, TmpNext
  PROVE  TmpInv'
<1> USE DEF TmpInv, RootKept, Made
<1>1. CASE MkdtempFails
  BY <1>1 DEF MkdtempFails, tmpdir_cleanup
<1>2. CASE ChownFails
  BY <1>2 DEF ChownFails, tmpdir_cleanup
<1>3. CASE ChdirFails
  BY <1>3 DEF ChdirFails, tmpdir_cleanup
<1>4. CASE tst_tmpdir
  BY <1>4 DEF tst_tmpdir
<1>5. CASE Test
  BY <1>5, TmpDirAssumption DEF Test
<1>6. CASE tst_rmdir
  <2>1. CASE testdir = "given"
    BY <1>6, <2>1 DEF tst_rmdir
  <2>2. CASE testdir # "given"
    <3> DEFINE obj == IF relative THEN Elsewhere ELSE TestDir
    <3>1. /\ calls' = <<rmobj_Call(obj)>> /\ tried' = {obj} /\ stage' = "removing" /\ testdir = "own"
          /\ UNCHANGED <<fs, testdir, relative>>
      BY <1>6, <2>2 DEF tst_rmdir, StartRemoval
    <3>2. rmobj_Call(obj) \in Frames /\ obj \in Named
      BY DEF rmobj_Call, Frames, Named
    <3>3. calls' \in Seq(Frames) /\ calls' # <<>> /\ tried' \subseteq Named
      BY <3>1, <3>2
    <3>4. ASSUME ~relative
          PROVE  (Descent /\ Failures /\ AllTried)'
      <4>1. Len(calls') = 1 /\ DOMAIN calls' = {1} /\ calls'[1] = rmobj_Call(TestDir)
        BY <3>1, <3>4
      <4>2. fs' = fs /\ TestDir \in DOMAIN fs /\ tried' = {TestDir} /\ 2 \notin DOMAIN calls'
        BY <1>6, <3>1, <3>4, <4>1 DEF tst_rmdir
      <4> QED
        BY <4>1, <4>2 DEF Descent, Failures, AllTried, OnStack, rmobj_Call
    <3> QED
      BY <3>1, <3>3, <3>4
  <2> QED
    BY <2>1, <2>2
<1>7. CASE rmobj
  <2>1. CASE relative
    BY <1>7, <2>1, NotFound DEF rmobj
  <2>2. CASE ~relative
    <3>1. OnItsWay /\ UNCHANGED <<testdir, relative, cwd>>
      BY <1>7, <2>2 DEF rmobj, OnItsWay
    <3>2. Top.obj \in DOMAIN fs
      BY <3>1, Stack
    <3> QED
      BY <1>7, <3>1, <3>2, DoneKinds, ReturnKept, OpenKept, EntryKept
         DEF rmobj, rmobj_Missing, rmobj_File, rmobj_Unreadable, rmobj_Close
  <2> QED
    BY <2>1, <2>2
<1> QED
  BY <1>1, <1>2, <1>3, <1>4, <1>5, <1>6, <1>7 DEF TmpNext

\* The stages of a directory, the descent through it and what each call knows are as TmpInv
\* says, in every state.
THEOREM TmpInvariance == TmpSpec => []TmpInv
<1>1. TmpInit => TmpInv
  BY DEF TmpInit, TmpInv, RootKept, Object, Named
<1>2. TmpInv /\ [TmpNext]_tmpVars => TmpInv'
  <2>1. CASE UNCHANGED tmpVars
    BY <2>1 DEF tmpVars, TmpInv, RootKept, Descent, Failures, AllTried, OnStack
  <2> QED
    BY <2>1, TmpStep
<1> QED
  BY <1>1, <1>2, PTL DEF TmpSpec

\* rmobj() and tst_rmdir(): whatever is in the directory and in whatever order it is read,
\* all that can be found and removed is removed, or the tester is told.
THEOREM NothingLeftHolds == TmpSpec => []NothingLeftUnsaid
<1>1. TmpInv => NothingLeftUnsaid
  <2> SUFFICES ASSUME TmpInv PROVE NothingLeftUnsaid
    OBVIOUS
  <2>1. testdir = "given" => TestDir \in DOMAIN fs
    BY DEF TmpInv
  <2>2. stage \in {"removed", "exited"} /\ testdir = "own" => TestDir \notin DOMAIN fs \/ warned
    BY DEF TmpInv
  <2>3. ASSUME stage = "removed", testdir = "own", ~relative, NEW o \in Findable(fs)
        PROVE  fs[o].stuck \/ EntriesOf(fs, o) # {}
    <3> DEFINE S == tried \cap (DOMAIN fs \cup {TestDir})
    <3>1. TestDir \in tried /\ AllTried /\ \A x : ~OnStack(x)
      BY <2>3 DEF TmpInv, OnStack
    <3>2. \A x \in S \cap DOMAIN fs : fs[x].kind = "directory" => EntriesOf(fs, x) \subseteq S
      BY <3>1 DEF AllTried, EntriesOf
    <3>3. S \in SUBSET (DOMAIN fs \cup {TestDir}) /\ TestDir \in S
      BY <3>1
    <3>4. o \in S /\ o \in DOMAIN fs
      BY <2>3, <3>2, <3>3 DEF Findable
    <3> QED
      BY <3>1, <3>4 DEF AllTried
  <2> QED
    BY <2>1, <2>2, <2>3 DEF NothingLeftUnsaid
<1> QED
  BY <1>1, TmpInvariance, PTL

-----------------------------------------------------------------------------
(***************************************************************************)
(* Induction.  The theorem of the library that takes a property of numbers *)
(* cannot be instantiated; that of well-founded relations speaks of sets: a*)
(* set of numbers has a least one, so that a set with 0 that is closed under*)
(* the successor has all, and a step from a value to the next has a sequence*)
(* that follows it without end.  A function that is defined by recursion is*)
(* one of these, and what all of its values have in common is shown of the *)
(* set of the numbers where they do.                                       *)
(***************************************************************************)

\* The order of the numbers, which the theorems on well-founded relations are about.
Less == {ss \in Nat \X Nat : ss[1] < ss[2]}
LEMMA LessWF == IsWellFoundedOn(Less, Nat)
BY NatLessThanWellFounded DEF Less, OpToRel

\* The least number of a set.
LEMMA Least ==
  ASSUME NEW T \in SUBSET Nat, T # {}
  PROVE  \E x \in T : \A y \in T : x <= y
<1>1. PICK x \in T : \A y \in T : ~ (<<y, x>> \in Less)
  BY LessWF, WFMin
<1>2. ASSUME NEW y \in T PROVE x <= y
  <2>1. x \in Nat /\ y \in Nat /\ ~ (<<y, x>> \in Less)
    BY <1>1
  <2> QED
    BY <2>1 DEF Less
<1> QED
  BY <1>2

\* Induction, over a set of numbers.
LEMMA Inductive ==
  ASSUME NEW T \in SUBSET Nat, 0 \in T, \A n \in Nat : n \in T => n + 1 \in T
  PROVE  T = Nat
<1> SUFFICES ASSUME Nat \ T # {} PROVE FALSE
  OBVIOUS
<1>1. PICK x \in Nat \ T : \A y \in Nat \ T : x <= y
  BY Least
<1>2. x # 0 /\ x - 1 \in Nat
  BY <1>1
<1>3. x - 1 \in T
  BY <1>1, <1>2
<1> QED
  BY <1>1, <1>2, <1>3

\* Quotient and remainder.
LEMMA Division ==
  ASSUME NEW x \in Int, NEW n \in Nat \ {0}
  PROVE  /\ x \div n \in Int /\ x % n \in 0 .. n - 1
         /\ x = n * (x \div n) + (x % n)
<1>1. x \div n \in Int
  OBVIOUS
<1>2. x % n \in 0 .. n - 1
  OBVIOUS
<1>3. x = n * (x \div n) + (x % n)
  OBVIOUS
<1> QED
  BY <1>1, <1>2, <1>3

\* There are no others.
LEMMA QuotientUnique ==
  ASSUME NEW x \in Int, NEW n \in Nat \ {0}, NEW q \in Int, NEW r \in 0 .. n - 1, x = n * q + r
  PROVE  x \div n = q /\ x % n = r
<1>1. x = n * (x \div n) + (x % n) /\ x \div n \in Int /\ x % n \in 0 .. n - 1
  BY Division
<1> DEFINE d == x \div n
           s == x % n
<1>2. d \in Int /\ s \in 0 .. n - 1 /\ n * d + s = n * q + r
  BY <1>1
<1> HIDE DEF d, s
<1>3. d = q
  <2>1. CASE d < q
    <3>1. d + 1 <= q BY <1>2, <2>1
    <3>2. n * (d + 1) <= n * q BY <1>2, <3>1
    <3> QED BY <1>2, <3>2
  <2>2. CASE d > q
    <3>1. q + 1 <= d BY <1>2, <2>2
    <3>2. n * (q + 1) <= n * d BY <1>2, <3>1
    <3> QED BY <1>2, <3>2
  <2> QED BY <1>2, <2>1, <2>2
<1> QED
  BY <1>2, <1>3 DEF d, s

\* The beginning of a sequence of values, each by a step from the one before.
Begun(S, c, advance, n, h) ==
  /\ h \in [0 .. n -> S] /\ h[0] = c
  /\ \A k \in 0 .. n - 1 : h[k + 1] = advance[h[k]]

\* Two of them agree.
LEMMA BegunUnique ==
  ASSUME NEW S, NEW c, NEW advance, NEW n \in Nat, NEW m \in Nat,
         NEW g, NEW h, Begun(S, c, advance, n, g), Begun(S, c, advance, m, h)
  PROVE  \A i \in Nat : i <= n /\ i <= m => g[i] = h[i]
<1> DEFINE T == {i \in Nat : i <= n /\ i <= m => g[i] = h[i]}
<1>1. 0 \in T
  BY DEF Begun
<1>2. ASSUME NEW i \in Nat, i \in T, i + 1 <= n, i + 1 <= m PROVE g[i + 1] = h[i + 1]
  <2>1. i \in 0 .. n - 1 /\ i \in 0 .. m - 1 /\ g[i] = h[i]
    BY <1>2
  <2> QED
    BY <2>1 DEF Begun
<1>3. \A i \in Nat : i \in T => i + 1 \in T
  BY <1>2
<1>4. T = Nat
  <2> HIDE DEF T
  <2>1. T \in SUBSET Nat
    BY DEF T
  <2> QED
    BY <1>1, <1>3, <2>1, Inductive
<1> QED
  BY <1>4

\* There is one of each length.
LEMMA BegunExists ==
  ASSUME NEW S, NEW c, NEW advance, c \in S, advance \in [S -> S]
  PROVE  \A n \in Nat : \E h : Begun(S, c, advance, n, h)
<1> DEFINE T == {n \in Nat : \E h : Begun(S, c, advance, n, h)}
<1>1. 0 \in T
  <2>1. Begun(S, c, advance, 0, [i \in 0 .. 0 |-> c])
    BY DEF Begun
  <2> QED
    BY <2>1
<1>2. ASSUME NEW n \in Nat, n \in T PROVE n + 1 \in T
  <2>1. PICK h : Begun(S, c, advance, n, h)
    BY <1>2
  <2> DEFINE g == [i \in 0 .. n + 1 |-> IF i = n + 1 THEN advance[h[n]] ELSE h[i]]
  <2>2. h[n] \in S /\ advance[h[n]] \in S
    BY <2>1 DEF Begun
  <2>3. g \in [0 .. n + 1 -> S]
    BY <2>1, <2>2 DEF Begun
  <2>4. g[0] = c
    BY <2>1 DEF Begun
  <2>5. ASSUME NEW k \in 0 .. n + 1 - 1 PROVE g[k + 1] = advance[g[k]]
    <3>1. CASE k = n
      <4>1. n \in 0 .. n + 1 /\ n + 1 \in 0 .. n + 1 /\ n # n + 1
        OBVIOUS
      <4>2. g[n + 1] = advance[h[n]] /\ g[n] = h[n]
        BY <4>1
      <4> QED
        BY <3>1, <4>2
    <3>2. CASE k # n
      <4>1. k \in 0 .. n - 1 /\ k + 1 # n + 1 /\ k # n + 1 /\ k + 1 \in 0 .. n + 1 /\ k \in 0 .. n + 1
        BY <3>2
      <4>2. g[k + 1] = h[k + 1] /\ g[k] = h[k]
        BY <4>1
      <4> QED
        BY <2>1, <4>1, <4>2 DEF Begun
    <3> QED
      BY <3>1, <3>2
  <2>6. Begun(S, c, advance, n + 1, g)
    <3> HIDE DEF g
    <3> QED
      BY <2>3, <2>4, <2>5 DEF Begun
  <2> QED
    BY <2>6
<1>3. T = Nat
  <2> HIDE DEF T
  <2>1. T \in SUBSET Nat
    BY DEF T
  <2> QED
    BY <1>1, <1>2, <2>1, Inductive
<1> QED
  BY <1>3

\* A sequence of values without an end, each by a step from the one before.
Follows(S, c, advance, g) ==
  /\ g \in [Nat -> S] /\ g[0] = c
  /\ \A n \in Nat : g[n + 1] = advance[g[n]]

\* There is one for each value and step.
LEMMA Recursion ==
  ASSUME NEW S, NEW c, NEW advance, c \in S, advance \in [S -> S]
  PROVE  \E g : Follows(S, c, advance, g)
<1> DEFINE u(n) == CHOOSE x : Begun(S, c, advance, n, x)
           g == [n \in Nat |-> u(n)[n]]
<1>1. \A n \in Nat : Begun(S, c, advance, n, u(n))
  BY BegunExists
<1> HIDE DEF u
<1>2. g \in [Nat -> S]
  BY <1>1 DEF Begun
<1>3. g[0] = c
  BY <1>1 DEF Begun
<1>4. ASSUME NEW n \in Nat PROVE g[n + 1] = advance[g[n]]
  <2>1. u(n + 1)[n] = u(n)[n]
    <3> DEFINE a == u(n + 1)
               b == u(n)
               m == n + 1
    <3>1. m \in Nat /\ Begun(S, c, advance, m, a) /\ Begun(S, c, advance, n, b)
      BY <1>1
    <3>2. n <= m /\ n <= n
      OBVIOUS
    <3> HIDE DEF a, b, m
    <3>3. \A i \in Nat : i <= m /\ i <= n => a[i] = b[i]
      BY <3>1, BegunUnique
    <3>4. a[n] = b[n]
      BY <3>2, <3>3
    <3> QED
      BY <3>4 DEF a, b
  <2>2. u(n + 1)[n + 1] = advance[u(n + 1)[n]]
    <3>1. Begun(S, c, advance, n + 1, u(n + 1)) /\ n \in 0 .. n + 1 - 1
      BY <1>1
    <3> QED
      BY <3>1 DEF Begun
  <2>3. g[n] = u(n)[n] /\ g[n + 1] = u(n + 1)[n + 1]
    OBVIOUS
  <2> QED
    BY <2>1, <2>2, <2>3
<1>5. Follows(S, c, advance, g)
  <2> HIDE DEF g
  <2> QED
    BY <1>2, <1>3, <1>4 DEF Follows
<1> QED
  BY <1>5

\* The equation of a recursive function.
Equation(S, c, advance, g) ==
  g \in [Nat -> S] /\ g = [n \in Nat |-> IF n = 0 THEN c ELSE advance[g[n - 1]]]

\* It has a solution.
LEMMA RecursiveFunction ==
  ASSUME NEW S, NEW c, NEW advance, c \in S, advance \in [S -> S]
  PROVE  \E g : Equation(S, c, advance, g)
<1>1. PICK g : Follows(S, c, advance, g)
  BY Recursion
<1>2. ASSUME NEW n \in Nat, n # 0 PROVE g[n] = advance[g[n - 1]]
  <2>1. n - 1 \in Nat /\ (n - 1) + 1 = n
    BY <1>2
  <2> QED
    BY <1>1, <2>1 DEF Follows
<1>3. Equation(S, c, advance, g)
  BY <1>1, <1>2 DEF Follows, Equation
<1> QED
  BY <1>3

-----------------------------------------------------------------------------
(***************************************************************************)
(* Random choices, for any range, multiple, mask and draw.                 *)
(***************************************************************************)

\* The multiples of mult between two numbers, in whatever order these are given.
Between(a, b, mult) ==
  {x \in Int : x % mult = 0 /\ ((a <= x /\ x <= b) \/ (b <= x /\ x <= a))}

\* Sums and differences of multiples.
LEMMA MultipleFacts ==
  ASSUME NEW n \in Nat \ {0}, NEW x \in Int
  PROVE  x % n = 0 <=> \E q \in Int : x = n * q
<1>1. x = n * (x \div n) + (x % n) /\ x \div n \in Int
  BY Division
<1>2. ASSUME NEW q \in Int, x = n * q PROVE x % n = 0
  <2>1. x = n * q + 0 /\ 0 \in 0 .. n - 1
    BY <1>2
  <2> QED
    BY <2>1, QuotientUnique
<1>3. x % n = 0 => x = n * (x \div n)
  BY <1>1
<1> QED
  BY <1>1, <1>2, <1>3

\* The next multiple upwards and downwards.
LEMMA Rounded ==
  ASSUME NEW n \in Nat \ {0}, NEW s \in Nat
  PROVE  /\ (s - (s % n)) % n = 0
         /\ s % n # 0 => (s + n - (s % n)) % n = 0
         /\ \A x \in Int : x % n = 0 =>
              /\ x <= s => x <= s - (s % n)
              /\ s <= x /\ s % n # 0 => s + n - (s % n) <= x
<1> DEFINE q == s \div n
           r == s % n
<1>1. q \in Int /\ r \in 0 .. n - 1 /\ s = n * q + r
  BY Division
<1> HIDE DEF q, r
<1>2. s - r = n * q /\ s + n - r = n * (q + 1)
  BY <1>1
<1>3. (s - r) % n = 0
  BY <1>1, <1>2, MultipleFacts
<1>4. (s + n - r) % n = 0
  <2>1. s + n - r \in Int /\ q + 1 \in Int
    BY <1>1
  <2> QED
    BY <1>2, <2>1, MultipleFacts
<1>5. ASSUME NEW x \in Int, x % n = 0
      PROVE  /\ x <= s => x <= s - r
             /\ s <= x /\ r # 0 => s + n - r <= x
  <2>1. PICK p \in Int : x = n * p
    BY <1>5, MultipleFacts
  <2>2. x <= s => p <= q
    <3> SUFFICES ASSUME x <= s, q + 1 <= p PROVE FALSE
      BY <1>1, <2>1
    <3>1. n * (q + 1) <= n * p
      BY <1>1, <2>1
    <3> QED
      BY <1>1, <1>2, <2>1, <3>1
  <2>3. s <= x /\ r # 0 => q + 1 <= p
    <3> SUFFICES ASSUME s <= x, r # 0, p <= q PROVE FALSE
      BY <1>1, <2>1
    <3>1. n * p <= n * q
      BY <1>1, <2>1
    <3> QED
      BY <1>1, <2>1, <3>1
  <2>4. p <= q => n * p <= n * q
    BY <1>1, <2>1
  <2>5. q + 1 <= p => n * (q + 1) <= n * p
    BY <1>1, <2>1
  <2> QED
    BY <1>1, <1>2, <2>1, <2>2, <2>3, <2>4, <2>5
<1> QED
  BY <1>3, <1>4, <1>5 DEF r

\* The remainder of C is the remainder for numbers that are not negative.
LEMMA RemainderOfC ==
  ASSUME NEW n \in Nat \ {0}, NEW x \in Nat
  PROVE  CRem(x, n) = x % n /\ CDiv(x, n) = x \div n
<1>1. CRem(x, n) = x % n
  BY DEF CRem
<1> DEFINE q == x \div n
           r == x % n
<1>2. q \in Int /\ r \in 0 .. n - 1 /\ x = n * q + r
  BY Division
<1>3. CDiv(x, n) = (x - r) \div n
  BY <1>1 DEF CDiv
<1> HIDE DEF q, r
<1>4. x - r \in Int /\ x - r = n * q + 0 /\ 0 \in 0 .. n - 1
  BY <1>2
<1>5. (x - r) \div n = q
  BY <1>2, <1>4, QuotientUnique
<1> QED
  BY <1>1, <1>3, <1>5 DEF q

\* What the ends of a range are moved to: multiples, between which are all of the range.
LEMMA EndsOfRange ==
  ASSUME NEW a \in Nat, NEW b \in Nat, NEW mult \in Nat \ {0}
  PROVE  \E lo, hi \in Int :
           /\ ToMultiples(a, b, mult) = <<lo, hi>> /\ lo % mult = 0 /\ hi % mult = 0 /\ 0 <= lo
           /\ Between(a, b, mult) = {x \in Int : x % mult = 0 /\ lo <= x /\ x <= hi}
<1> DEFINE s == IF b < a THEN b ELSE a
           t == IF b < a THEN a ELSE b
           lo == IF s % mult = 0 THEN s ELSE s + mult - (s % mult)
           hi == t - (t % mult)
<1>1. s \in Nat /\ t \in Nat
  OBVIOUS
<1>2. Swapped(a, b) = <<s, t>>
  BY DEF Swapped
<1>3. \A x \in Int : (a <= x /\ x <= b) \/ (b <= x /\ x <= a) <=> s <= x /\ x <= t
  OBVIOUS
<1> HIDE DEF s, t
<1>4. CRem(s, mult) = s % mult /\ CRem(t, mult) = t % mult
  BY <1>1, RemainderOfC
<1>5. ToMultiples(a, b, mult) = <<lo, hi>>
  BY <1>2, <1>4 DEF ToMultiples
<1>6. s % mult \in 0 .. mult - 1 /\ t % mult \in 0 .. mult - 1
  BY <1>1, Division
<1>7. lo \in Int /\ hi \in Int /\ s <= lo /\ hi <= t /\ 0 <= lo
  BY <1>1, <1>6
<1>8. lo % mult = 0 /\ hi % mult = 0
  <2>1. (t - (t % mult)) % mult = 0
    BY <1>1, Rounded
  <2>2. s % mult # 0 => (s + mult - (s % mult)) % mult = 0
    BY <1>1, Rounded
  <2>3. CASE s % mult = 0
    BY <2>1, <2>3
  <2>4. CASE s % mult # 0
    BY <2>1, <2>2, <2>4
  <2> QED
    BY <2>3, <2>4
<1>9. ASSUME NEW x \in Int, x % mult = 0 PROVE s <= x /\ x <= t <=> lo <= x /\ x <= hi
  <2>1. x <= t => x <= hi
    BY <1>1, <1>9, Rounded
  <2>2. s <= x /\ s % mult # 0 => s + mult - (s % mult) <= x
    BY <1>1, <1>9, Rounded
  <2>3. s <= x => lo <= x
    BY <2>2
  <2> HIDE DEF lo, hi
  <2> QED
    BY <1>1, <1>7, <2>1, <2>3
<1> HIDE DEF lo, hi
<1>10. Between(a, b, mult) = {x \in Int : x % mult = 0 /\ lo <= x /\ x <= hi}
  BY <1>3, <1>9 DEF Between
<1> QED
  BY <1>5, <1>7, <1>8, <1>10

\* A draw picks the multiple of its number, counted round.
LEMMA Picked ==
  ASSUME NEW lo \in Int, NEW hi \in Int, NEW mult \in Nat \ {0},
         lo % mult = 0, hi % mult = 0, lo <= hi
  PROVE  \E k \in Nat :
           /\ hi = lo + k * mult
           /\ \A draw \in Nat : Pick(lo, hi, mult, draw) = lo + (draw % (k + 1)) * mult
           /\ {x \in Int : x % mult = 0 /\ lo <= x /\ x <= hi} = {lo + i * mult : i \in 0 .. k}
<1>1. PICK p, q \in Int : lo = mult * p /\ hi = mult * q
  BY MultipleFacts
<1> DEFINE k == q - p
<1>2. k \in Nat
  <2> SUFFICES ASSUME q + 1 <= p PROVE FALSE
    BY <1>1
  <2>1. mult * (q + 1) <= mult * p
    BY <1>1
  <2> QED
    BY <1>1, <2>1
<1>3. hi = lo + k * mult /\ hi - lo = mult * k + 0 /\ hi - lo \in Nat
  BY <1>1
<1>4. CDiv(hi - lo, mult) = k
  <2>1. (hi - lo) \div mult = k
    <3>1. 0 \in 0 .. mult - 1 /\ k \in Int
      BY <1>2
    <3> HIDE DEF k
    <3> QED
      BY <1>3, <3>1, QuotientUnique
  <2> QED
    BY <1>3, <2>1, RemainderOfC
<1>5. ASSUME NEW draw \in Nat PROVE CRem(draw, k + 1) = draw % (k + 1)
  <2>1. k + 1 \in Nat \ {0}
    BY <1>2
  <2> HIDE DEF k
  <2> QED
    BY <2>1, RemainderOfC
<1>6. \A draw \in Nat : Pick(lo, hi, mult, draw) = lo + (draw % (k + 1)) * mult
  BY <1>4, <1>5 DEF Pick
<1>7. ASSUME NEW x \in Int
      PROVE  x % mult = 0 /\ lo <= x /\ x <= hi <=> \E i \in 0 .. k : x = lo + i * mult
  <2>1. ASSUME x % mult = 0, lo <= x, x <= hi PROVE \E i \in 0 .. k : x = lo + i * mult
    <3>1. PICK r \in Int : x = mult * r
      BY <2>1, MultipleFacts
    <3>2. p <= r
      <4> SUFFICES ASSUME r + 1 <= p PROVE FALSE
        BY <1>1, <3>1
      <4>1. mult * (r + 1) <= mult * p
        BY <1>1, <3>1
      <4> QED
        BY <1>1, <2>1, <3>1, <4>1
    <3>3. r <= q
      <4> SUFFICES ASSUME q + 1 <= r PROVE FALSE
        BY <1>1, <3>1
      <4>1. mult * (q + 1) <= mult * r
        BY <1>1, <3>1
      <4> QED
        BY <1>1, <2>1, <3>1, <4>1
    <3>4. r - p \in 0 .. k /\ x = lo + (r - p) * mult
      BY <1>1, <3>1, <3>2, <3>3
    <3> QED
      BY <3>4
  <2>2. ASSUME NEW i \in 0 .. k, x = lo + i * mult PROVE x % mult = 0 /\ lo <= x /\ x <= hi
    <3>1. x = mult * (p + i) /\ p + i \in Int
      BY <1>1, <1>2, <2>2
    <3>2. x % mult = 0
      BY <3>1, MultipleFacts
    <3>3. i \in Int /\ 0 <= i /\ i <= k
      BY <1>2, <2>2
    <3>4. 0 <= i * mult /\ i * mult <= k * mult
      <4> HIDE DEF k
      <4> QED
        BY <1>2, <3>3
    <3> QED
      BY <1>2, <1>3, <2>2, <3>2, <3>3, <3>4
  <2> QED
    BY <2>1, <2>2
<1> HIDE DEF k
<1>8. {x \in Int : x % mult = 0 /\ lo <= x /\ x <= hi} = {lo + i * mult : i \in 0 .. k}
  <2>1. \A i \in 0 .. k : lo + i * mult \in Int
    BY <1>2
  <2> QED
    BY <1>7, <2>1
<1> QED
  BY <1>2, <1>3, <1>6, <1>8

\* random_range() and random_rangel(): the result is a multiple within the range; the
\* failure that errp tells apart means that there is none; and with no more multiples
\* than lrand48() has numbers each of them comes up.
THEOREM RandomRangeRight ==
  ASSUME NEW a \in Nat, NEW b \in Nat, NEW mult \in Nat \ {0}
  PROVE  /\ RangeFails(a, b, mult) <=> Between(a, b, mult) = {}
         /\ ~RangeFails(a, b, mult) =>
              /\ \A draw \in 0 .. LrandMax :
                   /\ random_range(a, b, mult, draw) \in Between(a, b, mult)
                   /\ random_rangel(a, b, mult, draw) = random_range(a, b, mult, draw)
              /\ IsFiniteSet(Between(a, b, mult))
              /\ Cardinality(Between(a, b, mult)) <= LrandMax + 1 =>
                   Between(a, b, mult) = {random_range(a, b, mult, draw) : draw \in 0 .. LrandMax}
<1>1. PICK lo, hi \in Int :
        /\ ToMultiples(a, b, mult) = <<lo, hi>> /\ lo % mult = 0 /\ hi % mult = 0 /\ 0 <= lo
        /\ Between(a, b, mult) = {x \in Int : x % mult = 0 /\ lo <= x /\ x <= hi}
  BY EndsOfRange
<1>2. RangeFails(a, b, mult) <=> hi < lo
  BY <1>1 DEF RangeFails
<1>3. hi < lo => Between(a, b, mult) = {}
  BY <1>1
<1>4. lo <= hi => lo \in Between(a, b, mult)
  BY <1>1
<1>5. ASSUME lo <= hi
      PROVE  /\ \A draw \in 0 .. LrandMax : random_range(a, b, mult, draw) \in Between(a, b, mult)
             /\ IsFiniteSet(Between(a, b, mult))
             /\ Cardinality(Between(a, b, mult)) <= LrandMax + 1 =>
                  Between(a, b, mult) = {random_range(a, b, mult, draw) : draw \in 0 .. LrandMax}
  <2>1. PICK k \in Nat :
          /\ hi = lo + k * mult
          /\ \A draw \in Nat : Pick(lo, hi, mult, draw) = lo + (draw % (k + 1)) * mult
          /\ Between(a, b, mult) = {lo + i * mult : i \in 0 .. k}
    <3>1. lo % mult = 0 /\ hi % mult = 0
      BY <1>1
    <3>2. \E k \in Nat :
            /\ hi = lo + k * mult
            /\ \A draw \in Nat : Pick(lo, hi, mult, draw) = lo + (draw % (k + 1)) * mult
            /\ {x \in Int : x % mult = 0 /\ lo <= x /\ x <= hi} = {lo + i * mult : i \in 0 .. k}
      BY <1>5, <3>1, Picked
    <3> QED
      BY <1>1, <3>2
  <2>2. ASSUME NEW draw \in Nat PROVE random_range(a, b, mult, draw) = lo + (draw % (k + 1)) * mult
    BY <1>1, <2>1 DEF random_range
  <2>3. ASSUME NEW draw \in Nat PROVE draw % (k + 1) \in 0 .. k
    OBVIOUS
  <2>4. ASSUME NEW i \in 0 .. k PROVE i % (k + 1) = i
    OBVIOUS
  <2>5. 0 .. LrandMax \subseteq Nat
    BY LrandAssumption
  <2>6. \A draw \in 0 .. LrandMax : random_range(a, b, mult, draw) \in Between(a, b, mult)
    BY <2>1, <2>2, <2>3, <2>5
  <2>7. IsFiniteSet(Between(a, b, mult)) /\ Cardinality(Between(a, b, mult)) = k + 1
    <3> DEFINE f == [i \in 0 .. k |-> lo + i * mult]
    <3>1. ASSUME NEW i \in 0 .. k, NEW j \in 0 .. k, lo + i * mult = lo + j * mult PROVE i = j
      <4>1. i \in Int /\ j \in Int /\ i * mult = j * mult
        BY <3>1
      <4> QED
        BY <4>1
    <3>2. f \in Bijection(0 .. k, Between(a, b, mult))
      BY <2>1, <3>1 DEF Bijection, Injection, Surjection, IsInjective
    <3>3. IsFiniteSet(0 .. k) /\ Cardinality(0 .. k) = k + 1
      BY FS_Interval
    <3>4. ExistsBijection(0 .. k, Between(a, b, mult))
      BY <3>2 DEF ExistsBijection
    <3> QED
      BY <3>3, <3>4, FS_Bijection, FS_CardinalityType
  <2>8. ASSUME k <= LrandMax, NEW x \in Between(a, b, mult)
        PROVE  \E draw \in 0 .. LrandMax : random_range(a, b, mult, draw) = x
    <3>1. PICK i \in 0 .. k : x = lo + i * mult
      BY <2>1
    <3>2. i \in 0 .. LrandMax
      BY <2>8, LrandAssumption
    <3> QED
      BY <2>2, <2>4, <2>5, <3>1, <3>2
  <2> QED
    BY <2>6, <2>7, <2>8, LrandAssumption
<1>6. lo <= hi <=> ~(hi < lo)
  OBVIOUS
<1> QED
  BY <1>2, <1>3, <1>4, <1>5, <1>6 DEF random_rangel

Args == [min : Nat, max : Nat, cnt : Nat]

\* One more halving.
LEMMA NextCallType ==
  ASSUME NEW call \in Args, NEW draw, call.min <= call.max
  PROVE  LET next == NextCall(call, draw)
             w == call.max - call.min
             v == next.max - next.min
         IN  /\ next \in Args /\ next.min <= next.max
             /\ HalfWay(call) <= LrandMax => next = call
             /\ ~(HalfWay(call) <= LrandMax) => next.cnt = call.cnt + 1 /\ 2 * (v - 1) <= w - 1
<1> DEFINE w == call.max - call.min
           h == w \div 2
<1>1. call.min \in Nat /\ call.max \in Nat /\ call.cnt \in Nat /\ w \in Nat
  BY DEF Args
<1>2. h \in Nat /\ 2 * h <= w /\ w <= 2 * h + 1
  BY <1>1
<1>3. HalfWay(call) = h /\ Middle(call) = call.min + h
  BY DEF HalfWay, Middle
<1>4. call.min + h \in Nat /\ call.min + h <= call.max /\ call.cnt + 1 \in Nat
  BY <1>1, <1>2
<1> HIDE DEF h
<1>5. CASE h <= LrandMax
  <2>1. NextCall(call, draw) = call
    BY <1>3, <1>5 DEF NextCall
  <2> QED
    BY <1>3, <1>5, <2>1
<1>6. CASE ~(h <= LrandMax) /\ Bit(draw, call.cnt)
  <2> DEFINE next == [min |-> call.min + h, max |-> call.max, cnt |-> call.cnt + 1]
  <2>1. NextCall(call, draw) = next
    BY <1>1, <1>3, <1>6 DEF NextCall, Args
  <2>2. next \in Args /\ next.min <= next.max /\ next.cnt = call.cnt + 1
    BY <1>1, <1>4 DEF Args
  <2>3. 2 * (next.max - next.min - 1) <= w - 1
    BY <1>1, <1>2
  <2> HIDE DEF next
  <2> QED
    BY <1>3, <1>6, <2>1, <2>2, <2>3
<1>7. CASE ~(h <= LrandMax) /\ ~Bit(draw, call.cnt)
  <2> DEFINE next == [min |-> call.min, max |-> call.min + h, cnt |-> call.cnt + 1]
  <2>1. NextCall(call, draw) = next
    BY <1>1, <1>3, <1>7 DEF NextCall, Args
  <2>2. next \in Args /\ next.min <= next.max /\ next.cnt = call.cnt + 1
    BY <1>1, <1>2, <1>4 DEF Args
  <2>3. 2 * (next.max - next.min - 1) <= w - 1
    BY <1>1, <1>2
  <2> HIDE DEF next
  <2> QED
    BY <1>3, <1>7, <2>1, <2>2, <2>3
<1> QED
  BY <1>5, <1>6, <1>7

\* The calls of divider().
LEMMA CallsDef ==
  ASSUME NEW min \in Nat, NEW max \in Nat, min <= max, NEW draw
  PROVE  LET call == DividerCalls(min, max, draw) IN
         /\ call[0] = [min |-> min, max |-> max, cnt |-> 0]
         /\ \A n \in Nat : call[n + 1] = NextCall(call[n], draw)
<1> DEFINE S == {x \in Args : x.min <= x.max}
           c == [min |-> min, max |-> max, cnt |-> 0]
           advance == [x \in S |-> NextCall(x, draw)]
           Solves(g) == g = [n \in Nat |-> IF n = 0 THEN c ELSE NextCall(g[n - 1], draw)]
<1>1. c \in S
  BY DEF Args
<1>2. advance \in [S -> S]
  BY NextCallType
<1>3. PICK g : Equation(S, c, advance, g)
  <2> HIDE DEF S, c, advance
  <2> QED
    BY <1>1, <1>2, RecursiveFunction
<1>4. Solves(g)
  <2>1. ASSUME NEW n \in Nat, n # 0 PROVE advance[g[n - 1]] = NextCall(g[n - 1], draw)
    <3>1. n - 1 \in Nat
      BY <2>1
    <3>2. g[n - 1] \in S
      BY <1>3, <3>1 DEF Equation
    <3> QED
      BY <3>2
  <2> HIDE DEF advance, c, S
  <2> QED
    BY <1>3, <2>1 DEF Equation
<1>5. Solves(DividerCalls(min, max, draw))
  <2>1. DividerCalls(min, max, draw) = CHOOSE h : Solves(h)
    BY DEF DividerCalls
  <2> HIDE DEF Solves
  <2> QED
    BY <1>4, <2>1
<1> DEFINE call == DividerCalls(min, max, draw)
<1>6. call[0] = c
  BY <1>5
<1>7. ASSUME NEW n \in Nat PROVE call[n + 1] = NextCall(call[n], draw)
  <2>1. n + 1 \in Nat /\ n + 1 # 0 /\ (n + 1) - 1 = n
    OBVIOUS
  <2> HIDE DEF call
  <2> QED
    BY <1>5, <2>1 DEF call
<1> QED
  BY <1>6, <1>7

\* As far as 33 halvings reach.
TwoTo33 == 8589934592

\* Doubling 32 times.
LEMMA Doublings ==
  \E p \in [Nat -> Nat] :
    p[0] = 1 /\ (\A n \in Nat : p[n + 1] = 2 * p[n]) /\ 2 * p[32] = TwoTo33
<1> DEFINE advance == [x \in Nat |-> 2 * x]
<1>1. advance \in [Nat -> Nat] /\ 1 \in Nat
  OBVIOUS
<1>2. PICK p : Follows(Nat, 1, advance, p)
  <2> HIDE DEF advance
  <2> QED
    BY <1>1, Recursion
<1>3. /\ p \in [Nat -> Nat] /\ p[0] = 1
      /\ \A n \in Nat : p[n + 1] = 2 * p[n]
  BY <1>2 DEF Follows
<1>4. ASSUME NEW n \in Nat PROVE p[n + 4] = 16 * p[n]
  <2>1. (n + 1) + 1 = n + 2 /\ (n + 2) + 1 = n + 3 /\ (n + 3) + 1 = n + 4
    OBVIOUS
  <2>2. p[n + 1] = 2 * p[n]
    BY <1>3
  <2>3. p[n + 2] = 2 * p[n + 1]
    BY <1>3, <2>1
  <2>4. p[n + 3] = 2 * p[n + 2]
    BY <1>3, <2>1
  <2>5. p[n + 4] = 2 * p[n + 3] /\ p[n] \in Nat
    BY <1>3, <2>1
  <2> QED
    BY <2>2, <2>3, <2>4, <2>5
<1>5. p[0 + 4] = 16 /\ p[4 + 4] = 16 * p[4] /\ p[8 + 4] = 16 * p[8] /\ p[12 + 4] = 16 * p[12]
  BY <1>3, <1>4
<1>6. p[16 + 4] = 16 * p[16] /\ p[20 + 4] = 16 * p[20] /\ p[24 + 4] = 16 * p[24] /\ p[28 + 4] = 16 * p[28]
  BY <1>4
<1>7. 2 * p[32] = TwoTo33
  BY <1>5, <1>6 DEF TwoTo33
<1> QED
  BY <1>3, <1>7

\* divider() ends: "prevent run away code.  We are dividing by two each count.  If we get to
\* a count of more than 32, we should have gotten to 2gb."
LEMMA DividerEnds ==
  ASSUME NEW min \in Nat, NEW max \in Nat, min <= max, max - min <= TwoTo33 * LrandMax,
         NEW draw \in Nat
  PROVE  divider(min, max, draw) \in Nat
<1> DEFINE call == DividerCalls(min, max, draw)
           w(n) == call[n].max - call[n].min
<1>1. PICK p \in [Nat -> Nat] : p[0] = 1 /\ (\A n \in Nat : p[n + 1] = 2 * p[n]) /\ 2 * p[32] = TwoTo33
  BY Doublings
<1>2. /\ call[0] = [min |-> min, max |-> max, cnt |-> 0]
      /\ \A n \in Nat : call[n + 1] = NextCall(call[n], draw)
  BY CallsDef
<1> HIDE DEF call
<1> DEFINE Fits(n) == /\ call[n] \in Args /\ call[n].min <= call[n].max /\ call[n].cnt <= n
                      /\ \/ HalfWay(call[n]) <= LrandMax
                         \/ call[n].cnt = n /\ p[n] * (w(n) - 1) <= max - min - 1
           T == {n \in Nat : Fits(n)}
<1>3. 0 \in T
  <2>1. w(0) = max - min
    BY <1>2
  <2>2. p[0] * (w(0) - 1) <= max - min - 1
    BY <1>1, <2>1
  <2> QED
    BY <1>2, <2>2 DEF Args
<1>4. ASSUME NEW n \in Nat, n \in T PROVE n + 1 \in T
  <2>1. call[n] \in Args /\ call[n].min <= call[n].max /\ call[n].cnt <= n /\ call[n + 1] = NextCall(call[n], draw)
    BY <1>2, <1>4
  <2>2. /\ call[n + 1] \in Args /\ call[n + 1].min <= call[n + 1].max
        /\ HalfWay(call[n]) <= LrandMax => call[n + 1] = call[n]
        /\ ~(HalfWay(call[n]) <= LrandMax) => call[n + 1].cnt = call[n].cnt + 1 /\ 2 * (w(n + 1) - 1) <= w(n) - 1
    BY <2>1, NextCallType
  <2>3. call[n].cnt \in Nat /\ w(n) \in Nat /\ w(n + 1) \in Nat
    BY <2>1, <2>2 DEF Args
  <2>4. CASE HalfWay(call[n]) <= LrandMax
    <3>1. call[n + 1] = call[n] /\ call[n].cnt <= n + 1
      BY <2>1, <2>2, <2>3, <2>4
    <3> QED
      BY <2>1, <2>4, <3>1
  <2>5. CASE ~(HalfWay(call[n]) <= LrandMax)
    <3>1. call[n].cnt = n /\ p[n] * (w(n) - 1) <= max - min - 1
      BY <1>4, <2>5
    <3>2. call[n + 1].cnt = n + 1 /\ 2 * (w(n + 1) - 1) <= w(n) - 1
      BY <2>2, <2>5, <3>1
    <3>3. p[n + 1] = 2 * p[n] /\ p[n] \in Nat
      BY <1>1
    <3> HIDE DEF w
    <3>4. p[n] * (2 * (w(n + 1) - 1)) <= p[n] * (w(n) - 1)
      BY <2>3, <3>2, <3>3
    <3>5. p[n + 1] * (w(n + 1) - 1) <= max - min - 1
      BY <2>3, <3>1, <3>3, <3>4
    <3> QED
      BY <2>2, <3>2, <3>5
  <2> QED
    BY <2>4, <2>5
<1>5. T = Nat
  <2> HIDE DEF T
  <2>1. T \in SUBSET Nat
    BY DEF T
  <2> QED
    BY <1>3, <1>4, <2>1, Inductive
<1>6. call[32] \in Args /\ call[32].min <= call[32].max /\ call[32].cnt <= 32 /\ HalfWay(call[32]) <= LrandMax
  <2>1. Fits(32)
    BY <1>5
  <2>2. w(32) \in Nat
    BY <2>1 DEF Args
  <2>3. ASSUME p[32] * (w(32) - 1) <= max - min - 1 PROVE HalfWay(call[32]) <= LrandMax
    <3>1. p[32] \in Nat \ {0} /\ p[32] * (w(32) - 1) <= 2 * p[32] * LrandMax - 1
      <4>1. TwoTo33 \in Nat \ {0}
        BY DEF TwoTo33
      <4>2. p[32] \in Nat \ {0} /\ TwoTo33 * LrandMax = 2 * p[32] * LrandMax
        BY <1>1, <4>1, LrandAssumption
      <4>3. max - min - 1 <= TwoTo33 * LrandMax - 1
        BY <4>1, LrandAssumption
      <4>4. w(32) - 1 \in Int /\ max - min - 1 \in Int
        BY <2>2
      <4> HIDE DEF w
      <4>5. p[32] * (w(32) - 1) \in Int /\ 2 * p[32] * LrandMax - 1 \in Int
        BY <4>2, <4>4, LrandAssumption
      <4> QED
        BY <2>3, <4>2, <4>3, <4>4, <4>5
    <3> HIDE DEF w
    <3>2. w(32) - 1 < 2 * LrandMax
      <4> SUFFICES ASSUME 2 * LrandMax <= w(32) - 1 PROVE FALSE
        BY <2>2, LrandAssumption
      <4>1. p[32] * (2 * LrandMax) <= p[32] * (w(32) - 1)
        BY <2>2, <3>1, LrandAssumption
      <4> QED
        BY <2>2, <3>1, <4>1, LrandAssumption
    <3>3. w(32) \div 2 <= LrandMax
      BY <2>2, <3>2, LrandAssumption
    <3> QED
      BY <3>3 DEF w, HalfWay
  <2> QED
    BY <2>1, <2>3
<1>7. call[33] = call[32]
  <2>1. call[32 + 1] = NextCall(call[32], draw)
    BY <1>2
  <2> QED
    BY <1>6, <2>1, NextCallType
<1> DEFINE last == call[33]
<1>8. last.min \in Nat /\ last.max \in Nat /\ last.cnt \in Nat /\ last.cnt <= 32 /\ last.min <= last.max
  BY <1>6, <1>7 DEF Args
<1>9. Middle(last) \in Nat
  <2> HIDE DEF last
  <2> QED
    BY <1>8 DEF Middle, HalfWay
<1>10. divider(min, max, draw) \in {Middle(last) + draw, last.min + draw}
  BY <1>8 DEF divider, call
<1> HIDE DEF last
<1> QED
  BY <1>8, <1>9, <1>10

\* random_rangell(): the same for a long long, whose range is halved at most 33 times (a
\* range of numbers of 64 bits is no longer than 2^33 numbers of lrand48()).
THEOREM RandomRangellRight ==
  ASSUME NEW a \in Nat, NEW b \in Nat, NEW mult \in Nat \ {0}, NEW draw \in 0 .. LrandMax,
         ~RangeFails(a, b, mult), a <= TwoTo33 * LrandMax, b <= TwoTo33 * LrandMax
  PROVE  random_rangell(a, b, mult, draw) \in Between(a, b, mult)
<1>1. PICK lo, hi \in Int :
        /\ ToMultiples(a, b, mult) = <<lo, hi>> /\ lo % mult = 0 /\ hi % mult = 0 /\ 0 <= lo
        /\ Between(a, b, mult) = {x \in Int : x % mult = 0 /\ lo <= x /\ x <= hi}
  BY EndsOfRange
<1>2. lo <= hi /\ lo \in Nat /\ hi \in Nat /\ draw \in Nat
  BY <1>1, LrandAssumption DEF RangeFails
<1>3. hi \in Between(a, b, mult)
  BY <1>1, <1>2
<1>4. hi <= a \/ hi <= b
  BY <1>3 DEF Between
<1>5. divider(lo, hi, draw) \in Nat
  <2>1. TwoTo33 * LrandMax \in Nat
    BY LrandAssumption DEF TwoTo33
  <2>2. hi - lo <= TwoTo33 * LrandMax
    BY <1>2, <1>4, <2>1
  <2> QED
    BY <1>2, <2>2, DividerEnds
<1>6. ASSUME NEW n \in Nat PROVE Pick(lo, hi, mult, n) \in Between(a, b, mult)
  <2>1. PICK k \in Nat :
          /\ hi = lo + k * mult
          /\ \A d \in Nat : Pick(lo, hi, mult, d) = lo + (d % (k + 1)) * mult
          /\ {x \in Int : x % mult = 0 /\ lo <= x /\ x <= hi} = {lo + i * mult : i \in 0 .. k}
    <3>1. lo % mult = 0 /\ hi % mult = 0
      BY <1>1
    <3> QED
      BY <1>2, <3>1, Picked
  <2>2. n % (k + 1) \in 0 .. k
    OBVIOUS
  <2> QED
    BY <1>1, <2>1, <2>2
<1> QED
  BY <1>1, <1>2, <1>5, <1>6 DEF random_rangell

\* The number of a member of a set, counted from below.
Rank(mask, p) == Cardinality({q \in mask : q <= p})

\* Each number up to the size of the set is the number of one member.
LEMMA RankReached ==
  ASSUME NEW mask \in SUBSET Nat, IsFiniteSet(mask), NEW n \in 1 .. Cardinality(mask)
  PROVE  \E p \in mask : Rank(mask, p) = n
<1> DEFINE upto(p) == {q \in mask : q <= p}
           T == {k \in Nat : k + 1 <= Cardinality(mask) => \E p \in mask : Rank(mask, p) = k + 1}
<1>1. Cardinality(mask) \in Nat
  BY FS_CardinalityType
<1>2. ASSUME NEW A \in SUBSET mask, Cardinality(A) < Cardinality(mask)
      PROVE  \E p \in mask \ A : \A q \in mask \ A : p <= q
  <2>1. mask \ A # {}
    <3> SUFFICES ASSUME mask \ A = {} PROVE FALSE
      OBVIOUS
    <3>1. A = mask
      BY <1>2
    <3> QED
      BY <1>1, <1>2, <3>1
  <2>2. mask \ A \in SUBSET Nat
    OBVIOUS
  <2> QED
    BY <2>1, <2>2, Least
<1>3. ASSUME NEW A \in SUBSET mask, NEW p \in mask \ A
      PROVE  IsFiniteSet(A) /\ Cardinality(A \cup {p}) = Cardinality(A) + 1
  <2>1. IsFiniteSet(A)
    BY FS_Subset
  <2> QED
    BY <1>3, <2>1, FS_AddElement
<1>4. 0 \in T
  <2> SUFFICES ASSUME 1 <= Cardinality(mask) PROVE \E p \in mask : Rank(mask, p) = 1
    OBVIOUS
  <2>1. Cardinality({}) = 0 /\ {} \in SUBSET mask
    BY FS_EmptySet
  <2>2. PICK p \in mask : \A q \in mask : p <= q
    BY <1>1, <1>2, <2>1
  <2>3. upto(p) = {} \cup {p}
    <3>1. ASSUME NEW q \in mask PROVE q <= p <=> q = p
      <4>1. p \in Nat /\ q \in Nat /\ p <= q
        BY <2>2
      <4> QED
        BY <4>1
    <3> QED
      BY <3>1
  <2>4. Cardinality({} \cup {p}) = 0 + 1
    BY <1>3, <2>1
  <2> QED
    BY <2>3, <2>4 DEF Rank
<1>5. ASSUME NEW k \in Nat, k \in T PROVE k + 1 \in T
  <2> SUFFICES ASSUME k + 2 <= Cardinality(mask) PROVE \E p \in mask : Rank(mask, p) = k + 2
    BY <1>1
  <2>1. PICK p \in mask : Rank(mask, p) = k + 1
    BY <1>1, <1>5
  <2>2. upto(p) \in SUBSET mask /\ Cardinality(upto(p)) = k + 1
    BY <2>1 DEF Rank
  <2>3. PICK s \in mask \ upto(p) : \A q \in mask \ upto(p) : s <= q
    <3> HIDE DEF upto
    <3> QED
      BY <1>1, <1>2, <2>2
  <2>4. upto(s) = upto(p) \cup {s}
    <3>1. ASSUME NEW q \in mask PROVE q <= s <=> q <= p \/ q = s
      <4>1. p \in Nat /\ q \in Nat /\ s \in Nat /\ ~(s <= p)
        BY <2>3
      <4>2. ~(q <= p) => s <= q
        BY <2>3
      <4> QED
        BY <4>1, <4>2
    <3> QED
      BY <3>1, <2>3
  <2>5. Cardinality(upto(s)) = k + 1 + 1
    <3> HIDE DEF upto
    <3> QED
      BY <1>3, <2>2, <2>3, <2>4
  <2>6. Rank(mask, s) = k + 2
    BY <2>5 DEF Rank
  <2> QED
    BY <2>3, <2>6
<1>6. T = Nat
  <2> HIDE DEF T
  <2>1. T \in SUBSET Nat
    BY DEF T
  <2> QED
    BY <1>4, <1>5, <2>1, Inductive
<1>7. n - 1 \in T
  <2> HIDE DEF T
  <2>1. n - 1 \in Nat
    BY <1>1
  <2> QED
    BY <1>6, <2>1
<1> QED
  BY <1>1, <1>7

\* random_bit(): one bit of the mask.
LEMMA RandomBit ==
  ASSUME NEW mask \in SUBSET Nat, IsFiniteSet(mask), NEW draw \in 0 .. LrandMax
  PROVE  /\ mask = {} => random_bit(mask, draw) = {}
         /\ mask # {} => \E p \in mask : random_bit(mask, draw) = {p}
<1>1. CASE mask = {}
  BY <1>1 DEF random_bit
<1>2. CASE mask # {}
  <2> DEFINE n == Cardinality(mask)
             bit == random_range(1, n, 1, draw)
  <2>1. n \in Nat /\ n # 0
    BY <1>2, FS_CardinalityType, FS_EmptySet
  <2> HIDE DEF n
  <2>2. n \in Between(1, n, 1)
    BY <2>1 DEF Between
  <2>3. 1 \in Nat /\ 1 \in Nat \ {0} /\ n \in Nat
    BY <2>1
  <2>4. bit \in Between(1, n, 1)
    BY <2>2, <2>3, RandomRangeRight
  <2>5. bit \in 1 .. n
    BY <2>1, <2>4 DEF Between
  <2> HIDE DEF bit
  <2>6. \E p \in mask : Rank(mask, p) = bit
    BY <2>5, RankReached DEF n
  <2>7. random_bit(mask, draw) = {CHOOSE p \in mask : Rank(mask, p) = bit}
    BY <1>2 DEF random_bit, Rank, n, bit
  <2> QED
    BY <1>2, <2>6, <2>7
<1> QED
  BY <1>1, <1>2

\* lio_random_methods(): of the types of i/o and of the ways to wait that are asked for, one
\* each is left, and the other bits but that of the choice itself.
THEOREM OneMethod ==
  ASSUME NEW mask \in SUBSET (0 .. 31), NEW draw1 \in 0 .. LrandMax, NEW draw2 \in 0 .. LrandMax
  PROVE  LET m == Method(mask, draw1, draw2) IN
         /\ m \subseteq mask
         /\ RANDOM \in mask =>
              /\ RANDOM \notin m
              /\ m \ (IoTypes \cup WaitTypes) = mask \ (IoTypes \cup WaitTypes \cup {RANDOM})
              /\ \A types \in {IoTypes, WaitTypes} :
                   IF mask \cap types = {} THEN m \cap types = {}
                   ELSE \E bit \in mask \cap types : m \cap types = {bit}
<1> DEFINE io == random_bit(mask \cap IoTypes, draw1)
           way == random_bit(mask \cap WaitTypes, draw2)
           m == Method(mask, draw1, draw2)
<1>1. ASSUME NEW types \in SUBSET (0 .. 31), NEW draw \in 0 .. LrandMax
      PROVE  /\ mask \cap types = {} => random_bit(mask \cap types, draw) = {}
             /\ mask \cap types # {} => \E p \in mask \cap types : random_bit(mask \cap types, draw) = {p}
  <2> DEFINE asked == mask \cap types
             bits == 0 .. 31
  <2>1. asked \in SUBSET Nat /\ asked \in SUBSET bits
    OBVIOUS
  <2>2. IsFiniteSet(bits)
    <3>1. 0 \in Int /\ 31 \in Int
      OBVIOUS
    <3> QED
      BY <3>1, FS_Interval
  <2> HIDE DEF asked, bits
  <2>3. IsFiniteSet(asked)
    BY <2>1, <2>2, FS_Subset
  <2>4. /\ asked = {} => random_bit(asked, draw) = {}
        /\ asked # {} => \E p \in asked : random_bit(asked, draw) = {p}
    BY <2>1, <2>3, RandomBit
  <2> QED
    BY <2>4 DEF asked
<1>2. IoTypes \in SUBSET (0 .. 31) /\ WaitTypes \in SUBSET (0 .. 31)
  BY DEF IoTypes, WaitTypes, SYNC, SYNCV, SIGPAUSE, SIGACTIVE
<1>3. /\ mask \cap IoTypes = {} => io = {}
      /\ mask \cap IoTypes # {} => \E p \in mask \cap IoTypes : io = {p}
  BY <1>1, <1>2
<1>4. /\ mask \cap WaitTypes = {} => way = {}
      /\ mask \cap WaitTypes # {} => \E p \in mask \cap WaitTypes : way = {p}
  BY <1>1, <1>2
<1> HIDE DEF io, way
<1>5. IoTypes \cap WaitTypes = {} /\ RANDOM \notin IoTypes /\ RANDOM \notin WaitTypes
  BY DEF IoTypes, WaitTypes, SYNC, SYNCV, SIGPAUSE, SIGACTIVE, RANDOM
<1>6. m = IF RANDOM \in mask THEN (mask \ (IoTypes \cup WaitTypes \cup {RANDOM})) \cup io \cup way ELSE mask
  BY DEF Method, lio_random_methods, io, way
<1> HIDE DEF m
<1>7. io \subseteq mask \cap IoTypes /\ way \subseteq mask \cap WaitTypes
  BY <1>3, <1>4
<1>8. m \subseteq mask
  BY <1>6, <1>7
<1>9. ASSUME RANDOM \in mask
      PROVE  /\ RANDOM \notin m
             /\ m \ (IoTypes \cup WaitTypes) = mask \ (IoTypes \cup WaitTypes \cup {RANDOM})
             /\ m \cap IoTypes = io
             /\ m \cap WaitTypes = way
  BY <1>5, <1>6, <1>7, <1>9
<1> QED
  BY <1>3, <1>4, <1>8, <1>9 DEF m

\* The bytes of nstrides requests, each so far from the one before, or next to it.
Touched(offset, stride, nstrides, bytes) ==
  {offset + k * (IF stride = 0 THEN bytes ELSE stride) + i : k \in 0 .. nstrides - 1, i \in 0 .. bytes - 1}

\* stride_bounds(): the first and the last byte of the requests, and how many bytes there
\* are from the one to the other, whichever way the strides go and even if they overlap.
THEOREM StrideBoundsRight ==
  ASSUME NEW offset \in Int, NEW stride \in Int, NEW nstrides \in Nat \ {0}, NEW bytes \in Nat \ {0}
  PROVE  LET r == stride_bounds(offset, stride, nstrides, bytes)
             touched == Touched(offset, stride, nstrides, bytes)
         IN  /\ r.min \in touched /\ r.max \in touched
             /\ \A x \in touched : r.min <= x /\ x <= r.max
             /\ r.n = r.max - r.min + 1
<1> DEFINE s == IF stride = 0 THEN bytes ELSE stride
           m == nstrides - 1
           r == stride_bounds(offset, stride, nstrides, bytes)
<1>1. s \in Int /\ m \in Nat /\ bytes \in Nat /\ bytes >= 1 /\ m \in 0 .. m /\ 0 \in 0 .. m
  OBVIOUS
<1>2. \A x : x \in Touched(offset, stride, nstrides, bytes) <=>
               \E k \in 0 .. m, i \in 0 .. bytes - 1 : x = offset + k * s + i
  BY DEF Touched
<1>3. 0 \in 0 .. bytes - 1 /\ bytes - 1 \in 0 .. bytes - 1
  BY <1>1
<1>4. CASE s < 0
  <2>1. r = [n |-> (-s) * m + bytes, min |-> (offset + bytes - 1) - ((-s) * m + bytes) + 1,
             max |-> offset + bytes - 1]
    BY <1>1, <1>4 DEF stride_bounds
  <2> HIDE DEF s, m, r
  <2>2. (-s) * m \in Int /\ (-s) * m = - (m * s)
    BY <1>1
  <2>3. r.n = (-s) * m + bytes /\ r.min = offset + m * s + 0 /\ r.max = offset + 0 * s + (bytes - 1)
    BY <1>1, <2>1, <2>2
  <2>4. ASSUME NEW k \in 0 .. m, NEW i \in 0 .. bytes - 1
        PROVE  r.min <= offset + k * s + i /\ offset + k * s + i <= r.max
    <3>1. k \in Int /\ i \in Int /\ 0 <= k /\ k <= m /\ 0 <= i /\ i <= bytes - 1
      BY <1>1
    <3>2. m * s <= k * s /\ k * s <= 0
      BY <1>1, <1>4, <3>1
    <3> QED
      BY <1>1, <2>3, <3>1, <3>2
  <2>5. r.n = r.max - r.min + 1
    BY <1>1, <2>2, <2>3
  <2>6. r.min \in Touched(offset, stride, nstrides, bytes) /\ r.max \in Touched(offset, stride, nstrides, bytes)
    BY <1>1, <1>2, <1>3, <2>3
  <2>7. \A x \in Touched(offset, stride, nstrides, bytes) : r.min <= x /\ x <= r.max
    BY <1>2, <2>4
  <2> QED
    BY <2>5, <2>6, <2>7 DEF r
<1>5. CASE ~(s < 0)
  <2>1. r = [n |-> s * m + bytes, min |-> (offset + (s * m + bytes) - 1) - (s * m + bytes) + 1,
             max |-> offset + (s * m + bytes) - 1]
    BY <1>1, <1>5 DEF stride_bounds
  <2> HIDE DEF s, m, r
  <2>2. s * m \in Int /\ s * m = m * s
    BY <1>1
  <2>3. r.n = s * m + bytes /\ r.min = offset + 0 * s + 0 /\ r.max = offset + m * s + (bytes - 1)
    BY <1>1, <2>1, <2>2
  <2>4. ASSUME NEW k \in 0 .. m, NEW i \in 0 .. bytes - 1
        PROVE  r.min <= offset + k * s + i /\ offset + k * s + i <= r.max
    <3>1. k \in Int /\ i \in Int /\ 0 <= k /\ k <= m /\ 0 <= i /\ i <= bytes - 1
      BY <1>1
    <3>2. k * s <= m * s /\ 0 <= k * s
      BY <1>1, <1>5, <3>1
    <3> QED
      BY <1>1, <2>3, <3>1, <3>2
  <2>5. r.n = r.max - r.min + 1
    BY <1>1, <2>2, <2>3
  <2>6. r.min \in Touched(offset, stride, nstrides, bytes) /\ r.max \in Touched(offset, stride, nstrides, bytes)
    BY <1>1, <1>2, <1>3, <2>3
  <2>7. \A x \in Touched(offset, stride, nstrides, bytes) : r.min <= x /\ x <= r.max
    BY <1>2, <2>4
  <2> QED
    BY <2>5, <2>6, <2>7 DEF r
<1> QED
  BY <1>4, <1>5

-----------------------------------------------------------------------------
(***************************************************************************)
(* Buffers, of any size, and patterns of any length.                       *)
(***************************************************************************)

\* What a check says of a buffer: -1 when it is as it should be, and otherwise the file
\* position of the first byte that is not.
Found(at, buf, right, offset) ==
  /\ at = -1 <=> buf = right
  /\ \A i \in 1 .. Len(buf) :
       at = offset + i - 1 <=> buf[i] # right[i] /\ \A j \in 1 .. i - 1 : buf[j] = right[j]

\* FirstDifference() does.
LEMMA FirstDifferenceFound ==
  ASSUME NEW S, NEW buf \in Seq(S), NEW right, NEW offset \in Nat,
         right = [i \in 1 .. Len(buf) |-> right[i]]
  PROVE  Found(FirstDifference(buf, right, offset), buf, right, offset)
<1> DEFINE n == Len(buf)
           bad == {i \in 1 .. n : buf[i] # right[i]}
           at == FirstDifference(buf, right, offset)
<1>1. n \in Nat /\ buf = [i \in 1 .. n |-> buf[i]]
  BY LenProperties
<1>2. buf = right <=> bad = {}
  BY <1>1
<1>3. CASE buf = right
  BY <1>1, <1>3 DEF FirstDifference, Found
<1>4. CASE buf # right
  <2>1. bad \in SUBSET Nat /\ bad # {}
    BY <1>1, <1>2, <1>4
  <2> DEFINE First(i) == \A j \in bad : i <= j
             first == CHOOSE i \in bad : First(i)
  <2>2. \E i \in bad : First(i)
    <3> HIDE DEF bad
    <3> QED
      BY <2>1, Least
  <2>3. first \in bad /\ First(first)
    <3> HIDE DEF bad, First
    <3> QED
      BY <2>2
  <2>4. at = offset + first - 1
    BY <1>4 DEF FirstDifference
  <2> HIDE DEF first, at
  <2>5. first \in 1 .. n /\ buf[first] # right[first]
    BY <2>3
  <2>6. ASSUME NEW j \in 1 .. n, j < first PROVE buf[j] = right[j]
    <3>1. ~(first <= j)
      BY <1>1, <2>5, <2>6
    <3> QED
      BY <2>3, <3>1
  <2>7. ASSUME NEW i \in 1 .. n
        PROVE  i = first <=> buf[i] # right[i] /\ \A j \in 1 .. i - 1 : buf[j] = right[j]
    <3>1. ASSUME i = first PROVE \A j \in 1 .. i - 1 : buf[j] = right[j]
      BY <1>1, <2>5, <2>6, <3>1
    <3>2. ASSUME buf[i] # right[i], \A j \in 1 .. i - 1 : buf[j] = right[j] PROVE i = first
      <4>1. i \in bad
        BY <3>2
      <4>2. first <= i
        BY <2>3, <4>1
      <4>3. ASSUME first < i PROVE FALSE
        <5>1. first \in 1 .. i - 1
          BY <1>1, <2>5, <4>3
        <5>2. buf[first] = right[first]
          BY <3>2, <5>1
        <5> QED
          BY <2>5, <5>2
      <4> QED
        BY <1>1, <2>5, <4>2, <4>3
    <3> QED
      BY <2>5, <3>1, <3>2
  <2>8. at # -1 /\ \A i \in 1 .. n : at = offset + i - 1 <=> i = first
    BY <1>1, <2>4, <2>5
  <2> QED
    BY <1>4, <2>7, <2>8 DEF Found, at
<1> QED
  BY <1>3, <1>4

\* databinchk() and dataasciichk(): the first byte that is not what databingen() and
\* dataasciigen() put there.
THEOREM FirstWrongByte ==
  ASSUME NEW S, NEW buf \in Seq(S), NEW offset \in Nat, NEW what, what # "r", NEW random, NEW list
  PROVE  /\ Found(databinchk(what, buf, offset), buf, databingen(what, Len(buf), offset, random), offset)
         /\ Found(dataasciichk(list, buf, offset), buf, dataasciigen(list, Len(buf), offset), offset)
<1> DEFINE bin == databingen(what, Len(buf), offset, random)
           text == dataasciigen(list, Len(buf), offset)
<1>1. bin = [i \in 1 .. Len(buf) |-> BinByte(what, offset + i - 1)]
  BY DEF databingen
<1>2. text = [i \in 1 .. Len(buf) |-> AsciiByte(list, offset + i - 1)]
  BY DEF dataasciigen
<1>3. databinchk(what, buf, offset) = FirstDifference(buf, bin, offset)
  BY <1>1 DEF databinchk
<1>4. dataasciichk(list, buf, offset) = FirstDifference(buf, text, offset)
  BY <1>2 DEF dataasciichk
<1>5. bin = [i \in 1 .. Len(buf) |-> bin[i]] /\ text = [i \in 1 .. Len(buf) |-> text[i]]
  BY <1>1, <1>2
<1> HIDE DEF bin, text
<1> QED
  BY <1>3, <1>4, <1>5, FirstDifferenceFound DEF bin, text

\* Byte i of a buffer that holds the pattern over and over, from its byte shift on.
Around(pat, shift, i) == pat[((i - 1 + shift) % Len(pat)) + 1]
Filled(pat, shift, size) == [i \in 1 .. size |-> Around(pat, shift, i)]

\* memcpy(): what there was, and then so many bytes.
LEMMA CopiedIs ==
  ASSUME NEW S, NEW buf \in Seq(S), NEW from \in Seq(S), NEW n \in 0 .. Len(from)
  PROVE  /\ Copied(buf, from, n) \in Seq(S)
         /\ Len(Copied(buf, from, n)) = Len(buf) + n
         /\ \A i \in 1 .. Len(buf) + n :
              Copied(buf, from, n)[i] = IF i <= Len(buf) THEN buf[i] ELSE from[i - Len(buf)]
<1>1. Len(from) \in Nat /\ from \in [1 .. Len(from) -> S] /\ Len(buf) \in Nat
  BY LenProperties
<1> DEFINE t == SubSeq(from, 1, n)
<1>2. n \in Int /\ n \in Nat /\ 1 \in Int /\ \A i \in 1 .. n : from[i] \in S
  BY <1>1
<1>3. t \in Seq(S) /\ Len(t) = n /\ \A i \in 1 .. n : t[i] = from[i]
  <2>1. t \in Seq(S) /\ Len(t) = (IF 1 <= n THEN n - 1 + 1 ELSE 0) /\ \A i \in 1 .. n - 1 + 1 : t[i] = from[1 + i - 1]
    BY <1>2, SubSeqProperties
  <2> HIDE DEF t
  <2> QED
    BY <1>2, <2>1
<1> HIDE DEF t
<1>4. /\ buf \o t \in Seq(S) /\ Len(buf \o t) = Len(buf) + n
      /\ \A i \in 1 .. Len(buf) + n : (buf \o t)[i] = IF i <= Len(buf) THEN buf[i] ELSE t[i - Len(buf)]
  BY <1>3, ConcatProperties
<1>5. Copied(buf, from, n) = buf \o t
  BY DEF Copied, t
<1>6. ASSUME NEW i \in 1 .. Len(buf) + n, ~(i <= Len(buf)) PROVE t[i - Len(buf)] = from[i - Len(buf)]
  <2>1. i - Len(buf) \in 1 .. n
    BY <1>1, <1>2, <1>6
  <2> QED
    BY <1>3, <2>1
<1> QED
  BY <1>4, <1>5, <1>6

\* The pattern comes round.
LEMMA ComesRound ==
  ASSUME NEW S, NEW pat \in Seq(S), pat # <<>>, NEW shift \in Nat, NEW i \in Nat, i # 0
  PROVE  /\ Len(pat) \in Nat \ {0} /\ Around(pat, shift, i) \in S
         /\ \A m \in Nat : Around(pat, shift, m * Len(pat) + i) = Around(pat, shift, i)
         /\ LET s == shift % Len(pat) IN
            /\ s \in 0 .. Len(pat) - 1
            /\ i <= Len(pat) - s => Around(pat, shift, i) = pat[s + i]
            /\ Len(pat) - s < i /\ i <= Len(pat) => Around(pat, shift, i) = pat[i - (Len(pat) - s)]
<1> DEFINE n == Len(pat)
           s == shift % n
           q == shift \div n
           x == i - 1 + shift
           r == x % n
           d == x \div n
<1>1. n \in Nat /\ pat \in [1 .. n -> S]
  BY LenProperties
<1>2. n # 0
  BY <1>1, EmptySeq
<1>3. x \in Int /\ x \in Nat
  OBVIOUS
<1> HIDE DEF n
<1>4. n \in Nat \ {0} /\ shift \in Int
  BY <1>1, <1>2
<1>5. q \in Int /\ s \in 0 .. n - 1 /\ shift = n * q + s
  BY <1>4, Division
<1> HIDE DEF x
<1>6. d \in Int /\ r \in 0 .. n - 1 /\ x = n * d + r
  BY <1>3, <1>4, Division
<1> HIDE DEF s, q, d, r
<1>7. Around(pat, shift, i) = pat[r + 1]
  BY DEF Around, x, r, n
<1>8. r + 1 \in 1 .. n
  BY <1>4, <1>6
<1>9. ASSUME NEW m \in Nat PROVE Around(pat, shift, m * n + i) = Around(pat, shift, i)
  <2>1. m * n \in Int /\ m * n + i - 1 + shift = m * n + x /\ m * n = n * m
    BY <1>4 DEF x
  <2>2. m * n + x \in Int /\ m * n + x = n * (m + d) + r /\ m + d \in Int
    BY <1>3, <1>4, <1>6, <2>1
  <2> DEFINE y == m * n + x
  <2> HIDE DEF y
  <2>3. y % n = r
    BY <1>4, <1>6, <2>2, QuotientUnique DEF y
  <2> QED
    BY <1>7, <2>1, <2>3 DEF Around, n, y
<1>10. ASSUME i <= n - s PROVE Around(pat, shift, i) = pat[s + i]
  <2>1. x = n * q + (s + i - 1) /\ s + i - 1 \in 0 .. n - 1
    BY <1>4, <1>5, <1>10 DEF x
  <2>2. r = s + i - 1
    <3> DEFINE e == s + i - 1
    <3>1. e \in 0 .. n - 1 /\ x = n * q + e
      BY <2>1
    <3> HIDE DEF e
    <3>2. x % n = e
      BY <1>3, <1>4, <1>5, <3>1, QuotientUnique
    <3> QED
      BY <3>2 DEF e, r
  <2>3. r + 1 = s + i
    BY <1>5, <2>2
  <2> QED
    BY <1>7, <2>3
<1>11. ASSUME n - s < i, i <= n PROVE Around(pat, shift, i) = pat[i - (n - s)]
  <2> DEFINE e == s + i - 1 - n
             p == q + 1
  <2>1. e \in 0 .. n - 1 /\ p \in Int /\ x = n * p + e
    <3>1. n * (q + 1) = n * q + n
      BY <1>4, <1>5
    <3> QED
      BY <1>4, <1>5, <1>11, <3>1 DEF x
  <2>2. e + 1 = i - (n - s)
    BY <1>4, <1>5
  <2> HIDE DEF e, p
  <2>3. x % n = e
    BY <1>3, <1>4, <2>1, QuotientUnique
  <2> QED
    BY <1>7, <2>2, <2>3 DEF r
<1>12. Around(pat, shift, i) \in S
  BY <1>1, <1>7, <1>8
<1> QED
  BY <1>4, <1>5, <1>9, <1>10, <1>11, <1>12 DEF n, s

\* The lesser of two.
LEMMA AtMostIs ==
  ASSUME NEW n \in Nat, NEW limit \in Nat
  PROVE  AtMost(n, limit) \in Nat /\ AtMost(n, limit) <= n /\ AtMost(n, limit) <= limit
         /\ AtMost(n, limit) \in {n, limit}
BY DEF AtMost

\* The two pieces before the loops: the first turn of the pattern, or what there is room for.
LEMMA FirstTurnIs ==
  ASSUME NEW S, NEW pat \in Seq(S), pat # <<>>, NEW shift \in Nat, NEW size \in Nat
  PROVE  LET turn == FirstTurn(pat, shift, size) IN
         /\ turn \in Seq(S) /\ Len(turn) = AtMost(Len(pat), size)
         /\ \A i \in 1 .. Len(turn) : turn[i] = Around(pat, shift, i)
<1> DEFINE n == Len(pat)
           s == shift % n
           t == SubSeq(pat, s + 1, n)
           k == AtMost(n - s, size)
           tail == Copied(<<>>, t, k)
           turn == FirstTurn(pat, shift, size)
<1>1. n \in Nat \ {0} /\ s \in 0 .. n - 1 /\ pat \in [1 .. n -> S]
  <2>1. 1 \in Nat /\ 1 # 0
    OBVIOUS
  <2> QED
    BY <2>1, ComesRound, LenProperties
<1>2. ASSUME NEW i \in Nat, i # 0
      PROVE  /\ i <= n - s => Around(pat, shift, i) = pat[s + i]
             /\ n - s < i /\ i <= n => Around(pat, shift, i) = pat[i - (n - s)]
  <2> HIDE DEF t, k, tail, turn
  <2>1. /\ Len(pat) \in Nat \ {0} /\ Around(pat, shift, i) \in S
        /\ \A m \in Nat : Around(pat, shift, m * Len(pat) + i) = Around(pat, shift, i)
        /\ s \in 0 .. n - 1
        /\ i <= n - s => Around(pat, shift, i) = pat[s + i]
        /\ n - s < i /\ i <= n => Around(pat, shift, i) = pat[i - (n - s)]
    BY <1>2, ComesRound
  <2> QED
    BY <2>1
<1>3. turn = IF s > 0 THEN Copied(tail, pat, AtMost(s, size - Len(tail))) ELSE tail
  BY DEF FirstTurn, Shift
<1> HIDE DEF n, s
<1>4. t \in Seq(S) /\ Len(t) = n - s /\ \A i \in 1 .. n - s : t[i] = pat[s + i]
  <2>1. s + 1 \in Int /\ n \in Int /\ (\A i \in s + 1 .. n : pat[i] \in S) /\ s + 1 <= n
    BY <1>1
  <2>2. /\ t \in Seq(S) /\ Len(t) = (IF s + 1 <= n THEN n - (s + 1) + 1 ELSE 0)
        /\ \A i \in 1 .. n - (s + 1) + 1 : t[i] = pat[s + 1 + i - 1]
    BY <2>1, SubSeqProperties
  <2>3. n - (s + 1) + 1 = n - s /\ \A i \in Int : s + 1 + i - 1 = s + i
    BY <1>1
  <2> HIDE DEF t
  <2> QED
    BY <1>1, <2>1, <2>2, <2>3
<1> HIDE DEF t
<1>5. k \in Nat /\ k <= n - s /\ k <= size /\ k \in {n - s, size}
  <2>1. n - s \in Nat
    BY <1>1
  <2> QED
    BY <2>1, AtMostIs
<1> HIDE DEF k
<1>6. tail \in Seq(S) /\ Len(tail) = k /\ \A i \in 1 .. k : tail[i] = t[i]
  <2> DEFINE empty == <<>>
  <2>1. empty \in Seq(S) /\ Len(empty) = 0 /\ k \in 0 .. Len(t)
    BY <1>1, <1>4, <1>5
  <2> HIDE DEF empty
  <2>2. /\ Copied(empty, t, k) \in Seq(S)
        /\ Len(Copied(empty, t, k)) = Len(empty) + k
        /\ \A i \in 1 .. Len(empty) + k :
             Copied(empty, t, k)[i] = IF i <= Len(empty) THEN empty[i] ELSE t[i - Len(empty)]
    BY <1>4, <2>1, CopiedIs
  <2>3. ASSUME NEW i \in 1 .. k PROVE tail[i] = t[i]
    <3>1. i \in 1 .. Len(empty) + k /\ ~(i <= Len(empty)) /\ i - Len(empty) = i
      BY <1>5, <2>1
    <3> QED
      BY <2>2, <3>1 DEF empty
  <2>4. 0 + k = k
    BY <1>5
  <2> QED
    BY <2>1, <2>2, <2>3, <2>4 DEF empty
<1> HIDE DEF tail
<1>7. ASSUME NEW i \in 1 .. k PROVE tail[i] = Around(pat, shift, i)
  <2>1. i \in Nat /\ i # 0 /\ i <= n - s /\ i \in 1 .. n - s
    BY <1>1, <1>5
  <2> QED
    BY <1>2, <1>4, <1>6, <2>1
<1>8. CASE s > 0
  <2> DEFINE j == AtMost(s, size - k)
  <2>1. j \in Nat /\ j <= s /\ j <= size - k /\ j \in {s, size - k}
    <3>1. s \in Nat /\ size - k \in Nat
      BY <1>1, <1>5
    <3> QED
      BY <3>1, AtMostIs
  <2>2. turn = Copied(tail, pat, j)
    BY <1>3, <1>6, <1>8
  <2> HIDE DEF j, turn
  <2>3. j \in 0 .. Len(pat)
    BY <1>1, <2>1 DEF n
  <2>4. /\ turn \in Seq(S) /\ Len(turn) = k + j
        /\ \A i \in 1 .. k + j : turn[i] = IF i <= k THEN tail[i] ELSE pat[i - k]
    BY <1>6, <2>2, <2>3, CopiedIs
  <2>5. k + j = AtMost(n, size)
    BY <1>1, <1>5, <2>1 DEF AtMost
  <2>6. ASSUME NEW i \in 1 .. k + j, ~(i <= k) PROVE pat[i - k] = Around(pat, shift, i)
    <3>1. k = n - s
      BY <1>1, <1>5, <2>1, <2>6
    <3>2. i \in Nat /\ i # 0 /\ n - s < i /\ i <= n
      BY <1>1, <1>5, <2>1, <2>6, <3>1
    <3> QED
      BY <1>2, <3>1, <3>2
  <2>7. ASSUME NEW i \in 1 .. k + j PROVE turn[i] = Around(pat, shift, i)
    <3>1. i <= k => i \in 1 .. k
      BY <1>5
    <3> QED
      BY <1>7, <2>4, <2>6, <3>1
  <2> QED
    BY <2>4, <2>5, <2>7 DEF turn, n
<1>9. CASE ~(s > 0)
  <2>1. turn = tail
    BY <1>3, <1>9
  <2>2. n - s = n
    BY <1>1, <1>9
  <2>3. k = AtMost(n, size)
    BY <2>2 DEF k
  <2> QED
    BY <1>6, <1>7, <2>1, <2>3 DEF n
<1> QED
  BY <1>8, <1>9

\* The same, of whole turns.
LEMMA RoundAgain ==
  ASSUME NEW S, NEW pat \in Seq(S), pat # <<>>, NEW shift \in Nat, NEW i \in Nat, i # 0
  PROVE  /\ Len(pat) \in Nat \ {0}
         /\ \A m \in Nat : Around(pat, shift, m * Len(pat) + i) = Around(pat, shift, i)
<1> DEFINE s == shift % Len(pat)
<1>1. /\ Len(pat) \in Nat \ {0} /\ Around(pat, shift, i) \in S
      /\ \A m \in Nat : Around(pat, shift, m * Len(pat) + i) = Around(pat, shift, i)
      /\ s \in 0 .. Len(pat) - 1
      /\ i <= Len(pat) - s => Around(pat, shift, i) = pat[s + i]
      /\ Len(pat) - s < i /\ i <= Len(pat) => Around(pat, shift, i) = pat[i - (Len(pat) - s)]
  BY ComesRound
<1> QED
  BY <1>1

\* What the loop of pattern_fill() makes of a buffer.
LEMMA DoubledDef ==
  ASSUME NEW S, NEW buf \in Seq(S), NEW size \in Nat, Len(buf) <= size
  PROVE  LET filled == Doubled(buf, size) IN
         /\ filled[0] = buf
         /\ \A n \in Nat : /\ filled[n + 1] = OneMoreTurn(filled[n], size)
                           /\ filled[n] \in Seq(S) /\ Len(filled[n]) <= size
<1> DEFINE B == {x \in Seq(S) : Len(x) <= size}
           c == buf
           advance == [x \in B |-> OneMoreTurn(x, size)]
           Solves(g) == g = [n \in Nat |-> IF n = 0 THEN c ELSE OneMoreTurn(g[n - 1], size)]
<1>1. c \in B
  OBVIOUS
<1>2. ASSUME NEW x \in B PROVE OneMoreTurn(x, size) \in B
  <2> DEFINE k == AtMost(Len(x), size - Len(x))
  <2>1. x \in Seq(S) /\ Len(x) \in Nat /\ Len(x) <= size
    BY <1>2, LenProperties
  <2>2. size - Len(x) \in Nat
    BY <2>1
  <2>3. k \in Nat /\ k <= Len(x) /\ k <= size - Len(x)
    BY <2>1, <2>2, AtMostIs
  <2> HIDE DEF k
  <2>4. k \in 0 .. Len(x)
    BY <2>1, <2>3
  <2>5. Copied(x, x, k) \in Seq(S) /\ Len(Copied(x, x, k)) = Len(x) + k
    BY <2>1, <2>4, CopiedIs
  <2>6. OneMoreTurn(x, size) = Copied(x, x, k)
    BY DEF OneMoreTurn, k
  <2> QED
    BY <2>1, <2>3, <2>5, <2>6
<1>3. advance \in [B -> B]
  <2> HIDE DEF B
  <2> QED
    BY <1>2
<1>4. PICK g : Equation(B, c, advance, g)
  <2> HIDE DEF B, advance, c, Solves
  <2> QED
    BY <1>1, <1>3, RecursiveFunction
<1>5. Solves(g)
  <2>1. ASSUME NEW n \in Nat, n # 0 PROVE advance[g[n - 1]] = OneMoreTurn(g[n - 1], size)
    <3>1. n - 1 \in Nat
      BY <2>1
    <3> HIDE DEF B
    <3>2. g[n - 1] \in B
      BY <1>4, <3>1 DEF Equation
    <3> QED
      BY <3>2
  <2> HIDE DEF advance, B, c
  <2> QED
    BY <1>4, <2>1 DEF Equation
<1> DEFINE filled == Doubled(buf, size)
<1>6. Solves(filled)
  <2>1. filled = CHOOSE h : Solves(h)
    BY DEF Doubled
  <2> HIDE DEF Solves, filled
  <2> QED
    BY <1>5, <2>1
<1>7. filled[0] = buf
  <2> HIDE DEF filled
  <2> QED
    BY <1>6
<1>8. ASSUME NEW n \in Nat PROVE filled[n + 1] = OneMoreTurn(filled[n], size)
  <2>1. n + 1 \in Nat /\ n + 1 # 0 /\ (n + 1) - 1 = n
    OBVIOUS
  <2> HIDE DEF filled
  <2> QED
    BY <1>6, <2>1
<1>9. \A n \in Nat : filled[n] \in B
  <2> DEFINE T == {n \in Nat : filled[n] \in B}
  <2> HIDE DEF filled, B
  <2>1. 0 \in T
    BY <1>1, <1>7
  <2>2. ASSUME NEW n \in Nat, n \in T PROVE n + 1 \in T
    <3>1. filled[n] \in B /\ n + 1 \in Nat
      BY <2>2
    <3>2. OneMoreTurn(filled[n], size) \in B
      BY <1>2, <3>1
    <3>3. filled[n + 1] = OneMoreTurn(filled[n], size)
      BY <1>8
    <3> QED
      BY <3>1, <3>2, <3>3
  <2>3. T = Nat
    <3> HIDE DEF T
    <3>1. T \in SUBSET Nat
      BY DEF T
    <3> QED
      BY <2>1, <2>2, <3>1, Inductive
  <2> QED
    BY <2>3
<1> QED
  BY <1>7, <1>8, <1>9

\* pattern_fill(): the pattern over and over, from the shift on, in the whole buffer.
THEOREM PatternFilled ==
  ASSUME NEW S, NEW pat \in Seq(S), pat # <<>>, NEW shift \in Nat, NEW size \in Nat
  PROVE  pattern_fill(pat, shift, size) = Filled(pat, shift, size)
<1> DEFINE L == Len(pat)
           turn == FirstTurn(pat, shift, size)
           filled == Doubled(turn, size)
<1>1. ASSUME NEW i \in Nat, i # 0
      PROVE  /\ L \in Nat \ {0}
             /\ \A m \in Nat : Around(pat, shift, m * L + i) = Around(pat, shift, i)
  BY <1>1, RoundAgain
<1>2. L \in Nat \ {0}
  <2>1. 1 \in Nat /\ 1 # 0
    OBVIOUS
  <2> QED
    BY <1>1, <2>1
<1>3. /\ turn \in Seq(S) /\ Len(turn) = AtMost(L, size)
      /\ \A i \in 1 .. Len(turn) : turn[i] = Around(pat, shift, i)
  BY FirstTurnIs
<1> HIDE DEF L, turn
<1>4. Len(turn) \in Nat /\ Len(turn) <= size /\ Len(turn) \in {L, size} /\ (size # 0 => Len(turn) # 0)
  BY <1>2, <1>3, AtMostIs
<1>5. /\ filled[0] = turn
      /\ \A n \in Nat : /\ filled[n + 1] = OneMoreTurn(filled[n], size)
                        /\ filled[n] \in Seq(S) /\ Len(filled[n]) <= size
  BY <1>3, <1>4, DoubledDef
<1> HIDE DEF filled
<1> DEFINE Whole(n) == Len(filled[n]) = size \/ \E m \in Nat : Len(filled[n]) = m * L
           Holds(n) == \A i \in Nat : i # 0 /\ i <= Len(filled[n]) => filled[n][i] = Around(pat, shift, i)
           Long(n) == Len(filled[n]) = size \/ Len(filled[n]) > n
           T == {n \in Nat : Whole(n) /\ Holds(n) /\ Long(n)}
<1>6. 0 \in T
  <2>1. Whole(0)
    <3>1. L = 1 * L /\ 1 \in Nat
      BY <1>2
    <3> QED
      BY <1>4, <1>5, <3>1
  <2>2. Holds(0)
    BY <1>3, <1>4, <1>5
  <2>3. Long(0)
    BY <1>4, <1>5
  <2> QED
    BY <2>1, <2>2, <2>3
<1>7. ASSUME NEW n \in Nat, n \in T PROVE n + 1 \in T
  <2> DEFINE f == filled[n]
             g == filled[n + 1]
             l == Len(f)
             k == AtMost(l, size - l)
  <2>1. f \in Seq(S) /\ l \in Nat /\ l <= size
    BY <1>5, LenProperties
  <2>2. k \in Nat /\ k <= l /\ k <= size - l /\ k \in {l, size - l}
    <3>1. size - l \in Nat
      BY <2>1
    <3> QED
      BY <2>1, <3>1, AtMostIs
  <2>3. g = Copied(f, f, k)
    BY <1>5 DEF OneMoreTurn
  <2>4. Whole(n) /\ Holds(n) /\ Long(n)
    BY <1>7
  <2> HIDE DEF k
  <2>5. k \in 0 .. l
    BY <2>1, <2>2
  <2>6. /\ Copied(f, f, k) \in Seq(S)
        /\ Len(Copied(f, f, k)) = l + k
        /\ \A i \in 1 .. l + k : Copied(f, f, k)[i] = IF i <= l THEN f[i] ELSE f[i - l]
    BY <2>1, <2>5, CopiedIs
  <2>7. /\ Len(g) = l + k
        /\ \A i \in 1 .. l + k : g[i] = IF i <= l THEN f[i] ELSE f[i - l]
    BY <2>3, <2>6
  <2>8. Whole(n + 1)
    <3>1. CASE k = size - l
      <4>1. Len(g) = size
        BY <2>1, <2>7, <3>1
      <4> QED
        BY <4>1
    <3>2. CASE k = l /\ k # size - l
      <4>1. l # size
        BY <2>1, <2>2, <3>2
      <4>2. PICK m \in Nat : l = m * L
        BY <2>4, <4>1
      <4>3. l + k = (2 * m) * L /\ 2 * m \in Nat
        BY <1>2, <3>2, <4>2
      <4>4. Len(g) = (2 * m) * L
        BY <2>7, <4>3
      <4> QED
        BY <4>3, <4>4
    <3> QED
      BY <2>2, <3>1, <3>2
  <2>9. Holds(n + 1)
    <3> SUFFICES ASSUME NEW i \in Nat, i # 0, i <= l + k PROVE g[i] = Around(pat, shift, i)
      BY <2>7
    <3>1. i \in 1 .. l + k
      BY <2>1, <2>2
    <3>2. CASE i <= l
      BY <2>4, <2>7, <3>1, <3>2
    <3>3. CASE ~(i <= l)
      <4>1. l # size
        BY <2>1, <2>2, <3>3
      <4>2. PICK m \in Nat : l = m * L
        BY <2>4, <4>1
      <4> DEFINE j == i - l
      <4>3. j \in Nat /\ j # 0 /\ j <= l /\ i = m * L + j
        BY <1>2, <2>1, <2>2, <3>3, <4>2
      <4>4. g[i] = f[j]
        BY <2>7, <3>1, <3>3
      <4> HIDE DEF j
      <4>5. f[j] = Around(pat, shift, j)
        BY <2>4, <4>3
      <4>6. Around(pat, shift, m * L + j) = Around(pat, shift, j)
        BY <1>1, <4>3
      <4> QED
        BY <4>3, <4>4, <4>5, <4>6
    <3> QED
      BY <3>2, <3>3
  <2>10. Long(n + 1)
    <3>1. l = size => l + k = size
      BY <2>1, <2>2
    <3>2. l > n /\ k = l => l + k > n + 1
      BY <2>1, <2>2
    <3>3. k = size - l => l + k = size
      BY <2>1, <2>2
    <3> QED
      BY <2>2, <2>4, <2>7, <3>1, <3>2, <3>3
  <2> QED
    BY <2>8, <2>9, <2>10
<1>8. T = Nat
  <2> HIDE DEF T
  <2>1. T \in SUBSET Nat
    BY DEF T
  <2> QED
    BY <1>6, <1>7, <2>1, Inductive
<1>9. filled[size] \in Seq(S) /\ Len(filled[size]) = size /\ Holds(size)
  <2>1. Long(size) /\ Holds(size)
    BY <1>8
  <2>2. filled[size] \in Seq(S) /\ Len(filled[size]) <= size /\ Len(filled[size]) \in Nat
    BY <1>5, LenProperties
  <2> QED
    BY <2>1, <2>2
<1>10. filled[size] = [i \in 1 .. size |-> filled[size][i]]
  BY <1>9, LenProperties
<1>11. \A i \in 1 .. size : filled[size][i] = Around(pat, shift, i)
  BY <1>9
<1>12. pattern_fill(pat, shift, size) = filled[size]
  BY DEF pattern_fill, filled, turn
<1> QED
  BY <1>10, <1>11, <1>12 DEF Filled

\* How far the loop of pattern_check() has come.
LEMMA ComparedIs ==
  ASSUME NEW first \in Nat, NEW size \in Nat, first <= size, size # 0 => first # 0
  PROVE  LET ncmp == Compared(first, size) IN
         /\ ncmp[0] = first /\ ncmp[size] = size
         /\ \A n \in Nat :
              /\ ncmp[n] \in Nat /\ ncmp[n] <= size
              /\ ncmp[n + 1] - ncmp[n] = AtMost(ncmp[n], size - ncmp[n])
              /\ ncmp[n] = size \/ \E m \in Nat : ncmp[n] = m * first
<1> DEFINE B == 0 .. size
           c == first
           advance == [x \in B |-> OneMoreCompared(x, size)]
           Solves(g) == g = [n \in Nat |-> IF n = 0 THEN c ELSE OneMoreCompared(g[n - 1], size)]
           ncmp == Compared(first, size)
<1>1. c \in B
  OBVIOUS
<1>2. ASSUME NEW x \in B
      PROVE  /\ OneMoreCompared(x, size) \in B
             /\ OneMoreCompared(x, size) - x = AtMost(x, size - x)
             /\ AtMost(x, size - x) \in {x, size - x}
  <2>1. x \in Nat /\ size - x \in Nat
    OBVIOUS
  <2>2. AtMost(x, size - x) \in Nat /\ AtMost(x, size - x) <= size - x /\ AtMost(x, size - x) \in {x, size - x}
    BY <2>1, AtMostIs
  <2> QED
    BY <2>1, <2>2 DEF OneMoreCompared
<1>3. advance \in [B -> B]
  <2> HIDE DEF B
  <2> QED
    BY <1>2
<1>4. PICK g : Equation(B, c, advance, g)
  <2> HIDE DEF B, advance, c, Solves
  <2> QED
    BY <1>1, <1>3, RecursiveFunction
<1>5. Solves(g)
  <2>1. ASSUME NEW n \in Nat, n # 0 PROVE advance[g[n - 1]] = OneMoreCompared(g[n - 1], size)
    <3>1. n - 1 \in Nat
      BY <2>1
    <3> HIDE DEF B
    <3>2. g[n - 1] \in B
      BY <1>4, <3>1 DEF Equation
    <3> QED
      BY <3>2
  <2> HIDE DEF advance, B, c
  <2> QED
    BY <1>4, <2>1 DEF Equation
<1>6. Solves(ncmp)
  <2>1. ncmp = CHOOSE h : Solves(h)
    BY DEF Compared
  <2> HIDE DEF Solves, ncmp
  <2> QED
    BY <1>5, <2>1
<1> HIDE DEF ncmp
<1>7. ncmp[0] = first
  BY <1>6
<1>8. ASSUME NEW n \in Nat PROVE ncmp[n + 1] = OneMoreCompared(ncmp[n], size)
  <2>1. n + 1 \in Nat /\ n + 1 # 0 /\ (n + 1) - 1 = n
    OBVIOUS
  <2> QED
    BY <1>6, <2>1
<1> DEFINE Whole(n) == ncmp[n] = size \/ \E m \in Nat : ncmp[n] = m * first
           Long(n) == ncmp[n] = size \/ ncmp[n] > n
           T == {n \in Nat : ncmp[n] \in B /\ Whole(n) /\ Long(n)}
<1>9. 0 \in T
  <2>1. ncmp[0] = 1 * first /\ 1 \in Nat
    BY <1>7
  <2>2. ncmp[0] \in B /\ Long(0)
    BY <1>7
  <2> HIDE DEF B
  <2> QED
    BY <2>1, <2>2
<1>10. ASSUME NEW n \in Nat, n \in T PROVE n + 1 \in T
  <2>1. ncmp[n] \in B /\ Whole(n) /\ Long(n)
    BY <1>10
  <2> DEFINE x == ncmp[n]
             k == AtMost(x, size - x)
  <2>2. ncmp[n + 1] \in B /\ ncmp[n + 1] - x = k /\ k \in {x, size - x}
    <3> HIDE DEF B
    <3> QED
      BY <1>2, <1>8, <2>1
  <2> HIDE DEF k
  <2>3. ncmp[n + 1] = x + k /\ x \in Nat /\ x <= size /\ k \in Int
    BY <2>1, <2>2
  <2>4. CASE k = size - x
    <3>1. ncmp[n + 1] = size
      BY <2>3, <2>4
    <3> QED
      BY <2>2, <3>1
  <2>5. CASE k = x /\ k # size - x
    <3>1. x # size
      BY <2>2, <2>3, <2>5
    <3>2. PICK m \in Nat : x = m * first
      BY <2>1, <3>1
    <3>3. ncmp[n + 1] = (2 * m) * first /\ 2 * m \in Nat
      BY <2>3, <2>5, <3>2
    <3>4. x > n
      BY <2>1, <3>1
    <3>5. ncmp[n + 1] > n + 1
      BY <2>3, <2>5, <3>4
    <3>6. Whole(n + 1) /\ Long(n + 1) /\ n + 1 \in Nat
      BY <3>3, <3>5
    <3> HIDE DEF B, Whole, Long
    <3> QED
      BY <2>2, <3>6
  <2> QED
    BY <2>2, <2>4, <2>5
<1>11. T = Nat
  <2> HIDE DEF T
  <2>1. T \in SUBSET Nat
    BY DEF T
  <2> QED
    BY <1>9, <1>10, <2>1, Inductive
<1>12. \A n \in Nat : ncmp[n] \in B /\ Whole(n)
  BY <1>11
<1>13. ncmp[size] = size
  <2>1. ncmp[size] \in B /\ Long(size)
    BY <1>11
  <2> QED
    BY <2>1
<1>14. ASSUME NEW n \in Nat PROVE ncmp[n + 1] - ncmp[n] = AtMost(ncmp[n], size - ncmp[n])
  <2> HIDE DEF B
  <2> QED
    BY <1>2, <1>8, <1>12
<1>15. \A n \in Nat :
         /\ ncmp[n] \in Nat /\ ncmp[n] <= size
         /\ ncmp[n + 1] - ncmp[n] = AtMost(ncmp[n], size - ncmp[n])
         /\ ncmp[n] = size \/ \E m \in Nat : ncmp[n] = m * first
  <2> SUFFICES ASSUME NEW n \in Nat
               PROVE  /\ ncmp[n] \in Nat /\ ncmp[n] <= size
                      /\ ncmp[n + 1] - ncmp[n] = AtMost(ncmp[n], size - ncmp[n])
                      /\ Whole(n)
    OBVIOUS
  <2>1. ncmp[n] \in 0 .. size /\ Whole(n)
    BY <1>12
  <2> HIDE DEF Whole
  <2> QED
    BY <1>14, <2>1
<1> HIDE DEF B, Whole, Long, T
<1> QED
  BY <1>7, <1>13, <1>15 DEF ncmp

\* pattern_check(): 0 for what pattern_fill() makes of a buffer of that size, and for nothing else.
THEOREM PatternChecked ==
  ASSUME NEW S, NEW pat \in Seq(S), pat # <<>>, NEW shift \in Nat, NEW buf \in Seq(S)
  PROVE  pattern_check(buf, pat, shift) = IF buf = pattern_fill(pat, shift, Len(buf)) THEN 0 ELSE -1
<1> DEFINE L == Len(pat)
           size == Len(buf)
           turn == FirstTurn(pat, shift, size)
           first == Len(turn)
           ncmp == Compared(first, size)
           Right(i) == buf[i] = Around(pat, shift, i)
<1>0. size \in Nat
  BY LenProperties
<1>1. size \in Nat /\ buf = [i \in 1 .. size |-> buf[i]] /\ buf \in [1 .. size -> S]
  BY LenProperties
<1>2. ASSUME NEW i \in Nat, i # 0
      PROVE  /\ L \in Nat \ {0}
             /\ \A m \in Nat : Around(pat, shift, m * L + i) = Around(pat, shift, i)
  BY <1>2, RoundAgain
<1>3. L \in Nat \ {0}
  <2>1. 1 \in Nat /\ 1 # 0
    OBVIOUS
  <2> QED
    BY <1>2, <2>1
<1>4. /\ turn \in Seq(S) /\ first = AtMost(L, size)
      /\ \A i \in 1 .. first : turn[i] = Around(pat, shift, i)
  BY <1>1, FirstTurnIs
<1>5. buf = pattern_fill(pat, shift, size) <=> \A i \in 1 .. size : Right(i)
  <2>1. pattern_fill(pat, shift, size) = [i \in 1 .. size |-> Around(pat, shift, i)]
    BY <1>1, PatternFilled DEF Filled
  <2> QED
    BY <1>1, <2>1
<1>6. pattern_check(buf, pat, shift) = IF SubSeq(buf, 1, first) = turn /\ Repeats(buf, first) THEN 0 ELSE -1
  BY DEF pattern_check
<1> HIDE DEF L, size, turn
<1>7. first \in Nat /\ first <= size /\ first \in {L, size} /\ (size # 0 => first # 0)
  BY <1>1, <1>3, <1>4, AtMostIs
<1>8. SubSeq(buf, 1, first) = turn <=> \A i \in 1 .. first : Right(i)
  <2> DEFINE t == SubSeq(buf, 1, first)
  <2>1. first \in Int /\ 1 \in Int /\ \A i \in 1 .. first : buf[i] \in S
    BY <1>1, <1>7
  <2> HIDE DEF first
  <2>2. /\ t \in Seq(S) /\ Len(t) = (IF 1 <= first THEN first - 1 + 1 ELSE 0)
        /\ \A i \in 1 .. first - 1 + 1 : t[i] = buf[1 + i - 1]
    BY <2>1, SubSeqProperties
  <2> HIDE DEF t
  <2>3. Len(t) = first /\ \A i \in 1 .. first : t[i] = buf[i]
    BY <1>7, <2>2
  <2>4. turn \in Seq(S) /\ Len(turn) = first
    BY <1>4 DEF first
  <2>5. t = turn <=> \A i \in 1 .. first : t[i] = turn[i]
    BY <2>2, <2>3, <2>4, SeqEqual
  <2> QED
    BY <1>4, <2>3, <2>5 DEF t
<1> HIDE DEF first
<1>9. /\ ncmp[0] = first /\ ncmp[size] = size
      /\ \A n \in Nat :
           /\ ncmp[n] \in Nat /\ ncmp[n] <= size
           /\ ncmp[n + 1] - ncmp[n] = AtMost(ncmp[n], size - ncmp[n])
           /\ ncmp[n] = size \/ \E m \in Nat : ncmp[n] = m * first
  BY <1>1, <1>7, ComparedIs
<1> DEFINE Same(n) == SubSeq(buf, 1, ncmp[n + 1] - ncmp[n]) = SubSeq(buf, ncmp[n] + 1, ncmp[n + 1])
<1>10. Repeats(buf, first) <=> \A n \in 0 .. size : Same(n)
  BY DEF Repeats, size
<1> HIDE DEF ncmp
<1>11. ASSUME NEW n \in Nat
       PROVE  /\ ncmp[n] \in Nat /\ ncmp[n + 1] \in Nat /\ ncmp[n] <= ncmp[n + 1] /\ ncmp[n + 1] <= size
              /\ ncmp[n + 1] - ncmp[n] <= ncmp[n]
  <2>1. n + 1 \in Nat
    OBVIOUS
  <2>2. ncmp[n] \in Nat /\ ncmp[n] <= size /\ ncmp[n + 1] \in Nat /\ ncmp[n + 1] <= size
        /\ ncmp[n + 1] - ncmp[n] = AtMost(ncmp[n], size - ncmp[n])
    BY <1>9, <2>1
  <2>3. size - ncmp[n] \in Nat
    BY <1>1, <2>2
  <2>4. AtMost(ncmp[n], size - ncmp[n]) \in Nat /\ AtMost(ncmp[n], size - ncmp[n]) <= ncmp[n]
    BY <2>2, <2>3, AtMostIs
  <2> QED
    BY <2>2, <2>4
<1>12. ASSUME NEW n \in Nat
       PROVE  Same(n) <=> \A i \in Nat : ncmp[n] < i /\ i <= ncmp[n + 1] => buf[i - ncmp[n]] = buf[i]
  <2> DEFINE x == ncmp[n]
             y == ncmp[n + 1]
             a == SubSeq(buf, 1, y - x)
             b == SubSeq(buf, x + 1, y)
  <2>1. x \in Nat /\ y \in Nat /\ x <= y /\ y <= size /\ y - x <= x
    BY <1>11
  <2> HIDE DEF x, y
  <2>2. /\ y - x \in Int /\ x + 1 \in Int /\ 1 \in Int /\ y \in Int
        /\ \A i \in 1 .. y - x : buf[i] \in S
        /\ \A i \in x + 1 .. y : buf[i] \in S
    BY <1>1, <2>1
  <2>3. /\ a \in Seq(S) /\ Len(a) = (IF 1 <= y - x THEN y - x - 1 + 1 ELSE 0)
        /\ \A i \in 1 .. y - x - 1 + 1 : a[i] = buf[1 + i - 1]
    BY <2>2, SubSeqProperties
  <2>4. /\ b \in Seq(S) /\ Len(b) = (IF x + 1 <= y THEN y - (x + 1) + 1 ELSE 0)
        /\ \A i \in 1 .. y - (x + 1) + 1 : b[i] = buf[x + 1 + i - 1]
    BY <2>2, SubSeqProperties
  <2> HIDE DEF a, b
  <2>5. Len(a) = y - x /\ Len(b) = y - x
    BY <2>1, <2>3, <2>4
  <2>6. \A i \in 1 .. y - x : a[i] = buf[i] /\ b[i] = buf[x + i]
    <3>1. ASSUME NEW i \in 1 .. y - x PROVE a[i] = buf[i] /\ b[i] = buf[x + i]
      <4>1. i \in 1 .. y - x - 1 + 1 /\ i \in 1 .. y - (x + 1) + 1 /\ 1 + i - 1 = i /\ x + 1 + i - 1 = x + i
        BY <2>1
      <4> QED
        BY <2>3, <2>4, <4>1
    <3> QED
      BY <3>1
  <2>7. a = b <=> \A i \in 1 .. y - x : a[i] = b[i]
    BY <2>3, <2>4, <2>5, SeqEqual
  <2>8. a = b <=> \A i \in 1 .. y - x : buf[i] = buf[x + i]
    BY <2>6, <2>7
  <2>9. ASSUME \A i \in 1 .. y - x : buf[i] = buf[x + i], NEW i \in Nat, x < i, i <= y
        PROVE  buf[i - x] = buf[i]
    <3>1. i - x \in 1 .. y - x /\ x + (i - x) = i
      BY <2>1, <2>9
    <3> QED
      BY <2>9, <3>1
  <2>10. ASSUME \A i \in Nat : x < i /\ i <= y => buf[i - x] = buf[i], NEW i \in 1 .. y - x
         PROVE  buf[i] = buf[x + i]
    <3>1. x + i \in Nat /\ x < x + i /\ x + i <= y /\ (x + i) - x = i
      BY <2>1
    <3> QED
      BY <2>10, <3>1
  <2>11. Same(n) <=> a = b
    BY DEF a, b, x, y
  <2> QED
    BY <2>8, <2>9, <2>10, <2>11 DEF x, y
<1>13. ASSUME NEW n \in Nat, NEW i \in Nat, ncmp[n] < i, i <= ncmp[n + 1]
       PROVE  /\ i \in 1 .. size /\ i - ncmp[n] \in 1 .. size
              /\ i - ncmp[n] \in Nat /\ i - ncmp[n] # 0 /\ i - ncmp[n] <= ncmp[n]
              /\ Around(pat, shift, i) = Around(pat, shift, i - ncmp[n])
  <2> DEFINE x == ncmp[n]
             y == ncmp[n + 1]
             j == i - x
  <2>1. x \in Nat /\ y \in Nat /\ x <= y /\ y <= size /\ y - x <= x
    BY <1>11
  <2>2. x = size \/ \E m \in Nat : x = m * first
    BY <1>9
  <2>3. x < i /\ i <= y
    BY <1>13
  <2> HIDE DEF x, y
  <2>4. j \in Nat /\ j # 0 /\ j <= x /\ x # size /\ x # 0 /\ x < size /\ i <= size /\ i # 0
    BY <2>1, <2>3, <1>0
  <2>5. PICK m \in Nat : x = m * first
    BY <2>2, <2>4
  <2>6. first = L
    <3> SUFFICES ASSUME first = size PROVE FALSE
      BY <1>7
    <3>1. m # 0
      BY <2>4, <2>5, <1>7
    <3>2. m * size >= size
      BY <3>1, <1>0
    <3> QED
      BY <2>1, <2>4, <2>5, <3>2, <1>0
  <2>7. i = m * L + j
    BY <1>3, <2>1, <2>5, <2>6
  <2>8. j \in Nat /\ j # 0 /\ j <= x /\ j \in 1 .. size /\ i \in 1 .. size
    BY <2>1, <2>4, <1>0
  <2> HIDE DEF j
  <2>9. Around(pat, shift, m * L + j) = Around(pat, shift, j)
    BY <1>2, <2>4
  <2>10. Around(pat, shift, i) = Around(pat, shift, j)
    BY <2>7, <2>9
  <2> QED
    BY <2>8, <2>10 DEF j, x
<1> HIDE DEF Same
<1>14. ASSUME \A i \in 1 .. first : Right(i), \A n \in 0 .. size : Same(n)
       PROVE  \A i \in 1 .. size : Right(i)
  <2> DEFINE Good(n) == \A i \in Nat : i # 0 /\ i <= ncmp[n] => Right(i)
             T == {n \in Nat : n <= size => Good(n)}
  <2>1. Good(0)
    <3> SUFFICES ASSUME NEW i \in Nat, i # 0, i <= first PROVE Right(i)
      BY <1>9
    <3>1. i \in 1 .. first
      BY <1>7
    <3> QED
      BY <1>14, <3>1
  <2>2. ASSUME NEW n \in Nat, n \in T PROVE n + 1 \in T
    <3> SUFFICES ASSUME n + 1 <= size, NEW i \in Nat, i # 0, i <= ncmp[n + 1] PROVE Right(i)
      OBVIOUS
    <3>1. n \in 0 .. size /\ n <= size
      BY <1>0
    <3>2. Good(n)
      BY <2>2, <3>1
    <3>3. CASE i <= ncmp[n]
      BY <3>2, <3>3
    <3>4. CASE ~(i <= ncmp[n])
      <4> DEFINE x == ncmp[n]
      <4>3. x \in Nat
        BY <1>11
      <4>1. x < i
        <5> HIDE DEF x
        <5>1. ~(i <= x)
          BY <3>4 DEF x
        <5> QED
          BY <4>3, <5>1
      <4>2. /\ i - ncmp[n] \in Nat /\ i - ncmp[n] # 0 /\ i - ncmp[n] <= ncmp[n]
            /\ Around(pat, shift, i) = Around(pat, shift, i - ncmp[n])
        BY <1>13, <4>1
      <4>4. Right(i - ncmp[n])
        BY <3>2, <4>2
      <4>5. Same(n)
        BY <1>14, <3>1
      <4>6. buf[i - ncmp[n]] = buf[i]
        BY <1>12, <4>1, <4>5
      <4> QED
        BY <4>2, <4>4, <4>6
    <3> QED
      BY <3>3, <3>4
  <2>3. T = Nat
    <3>1. 0 \in T /\ T \in SUBSET Nat
      BY <2>1
    <3> HIDE DEF T
    <3> QED
      BY <2>2, <3>1, Inductive
  <2>4. Good(size)
    <3>1. size \in T /\ size <= size
      BY <2>3, <1>0
    <3> QED
      BY <3>1
  <2> SUFFICES ASSUME NEW i \in 1 .. size PROVE Right(i)
    OBVIOUS
  <2>5. i \in Nat /\ i # 0 /\ i <= size
    BY <1>0
  <2> QED
    BY <1>9, <2>4, <2>5
<1>15. ASSUME \A i \in 1 .. size : Right(i), NEW n \in Nat PROVE Same(n)
  <2> SUFFICES ASSUME NEW i \in Nat, ncmp[n] < i, i <= ncmp[n + 1] PROVE buf[i - ncmp[n]] = buf[i]
    BY <1>12
  <2>1. /\ i \in 1 .. size /\ i - ncmp[n] \in 1 .. size
        /\ Around(pat, shift, i) = Around(pat, shift, i - ncmp[n])
    BY <1>13
  <2> QED
    BY <1>15, <2>1
<1>16. 1 .. first \subseteq 1 .. size /\ 0 .. size \subseteq Nat
  BY <1>7, <1>0
<1>17. SubSeq(buf, 1, first) = turn /\ Repeats(buf, first) <=> \A i \in 1 .. size : Right(i)
  BY <1>8, <1>10, <1>14, <1>15, <1>16
<1> QED
  BY <1>5, <1>6, <1>17 DEF size

=============================================================================
