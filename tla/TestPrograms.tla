---- MODULE TestPrograms ----
(***************************************************************************)
(* Every test of the suite gives back what it took.                        *)
(*                                                                         *)
(* A test is a sequence of calls (DiskTests, SystemTests).  Along it goes  *)
(* an account of what its user may have (may) and has for certain (must),  *)
(* of the file that fd is open on, of the blocks between which fd stands   *)
(* (lo, hi), the last block fd2 can stand at (top) and the length the work *)
(* file has at least (size).  A step of the account says, for one call,    *)
(* that it finds what it works on, that it stays within the file, and that *)
(* the clean-up of its failure gives back all the test may have.           *)
(*                                                                         *)
(* The lemma Programs: for every number of blocks and rounds, each test is *)
(* a path of such steps from an empty account to one with nothing left.    *)
(* TestRunnerProofs has what follows for the users that run the tests.     *)
(***************************************************************************)
EXTENDS TestRunner, SequenceTheorems, TLAPS

(***************************************************************************)
(* What a call does to what its test holds.                                *)
(***************************************************************************)
Fd(x)   == <<"fd", x>>
Entry(n) == <<"file", n>>
Mem(m)  == <<"mem", m>>
Ipc(w)  == <<"ipc", w>>
Kid     == <<"kid", "kid">>

Takes(c) ==
  IF c.op = "creat" THEN {Fd(c.on), Entry(c.file)} ELSE
  IF c.op \in {"open", "accept"} THEN {Fd(c.on)} ELSE
  IF c.op = "socket" THEN {Fd(x) : x \in c.on} ELSE
  IF c.op = "make" THEN {Entry(c.file)} ELSE
  IF c.op = "alloc" THEN {Mem(c.on)} ELSE
  IF c.op = "fork" THEN {Kid} ELSE
  IF c.op = "shmget" THEN {Ipc("shm")} ELSE
  IF c.op = "semget" THEN {Ipc("sem")} ELSE
  IF c.op = "semop" /\ c.on = "wait" THEN {Ipc("taken")} ELSE {}

Drops(c) ==
  IF c.op = "close" THEN {Fd(c.on)} ELSE
  IF c.op \in {"unlink", "remove"} THEN {Entry(c.file)} ELSE
  IF c.op = "free" THEN {Mem(c.on)} ELSE
  IF c.op = "wait" THEN {Kid} ELSE
  IF c.op = "semop" /\ c.on = "signal" THEN {Ipc("taken")} ELSE
  IF c.op = "clear" THEN {Ipc("shm"), Ipc("sem"), Ipc("taken")} ELSE {}

Fallible == {"creat", "open", "write", "read", "seek", "rewind", "make", "remove", "socket",
             "send", "receive", "alloc", "try", "shmat", "copy", "semctl", "semop"}

OnFile(a, c) == IF c.op \in {"creat", "open"} /\ c.on = "fd" THEN c.file ELSE a.file

MemNames == {"buf", "break", "cwd", "list", "array", "table"}
Names(p, c) ==
  /\ c.op \in {"creat", "open", "write", "read", "seek", "rewind", "close", "unlink", "remove", "make",
              "socket", "accept", "send", "receive", "alloc", "free", "try", "fork", "wait",
              "shmget", "semget", "shmat", "copy", "semctl", "semop", "clear"}
  /\ c.file \in p.uses \cup {"", "work"}
  /\ c.op \in {"creat", "make", "unlink", "remove"} => c.file \in p.uses
  /\ c.op = "make" => c.file # "temp"
  /\ c.op = "seek" => c.range \in Int /\ 1 <= c.range
  /\ c.op = "open" => c.file \in p.uses \cup {"work"}
  /\ c.op \in {"creat", "open", "write"} => c.on \in {"fd", "fd2"}
  /\ c.op \in {"read", "seek", "rewind"} => c.on = "fd"
  /\ c.op = "accept" => c.on \notin {"fd", "fd2"}
  /\ c.op = "socket" => c.on \cap {"fd", "fd2"} = {}
  /\ c.op = "alloc" => c.on \in MemNames
  /\ c.op \in {"shmget", "semget", "semop"} => p.ipc
  /\ c.op = "semop" => c.on \in {"wait", "signal"}
\* What the clean-up after a failure of the call gives back.
CleansUp(p, a, c) ==
  /\ Kid \in a.may => c.op = "wait"
  /\ c.op \in Fallible => (\A w : Ipc(w) \in a.may => Clear \in Range(c.undo))
  /\ c.op \in Fallible \ p.loose => (\A x : Fd(x) \in a.may => Close(x) \in Range(c.undo))
\* The call finds what it works on, as long as nothing has failed.
Finds(a, c) ==
  /\ c.op = "open" => c.file = "work" \/ Entry(c.file) \in a.must
  /\ c.op = "remove" => Entry(c.file) \in a.must
  /\ c.op = "make" => Entry(c.file) \notin a.may
  /\ c.op = "read" => /\ Fd("fd") \in a.must
                      /\ \/ a.file = "work" /\ a.hi < Blocks
                         \/ a.file = "temp" /\ Entry("temp") \in a.must /\ a.hi < a.size
  /\ c.op \in {"write", "send", "receive"} => Fd(c.on) \in a.must
  /\ c.op \in {"shmat", "copy"} => Ipc("shm") \in a.must
  /\ c.op \in {"semctl", "semop"} => Ipc("sem") \in a.must
  /\ c.op = "semget" => Ipc("shm") \in a.may
  /\ c.op = "shmget" => Ipc("shm") \notin a.may
  /\ c.op = "semop" /\ c.on = "wait" => Ipc("taken") \notin a.may
Bounded(b) ==
  /\ b.lo \in Int /\ b.hi \in 0 .. Blocks + 1 /\ b.top \in 0 .. Blocks + 1 /\ b.size \in Int
  /\ Kid \notin b.must
\* Where the descriptors may stand after the call, and how long the file is.
Restarts(c, fd) == c.op \in {"creat", "open", "rewind"} /\ c.on = fd
Advances(c, fd)   == c.op \in {"read", "write"} /\ c.on = fd
Stands(a, c, b) ==
  IF Restarts(c, "fd") THEN b.lo <= 0 /\ 0 <= b.hi ELSE
  IF c.op = "seek" THEN b.lo <= 0 /\ c.range - 1 <= b.hi ELSE
  IF Advances(c, "fd") THEN b.lo <= a.lo + 1 /\ a.hi + 1 <= b.hi
  ELSE b.lo <= a.lo /\ a.hi <= b.hi
Stands2(a, c, b) ==
  IF Restarts(c, "fd2") THEN 0 <= b.top ELSE
  IF Advances(c, "fd2") THEN a.top + 1 <= b.top ELSE a.top <= b.top
Sized(a, c, b) ==
  IF c.op = "creat" /\ c.file = "temp" THEN b.size <= 0
  ELSE b.size <= a.size \/ (c.op = "write" /\ c.on = "fd" /\ a.file = "temp" /\ b.size <= a.lo + 1)
After(a, c, b) ==
  /\ (a.may \cup Takes(c)) \ Drops(c) \subseteq b.may
  /\ b.must \subseteq (a.must \cup Takes(c)) \ Drops(c)
  /\ b.file = OnFile(a, c) /\ Stands(a, c, b) /\ Stands2(a, c, b) /\ Sized(a, c, b)
Step(p, a, c, b) == Names(p, c) /\ CleansUp(p, a, c) /\ Finds(a, c) /\ After(a, c, b) /\ Bounded(b)

(***************************************************************************)
(* A chain of abstract states along a sequence of calls.                   *)
(***************************************************************************)
Chain(p, q, A) == \A i \in 1 .. Len(q) : Step(p, A[i], q[i], A[i + 1])
IsSequence(q) == \E S : q \in Seq(S)
Path(p, q, a, b) ==
  /\ Bounded(a) /\ IsSequence(q)
  /\ \E A : A[1] = a /\ A[Len(q) + 1] = b /\ Chain(p, q, A)

\* Two sequences have a set of elements in common.
LEMMA CommonSet ==
  ASSUME NEW q, NEW r, IsSequence(q), IsSequence(r)
  PROVE  \E S : q \in Seq(S) /\ r \in Seq(S)
<1>1. PICK S : q \in Seq(S)
  BY DEF IsSequence
<1>2. PICK T : r \in Seq(T)
  BY DEF IsSequence
<1>3. q \in Seq(S \cup T) /\ r \in Seq(S \cup T)
  BY <1>1, <1>2, SeqMonotonic
<1> QED
  BY <1>3

\* A function on 1 .. n is a sequence of its values.
LEMMA FunctionIsSequence ==
  ASSUME NEW q, NEW n \in Nat, NEW S, q \in [1 .. n -> S]
  PROVE  q \in Seq(S) /\ Len(q) = n
<1>1. q \in Seq(S)
  BY SeqDef
<1>2. DOMAIN q = 1 .. n /\ DOMAIN q = 1 .. Len(q) /\ Len(q) \in Nat
  BY <1>1, LenProperties
<1> QED
  BY <1>1, <1>2

\* One call.
LEMMA PathCall ==
  ASSUME NEW p, NEW a, NEW b, NEW c, Bounded(a), Step(p, a, c, b)
  PROVE  Path(p, <<c>>, a, b)
<1> DEFINE A == [i \in 1 .. 2 |-> IF i = 1 THEN a ELSE b]
<1>1. A[1] = a /\ A[2] = b
  OBVIOUS
<1> HIDE DEF A
<1>2. Len(<<c>>) = 1 /\ Len(<<c>>) + 1 = 2 /\ <<c>> \in Seq({c}) /\ <<c>>[1] = c
  OBVIOUS
<1>3. Chain(p, <<c>>, A)
  BY <1>1, <1>2 DEF Chain
<1> QED
  BY <1>1, <1>2, <1>3 DEF Path, IsSequence

\* One sequence of calls after another.
LEMMA PathConcat ==
  ASSUME NEW p, NEW q, NEW r, NEW a, NEW b, NEW c, Path(p, q, a, b), Path(p, r, b, c)
  PROVE  Path(p, q \o r, a, c)
<1> DEFINE m == Len(q)
           n == Len(r)
<1>1. PICK A : A[1] = a /\ A[m + 1] = b /\ Chain(p, q, A)
  BY DEF Path
<1>2. PICK B : B[1] = b /\ B[n + 1] = c /\ Chain(p, r, B)
  BY DEF Path
<1>3. PICK S : q \in Seq(S) /\ r \in Seq(S)
  BY CommonSet DEF Path
<1>4. m \in Nat /\ n \in Nat
  BY <1>3, LenProperties
<1>5. /\ q \o r \in Seq(S) /\ Len(q \o r) = m + n
      /\ \A i \in 1 .. m + n : (q \o r)[i] = IF i <= m THEN q[i] ELSE r[i - m]
  BY <1>3, ConcatProperties
<1> DEFINE C == [i \in 1 .. m + n + 1 |-> IF i <= m + 1 THEN A[i] ELSE B[i - m]]
<1> HIDE DEF m, n
<1>6. C[1] = a /\ C[m + n + 1] = c
  BY <1>1, <1>2, <1>4
<1>7. ASSUME NEW i \in 1 .. m PROVE Step(p, C[i], (q \o r)[i], C[i + 1])
  <2>1. C[i] = A[i] /\ C[i + 1] = A[i + 1] /\ (q \o r)[i] = q[i]
    BY <1>4, <1>5
  <2>2. Step(p, A[i], q[i], A[i + 1])
    BY <1>1, <1>4 DEF Chain, m
  <2> QED
    BY <2>1, <2>2
<1>8. ASSUME NEW i \in m + 1 .. m + n PROVE Step(p, C[i], (q \o r)[i], C[i + 1])
  <2>1. i - m \in 1 .. n /\ (i - m) + 1 = (i + 1) - m
    BY <1>4
  <2>2. (q \o r)[i] = r[i - m]
    BY <1>4, <1>5
  <2>3. C[i + 1] = B[(i - m) + 1]
    BY <1>4, <2>1
  <2>4. C[i] = B[i - m]
    <3>1. CASE i = m + 1
      <4>1. C[i] = A[m + 1] /\ i - m = 1
        BY <1>4, <3>1
      <4> QED
        BY <1>1, <1>2, <4>1
    <3>2. CASE i # m + 1
      BY <1>4, <3>2
    <3> QED
      BY <3>1, <3>2
  <2>5. Step(p, B[i - m], r[i - m], B[(i - m) + 1])
    BY <1>2, <2>1 DEF Chain, n
  <2> QED
    BY <2>2, <2>3, <2>4, <2>5
<1> HIDE DEF C
<1>9. Chain(p, q \o r, C)
  <2>1. \A i \in 1 .. m + n : i \in 1 .. m \/ i \in m + 1 .. m + n
    BY <1>4
  <2> QED
    BY <1>5, <1>7, <1>8, <2>1 DEF Chain
<1>10. Bounded(a) /\ IsSequence(q \o r)
  BY <1>5 DEF Path, IsSequence
<1> QED
  BY <1>5, <1>6, <1>9, <1>10 DEF Path

\* What is left after the first call.
LEMMA PathFirst ==
  ASSUME NEW p, NEW q, NEW a, NEW b, Path(p, q, a, b), q # <<>>
  PROVE  \E s : Step(p, a, Head(q), s) /\ Path(p, Tail(q), s, b)
<1> DEFINE n == Len(q)
<1>1. PICK A : A[1] = a /\ A[n + 1] = b /\ Chain(p, q, A)
  BY DEF Path
<1>2. PICK S : q \in Seq(S)
  BY DEF Path, IsSequence
<1>3. n \in Nat /\ n >= 1 /\ Head(q) = q[1]
  BY <1>2, EmptySeq
<1>4. Tail(q) \in Seq(S) /\ Len(Tail(q)) = n - 1 /\ \A i \in 1 .. n - 1 : Tail(q)[i] = q[i + 1]
  BY <1>2, HeadTailProperties
<1>5. \A i \in 1 .. n : Step(p, A[i], q[i], A[i + 1])
  BY <1>1 DEF Chain
<1> HIDE DEF n
<1> DEFINE B == [i \in 1 .. n |-> A[i + 1]]
<1>6. B[1] = A[2] /\ B[n] = b /\ \A i \in 1 .. n - 1 : B[i] = A[i + 1] /\ B[i + 1] = A[(i + 1) + 1]
  BY <1>1, <1>3
<1> HIDE DEF B
<1>7. Chain(p, Tail(q), B)
  BY <1>3, <1>4, <1>5, <1>6 DEF Chain
<1>8. Step(p, a, Head(q), A[2])
  BY <1>1, <1>3, <1>5
<1>9. Path(p, Tail(q), A[2], b)
  <2>1. Bounded(A[2])
    BY <1>8 DEF Step
  <2>2. B[1] = A[2] /\ B[Len(Tail(q)) + 1] = b
    BY <1>3, <1>4, <1>6
  <2> QED
    BY <1>4, <1>7, <2>1, <2>2 DEF Path, IsSequence
<1> QED
  BY <1>8, <1>9

\* The end of a chain.
LEMMA PathEmpty ==
  ASSUME NEW p, NEW a, NEW b, Path(p, <<>>, a, b)
  PROVE  a = b
BY DEF Path

\* A call put in front.
LEMMA PathPrefix ==
  ASSUME NEW p, NEW q, NEW a, NEW b, NEW s, NEW c, Bounded(a), Step(p, a, c, s), Path(p, q, s, b)
  PROVE  Path(p, <<c>> \o q, a, b)
BY PathCall, PathConcat

\* Two, three or four calls.
LEMMA PathTwo ==
  ASSUME NEW p, NEW a, NEW s, NEW b, NEW c, NEW d, Bounded(a),
         Step(p, a, c, s),
         Step(p, s, d, b)
  PROVE  Path(p, <<c, d>>, a, b)
<1> DEFINE A == [i \in 1 .. 3 |-> IF i = 1 THEN a ELSE IF i = 2 THEN s ELSE b]
           q == <<c, d>>
<1>1. A[1] = a /\ A[2] = s /\ A[3] = b
  OBVIOUS
<1>2. q \in Seq({c, d}) /\ Len(q) = 2 /\ q[1] = c /\ q[2] = d
  OBVIOUS
<1> HIDE DEF A, q
<1>3. 1 .. 2 = {1, 2} /\ 1 + 1 = 2 /\ 2 + 1 = 3
  OBVIOUS
<1>4. Chain(p, q, A)
  BY <1>1, <1>2, <1>3 DEF Chain
<1> QED
  BY <1>1, <1>2, <1>3, <1>4 DEF Path, IsSequence, q

\* Three calls.
LEMMA PathThree ==
  ASSUME NEW p, NEW a, NEW s, NEW t, NEW b, NEW c, NEW d, NEW e, Bounded(a),
         Step(p, a, c, s),
         Step(p, s, d, t),
         Step(p, t, e, b)
  PROVE  Path(p, <<c, d, e>>, a, b)
<1> DEFINE A == [i \in 1 .. 4 |-> IF i = 1 THEN a ELSE IF i = 2 THEN s ELSE IF i = 3 THEN t ELSE b]
           q == <<c, d, e>>
<1>1. A[1] = a /\ A[2] = s /\ A[3] = t /\ A[4] = b
  OBVIOUS
<1>2. q \in Seq({c, d, e}) /\ Len(q) = 3 /\ q[1] = c /\ q[2] = d /\ q[3] = e
  OBVIOUS
<1> HIDE DEF A, q
<1>3. 1 .. 3 = {1, 2, 3} /\ 1 + 1 = 2 /\ 2 + 1 = 3 /\ 3 + 1 = 4
  OBVIOUS
<1>4. Chain(p, q, A)
  BY <1>1, <1>2, <1>3 DEF Chain
<1> QED
  BY <1>1, <1>2, <1>3, <1>4 DEF Path, IsSequence, q

\* Four calls.
LEMMA PathFour ==
  ASSUME NEW p, NEW a, NEW s, NEW t, NEW v, NEW b, NEW c, NEW d, NEW e, NEW f, Bounded(a),
         Step(p, a, c, s),
         Step(p, s, d, t),
         Step(p, t, e, v),
         Step(p, v, f, b)
  PROVE  Path(p, <<c, d, e, f>>, a, b)
<1> DEFINE A == [i \in 1 .. 5 |-> IF i = 1 THEN a ELSE IF i = 2 THEN s ELSE IF i = 3 THEN t ELSE IF i = 4 THEN v ELSE b]
           q == <<c, d, e, f>>
<1>1. A[1] = a /\ A[2] = s /\ A[3] = t /\ A[4] = v /\ A[5] = b
  OBVIOUS
<1>2. q \in Seq({c, d, e, f}) /\ Len(q) = 4 /\ q[1] = c /\ q[2] = d /\ q[3] = e /\ q[4] = f
  OBVIOUS
<1> HIDE DEF A, q
<1>3. 1 .. 4 = {1, 2, 3, 4} /\ 1 + 1 = 2 /\ 2 + 1 = 3 /\ 3 + 1 = 4 /\ 4 + 1 = 5
  OBVIOUS
<1>4. Chain(p, q, A)
  BY <1>1, <1>2, <1>3 DEF Chain
<1> QED
  BY <1>1, <1>2, <1>3, <1>4 DEF Path, IsSequence, q

\* Products and divisions of natural numbers.
LEMMA Product ==
  ASSUME NEW x \in Nat, NEW y \in Nat
  PROVE  x * y \in Nat /\ (x = 0 => x * y = 0) /\ (x >= 1 => x * y >= y) /\ (x + 1) * y = (x * y) + y
OBVIOUS

\* Quotient and remainder of x by m make x again.
LEMMA Division ==
  ASSUME NEW x \in Nat, NEW m \in Nat \ {0}
  PROVE  /\ x \div m \in Nat /\ x % m \in 0 .. m - 1
         /\ x = ((x \div m) * m) + (x % m)
OBVIOUS

\* The quotient and the remainder of q * m + r by m.
LEMMA DivisionUnique ==
  ASSUME NEW q \in Nat, NEW m \in Nat \ {0}, NEW r \in 0 .. m - 1
  PROVE  ((q * m) + r) \div m = q /\ ((q * m) + r) % m = r
OBVIOUS

\* Rounds of a loop: each leads from one state to the next.
LEMMA PathRounds ==
  ASSUME NEW p, NEW n \in Nat, NEW body, NEW S, Bounded(S[0]), IsSequence(body), body # <<>>,
         \A i \in 1 .. n : Path(p, body, S[i - 1], S[i])
  PROVE  Path(p, Rounds(n, body), S[0], S[n])
<1> DEFINE m == Len(body)
           W == [i \in 0 .. n - 1 |-> CHOOSE A : A[1] = S[i] /\ A[m + 1] = S[i + 1] /\ Chain(p, body, A)]
<1>1. ASSUME NEW i \in 0 .. n - 1
      PROVE  W[i][1] = S[i] /\ W[i][m + 1] = S[i + 1] /\ Chain(p, body, W[i])
  <2>1. i + 1 \in 1 .. n /\ (i + 1) - 1 = i
    OBVIOUS
  <2>2. \E A : A[1] = S[i] /\ A[m + 1] = S[i + 1] /\ Chain(p, body, A)
    BY <2>1 DEF Path
  <2> QED
    BY <2>2
<1>2. PICK T : body \in Seq(T)
  BY DEF IsSequence
<1>3. m \in Nat /\ m >= 1
  BY <1>2, EmptySeq
<1> HIDE DEF m, W
<1> DEFINE K == n * m
           Q(k) == (k - 1) \div m
           R(k) == (k - 1) % m
<1>4. K \in Nat /\ (n = 0 => K = 0)
  BY <1>3, Product
<1>a. ASSUME NEW k \in Nat \ {0}
      PROVE  Q(k) \in Nat /\ R(k) \in 0 .. m - 1 /\ k - 1 = (Q(k) * m) + R(k)
  <2>1. k - 1 \in Nat /\ m \in Nat \ {0}
    BY <1>3
  <2> QED
    BY <2>1, Division
<1>b. ASSUME NEW k \in Nat, NEW x \in Nat, NEW y \in 0 .. m - 1, k - 1 = (x * m) + y
      PROVE  Q(k) = x /\ R(k) = y
  BY <1>3, <1>b, DivisionUnique
<1> HIDE DEF K, Q, R
<1>5. ASSUME NEW k \in 1 .. K
      PROVE  /\ Q(k) \in 0 .. n - 1 /\ R(k) \in 0 .. m - 1 /\ k - 1 = (Q(k) * m) + R(k)
             /\ R(k) + 1 < m => Q(k + 1) = Q(k) /\ R(k + 1) = R(k) + 1
             /\ R(k) + 1 = m => k = (Q(k) + 1) * m /\ Q(k + 1) = Q(k) + 1 /\ R(k + 1) = 0
  <2>1. Q(k) \in Nat /\ R(k) \in 0 .. m - 1 /\ k - 1 = (Q(k) * m) + R(k)
    BY <1>4, <1>a
  <2> DEFINE x == Q(k)
             y == R(k)
  <2>2. (x + 1) * m = (x * m) + m /\ x * m \in Nat
    BY <1>3, <2>1, Product
  <2>3. x < n
    <3>1. SUFFICES ASSUME x >= n PROVE FALSE
      BY <2>1
    <3>2. x - n \in Nat /\ (x - n) * m \in Nat
      BY <1>3, <2>1, <3>1, Product
    <3>3. x * m = K + ((x - n) * m)
      BY <1>3, <2>1 DEF K
    <3> QED
      BY <1>4, <2>1, <3>2, <3>3
  <2>4. ASSUME y + 1 < m PROVE Q(k + 1) = x /\ R(k + 1) = y + 1
    <3>1. (k + 1) - 1 = (x * m) + (y + 1) /\ y + 1 \in 0 .. m - 1
      BY <1>3, <2>1, <2>2, <2>4
    <3> QED
      BY <1>4, <2>1, <3>1, <1>b
  <2>5. ASSUME y + 1 = m PROVE k = (x + 1) * m /\ Q(k + 1) = x + 1 /\ R(k + 1) = 0
    <3> DEFINE xm == x * m
               zm == (x + 1) * m
    <3>1. k - 1 = xm + y /\ zm = xm + m /\ xm \in Nat /\ y \in Nat
      BY <2>1, <2>2
    <3> HIDE DEF xm, zm
    <3>2. k = zm /\ (k + 1) - 1 = zm + 0
      BY <1>3, <1>4, <2>5, <3>1
    <3>3. 0 \in 0 .. m - 1 /\ x + 1 \in Nat /\ k + 1 \in Nat
      BY <1>3, <1>4, <2>1
    <3>4. Q(k + 1) = x + 1 /\ R(k + 1) = 0
      BY <3>2, <3>3, <1>b DEF zm
    <3> QED
      BY <3>2, <3>4 DEF zm
  <2> QED
    BY <2>1, <2>3, <2>4, <2>5
<1> DEFINE C == [k \in 1 .. K + 1 |-> IF k = K + 1 THEN S[n] ELSE W[Q(k)][R(k) + 1]]
           q == Rounds(n, body)
<1>6. q \in Seq(T) /\ Len(q) = K /\ \A k \in 1 .. K : q[k] = body[R(k) + 1]
  <2>1. q = [k \in 1 .. K |-> body[R(k) + 1]]
    BY DEF Rounds, K, R, m
  <2>2. \A k \in 1 .. K : body[R(k) + 1] \in T
    <3> TAKE k \in 1 .. K
    <3>1. R(k) + 1 \in 1 .. m
      BY <1>3, <1>5
    <3> QED
      BY <1>2, <3>1, ElementOfSeq DEF m
  <2> HIDE DEF q
  <2>3. q \in [1 .. K -> T]
    BY <2>1, <2>2
  <2>4. q \in Seq(T) /\ Len(q) = K
    BY <1>4, <2>3, FunctionIsSequence
  <2> QED
    BY <2>1, <2>4
<1> HIDE DEF q
<1>7. C[1] = S[0] /\ C[K + 1] = S[n]
  <2>1. C[K + 1] = S[n]
    BY <1>4
  <2>2. CASE n = 0
    BY <1>4, <2>1, <2>2
  <2>3. CASE n >= 1
    <3>1. K >= 1
      BY <1>3, <2>3, Product DEF K
    <3>2. 1 - 1 = (0 * m) + 0 /\ 0 \in 0 .. m - 1
      BY <1>3
    <3>3. Q(1) = 0 /\ R(1) = 0
      BY <3>2, <1>b
    <3>4. C[1] = W[0][1]
      BY <1>4, <3>1, <3>3
    <3> QED
      BY <1>1, <2>1, <2>3, <3>4
  <2> QED
    BY <2>2, <2>3
<1>8. ASSUME NEW k \in 1 .. K PROVE Step(p, C[k], q[k], C[k + 1])
  <2>1. Q(k) \in 0 .. n - 1 /\ R(k) \in 0 .. m - 1 /\ R(k) + 1 \in 1 .. m
    BY <1>3, <1>5
  <2>2. Step(p, W[Q(k)][R(k) + 1], body[R(k) + 1], W[Q(k)][(R(k) + 1) + 1])
    BY <1>1, <2>1 DEF Chain, m
  <2>3. C[k] = W[Q(k)][R(k) + 1] /\ q[k] = body[R(k) + 1]
    BY <1>4, <1>6
  <2>4. C[k + 1] = W[Q(k)][(R(k) + 1) + 1]
    <3>1. CASE R(k) + 1 < m
      <4>1. Q(k + 1) = Q(k) /\ R(k + 1) = R(k) + 1
        BY <1>5, <3>1
      <4>2. k # K
        <5> SUFFICES ASSUME k = K PROVE FALSE
          OBVIOUS
        <5>1. (K + 1) - 1 = (n * m) + 0 /\ 0 \in 0 .. m - 1
          BY <1>3, <1>4 DEF K
        <5>2. R(K + 1) = 0
          BY <1>4, <5>1, <1>b
        <5> QED
          BY <2>1, <4>1, <5>2
      <4> QED
        BY <1>4, <4>1, <4>2
    <3>2. CASE R(k) + 1 = m
      <4>1. k = (Q(k) + 1) * m /\ Q(k + 1) = Q(k) + 1 /\ R(k + 1) = 0
        BY <1>5, <3>2
      <4>2. CASE k = K
        <5>1. (K + 1) - 1 = (n * m) + 0 /\ 0 \in 0 .. m - 1
          BY <1>3, <1>4 DEF K
        <5>2. Q(K + 1) = n
          BY <1>4, <5>1, <1>b
        <5>3. C[k + 1] = S[Q(k) + 1]
          BY <1>4, <4>1, <4>2, <5>2
        <5> QED
          BY <1>1, <2>1, <3>2, <5>3
      <4>3. CASE k # K
        <5>1. C[k + 1] = W[Q(k) + 1][1] /\ Q(k) + 1 \in 0 .. n - 1
          BY <1>4, <1>5, <4>1, <4>3
        <5> QED
          BY <1>1, <2>1, <3>2, <5>1
      <4> QED
        BY <4>2, <4>3
    <3> QED
      BY <1>3, <2>1, <3>1, <3>2
  <2> QED
    BY <2>2, <2>3, <2>4
<1> HIDE DEF C
<1>9. Chain(p, q, C)
  BY <1>6, <1>8 DEF Chain
<1> QED
  BY <1>6, <1>7, <1>9 DEF Path, IsSequence, q

(***************************************************************************)
(* One lemma for each call: what it takes to go from state a to state b.   *)
(***************************************************************************)
Has(a, taken, dropped, b) ==
  (a.may \cup taken) \ dropped \subseteq b.may /\ b.must \subseteq (a.must \cup taken) \ dropped
Keeps(a, b) ==
  b.file = a.file /\ b.lo <= a.lo /\ a.hi <= b.hi /\ a.top <= b.top /\ b.size <= a.size
Undoes(p, a, op, undo) ==
  /\ Kid \notin a.may
  /\ (\A w : Ipc(w) \notin a.may) \/ Clear \in Range(undo)
  /\ op \in p.loose \/ \A x : Fd(x) \in a.may => Close(x) \in Range(undo)

\* What makes close() a step.
LEMMA StepClose ==
  ASSUME NEW p, NEW a, NEW b, NEW fd, Bounded(b),
         Kid \notin a.may,
         Has(a, {}, {Fd(fd)}, b),
         Keeps(a, b)
  PROVE  Step(p, a, Close(fd), b)
BY DEF Step, Names, CleansUp, Finds, After, Takes, Drops, Stands, Stands2, Sized, OnFile, Restarts,
   Advances, Call, Fallible, Has, Keeps, Close

\* What makes unlink() a step.
LEMMA StepUnlink ==
  ASSUME NEW p, NEW a, NEW b, NEW f, Bounded(b),
         f \in p.uses,
         Kid \notin a.may,
         Has(a, {}, {Entry(f)}, b),
         Keeps(a, b)
  PROVE  Step(p, a, Unlink(f), b)
BY DEF Step, Names, CleansUp, Finds, After, Takes, Drops, Stands, Stands2, Sized, OnFile, Restarts,
   Advances, Call, Fallible, Has, Keeps, Unlink

\* What makes free() and the like a step.
LEMMA StepFree ==
  ASSUME NEW p, NEW a, NEW b, NEW x, Bounded(b),
         Kid \notin a.may,
         Has(a, {}, {Mem(x)}, b),
         Keeps(a, b)
  PROVE  Step(p, a, Free(x), b)
BY DEF Step, Names, CleansUp, Finds, After, Takes, Drops, Stands, Stands2, Sized, OnFile, Restarts,
   Advances, Call, Fallible, Has, Keeps, Free

\* What makes clear_ipc() a step.
LEMMA StepClear ==
  ASSUME NEW p, NEW a, NEW b, Bounded(b),
         Kid \notin a.may,
         Has(a, {}, {Ipc("shm"), Ipc("sem"), Ipc("taken")}, b),
         Keeps(a, b)
  PROVE  Step(p, a, Clear, b)
BY DEF Step, Names, CleansUp, Finds, After, Takes, Drops, Stands, Stands2, Sized, OnFile, Restarts,
   Advances, Call, Fallible, Has, Keeps, Clear

\* What makes creat() for fd a step.
LEMMA StepCreat ==
  ASSUME NEW p, NEW a, NEW b, NEW f, NEW u, Bounded(b),
         f \in p.uses,
         Undoes(p, a, "creat", u),
         Has(a, {Fd("fd"), Entry(f)}, {}, b),
         b.file = f,
         b.lo <= 0,
         0 <= b.hi,
         a.top <= b.top,
         b.size <= 0,
         b.size <= a.size
  PROVE  Step(p, a, Creat("fd", f, u), b)
BY DEF Step, Names, CleansUp, Finds, After, Takes, Drops, Stands, Stands2, Sized, OnFile, Restarts,
   Advances, Call, Fallible, Has, Keeps, Creat, Undoes

\* What makes creat() for fd2 a step.
LEMMA StepCreat2 ==
  ASSUME NEW p, NEW a, NEW b, NEW u, Bounded(b),
         "temp" \in p.uses,
         Undoes(p, a, "creat", u),
         Has(a, {Fd("fd2"), Entry("temp")}, {}, b),
         b.file = a.file,
         b.lo <= a.lo,
         a.hi <= b.hi,
         0 <= b.top,
         b.size <= 0
  PROVE  Step(p, a, Creat("fd2", "temp", u), b)
BY DEF Step, Names, CleansUp, Finds, After, Takes, Drops, Stands, Stands2, Sized, OnFile, Restarts,
   Advances, Call, Fallible, Has, Keeps, Creat, Undoes

\* What makes open() a step.
LEMMA StepOpen ==
  ASSUME NEW p, NEW a, NEW b, NEW f, NEW u, Bounded(b),
         f = "work" \/ (f \in p.uses /\ Entry(f) \in a.must),
         Undoes(p, a, "open", u),
         Has(a, {Fd("fd")}, {}, b),
         b.file = f,
         b.lo <= 0,
         0 <= b.hi,
         a.top <= b.top,
         b.size <= a.size
  PROVE  Step(p, a, Open("fd", f, u), b)
BY DEF Step, Names, CleansUp, Finds, After, Takes, Drops, Stands, Stands2, Sized, OnFile, Restarts,
   Advances, Call, Fallible, Has, Keeps, Open, Undoes

\* What makes write() on fd a step.
LEMMA StepWrite ==
  ASSUME NEW p, NEW a, NEW b, NEW u, Bounded(b),
         Undoes(p, a, "write", u),
         Has(a, {}, {}, b), Fd("fd") \in a.must,
         b.file = a.file,
         b.lo <= a.lo + 1,
         a.hi + 1 <= b.hi,
         a.top <= b.top,
         b.size <= a.size \/ (a.file = "temp" /\ b.size <= a.lo + 1)
  PROVE  Step(p, a, Write("fd", u), b)
BY DEF Step, Names, CleansUp, Finds, After, Takes, Drops, Stands, Stands2, Sized, OnFile, Restarts,
   Advances, Call, Fallible, Has, Keeps, Write, Undoes

\* What makes write() on fd2 a step.
LEMMA StepWrite2 ==
  ASSUME NEW p, NEW a, NEW b, NEW u, Bounded(b),
         Undoes(p, a, "write", u),
         Has(a, {}, {}, b), Fd("fd2") \in a.must,
         b.file = a.file,
         b.lo <= a.lo,
         a.hi <= b.hi,
         a.top + 1 <= b.top,
         b.size <= a.size
  PROVE  Step(p, a, Write("fd2", u), b)
BY DEF Step, Names, CleansUp, Finds, After, Takes, Drops, Stands, Stands2, Sized, OnFile, Restarts,
   Advances, Call, Fallible, Has, Keeps, Write, Undoes

\* What makes read() a step.
LEMMA StepRead ==
  ASSUME NEW p, NEW a, NEW b, NEW u, Bounded(b),
         Undoes(p, a, "read", u),
         Has(a, {}, {}, b),
         Fd("fd") \in a.must,
         (a.file = "work" /\ a.hi < Blocks) \/ (a.file = "temp" /\ Entry("temp") \in a.must /\ a.hi < a.size),
         b.file = a.file,
         b.lo <= a.lo + 1,
         a.hi + 1 <= b.hi,
         a.top <= b.top,
         b.size <= a.size
  PROVE  Step(p, a, Read("fd", u), b)
BY DEF Step, Names, CleansUp, Finds, After, Takes, Drops, Stands, Stands2, Sized, OnFile, Restarts,
   Advances, Call, Fallible, Has, Keeps, Read, Undoes

\* What makes lseek() to a block a step.
LEMMA StepSeek ==
  ASSUME NEW p, NEW a, NEW b, NEW n \in Int, NEW u, Bounded(b),
         1 <= n,
         Undoes(p, a, "seek", u),
         Has(a, {}, {}, b),
         b.file = a.file,
         b.lo <= 0,
         n - 1 <= b.hi,
         a.top <= b.top,
         b.size <= a.size
  PROVE  Step(p, a, Seek("fd", n, u), b)
BY DEF Step, Names, CleansUp, Finds, After, Takes, Drops, Stands, Stands2, Sized, OnFile, Restarts,
   Advances, Call, Fallible, Has, Keeps, Seek, Undoes

\* What makes lseek() to the start a step.
LEMMA StepRewind ==
  ASSUME NEW p, NEW a, NEW b, NEW u, Bounded(b),
         Undoes(p, a, "rewind", u),
         Has(a, {}, {}, b),
         b.file = a.file,
         b.lo <= 0,
         0 <= b.hi,
         a.top <= b.top,
         b.size <= a.size
  PROVE  Step(p, a, Rewind("fd", u), b)
BY DEF Step, Names, CleansUp, Finds, After, Takes, Drops, Stands, Stands2, Sized, OnFile, Restarts,
   Advances, Call, Fallible, Has, Keeps, Rewind, Undoes

\* What makes link() or mkfifo() a step.
LEMMA StepMake ==
  ASSUME NEW p, NEW a, NEW b, NEW f, NEW u, Bounded(b),
         f \in p.uses, f # "temp",
         Entry(f) \notin a.may,
         Undoes(p, a, "make", u),
         Has(a, {Entry(f)}, {}, b),
         Keeps(a, b)
  PROVE  Step(p, a, Make(f, u), b)
BY DEF Step, Names, CleansUp, Finds, After, Takes, Drops, Stands, Stands2, Sized, OnFile, Restarts,
   Advances, Call, Fallible, Has, Keeps, Make, Undoes

\* What makes unlink() that must find the name a step.
LEMMA StepUnlinkOrFail ==
  ASSUME NEW p, NEW a, NEW b, NEW f, NEW u, Bounded(b),
         f \in p.uses,
         Entry(f) \in a.must,
         Undoes(p, a, "remove", u),
         Has(a, {}, {Entry(f)}, b),
         Keeps(a, b)
  PROVE  Step(p, a, UnlinkOrFail(f, u), b)
BY DEF Step, Names, CleansUp, Finds, After, Takes, Drops, Stands, Stands2, Sized, OnFile, Restarts,
   Advances, Call, Fallible, Has, Keeps, UnlinkOrFail, Undoes

\* What makes socket() and the like a step.
LEMMA StepSocket ==
  ASSUME NEW p, NEW a, NEW b, NEW X, Bounded(b),
         X \cap {"fd", "fd2"} = {},
         Undoes(p, a, "socket", <<>>),
         Has(a, {Fd(x) : x \in X}, {}, b),
         Keeps(a, b)
  PROVE  Step(p, a, Socket(X), b)
BY DEF Step, Names, CleansUp, Finds, After, Takes, Drops, Stands, Stands2, Sized, OnFile, Restarts,
   Advances, Call, Fallible, Has, Keeps, Socket, Undoes

\* What makes fopen() a step.
LEMMA StepFopen ==
  ASSUME NEW p, NEW a, NEW b, NEW fd, NEW u, Bounded(b),
         {fd} \cap {"fd", "fd2"} = {},
         Undoes(p, a, "socket", u),
         Has(a, {Fd(x) : x \in {fd}}, {}, b),
         Keeps(a, b)
  PROVE  Step(p, a, Fopen(fd, u), b)
BY DEF Step, Names, CleansUp, Finds, After, Takes, Drops, Stands, Stands2, Sized, OnFile, Restarts,
   Advances, Call, Fallible, Has, Keeps, Fopen, Undoes

\* What makes accept() a step.
LEMMA StepAccept ==
  ASSUME NEW p, NEW a, NEW b, NEW fd, Bounded(b),
         fd \notin {"fd", "fd2"},
         Kid \notin a.may,
         Has(a, {Fd(fd)}, {}, b),
         Keeps(a, b)
  PROVE  Step(p, a, Accept(fd), b)
BY DEF Step, Names, CleansUp, Finds, After, Takes, Drops, Stands, Stands2, Sized, OnFile, Restarts,
   Advances, Call, Fallible, Has, Keeps, Accept

\* What makes write() to a pipe or socket a step.
LEMMA StepSend ==
  ASSUME NEW p, NEW a, NEW b, NEW fd, Bounded(b),
         Fd(fd) \in a.must,
         Undoes(p, a, "send", <<>>),
         Has(a, {}, {}, b),
         Keeps(a, b)
  PROVE  Step(p, a, Send(fd), b)
BY DEF Step, Names, CleansUp, Finds, After, Takes, Drops, Stands, Stands2, Sized, OnFile, Restarts,
   Advances, Call, Fallible, Has, Keeps, Send, Undoes

\* What makes read() from a pipe or socket a step.
LEMMA StepReceive ==
  ASSUME NEW p, NEW a, NEW b, NEW fd, Bounded(b),
         Fd(fd) \in a.must,
         Undoes(p, a, "receive", <<>>),
         Has(a, {}, {}, b),
         Keeps(a, b)
  PROVE  Step(p, a, Receive(fd), b)
BY DEF Step, Names, CleansUp, Finds, After, Takes, Drops, Stands, Stands2, Sized, OnFile, Restarts,
   Advances, Call, Fallible, Has, Keeps, Receive, Undoes

\* What makes malloc() and the like a step.
LEMMA StepAlloc ==
  ASSUME NEW p, NEW a, NEW b, NEW x, NEW u, Bounded(b),
         x \in MemNames,
         Undoes(p, a, "alloc", u),
         Has(a, {Mem(x)}, {}, b),
         Keeps(a, b)
  PROVE  Step(p, a, Alloc(x, u), b)
BY DEF Step, Names, CleansUp, Finds, After, Takes, Drops, Stands, Stands2, Sized, OnFile, Restarts,
   Advances, Call, Fallible, Has, Keeps, Alloc, Undoes

\* What makes a call that changes nothing a step.
LEMMA StepTry ==
  ASSUME NEW p, NEW a, NEW b, NEW u, Bounded(b),
         Undoes(p, a, "try", u),
         Has(a, {}, {}, b),
         Keeps(a, b)
  PROVE  Step(p, a, Try(u), b)
BY DEF Step, Names, CleansUp, Finds, After, Takes, Drops, Stands, Stands2, Sized, OnFile, Restarts,
   Advances, Call, Fallible, Has, Keeps, Try, Undoes

\* What makes fork() a step.
LEMMA StepFork ==
  ASSUME NEW p, NEW a, NEW b, Bounded(b),
         Kid \notin a.may,
         Has(a, {Kid}, {}, b),
         Keeps(a, b)
  PROVE  Step(p, a, Fork, b)
BY DEF Step, Names, CleansUp, Finds, After, Takes, Drops, Stands, Stands2, Sized, OnFile, Restarts,
   Advances, Call, Fallible, Has, Keeps, Fork

\* What makes wait() a step.
LEMMA StepWaitAll ==
  ASSUME NEW p, NEW a, NEW b, Bounded(b),
         Has(a, {}, {Kid}, b),
         Keeps(a, b)
  PROVE  Step(p, a, WaitAll, b)
BY DEF Step, Names, CleansUp, Finds, After, Takes, Drops, Stands, Stands2, Sized, OnFile, Restarts,
   Advances, Call, Fallible, Has, Keeps, WaitAll

\* What makes shmget() a step.
LEMMA StepShmGet ==
  ASSUME NEW p, NEW a, NEW b, Bounded(b),
         p.ipc,
         Ipc("shm") \notin a.may,
         Kid \notin a.may,
         Has(a, {Ipc("shm")}, {}, b),
         Keeps(a, b)
  PROVE  Step(p, a, ShmGet, b)
BY DEF Step, Names, CleansUp, Finds, After, Takes, Drops, Stands, Stands2, Sized, OnFile, Restarts,
   Advances, Call, Fallible, Has, Keeps, ShmGet

\* What makes semget() a step.
LEMMA StepSemGet ==
  ASSUME NEW p, NEW a, NEW b, Bounded(b),
         p.ipc,
         Ipc("shm") \in a.may,
         Kid \notin a.may,
         Has(a, {Ipc("sem")}, {}, b),
         Keeps(a, b)
  PROVE  Step(p, a, SemGet, b)
BY DEF Step, Names, CleansUp, Finds, After, Takes, Drops, Stands, Stands2, Sized, OnFile, Restarts,
   Advances, Call, Fallible, Has, Keeps, SemGet

\* What makes shmat() a step.
LEMMA StepShmAt ==
  ASSUME NEW p, NEW a, NEW b, Bounded(b),
         Ipc("shm") \in a.must,
         Undoes(p, a, "shmat", <<Clear>>),
         Has(a, {}, {}, b),
         Keeps(a, b)
  PROVE  Step(p, a, ShmAt, b)
BY DEF Step, Names, CleansUp, Finds, After, Takes, Drops, Stands, Stands2, Sized, OnFile, Restarts,
   Advances, Call, Fallible, Has, Keeps, ShmAt, Undoes

\* What makes a copy to or from the segment a step.
LEMMA StepMemcpy ==
  ASSUME NEW p, NEW a, NEW b, Bounded(b),
         Ipc("shm") \in a.must,
         Undoes(p, a, "copy", <<Clear, Segv>>),
         Has(a, {}, {}, b),
         Keeps(a, b)
  PROVE  Step(p, a, Memcpy, b)
BY DEF Step, Names, CleansUp, Finds, After, Takes, Drops, Stands, Stands2, Sized, OnFile, Restarts,
   Advances, Call, Fallible, Has, Keeps, Memcpy, Undoes

\* What makes semctl() a step.
LEMMA StepSemCtl ==
  ASSUME NEW p, NEW a, NEW b, Bounded(b),
         Ipc("sem") \in a.must,
         Undoes(p, a, "semctl", <<Clear>>),
         Has(a, {}, {}, b),
         Keeps(a, b)
  PROVE  Step(p, a, SemCtl, b)
BY DEF Step, Names, CleansUp, Finds, After, Takes, Drops, Stands, Stands2, Sized, OnFile, Restarts,
   Advances, Call, Fallible, Has, Keeps, SemCtl, Undoes

\* What makes semop() that takes the semaphore a step.
LEMMA StepSemWait ==
  ASSUME NEW p, NEW a, NEW b, Bounded(b),
         p.ipc,
         Ipc("sem") \in a.must,
         Ipc("taken") \notin a.may,
         Undoes(p, a, "semop", <<Clear>>),
         Has(a, {Ipc("taken")}, {}, b),
         Keeps(a, b)
  PROVE  Step(p, a, SemOp("wait"), b)
BY DEF Step, Names, CleansUp, Finds, After, Takes, Drops, Stands, Stands2, Sized, OnFile, Restarts,
   Advances, Call, Fallible, Has, Keeps, SemOp, Undoes

\* What makes semop() that gives it back a step.
LEMMA StepSemSignal ==
  ASSUME NEW p, NEW a, NEW b, Bounded(b),
         p.ipc,
         Ipc("sem") \in a.must,
         Undoes(p, a, "semop", <<Clear>>),
         Has(a, {}, {Ipc("taken")}, b),
         Keeps(a, b)
  PROVE  Step(p, a, SemOp("signal"), b)
BY DEF Step, Names, CleansUp, Finds, After, Takes, Drops, Stands, Stands2, Sized, OnFile, Restarts,
   Advances, Call, Fallible, Has, Keeps, SemOp, Undoes

(***************************************************************************)
(* The states that the tests go through.                                   *)
(***************************************************************************)
At(may, must, file, lo, hi, top, size) ==
  [may |-> may, must |-> must, file |-> file, lo |-> lo, hi |-> hi, top |-> top, size |-> size]
Far == Blocks + 1
Temp == Entry("temp")
Buffers == {{}, {Mem("buf")}}
\* Nothing is known any more but what may be left.
Ending(file, X) == At(X, {}, file, 0, Far, Far, 0)
Tame(a) == Bounded(a) /\ a.lo >= 0 /\ a.size >= 0 /\ Kid \notin a.may

\* Things of different kinds, or with different names, are different.
LEMMA Different ==
  /\ \A x, y : /\ Fd(x) # Entry(y) /\ Fd(x) # Mem(y) /\ Fd(x) # Ipc(y) /\ Entry(x) # Mem(y)
               /\ Entry(x) # Ipc(y) /\ Mem(x) # Ipc(y)
               /\ (Fd(x) = Fd(y) <=> x = y) /\ (Entry(x) = Entry(y) <=> x = y)
               /\ (Mem(x) = Mem(y) <=> x = y) /\ (Ipc(x) = Ipc(y) <=> x = y)
  /\ \A x : Fd(x) # Kid /\ Entry(x) # Kid /\ Mem(x) # Kid /\ Ipc(x) # Kid
BY DEF Fd, Entry, Mem, Ipc, Kid

\* The elements of short sequences.
LEMMA RangeOf ==
  /\ Range(<<>>) = {}
  /\ \A a : Range(<<a>>) = {a}
  /\ \A a, b : Range(<<a, b>>) = {a, b}
  /\ \A a, b, c : Range(<<a, b, c>>) = {a, b, c}
<1>1. Range(<<>>) = {}
  BY DEF Range
<1>2. ASSUME NEW a PROVE Range(<<a>>) = {a}
  BY DEF Range
<1>3. ASSUME NEW a, NEW b PROVE Range(<<a, b>>) = {a, b}
  <2>1. DOMAIN <<a, b>> = {1, 2} /\ <<a, b>>[1] = a /\ <<a, b>>[2] = b
    OBVIOUS
  <2> QED
    BY <2>1 DEF Range
<1>4. ASSUME NEW a, NEW b, NEW c PROVE Range(<<a, b, c>>) = {a, b, c}
  <2>1. /\ DOMAIN <<a, b, c>> = {1, 2, 3} /\ <<a, b, c>>[1] = a /\ <<a, b, c>>[2] = b
        /\ <<a, b, c>>[3] = c
    OBVIOUS
  <2> QED
    BY <2>1 DEF Range
<1> QED
  BY <1>1, <1>2, <1>3, <1>4

\* The last calls of a test, which give back what it has.
LEMMA Ends ==
  ASSUME NEW p, NEW a, Tame(a), NEW X, Kid \notin X
  PROVE  /\ Tame(Ending(a.file, X)) /\ Ending(a.file, X).file = a.file /\ Ending(a.file, X).may = X
         /\ \A x : a.may \ {Fd(x)} \subseteq X => Step(p, a, Close(x), Ending(a.file, X))
         /\ \A f \in p.uses : a.may \ {Entry(f)} \subseteq X
               => Step(p, a, Unlink(f), Ending(a.file, X))
         /\ \A x : a.may \ {Mem(x)} \subseteq X => Step(p, a, Free(x), Ending(a.file, X))
<1> DEFINE b == Ending(a.file, X)
<1>1. Tame(b) /\ b.file = a.file /\ b.may = X /\ b.must = {}
  BY BlocksAssumption DEF Ending, At, Tame, Bounded, Far
<1>2. Keeps(a, b)
  BY BlocksAssumption DEF Ending, At, Tame, Bounded, Far, Keeps
<1> HIDE DEF b
<1>3. \A x : a.may \ {Fd(x)} \subseteq X => Step(p, a, Close(x), b)
  BY <1>1, <1>2, StepClose DEF Tame, Has
<1>4. \A f \in p.uses : a.may \ {Entry(f)} \subseteq X => Step(p, a, Unlink(f), b)
  BY <1>1, <1>2, StepUnlink DEF Tame, Has
<1>5. \A x : a.may \ {Mem(x)} \subseteq X => Step(p, a, Free(x), b)
  BY <1>1, <1>2, StepFree DEF Tame, Has
<1> QED
  BY <1>1, <1>3, <1>4, <1>5 DEF b

(***************************************************************************)
(* The disk tests with one file.                                           *)
(***************************************************************************)
OnDisk(l) == [uses |-> {"temp"}, loose |-> l, ipc |-> FALSE]
Start == At({Temp}, {}, "", 0, 0, 0, 0)
One(m, lo, hi, size) == At({Fd("fd"), Temp} \cup m, {Fd("fd"), Temp}, "temp", lo, hi, 0, size)
Closed(m, size) == At({Temp} \cup m, {Temp}, "temp", 0, Far, 0, size)

\* A file is made, closed and opened again.
LEMMA OpenSteps ==
  ASSUME NEW l, NEW m \in Buffers, NEW size \in Nat, NEW lo \in 0 .. Blocks, NEW hi \in 0 .. Far,
         NEW u
  PROVE  /\ Step(OnDisk(l), Start, Creat("fd", "temp", u), One({}, 0, 0, 0))
         /\ Step(OnDisk(l), One(m, lo, hi, size), Close("fd"), Closed(m, size))
         /\ Step(OnDisk(l), Closed(m, size), Open("fd", "temp", u), One(m, 0, hi, size))
         /\ Step(OnDisk(l), Closed({}, size), Alloc("buf", u), Closed({Mem("buf")}, size))
<1> USE BlocksAssumption, Different
    DEF Bounded, Undoes, Has, Keeps, OnDisk, Start, One, Closed, Far, Temp, At, Buffers, MemNames
<1>1. Step(OnDisk(l), Start, Creat("fd", "temp", u), One({}, 0, 0, 0))
  <2> DEFINE a == Start
             b == One({}, 0, 0, 0)
  <2>1. Bounded(b)
    OBVIOUS
  <2>2. Undoes(OnDisk(l), a, "creat", u) /\ "temp" \in OnDisk(l).uses
    OBVIOUS
  <2>3. Has(a, {Fd("fd"), Entry("temp")}, {}, b)
    OBVIOUS
  <2>4. /\ b.file = "temp" /\ b.lo <= 0 /\ 0 <= b.hi /\ a.top <= b.top /\ b.size <= 0
        /\ b.size <= a.size
    OBVIOUS
  <2> QED
    BY <2>1, <2>2, <2>3, <2>4, StepCreat
<1>2. Step(OnDisk(l), One(m, lo, hi, size), Close("fd"), Closed(m, size))
  <2> DEFINE a == One(m, lo, hi, size)
             b == Closed(m, size)
  <2>1. Bounded(b)
    OBVIOUS
  <2>2. Kid \notin a.may /\ Has(a, {}, {Fd("fd")}, b)
    OBVIOUS
  <2>3. Keeps(a, b)
    OBVIOUS
  <2> QED
    BY <2>1, <2>2, <2>3, StepClose
<1>3. Step(OnDisk(l), Closed(m, size), Open("fd", "temp", u), One(m, 0, hi, size))
  <2> DEFINE a == Closed(m, size)
             b == One(m, 0, hi, size)
  <2>1. Bounded(b)
    OBVIOUS
  <2>2. "temp" \in OnDisk(l).uses /\ Entry("temp") \in a.must
    OBVIOUS
  <2>3. Undoes(OnDisk(l), a, "open", u)
    OBVIOUS
  <2>4. Has(a, {Fd("fd")}, {}, b)
    OBVIOUS
  <2>5. b.file = "temp" /\ b.lo <= 0 /\ 0 <= b.hi /\ a.top <= b.top /\ b.size <= a.size
    OBVIOUS
  <2> QED
    BY <2>1, <2>2, <2>3, <2>4, <2>5, StepOpen
<1>4. Step(OnDisk(l), Closed({}, size), Alloc("buf", u), Closed({Mem("buf")}, size))
  <2> DEFINE a == Closed({}, size)
             b == Closed({Mem("buf")}, size)
  <2>1. Bounded(b)
    OBVIOUS
  <2>2. "buf" \in MemNames
    OBVIOUS
  <2>3. Undoes(OnDisk(l), a, "alloc", u)
    OBVIOUS
  <2>4. Has(a, {Mem("buf")}, {}, b)
    OBVIOUS
  <2>5. Keeps(a, b)
    OBVIOUS
  <2> QED
    BY <2>1, <2>2, <2>3, <2>4, <2>5, StepAlloc
<1> QED
  BY <1>1, <1>2, <1>3, <1>4

\* The file is open: blocks are written to its end, or read and written where it stands.
LEMMA OneSteps ==
  ASSUME NEW l, NEW m \in Buffers, NEW u, Close("fd") \in Range(u), NEW size \in Nat,
         NEW n \in 0 .. Blocks - 1, NEW lo \in 0 .. Blocks, NEW hi \in 0 .. Blocks,
         NEW k \in 1 .. Blocks
  PROVE  /\ Step(OnDisk(l), One(m, n, n, n), Write("fd", u), One(m, n + 1, n + 1, n + 1))
         /\ Step(OnDisk(l), One(m, 0, hi, size), Write("fd", u), One(m, 0, hi + 1, size))
         /\ Step(OnDisk(l), One(m, lo, hi, size), Seek("fd", k, u), One(m, 0, k - 1, size))
         /\ Step(OnDisk(l), One(m, 0, Far, size), Seek("fd", k, u), One(m, 0, k - 1, size))
         /\ Step(OnDisk(l), One(m, lo, hi, size), Rewind("fd", u), One(m, 0, 0, size))
<1> USE BlocksAssumption, Different
    DEF Bounded, Undoes, Has, Keeps, OnDisk, One, Far, Temp, At, Buffers
<1>1. Step(OnDisk(l), One(m, n, n, n), Write("fd", u), One(m, n + 1, n + 1, n + 1))
  <2> DEFINE a == One(m, n, n, n)
             b == One(m, n + 1, n + 1, n + 1)
  <2>1. Bounded(b)
    OBVIOUS
  <2>2. Undoes(OnDisk(l), a, "write", u) /\ Fd("fd") \in a.must
    OBVIOUS
  <2>3. Has(a, {}, {}, b)
    OBVIOUS
  <2>4. /\ b.file = a.file /\ b.lo <= a.lo + 1 /\ a.hi + 1 <= b.hi /\ a.top <= b.top
        /\ a.file = "temp" /\ b.size <= a.lo + 1
    OBVIOUS
  <2> QED
    BY <2>1, <2>2, <2>3, <2>4, StepWrite
<1>2. Step(OnDisk(l), One(m, 0, hi, size), Write("fd", u), One(m, 0, hi + 1, size))
  <2> DEFINE a == One(m, 0, hi, size)
             b == One(m, 0, hi + 1, size)
  <2>1. Bounded(b)
    OBVIOUS
  <2>2. Undoes(OnDisk(l), a, "write", u) /\ Fd("fd") \in a.must
    OBVIOUS
  <2>3. Has(a, {}, {}, b)
    OBVIOUS
  <2>4. /\ b.file = a.file /\ b.lo <= a.lo + 1 /\ a.hi + 1 <= b.hi /\ a.top <= b.top
        /\ b.size <= a.size
    OBVIOUS
  <2> QED
    BY <2>1, <2>2, <2>3, <2>4, StepWrite
<1>3. Step(OnDisk(l), One(m, lo, hi, size), Seek("fd", k, u), One(m, 0, k - 1, size))
  <2> DEFINE a == One(m, lo, hi, size)
             b == One(m, 0, k - 1, size)
  <2>1. Bounded(b)
    OBVIOUS
  <2>2. Undoes(OnDisk(l), a, "seek", u)
    OBVIOUS
  <2>3. Has(a, {}, {}, b)
    OBVIOUS
  <2>4. /\ b.file = a.file /\ b.lo <= 0 /\ k - 1 <= b.hi /\ a.top <= b.top /\ b.size <= a.size
        /\ k \in Int /\ 1 <= k
    OBVIOUS
  <2> QED
    BY <2>1, <2>2, <2>3, <2>4, StepSeek
<1>4. Step(OnDisk(l), One(m, 0, Far, size), Seek("fd", k, u), One(m, 0, k - 1, size))
  <2> DEFINE a == One(m, 0, Far, size)
             b == One(m, 0, k - 1, size)
  <2>1. Bounded(b)
    OBVIOUS
  <2>2. Undoes(OnDisk(l), a, "seek", u)
    OBVIOUS
  <2>3. Has(a, {}, {}, b)
    OBVIOUS
  <2>4. /\ b.file = a.file /\ b.lo <= 0 /\ k - 1 <= b.hi /\ a.top <= b.top /\ b.size <= a.size
        /\ k \in Int /\ 1 <= k
    OBVIOUS
  <2> QED
    BY <2>1, <2>2, <2>3, <2>4, StepSeek
<1>5. Step(OnDisk(l), One(m, lo, hi, size), Rewind("fd", u), One(m, 0, 0, size))
  <2> DEFINE a == One(m, lo, hi, size)
             b == One(m, 0, 0, size)
  <2>1. Bounded(b)
    OBVIOUS
  <2>2. Undoes(OnDisk(l), a, "rewind", u)
    OBVIOUS
  <2>3. Has(a, {}, {}, b)
    OBVIOUS
  <2>4. b.file = a.file /\ b.lo <= 0 /\ 0 <= b.hi /\ a.top <= b.top /\ b.size <= a.size
    OBVIOUS
  <2> QED
    BY <2>1, <2>2, <2>3, <2>4, StepRewind
<1> QED
  BY <1>1, <1>2, <1>3, <1>4, <1>5

\* Blocks within the file are read.
LEMMA ReadSteps ==
  ASSUME NEW l, NEW m \in Buffers, NEW u, Close("fd") \in Range(u), NEW size \in Nat,
         NEW lo \in 0 .. Blocks, NEW hi \in 0 .. Blocks, lo <= hi, hi < size, size <= Blocks
  PROVE  /\ Step(OnDisk(l), One(m, lo, hi, size), Read("fd", u), One(m, lo, hi + 1, size))
<1> USE BlocksAssumption, Different
    DEF Bounded, Undoes, Has, Keeps, OnDisk, One, Far, Temp, At, Buffers
<1>1. Step(OnDisk(l), One(m, lo, hi, size), Read("fd", u), One(m, lo, hi + 1, size))
  <2> DEFINE a == One(m, lo, hi, size)
             b == One(m, lo, hi + 1, size)
  <2>1. Bounded(b)
    OBVIOUS
  <2>2. Undoes(OnDisk(l), a, "read", u)
    OBVIOUS
  <2>3. /\ Has(a, {}, {}, b) /\ Fd("fd") \in a.must /\ a.file = "temp" /\ Entry("temp") \in a.must
        /\ a.hi < a.size
    OBVIOUS
  <2>4. /\ b.file = a.file /\ b.lo <= a.lo + 1 /\ a.hi + 1 <= b.hi /\ a.top <= b.top
        /\ b.size <= a.size
    OBVIOUS
  <2> QED
    BY <2>1, <2>2, <2>3, <2>4, StepRead
<1> QED
  BY <1>1
\* The descriptor is among what the tests clean up.
LEMMA Undone ==
  /\ Close("fd") \in Range(CloseUnlink) /\ Close("fd") \in Range(<<Close("fd")>>)
  /\ Close("fd") \in Range(<<Close("fd"), Unlink("fn2")>>)
  /\ Close("fd") \in Range(<<Close("fd"), Free("buf")>>)
  /\ Close("fd") \in Range(CloseUnlink \o <<Free("buf")>>)
  /\ Close("fd") \in Range(CloseBoth) /\ Close("fd2") \in Range(CloseBoth)
  /\ Close("fd") \in Range(RemoveBoth) /\ Close("fd2") \in Range(RemoveBoth)
  /\ Close("fd") \in Range(CloseBoth \o <<Free("buf")>>)
  /\ Close("fd2") \in Range(CloseBoth \o <<Free("buf")>>)
<1>1. ASSUME NEW c, NEW d, NEW e, NEW s, s = <<c, d>> PROVE Range(s \o <<e>>) = {c, d, e}
  <2> DEFINE T == {c, d, e}
             t == <<e>>
  <2>1. s \in Seq(T) /\ t \in Seq(T) /\ Len(s) = 2 /\ Len(t) = 1 /\ s[1] = c /\ s[2] = d /\ t[1] = e
    BY <1>1
  <2> HIDE DEF t, T
  <2>2. s \o t \in Seq(T) /\ Len(s \o t) = 3
        /\ \A i \in 1 .. 3 : (s \o t)[i] = IF i <= 2 THEN s[i] ELSE t[i - 2]
    <3>1. /\ s \o t \in Seq(T) /\ Len(s \o t) = Len(s) + Len(t)
          /\ \A i \in 1 .. Len(s) + Len(t) : (s \o t)[i] = IF i <= Len(s) THEN s[i] ELSE t[i - Len(s)]
      BY ONLY <2>1, ConcatProperties
    <3> QED
      BY ONLY <2>1, <3>1
  <2>3. (s \o t)[1] = c /\ (s \o t)[2] = d /\ (s \o t)[3] = e
    BY <2>1, <2>2
  <2>4. DOMAIN (s \o t) = {1, 2, 3}
    BY <2>2, LenProperties
  <2> QED
    BY <2>3, <2>4 DEF Range, t
<1>2. Close("fd") \in Range(CloseUnlink \o <<Free("buf")>>)
  BY <1>1 DEF CloseUnlink
<1>3. /\ Close("fd") \in Range(CloseBoth \o <<Free("buf")>>)
      /\ Close("fd2") \in Range(CloseBoth \o <<Free("buf")>>)
  BY <1>1 DEF CloseBoth
<1> QED
  BY <1>2, <1>3, RangeOf DEF CloseUnlink, CloseBoth, RemoveBoth

\* A body of one to four calls.
LEMMA Bodies ==
  \A c, d, e, f : /\ IsSequence(<<c>>) /\ <<c>> # <<>>
                  /\ IsSequence(<<c, d>>) /\ <<c, d>> # <<>>
                  /\ IsSequence(<<c, d, e>>) /\ <<c, d, e>> # <<>>
                  /\ IsSequence(<<c, d, e, f>>) /\ <<c, d, e, f>> # <<>>
<1>1. ASSUME NEW c, NEW d, NEW e, NEW f
      PROVE  /\ <<c>> \in Seq({c}) /\ <<c, d>> \in Seq({c, d})
             /\ <<c, d, e>> \in Seq({c, d, e}) /\ <<c, d, e, f>> \in Seq({c, d, e, f})
  OBVIOUS
<1>2. ASSUME NEW c, NEW d, NEW e, NEW f
      PROVE  <<c>> # <<>> /\ <<c, d>> # <<>> /\ <<c, d, e>> # <<>> /\ <<c, d, e, f>> # <<>>
  OBVIOUS
<1> QED
  BY <1>1, <1>2 DEF IsSequence

\* The loops of the tests with one file.
LEMMA FillLoop ==
  ASSUME NEW l, NEW m \in Buffers, NEW u, Close("fd") \in Range(u), NEW n \in 0 .. Blocks
  PROVE  Path(OnDisk(l), Rounds(n, <<Write("fd", u)>>), One(m, 0, 0, 0), One(m, n, n, n))
<1> DEFINE S == [i \in 0 .. n |-> One(m, i, i, i)]
<1>1. n \in Nat /\ S[0] = One(m, 0, 0, 0) /\ S[n] = One(m, n, n, n)
  BY BlocksAssumption
<1>2. \A i \in 0 .. n : Bounded(One(m, i, i, i))
  BY BlocksAssumption, Different DEF One, At, Bounded, Temp, Far
<1>3. ASSUME NEW i \in 1 .. n PROVE Path(OnDisk(l), <<Write("fd", u)>>, S[i - 1], S[i])
  <2>1. i - 1 \in 0 .. Blocks - 1 /\ i - 1 \in 0 .. n /\ (i - 1) + 1 = i
    BY BlocksAssumption
  <2>2. Step(OnDisk(l), One(m, i - 1, i - 1, i - 1), Write("fd", u), One(m, i, i, i))
    <3> DEFINE j == i - 1
    <3>1. j \in 0 .. Blocks - 1 /\ j + 1 = i /\ 0 \in Nat /\ Blocks \in Nat /\ Blocks >= 1
      BY <2>1, BlocksAssumption
    <3> HIDE DEF j
    <3>2. Step(OnDisk(l), One(m, j, j, j), Write("fd", u), One(m, j + 1, j + 1, j + 1))
      BY <3>1, OneSteps
    <3> QED
      BY <3>1, <3>2 DEF j
  <2>3. S[i - 1] = One(m, i - 1, i - 1, i - 1) /\ S[i] = One(m, i, i, i)
    BY <2>1
  <2> QED
    BY <1>2, <2>1, <2>2, <2>3, PathCall
<1> HIDE DEF S
<1>4. Bounded(S[0])
  BY <1>1, <1>2
<1>5. Path(OnDisk(l), Rounds(n, <<Write("fd", u)>>), S[0], S[n])
  BY <1>1, <1>3, <1>4, Bodies, PathRounds
<1> QED
  BY <1>1, <1>5

\* Loops whose rounds all lead from a state to the same state.
LEMMA SameLoop ==
  ASSUME NEW p, NEW n \in Int, NEW body, NEW a, Bounded(a), IsSequence(body), body # <<>>,
         n >= 1 => Path(p, body, a, a)
  PROVE  Path(p, Rounds(n, body), a, a)
<1>1. CASE n \in Nat
  <2> DEFINE S == [i \in 0 .. n |-> a]
  <2>1. S[0] = a /\ S[n] = a /\ \A i \in 1 .. n : S[i - 1] = a /\ S[i] = a
    BY <1>1
  <2> HIDE DEF S
  <2>2. \A i \in 1 .. n : Path(p, body, S[i - 1], S[i])
    BY <1>1, <2>1
  <2>3. Path(p, Rounds(n, body), S[0], S[n])
    BY ONLY <1>1, <2>1, <2>2, Bounded(a), IsSequence(body), body # <<>>, PathRounds
  <2> QED
    BY <2>1, <2>3
<1>2. CASE n < 0
  <2>1. PICK T : body \in Seq(T)
    BY DEF IsSequence
  <2>2. Len(body) \in Nat /\ Len(body) >= 1
    BY <2>1, EmptySeq
  <2>3. n * Len(body) < 0
    <3>1. (-n) * Len(body) >= Len(body) /\ -n \in Nat /\ (-n) * Len(body) = -(n * Len(body))
      BY <1>2, <2>2, Product
    <3> QED
      BY <2>2, <3>1
  <2>4. Rounds(n, body) = <<>>
    BY <2>2, <2>3 DEF Rounds
  <2>5. Path(p, <<>>, a, a)
    <3> DEFINE A == [i \in {1} |-> a]
    <3>1. A[1] = a /\ A[Len(<<>>) + 1] = a /\ Chain(p, <<>>, A) /\ <<>> \in Seq({})
      BY DEF Chain
    <3> QED
      BY <3>1 DEF Path, IsSequence
  <2> QED
    BY <2>4, <2>5
<1> QED
  BY <1>1, <1>2

\* Blocks read at random places: every one is within the file.
LEMMA SeekReadLoop ==
  ASSUME NEW l, NEW m \in Buffers, NEW u, NEW v, Close("fd") \in Range(u), Close("fd") \in Range(v),
         NEW n \in 0 .. Blocks
  PROVE  Path(OnDisk(l), Rounds(n, <<Seek("fd", n, u), Read("fd", v)>>),
              One(m, 0, n, n), One(m, 0, n, n))
<1> DEFINE a == One(m, 0, n, n)
           b == One(m, 0, n - 1, n)
           body == <<Seek("fd", n, u), Read("fd", v)>>
<1>1. Bounded(a) /\ n \in Int
  BY BlocksAssumption, Different DEF One, At, Bounded, Temp, Far
<1>2. ASSUME n >= 1 PROVE Path(OnDisk(l), body, a, a)
  <2>1. /\ n \in 1 .. Blocks /\ n \in Nat /\ n - 1 \in 0 .. Blocks /\ n - 1 < n /\ n <= Blocks
        /\ 0 <= n - 1
        /\ 0 \in 0 .. Blocks /\ n \in 0 .. Blocks /\ 0 \in 0 .. Blocks - 1 /\ (n - 1) + 1 = n
    BY <1>2, BlocksAssumption
  <2>2. Step(OnDisk(l), a, Seek("fd", n, u), b)
    BY <2>1, OneSteps
  <2>3. Step(OnDisk(l), b, Read("fd", v), One(m, 0, (n - 1) + 1, n))
    BY <2>1, ReadSteps
  <2> HIDE DEF b
  <2> QED
    BY <1>1, <2>1, <2>2, <2>3, PathTwo
<1>3. IsSequence(body) /\ body # <<>>
  BY Bodies
<1> HIDE DEF a, body
<1>4. Path(OnDisk(l), Rounds(n, body), a, a)
  BY <1>1, <1>2, <1>3, SameLoop
<1> QED
  BY <1>4 DEF a, body

\* Blocks written at random places.
LEMMA SeekWriteLoop ==
  ASSUME NEW l, NEW m \in Buffers, NEW u, NEW v, Close("fd") \in Range(u), Close("fd") \in Range(v),
         NEW n \in 0 .. Blocks
  PROVE  Path(OnDisk(l), Rounds(n, <<Seek("fd", n, u), Write("fd", v)>>),
              One(m, 0, n, n), One(m, 0, n, n))
<1> DEFINE a == One(m, 0, n, n)
           b == One(m, 0, n - 1, n)
           body == <<Seek("fd", n, u), Write("fd", v)>>
<1>1. Bounded(a) /\ n \in Int
  BY BlocksAssumption, Different DEF One, At, Bounded, Temp, Far
<1>2. ASSUME n >= 1 PROVE Path(OnDisk(l), body, a, a)
  <2>1. /\ n \in 1 .. Blocks /\ n \in Nat /\ n - 1 \in 0 .. Blocks
        /\ 0 \in 0 .. Blocks /\ n \in 0 .. Blocks /\ 0 \in 0 .. Blocks - 1 /\ (n - 1) + 1 = n
    BY <1>2, BlocksAssumption
  <2>2. Step(OnDisk(l), a, Seek("fd", n, u), b)
    BY <2>1, OneSteps
  <2>3. Step(OnDisk(l), b, Write("fd", v), One(m, 0, (n - 1) + 1, n))
    BY <2>1, OneSteps
  <2> HIDE DEF b
  <2> QED
    BY <1>1, <2>1, <2>2, <2>3, PathTwo
<1>3. IsSequence(body) /\ body # <<>>
  BY Bodies
<1> HIDE DEF a, body
<1>4. Path(OnDisk(l), Rounds(n, body), a, a)
  BY <1>1, <1>2, <1>3, SameLoop
<1> QED
  BY <1>4 DEF a, body

\* sync_disk_update(): a block is read somewhere, and the one after it is written.
LEMMA UpdateLoop ==
  ASSUME NEW l, NEW u, Close("fd") \in Range(u), NEW n \in Int, n <= Blocks
  PROVE  Path(OnDisk(l), Rounds(n, <<Seek("fd", Blocks, u), Read("fd", u), Write("fd", u)>>),
              One({}, 0, Far, Blocks), One({}, 0, Far, Blocks))
<1> DEFINE a == One({}, 0, Far, Blocks)
           b == One({}, 0, Blocks - 1, Blocks)
           c == One({}, 0, Blocks, Blocks)
           body == <<Seek("fd", Blocks, u), Read("fd", u), Write("fd", u)>>
<1>1. Bounded(a) /\ {} \in Buffers
  BY BlocksAssumption, Different DEF One, At, Bounded, Temp, Far, Buffers
<1>2. ASSUME n >= 1 PROVE Path(OnDisk(l), body, a, a)
  <2>1. /\ Blocks \in 1 .. Blocks /\ Blocks \in Nat /\ Blocks - 1 \in 0 .. Blocks
        /\ Blocks - 1 < Blocks
        /\ 0 <= Blocks - 1 /\ 0 \in 0 .. Blocks /\ Blocks \in 0 .. Blocks /\ 0 \in 0 .. Blocks - 1
        /\ (Blocks - 1) + 1 = Blocks /\ Blocks <= Blocks
    BY <1>2, BlocksAssumption
  <2>2. Step(OnDisk(l), a, Seek("fd", Blocks, u), b)
    BY <1>1, <2>1, OneSteps
  <2>3. Step(OnDisk(l), b, Read("fd", u), One({}, 0, (Blocks - 1) + 1, Blocks))
    BY <1>1, <2>1, ReadSteps
  <2>4. Step(OnDisk(l), c, Write("fd", u), One({}, 0, Blocks + 1, Blocks))
    BY <1>1, <2>1, OneSteps
  <2>5. One({}, 0, Blocks + 1, Blocks) = a /\ One({}, 0, (Blocks - 1) + 1, Blocks) = c
    BY <2>1 DEF Far
  <2> HIDE DEF a, b, c
  <2> QED
    BY <1>1, <2>2, <2>3, <2>4, <2>5, PathThree
<1>3. IsSequence(body) /\ body # <<>>
  BY Bodies
<1> HIDE DEF a, body
<1>4. Path(OnDisk(l), Rounds(n, body), a, a)
  BY <1>1, <1>2, <1>3, SameLoop
<1> QED
  BY <1>4 DEF a, body

\* Blocks read one after another from the start.
LEMMA ReadLoop ==
  ASSUME NEW l, NEW m \in Buffers, NEW u, Close("fd") \in Range(u), NEW n \in 0 .. Blocks
  PROVE  Path(OnDisk(l), Rounds(n, <<Read("fd", u)>>), One(m, 0, 0, n), One(m, 0, n, n))
<1> DEFINE S == [i \in 0 .. n |-> One(m, 0, i, n)]
<1>1. n \in Nat /\ S[0] = One(m, 0, 0, n) /\ S[n] = One(m, 0, n, n)
  BY BlocksAssumption
<1>2. \A i \in 0 .. n : Bounded(One(m, 0, i, n))
  BY BlocksAssumption, Different DEF One, At, Bounded, Temp, Far
<1>3. ASSUME NEW i \in 1 .. n PROVE Path(OnDisk(l), <<Read("fd", u)>>, S[i - 1], S[i])
  <2> DEFINE j == i - 1
  <2>1. /\ j \in 0 .. Blocks /\ j + 1 = i /\ 0 \in 0 .. Blocks /\ 0 <= j /\ j < n /\ n <= Blocks
        /\ n \in Nat /\ j \in 0 .. n
    BY BlocksAssumption
  <2>2. S[j] = One(m, 0, j, n) /\ S[i] = One(m, 0, i, n)
    BY <2>1
  <2> HIDE DEF j
  <2>3. Step(OnDisk(l), One(m, 0, j, n), Read("fd", u), One(m, 0, j + 1, n))
    BY <2>1, ReadSteps
  <2>4. Path(OnDisk(l), <<Read("fd", u)>>, S[j], S[i])
    BY <1>2, <2>1, <2>2, <2>3, PathCall
  <2> QED
    BY <2>4 DEF j
<1> HIDE DEF S
<1>4. Bounded(S[0])
  BY <1>1, <1>2
<1>5. Path(OnDisk(l), Rounds(n, <<Read("fd", u)>>), S[0], S[n])
  BY <1>1, <1>3, <1>4, Bodies, PathRounds
<1> QED
  BY <1>1, <1>5
\* What a test that ends with nothing left does.
Finishes(p, q, a) == \E b : b.may = {} /\ Path(p, q, a, b)

\* Calls put before a test that ends with nothing left.
LEMMA FinishesAfter ==
  ASSUME NEW p, NEW q, NEW r, NEW a, NEW b, Path(p, q, a, b), Finishes(p, r, b)
  PROVE  Finishes(p, q \o r, a)
<1>1. PICK c : c.may = {} /\ Path(p, r, b, c)
  BY DEF Finishes
<1>2. Path(p, q \o r, a, c)
  BY <1>1, PathConcat
<1> QED
  BY <1>1, <1>2 DEF Finishes

\* The ends of the tests with one file.
LEMMA OneEnds ==
  ASSUME NEW l, NEW a, Tame(a), NEW m \in Buffers, a.may \subseteq {Fd("fd"), Temp} \cup m
  PROVE  /\ Path(OnDisk(l), CloseUnlink, a, Ending(a.file, m))
         /\ Path(OnDisk(l), <<Unlink("temp"), Close("fd")>>, a, Ending(a.file, m))
         /\ m = {} => /\ Finishes(OnDisk(l), CloseUnlink, a)
                      /\ Finishes(OnDisk(l), <<Unlink("temp"), Close("fd")>>, a)
         /\ Finishes(OnDisk(l), <<Unlink("temp"), Close("fd"), Free("buf")>>, a)
         /\ \A f : Finishes(OnDisk(l), <<Free("buf")>>, Ending(f, m))
<1> DEFINE p == OnDisk(l)
           Y == {Temp} \cup m
           Z == {Fd("fd")} \cup m
           y == Ending(a.file, Y)
           z == Ending(a.file, Z)
           e == Ending(a.file, m)
           d == Ending(a.file, {})
<1>1. /\ Kid \notin Y /\ Kid \notin Z /\ Kid \notin m /\ "temp" \in p.uses
      /\ a.may \ {Fd("fd")} \subseteq Y /\ a.may \ {Entry("temp")} \subseteq Z
      /\ Y \ {Entry("temp")} \subseteq m /\ Z \ {Fd("fd")} \subseteq m
      /\ m \ {Mem("buf")} \subseteq {}
  BY Different DEF Temp, Buffers, OnDisk
<1> HIDE DEF p, Y, Z
<1>2. Step(p, a, Close("fd"), y) /\ Tame(y) /\ y.file = a.file /\ y.may = Y
  BY <1>1, Ends
<1>3. Step(p, a, Unlink("temp"), z) /\ Tame(z) /\ z.file = a.file /\ z.may = Z
  BY <1>1, Ends
<1>4. Tame(e) /\ e.file = a.file /\ e.may = m
  BY <1>1, Ends
<1>5. d.may = {} /\ Kid \notin {}
  BY Ends
<1> HIDE DEF y, z, e
<1>6. Step(p, y, Unlink("temp"), e)
  BY <1>1, <1>2, Ends DEF e
<1>7. Step(p, z, Close("fd"), e)
  BY <1>1, <1>3, Ends DEF e
<1>8. Step(p, e, Free("buf"), d)
  BY <1>1, <1>4, <1>5, Ends
<1> HIDE DEF d
<1>9. Path(p, CloseUnlink, a, e)
  BY <1>2, <1>6, PathTwo DEF Tame, CloseUnlink
<1>10. Path(p, <<Unlink("temp"), Close("fd")>>, a, e)
  BY <1>3, <1>7, PathTwo DEF Tame
<1>11. Finishes(p, <<Unlink("temp"), Close("fd"), Free("buf")>>, a)
  BY <1>3, <1>5, <1>7, <1>8, PathThree DEF Tame, Finishes
<1>12. ASSUME NEW f PROVE Finishes(p, <<Free("buf")>>, Ending(f, m))
  <2> DEFINE g == Ending(f, m)
             h == Ending(f, {})
  <2>1. Tame(g) /\ g.file = f /\ g.may = m
    BY <1>1, BlocksAssumption DEF Ending, At, Tame, Bounded, Far
  <2> HIDE DEF g
  <2>2. Step(p, g, Free("buf"), h) /\ h.may = {}
    BY <1>1, <1>5, <2>1, Ends
  <2> HIDE DEF h
  <2>3. Path(p, <<Free("buf")>>, g, h)
    BY <2>1, <2>2, PathCall DEF Tame
  <2> QED
    BY <2>2, <2>3 DEF g, Finishes
<1> QED
  BY <1>4, <1>9, <1>10, <1>11, <1>12 DEF e, p, Finishes

\* The file is there, and open again.
LEMMA NewFilePath ==
  ASSUME NEW l, NEW n \in 0 .. Blocks, NEW hi \in 0 .. Far
  PROVE  Path(OnDisk(l), NewFile(n), Start, One({}, 0, hi, n))
<1> DEFINE p == OnDisk(l)
           r == Rounds(n, <<Write("fd", CloseUnlink)>>)
<1>1. /\ {} \in Buffers /\ n \in Nat /\ n \in 0 .. Blocks /\ n \in 0 .. Far /\ 0 \in 0 .. Blocks
      /\ 0 \in 0 .. Far
  BY BlocksAssumption DEF Buffers, Far
<1>2. Bounded(Start) /\ Bounded(One({}, n, n, n))
  BY BlocksAssumption, Different DEF Start, One, At, Bounded, Temp, Far
<1>3. Path(p, <<Creat("fd", "temp", <<>>)>>, Start, One({}, 0, 0, 0))
  BY <1>1, <1>2, OpenSteps, PathCall
<1>4. Path(p, r, One({}, 0, 0, 0), One({}, n, n, n))
  BY <1>1, FillLoop, Undone
<1>5. Path(p, <<Close("fd"), Open("fd", "temp", <<>>)>>, One({}, n, n, n), One({}, 0, hi, n))
  <2>1. Step(p, One({}, n, n, n), Close("fd"), Closed({}, n))
    BY <1>1, OpenSteps
  <2>2. Step(p, Closed({}, n), Open("fd", "temp", <<>>), One({}, 0, hi, n))
    BY <1>1, OpenSteps
  <2> QED
    BY <1>2, <2>1, <2>2, PathTwo
<1> HIDE DEF p, r
<1>6. Path(p, (<<Creat("fd", "temp", <<>>)>> \o r) \o <<Close("fd"), Open("fd", "temp", <<>>)>>,
           Start, One({}, 0, hi, n))
  BY <1>3, <1>4, <1>5, PathConcat
<1> QED
  BY <1>6 DEF p, r, NewFile

\* The states of the tests with one file are tame.
LEMMA OneTame ==
  ASSUME NEW m \in Buffers, NEW lo \in 0 .. Far, NEW hi \in 0 .. Far, NEW size \in Nat
  PROVE  /\ Tame(One(m, lo, hi, size)) /\ One(m, lo, hi, size).may \subseteq {Fd("fd"), Temp} \cup m
         /\ Tame(Start)
BY BlocksAssumption, Different DEF One, Start, At, Tame, Bounded, Buffers, Temp, Far

\* What is known of half of the blocks.
LEMMA Halves == half \in 0 .. Blocks /\ half \in Nat
BY BlocksAssumption DEF half

\* disk_rr() ends with nothing left.
LEMMA disk_rr_Finishes == Finishes(OnDisk({}), disk_rr, Start)
<1> DEFINE p == OnDisk({})
           a == One({}, 0, Blocks, Blocks)
           r == Rounds(Blocks, <<Seek("fd", Blocks, <<Close("fd")>>), Read("fd", <<Close("fd")>>)>>)
<1>1. /\ {} \in Buffers /\ Blocks \in 0 .. Blocks /\ Blocks \in 0 .. Far /\ Far \in 0 .. Far
      /\ Blocks \in Nat /\ 0 \in 0 .. Far /\ half \in Nat /\ half \in 0 .. Blocks
      /\ half \in 0 .. Far
      /\ half \in Int /\ half <= Blocks
  BY BlocksAssumption, Halves DEF Buffers, Far
<1>2. Path(p, NewFile(Blocks), Start, a)
  BY <1>1, NewFilePath
<1>3. Path(p, r, a, a)
  BY <1>1, SeekReadLoop, Undone
<1>4. Finishes(p, CloseUnlink, a)
  BY <1>1, OneTame, OneEnds
<1> HIDE DEF p, a, r
<1>5. Finishes(p, (NewFile(Blocks) \o r) \o CloseUnlink, Start)
  BY <1>2, <1>3, <1>4, PathConcat, FinishesAfter
<1> QED
  BY <1>5 DEF disk_rr, r, p

\* disk_rw() ends with nothing left.
LEMMA disk_rw_Finishes == Finishes(OnDisk({}), disk_rw, Start)
<1> DEFINE p == OnDisk({})
           a == One({}, 0, Blocks, Blocks)
           r == Rounds(Blocks, <<Seek("fd", Blocks, <<Close("fd")>>), Write("fd", <<Close("fd")>>)>>)
<1>1. /\ {} \in Buffers /\ Blocks \in 0 .. Blocks /\ Blocks \in 0 .. Far /\ Far \in 0 .. Far
      /\ Blocks \in Nat /\ 0 \in 0 .. Far /\ half \in Nat /\ half \in 0 .. Blocks
      /\ half \in 0 .. Far
      /\ half \in Int /\ half <= Blocks
  BY BlocksAssumption, Halves DEF Buffers, Far
<1>2. Path(p, NewFile(Blocks), Start, a)
  BY <1>1, NewFilePath
<1>3. Path(p, r, a, a)
  BY <1>1, SeekWriteLoop, Undone
<1>4. Finishes(p, <<Unlink("temp"), Close("fd")>>, a)
  BY <1>1, OneTame, OneEnds
<1> HIDE DEF p, a, r
<1>5. Finishes(p, (NewFile(Blocks) \o r) \o <<Unlink("temp"), Close("fd")>>, Start)
  BY <1>2, <1>3, <1>4, PathConcat, FinishesAfter
<1> QED
  BY <1>5 DEF disk_rw, r, p

\* sync_disk_rw() ends with nothing left.
LEMMA sync_disk_rw_Finishes == Finishes(OnDisk({}), sync_disk_rw, Start)
<1> DEFINE p == OnDisk({})
           a == One({}, 0, half, half)
           r == Rounds(half, <<Seek("fd", half, CloseUnlink), Write("fd", CloseUnlink)>>)
<1>1. /\ {} \in Buffers /\ Blocks \in 0 .. Blocks /\ Blocks \in 0 .. Far /\ Far \in 0 .. Far
      /\ Blocks \in Nat /\ 0 \in 0 .. Far /\ half \in Nat /\ half \in 0 .. Blocks
      /\ half \in 0 .. Far
      /\ half \in Int /\ half <= Blocks
  BY BlocksAssumption, Halves DEF Buffers, Far
<1>2. Path(p, NewFile(half), Start, a)
  BY <1>1, NewFilePath
<1>3. Path(p, r, a, a)
  BY <1>1, SeekWriteLoop, Undone
<1>4. Finishes(p, CloseUnlink, a)
  BY <1>1, OneTame, OneEnds
<1> HIDE DEF p, a, r
<1>5. Finishes(p, (NewFile(half) \o r) \o CloseUnlink, Start)
  BY <1>2, <1>3, <1>4, PathConcat, FinishesAfter
<1> QED
  BY <1>5 DEF sync_disk_rw, r, p

\* sync_disk_update() ends with nothing left.
LEMMA sync_disk_update_Finishes == Finishes(OnDisk({}), sync_disk_update, Start)
<1> DEFINE p == OnDisk({})
           a == One({}, 0, Far, Blocks)
           r == Rounds(half, <<Seek("fd", Blocks, CloseUnlink), Read("fd", CloseUnlink), Write("fd", CloseUnlink)>>)
<1>1. /\ {} \in Buffers /\ Blocks \in 0 .. Blocks /\ Blocks \in 0 .. Far /\ Far \in 0 .. Far
      /\ Blocks \in Nat /\ 0 \in 0 .. Far /\ half \in Nat /\ half \in 0 .. Blocks
      /\ half \in 0 .. Far
      /\ half \in Int /\ half <= Blocks
  BY BlocksAssumption, Halves DEF Buffers, Far
<1>2. Path(p, NewFile(Blocks), Start, a)
  BY <1>1, NewFilePath
<1>3. Path(p, r, a, a)
  BY <1>1, UpdateLoop, Undone
<1>4. Finishes(p, CloseUnlink, a)
  BY <1>1, OneTame, OneEnds
<1> HIDE DEF p, a, r
<1>5. Finishes(p, (NewFile(Blocks) \o r) \o CloseUnlink, Start)
  BY <1>2, <1>3, <1>4, PathConcat, FinishesAfter
<1> QED
  BY <1>5 DEF sync_disk_update, r, p

\* disk_brr() ends with nothing left.
LEMMA disk_brr_Finishes == Finishes(OnDisk({}), disk_brr, Start)
<1> DEFINE p == OnDisk({})
           a == One({}, 0, Blocks, Blocks)
           r == Rounds(Blocks, <<Seek("fd", Blocks, <<Close("fd")>>), Read("fd", <<Close("fd")>>)>>)
<1>1. /\ {} \in Buffers /\ Blocks \in 0 .. Blocks /\ Blocks \in 0 .. Far /\ Far \in 0 .. Far
      /\ Blocks \in Nat /\ 0 \in 0 .. Far /\ half \in Nat /\ half \in 0 .. Blocks
      /\ half \in 0 .. Far
      /\ half \in Int /\ half <= Blocks
  BY BlocksAssumption, Halves DEF Buffers, Far
<1>2. Path(p, NewFile(Blocks), Start, a)
  BY <1>1, NewFilePath
<1>3. Path(p, r, a, a)
  BY <1>1, SeekReadLoop, Undone
<1>4. Finishes(p, <<Unlink("temp"), Close("fd")>>, a)
  BY <1>1, OneTame, OneEnds
<1> HIDE DEF p, a, r
<1>5. Finishes(p, (NewFile(Blocks) \o r) \o <<Unlink("temp"), Close("fd")>>, Start)
  BY <1>2, <1>3, <1>4, PathConcat, FinishesAfter
<1> QED
  BY <1>5 DEF disk_brr, r, p

\* disk_brw() ends with nothing left.
LEMMA disk_brw_Finishes == Finishes(OnDisk({}), disk_brw, Start)
<1> DEFINE p == OnDisk({})
           a == One({}, 0, Blocks, Blocks)
           r == Rounds(Blocks, <<Seek("fd", Blocks, <<Close("fd")>>), Write("fd", <<Close("fd")>>)>>)
<1>1. /\ {} \in Buffers /\ Blocks \in 0 .. Blocks /\ Blocks \in 0 .. Far /\ Far \in 0 .. Far
      /\ Blocks \in Nat /\ 0 \in 0 .. Far /\ half \in Nat /\ half \in 0 .. Blocks
      /\ half \in 0 .. Far
      /\ half \in Int /\ half <= Blocks
  BY BlocksAssumption, Halves DEF Buffers, Far
<1>2. Path(p, NewFile(Blocks), Start, a)
  BY <1>1, NewFilePath
<1>3. Path(p, r, a, a)
  BY <1>1, SeekWriteLoop, Undone
<1>4. Finishes(p, <<Unlink("temp"), Close("fd")>>, a)
  BY <1>1, OneTame, OneEnds
<1> HIDE DEF p, a, r
<1>5. Finishes(p, (NewFile(Blocks) \o r) \o <<Unlink("temp"), Close("fd")>>, Start)
  BY <1>2, <1>3, <1>4, PathConcat, FinishesAfter
<1> QED
  BY <1>5 DEF disk_brw, r, p

\* disk_wrt() ends with nothing left.
LEMMA disk_wrt_Finishes == Finishes(OnDisk({}), disk_wrt, Start)
<1> DEFINE p == OnDisk({})
           a == One({}, Blocks, Blocks, Blocks)
           c == <<Creat("fd", "temp", <<>>)>>
           w == Rounds(Blocks, <<Write("fd", CloseUnlink)>>)
<1>1. /\ {} \in Buffers /\ Blocks \in 0 .. Blocks /\ Blocks \in 0 .. Far /\ 0 \in 0 .. Blocks
      /\ Blocks \in Nat /\ 0 \in Nat /\ 0 \in 0 .. Far /\ half \in Nat /\ half \in 0 .. Blocks
      /\ half \in 0 .. Far
  BY BlocksAssumption, Halves DEF Buffers, Far
<1>2. Path(p, c, Start, One({}, 0, 0, 0))
  BY <1>1, OpenSteps, OneTame, PathCall DEF Tame
<1>3. Path(p, w, One({}, 0, 0, 0), a)
  BY <1>1, FillLoop, Undone
<1>4. Finishes(p, <<Unlink("temp"), Close("fd")>>, a)
  BY <1>1, OneTame, OneEnds
<1> HIDE DEF p, a, c, w
<1>5. Finishes(p, (c \o w) \o <<Unlink("temp"), Close("fd")>>, Start)
  BY <1>2, <1>3, <1>4, PathConcat, FinishesAfter
<1> QED
  BY <1>5 DEF disk_wrt, c, w, p

\* sync_disk_wrt() ends with nothing left.
LEMMA sync_disk_wrt_Finishes == Finishes(OnDisk({}), sync_disk_wrt, Start)
<1> DEFINE p == OnDisk({})
           a == One({}, half, half, half)
           c == <<Creat("fd", "temp", <<>>)>>
           w == Rounds(half, <<Write("fd", CloseUnlink)>>)
<1>1. /\ {} \in Buffers /\ Blocks \in 0 .. Blocks /\ Blocks \in 0 .. Far /\ 0 \in 0 .. Blocks
      /\ Blocks \in Nat /\ 0 \in Nat /\ 0 \in 0 .. Far /\ half \in Nat /\ half \in 0 .. Blocks
      /\ half \in 0 .. Far
  BY BlocksAssumption, Halves DEF Buffers, Far
<1>2. Path(p, c, Start, One({}, 0, 0, 0))
  BY <1>1, OpenSteps, OneTame, PathCall DEF Tame
<1>3. Path(p, w, One({}, 0, 0, 0), a)
  BY <1>1, FillLoop, Undone
<1>4. Finishes(p, CloseUnlink, a)
  BY <1>1, OneTame, OneEnds
<1> HIDE DEF p, a, c, w
<1>5. Finishes(p, (c \o w) \o CloseUnlink, Start)
  BY <1>2, <1>3, <1>4, PathConcat, FinishesAfter
<1> QED
  BY <1>5 DEF sync_disk_wrt, c, w, p

\* disk_bwrt() ends with nothing left.
LEMMA disk_bwrt_Finishes == Finishes(OnDisk({}), disk_bwrt, Start)
<1> DEFINE p == OnDisk({})
           a == One({}, Blocks, Blocks, Blocks)
           c == <<Creat("fd", "temp", <<>>)>>
           w == Rounds(Blocks, <<Write("fd", CloseUnlink)>>)
<1>1. /\ {} \in Buffers /\ Blocks \in 0 .. Blocks /\ Blocks \in 0 .. Far /\ 0 \in 0 .. Blocks
      /\ Blocks \in Nat /\ 0 \in Nat /\ 0 \in 0 .. Far /\ half \in Nat /\ half \in 0 .. Blocks
      /\ half \in 0 .. Far
  BY BlocksAssumption, Halves DEF Buffers, Far
<1>2. Path(p, c, Start, One({}, 0, 0, 0))
  BY <1>1, OpenSteps, OneTame, PathCall DEF Tame
<1>3. Path(p, w, One({}, 0, 0, 0), a)
  BY <1>1, FillLoop, Undone
<1>4. Finishes(p, <<Unlink("temp"), Close("fd")>>, a)
  BY <1>1, OneTame, OneEnds
<1> HIDE DEF p, a, c, w
<1>5. Finishes(p, (c \o w) \o <<Unlink("temp"), Close("fd")>>, Start)
  BY <1>2, <1>3, <1>4, PathConcat, FinishesAfter
<1> QED
  BY <1>5 DEF disk_bwrt, c, w, p

\* disk_rd() ends with nothing left.
LEMMA disk_rd_Finishes == Finishes(OnDisk({}), disk_rd, Start)
<1> DEFINE p == OnDisk({})
           a == One({}, Blocks, Blocks, Blocks)
           b == One({}, 0, 0, Blocks)
           d == One({}, 0, Blocks, Blocks)
           c == <<Creat("fd", "temp", <<>>)>>
           w == Rounds(Blocks, <<Write("fd", <<Close("fd"), Unlink("fn2")>>)>>)
           o == <<Close("fd"), Open("fd", "temp", <<>>), Rewind("fd", <<Close("fd")>>)>>
           r == Rounds(Blocks, <<Read("fd", <<Close("fd")>>)>>)
<1>1. /\ {} \in Buffers /\ Blocks \in 0 .. Blocks /\ Blocks \in 0 .. Far /\ 0 \in 0 .. Blocks
      /\ Blocks \in Nat /\ 0 \in Nat /\ 0 \in 0 .. Far
  BY BlocksAssumption DEF Buffers, Far
<1>2. Path(p, c, Start, One({}, 0, 0, 0))
  BY <1>1, OpenSteps, OneTame, PathCall DEF Tame
<1>3. Path(p, w, One({}, 0, 0, 0), a)
  BY <1>1, FillLoop, Undone
<1>4. Path(p, o, a, b)
  <2>1. Bounded(a)
    BY <1>1, OneTame DEF Tame
  <2>2. /\ Step(p, a, Close("fd"), Closed({}, Blocks))
        /\ Step(p, Closed({}, Blocks), Open("fd", "temp", <<>>), b)
    BY <1>1, OpenSteps
  <2>3. Step(p, b, Rewind("fd", <<Close("fd")>>), b)
    <3>1. /\ Has(b, {}, {}, b) /\ Bounded(b) /\ b.lo <= 0 /\ 0 <= b.hi /\ b.top <= b.top
          /\ b.size <= b.size
      BY BlocksAssumption, Different DEF Has, Bounded, One, At, Temp, Far
    <3>2. Undoes(p, b, "rewind", <<Close("fd")>>)
      BY Undone, Different DEF Undoes, One, At, Temp
    <3> QED
      BY <3>1, <3>2, StepRewind
  <2> HIDE DEF a, b, p
  <2> QED
    BY <2>1, <2>2, <2>3, PathThree
<1>5. Path(p, r, b, d)
  BY <1>1, ReadLoop, Undone
<1>6. Finishes(p, CloseUnlink, d)
  BY <1>1, OneTame, OneEnds
<1> HIDE DEF p, a, b, c, d, w, o, r
<1>7. Path(p, ((c \o w) \o o) \o r, Start, d)
  BY <1>2, <1>3, <1>4, <1>5, PathConcat
<1>8. Finishes(p, (((c \o w) \o o) \o r) \o CloseUnlink, Start)
  BY <1>6, <1>7, FinishesAfter
<1> QED
  BY <1>8 DEF disk_rd, c, w, o, r, p

\* disk_dio_rr() ends with nothing left.
LEMMA disk_dio_rr_Finishes == Finishes(OnDisk({}), disk_dio_rr, Start)
<1> DEFINE p == OnDisk({})
           m == {Mem("buf")}
           a == One({}, Blocks, Blocks, Blocks)
           b == One(m, 0, Blocks, Blocks)
           c == <<Creat("fd", "temp", <<>>)>>
           w == Rounds(Blocks, <<Write("fd", CloseUnlink)>>)
           o == <<Close("fd"), local_pma(<<>>), Open("fd", "temp", <<Free("buf")>>)>>
           r == Rounds(Blocks, <<Seek("fd", Blocks, <<Close("fd")>>), Read("fd", <<Close("fd"), Free("buf")>>)>>)
           f == <<Unlink("temp"), Close("fd"), Free("buf")>>
<1>1. /\ {} \in Buffers /\ m \in Buffers /\ Blocks \in 0 .. Blocks /\ Blocks \in 0 .. Far
      /\ 0 \in 0 .. Blocks
      /\ Blocks \in Nat /\ 0 \in Nat /\ 0 \in 0 .. Far
  BY BlocksAssumption DEF Buffers, Far
<1>2. Path(p, c, Start, One({}, 0, 0, 0))
  BY <1>1, OpenSteps, OneTame, PathCall DEF Tame
<1>3. Path(p, w, One({}, 0, 0, 0), a)
  BY <1>1, FillLoop, Undone
<1>4. Path(p, o, a, b)
  <2>1. Bounded(a)
    BY <1>1, OneTame DEF Tame
  <2>2. Step(p, a, Close("fd"), Closed({}, Blocks))
    BY <1>1, OpenSteps
  <2>3. Step(p, Closed({}, Blocks), local_pma(<<>>), Closed(m, Blocks))
    BY <1>1, OpenSteps DEF local_pma
  <2>4. Step(p, Closed(m, Blocks), Open("fd", "temp", <<Free("buf")>>), b)
    BY <1>1, OpenSteps
  <2> HIDE DEF a, b, p, m
  <2> QED
    BY <2>1, <2>2, <2>3, <2>4, PathThree
<1>5. Path(p, r, b, b)
  BY <1>1, SeekReadLoop, Undone
<1>6. Finishes(p, f, b)
  BY <1>1, OneTame, OneEnds
<1> HIDE DEF p, m, a, b, c, w, o, r, f
<1>7. Path(p, ((c \o w) \o o) \o r, Start, b)
  BY <1>2, <1>3, <1>4, <1>5, PathConcat
<1>8. Finishes(p, (((c \o w) \o o) \o r) \o f, Start)
  BY <1>6, <1>7, FinishesAfter
<1> QED
  BY <1>8 DEF disk_dio_rr, c, w, o, r, f, p

\* disk_dio_rw() ends with nothing left.
LEMMA disk_dio_rw_Finishes == Finishes(OnDisk({}), disk_dio_rw, Start)
<1> DEFINE p == OnDisk({})
           m == {Mem("buf")}
           a == One({}, Blocks, Blocks, Blocks)
           b == One(m, 0, Blocks, Blocks)
           c == <<Creat("fd", "temp", <<>>)>>
           w == Rounds(Blocks, <<Write("fd", CloseUnlink)>>)
           o == <<Close("fd"), local_pma(<<>>), Open("fd", "temp", <<Unlink("temp"), Free("buf")>>)>>
           r == Rounds(Blocks, <<Seek("fd", Blocks, CloseUnlink \o <<Free("buf")>>), Write("fd", CloseUnlink \o <<Free("buf")>>)>>)
           f == <<Unlink("temp"), Close("fd"), Free("buf")>>
<1>1. /\ {} \in Buffers /\ m \in Buffers /\ Blocks \in 0 .. Blocks /\ Blocks \in 0 .. Far
      /\ 0 \in 0 .. Blocks
      /\ Blocks \in Nat /\ 0 \in Nat /\ 0 \in 0 .. Far
  BY BlocksAssumption DEF Buffers, Far
<1>2. Path(p, c, Start, One({}, 0, 0, 0))
  BY <1>1, OpenSteps, OneTame, PathCall DEF Tame
<1>3. Path(p, w, One({}, 0, 0, 0), a)
  BY <1>1, FillLoop, Undone
<1>4. Path(p, o, a, b)
  <2>1. Bounded(a)
    BY <1>1, OneTame DEF Tame
  <2>2. Step(p, a, Close("fd"), Closed({}, Blocks))
    BY <1>1, OpenSteps
  <2>3. Step(p, Closed({}, Blocks), local_pma(<<>>), Closed(m, Blocks))
    BY <1>1, OpenSteps DEF local_pma
  <2>4. Step(p, Closed(m, Blocks), Open("fd", "temp", <<Unlink("temp"), Free("buf")>>), b)
    BY <1>1, OpenSteps
  <2> HIDE DEF a, b, p, m
  <2> QED
    BY <2>1, <2>2, <2>3, <2>4, PathThree
<1>5. Path(p, r, b, b)
  BY <1>1, SeekWriteLoop, Undone
<1>6. Finishes(p, f, b)
  BY <1>1, OneTame, OneEnds
<1> HIDE DEF p, m, a, b, c, w, o, r, f
<1>7. Path(p, ((c \o w) \o o) \o r, Start, b)
  BY <1>2, <1>3, <1>4, <1>5, PathConcat
<1>8. Finishes(p, (((c \o w) \o o) \o r) \o f, Start)
  BY <1>6, <1>7, FinishesAfter
<1> QED
  BY <1>8 DEF disk_dio_rw, c, w, o, r, f, p

\* disk_dio_wrt() ends with nothing left.
LEMMA disk_dio_wrt_Finishes == Finishes(OnDisk({"alloc"}), disk_dio_wrt, Start)
<1> DEFINE p == OnDisk({"alloc"})
           m == {Mem("buf")}
           a == One(m, 0, 0, 0)
           c == <<Creat("fd", "temp", <<>>), local_pma(<<>>)>>
           r == <<Write("fd", CloseUnlink \o <<Free("buf")>>)>>
           w == Rounds(0, r)
           f == <<Free("buf")>>
<1>1. /\ {} \in Buffers /\ m \in Buffers /\ 0 \in 0 .. Blocks /\ 0 \in Nat /\ 0 \in 0 .. Far
      /\ 0 \in Int
  BY BlocksAssumption DEF Buffers, Far
<1>2. Bounded(Start) /\ Bounded(a)
  BY <1>1, OneTame DEF Tame
<1>3. Step(p, Start, Creat("fd", "temp", <<>>), One({}, 0, 0, 0))
  BY <1>1, OpenSteps
<1>4. Step(p, One({}, 0, 0, 0), local_pma(<<>>), a)
  <2> DEFINE b == One({}, 0, 0, 0)
  <2>1. Has(b, {Mem("buf")}, {}, a) /\ "buf" \in MemNames
    BY Different DEF One, At, Temp, Has, MemNames
  <2>2. Undoes(p, b, "alloc", <<>>)
    BY Different DEF One, At, Temp, Undoes, OnDisk
  <2>3. Keeps(b, a)
    BY DEF One, At, Keeps
  <2> HIDE DEF a, b
  <2> QED
    BY <1>2, <2>1, <2>2, <2>3, StepAlloc DEF local_pma, b
<1>5. Path(p, c, Start, a)
  BY <1>2, <1>3, <1>4, PathTwo
<1>6. Path(p, w, a, a)
  <2>1. IsSequence(r) /\ r # <<>>
    BY Bodies
  <2> HIDE DEF r, a
  <2> QED
    BY <1>1, <1>2, <2>1, SameLoop
<1>7. Path(p, CloseUnlink, a, Ending(a.file, m)) /\ Finishes(p, f, Ending(a.file, m))
  <2>1. Tame(a) /\ a.may \subseteq {Fd("fd"), Temp} \cup m
    BY <1>1, OneTame
  <2> HIDE DEF a, m
  <2> QED
    BY <1>1, <2>1, OneEnds
<1> HIDE DEF p, m, a, c, r, w, f
<1>8. Path(p, (c \o w) \o CloseUnlink, Start, Ending(a.file, m))
  BY <1>5, <1>6, <1>7, PathConcat
<1>9. Finishes(p, ((c \o w) \o CloseUnlink) \o f, Start)
  BY <1>7, <1>8, FinishesAfter
<1> QED
  BY <1>9 DEF disk_dio_wrt, pma_success, c, r, w, f, p

(***************************************************************************)
(* The disk tests that use the work file, and copies of it.                *)
(***************************************************************************)
OnWork == [uses |-> {}, loose |-> {}, ipc |-> FALSE]
Empty == At({}, {}, "", 0, 0, 0, 0)
Work(m, hi) == At({Fd("fd")} \cup m, {Fd("fd")}, "work", 0, hi, 0, 0)
Copy(m, hi, top) == At({Fd("fd"), Fd("fd2"), Temp} \cup m, {Fd("fd"), Fd("fd2")}, "work", 0, hi, top, 0)

\* The work file is open, and read from its start.
LEMMA WorkSteps ==
  ASSUME NEW m \in Buffers, NEW hi \in 0 .. Far, NEW n \in 0 .. Blocks - 1, NEW v,
         NEW u, Close("fd") \in Range(u)
  PROVE  /\ Step(OnWork, Empty, Alloc("buf", v), At({Mem("buf")}, {}, "", 0, 0, 0, 0))
         /\ Step(OnWork, At(m, {}, "", 0, 0, 0, 0), Open("fd", "work", v), Work(m, 0))
         /\ Step(OnWork, Work(m, hi), Rewind("fd", u), Work(m, 0))
         /\ Step(OnWork, Work(m, n), Read("fd", u), Work(m, n + 1))
<1> USE BlocksAssumption, Different
    DEF Bounded, Undoes, Has, Keeps, OnWork, Empty, Work, Far, At, Buffers, MemNames
<1>1. Step(OnWork, Empty, Alloc("buf", v), At({Mem("buf")}, {}, "", 0, 0, 0, 0))
  <2> DEFINE a == Empty
             b == At({Mem("buf")}, {}, "", 0, 0, 0, 0)
  <2>1. Bounded(b)
    OBVIOUS
  <2>2. "buf" \in MemNames
    OBVIOUS
  <2>3. Undoes(OnWork, a, "alloc", v)
    OBVIOUS
  <2>4. Has(a, {Mem("buf")}, {}, b)
    OBVIOUS
  <2>5. Keeps(a, b)
    OBVIOUS
  <2> QED
    BY <2>1, <2>2, <2>3, <2>4, <2>5, StepAlloc
<1>2. Step(OnWork, At(m, {}, "", 0, 0, 0, 0), Open("fd", "work", v), Work(m, 0))
  <2> DEFINE a == At(m, {}, "", 0, 0, 0, 0)
             b == Work(m, 0)
  <2>1. Bounded(b)
    OBVIOUS
  <2>2. Undoes(OnWork, a, "open", v)
    OBVIOUS
  <2>3. Has(a, {Fd("fd")}, {}, b)
    OBVIOUS
  <2>4. b.file = "work" /\ b.lo <= 0 /\ 0 <= b.hi /\ a.top <= b.top /\ b.size <= a.size
    OBVIOUS
  <2> QED
    BY <2>1, <2>2, <2>3, <2>4, StepOpen
<1>3. Step(OnWork, Work(m, hi), Rewind("fd", u), Work(m, 0))
  <2> DEFINE a == Work(m, hi)
             b == Work(m, 0)
  <2>1. Bounded(b)
    OBVIOUS
  <2>2. Undoes(OnWork, a, "rewind", u) /\ Has(a, {}, {}, b)
    OBVIOUS
  <2>3. b.file = a.file /\ b.lo <= 0 /\ 0 <= b.hi /\ a.top <= b.top /\ b.size <= a.size
    OBVIOUS
  <2> QED
    BY <2>1, <2>2, <2>3, StepRewind
<1>4. Step(OnWork, Work(m, n), Read("fd", u), Work(m, n + 1))
  <2> DEFINE a == Work(m, n)
             b == Work(m, n + 1)
  <2>1. Bounded(b)
    OBVIOUS
  <2>2. /\ Undoes(OnWork, a, "read", u) /\ Has(a, {}, {}, b) /\ Fd("fd") \in a.must
        /\ a.file = "work" /\ a.hi < Blocks
    OBVIOUS
  <2>3. /\ b.file = a.file /\ b.lo <= a.lo + 1 /\ a.hi + 1 <= b.hi /\ a.top <= b.top
        /\ b.size <= a.size
    OBVIOUS
  <2> QED
    BY <2>1, <2>2, <2>3, StepRead
<1> QED
  BY <1>1, <1>2, <1>3, <1>4

\* The work file and its copy are open.
LEMMA CopySteps ==
  ASSUME NEW l, NEW m \in Buffers, NEW hi \in 0 .. Far, NEW n \in 0 .. Blocks - 1,
         NEW u, Close("fd") \in Range(u), Close("fd2") \in Range(u)
  PROVE  /\ Step(OnDisk(l), Copy(m, hi, 0), Rewind("fd", u), Copy(m, 0, 0))
         /\ Step(OnDisk(l), Copy(m, n, n), Read("fd", u), Copy(m, n + 1, n))
         /\ Step(OnDisk(l), Copy(m, n + 1, n), Write("fd2", u), Copy(m, n + 1, n + 1))
<1> USE BlocksAssumption, Different
    DEF Bounded, Undoes, Has, Keeps, OnDisk, Copy, Temp, Far, At, Buffers
<1>1. Step(OnDisk(l), Copy(m, hi, 0), Rewind("fd", u), Copy(m, 0, 0))
  <2> DEFINE a == Copy(m, hi, 0)
             b == Copy(m, 0, 0)
  <2>1. Bounded(b)
    OBVIOUS
  <2>2. Undoes(OnDisk(l), a, "rewind", u) /\ Has(a, {}, {}, b)
    OBVIOUS
  <2>3. b.file = a.file /\ b.lo <= 0 /\ 0 <= b.hi /\ a.top <= b.top /\ b.size <= a.size
    OBVIOUS
  <2> QED
    BY <2>1, <2>2, <2>3, StepRewind
<1>2. Step(OnDisk(l), Copy(m, n, n), Read("fd", u), Copy(m, n + 1, n))
  <2> DEFINE a == Copy(m, n, n)
             b == Copy(m, n + 1, n)
  <2>1. Bounded(b)
    OBVIOUS
  <2>2. /\ Undoes(OnDisk(l), a, "read", u) /\ Has(a, {}, {}, b) /\ Fd("fd") \in a.must
        /\ a.file = "work" /\ a.hi < Blocks
    OBVIOUS
  <2>3. /\ b.file = a.file /\ b.lo <= a.lo + 1 /\ a.hi + 1 <= b.hi /\ a.top <= b.top
        /\ b.size <= a.size
    OBVIOUS
  <2> QED
    BY <2>1, <2>2, <2>3, StepRead
<1>3. Step(OnDisk(l), Copy(m, n + 1, n), Write("fd2", u), Copy(m, n + 1, n + 1))
  <2> DEFINE a == Copy(m, n + 1, n)
             b == Copy(m, n + 1, n + 1)
  <2>1. Bounded(b)
    OBVIOUS
  <2>2. Undoes(OnDisk(l), a, "write", u) /\ Fd("fd2") \in a.must
    OBVIOUS
  <2>3. Has(a, {}, {}, b)
    OBVIOUS
  <2>4. b.file = a.file /\ b.lo <= a.lo /\ a.hi <= b.hi /\ a.top + 1 <= b.top /\ b.size <= a.size
    OBVIOUS
  <2> QED
    BY <2>1, <2>2, <2>3, <2>4, StepWrite2
<1> QED
  BY <1>1, <1>2, <1>3

\* Both files are opened, and the first is read from its start.
LEMMA OpenBothPath ==
  ASSUME NEW l
  PROVE  Path(OnDisk(l), OpenBoth, Start, Copy({}, 0, 0))
<1> DEFINE p == OnDisk(l)
           a == At({Fd("fd"), Temp}, {Fd("fd")}, "work", 0, 0, 0, 0)
           b == Copy({}, 0, 0)
<1>1. Bounded(Start) /\ Bounded(a) /\ Bounded(b)
  BY BlocksAssumption, Different DEF Start, Copy, At, Bounded, Temp, Far
<1>2. Step(p, Start, Open("fd", "work", <<>>), a)
  <2>1. Undoes(p, Start, "open", <<>>) /\ Has(Start, {Fd("fd")}, {}, a)
    BY Different DEF Undoes, Has, Start, At, Temp
  <2>2. a.file = "work" /\ a.lo <= 0 /\ 0 <= a.hi /\ Start.top <= a.top /\ a.size <= Start.size
    BY DEF Start, At
  <2> HIDE DEF a, p
  <2> QED
    BY <1>1, <2>1, <2>2, StepOpen
<1>3. Step(p, a, Creat("fd2", "temp", <<Close("fd")>>), b)
  <2>1. Undoes(p, a, "creat", <<Close("fd")>>) /\ Has(a, {Fd("fd2"), Entry("temp")}, {}, b)
    BY Different, Undone DEF Undoes, Has, At, Copy, Temp
  <2>2. /\ b.file = a.file /\ b.lo <= a.lo /\ a.hi <= b.hi /\ 0 <= b.top /\ b.size <= 0
        /\ "temp" \in p.uses
    BY DEF Copy, At, OnDisk
  <2> HIDE DEF a, b, p
  <2> QED
    BY <1>1, <2>1, <2>2, StepCreat2
<1>4. Step(p, b, Rewind("fd", CloseBoth), b)
  <2>1. {} \in Buffers /\ 0 \in 0 .. Far
    BY BlocksAssumption DEF Buffers, Far
  <2>2. Undoes(p, b, "rewind", CloseBoth) /\ Has(b, {}, {}, b)
    BY Different, Undone DEF Undoes, Has, At, Copy, Temp
  <2>3. b.file = b.file /\ b.lo <= 0 /\ 0 <= b.hi /\ b.top <= b.top /\ b.size <= b.size
    BY DEF Copy, At
  <2> HIDE DEF b, p
  <2> QED
    BY <1>1, <2>2, <2>3, StepRewind
<1> HIDE DEF p, a, b
<1>5. Path(p, OpenBoth, Start, b)
  BY <1>1, <1>2, <1>3, <1>4, PathThree DEF OpenBoth
<1> QED
  BY <1>5 DEF p, b

\* The blocks are copied one by one.
LEMMA CopyLoop ==
  ASSUME NEW l, NEW m \in Buffers, NEW u, Close("fd") \in Range(u), Close("fd2") \in Range(u),
         NEW n \in 0 .. Blocks
  PROVE  Path(OnDisk(l), Rounds(n, <<Read("fd", u), Write("fd2", u)>>),
              Copy(m, 0, 0), Copy(m, n, n))
<1> DEFINE S == [i \in 0 .. n |-> Copy(m, i, i)]
           body == <<Read("fd", u), Write("fd2", u)>>
<1>1. n \in Nat /\ S[0] = Copy(m, 0, 0) /\ S[n] = Copy(m, n, n)
  BY BlocksAssumption
<1>2. \A i \in 0 .. n : Bounded(Copy(m, i, i))
  BY BlocksAssumption, Different DEF Copy, At, Bounded, Temp, Far
<1>3. ASSUME NEW i \in 1 .. n PROVE Path(OnDisk(l), body, S[i - 1], S[i])
  <2> DEFINE j == i - 1
  <2>1. j \in 0 .. Blocks - 1 /\ j + 1 = i /\ 0 \in 0 .. Far /\ j \in 0 .. n
    BY BlocksAssumption DEF Far
  <2>2. S[j] = Copy(m, j, j) /\ S[i] = Copy(m, i, i)
    BY <2>1
  <2> HIDE DEF j
  <2>3. /\ Step(OnDisk(l), Copy(m, j, j), Read("fd", u), Copy(m, j + 1, j))
        /\ Step(OnDisk(l), Copy(m, j + 1, j), Write("fd2", u), Copy(m, j + 1, j + 1))
    BY <2>1, CopySteps
  <2>4. Path(OnDisk(l), body, S[j], S[i])
    BY <1>2, <2>1, <2>2, <2>3, PathTwo
  <2> QED
    BY <2>4 DEF j
<1>4. IsSequence(body) /\ body # <<>>
  BY Bodies
<1>5. Bounded(S[0])
  BY <1>1, <1>2, BlocksAssumption
<1> HIDE DEF S, body
<1>6. Path(OnDisk(l), Rounds(n, body), S[0], S[n])
  BY <1>1, <1>3, <1>4, <1>5, PathRounds
<1> QED
  BY <1>1, <1>6 DEF body

\* The ends of the tests with two files, with the name of the copy removed first or last.
LEMMA CopyEnds ==
  ASSUME NEW l, NEW a, Tame(a), NEW m \in Buffers, a.may \subseteq {Fd("fd"), Fd("fd2"),
         Temp} \cup m
  PROVE  /\ Path(OnDisk(l), RemoveBoth, a, Ending(a.file, m))
         /\ Path(OnDisk(l), CloseBoth, a, Ending(a.file, {Temp} \cup m))
         /\ \A f : Finishes(OnDisk(l), <<Unlink("temp")>>, Ending(f, {}))
         /\ \A f : Finishes(OnDisk(l), <<Unlink("temp")>>, Ending(f, {Temp}))
<1> DEFINE p == OnDisk(l)
           X == {Fd("fd"), Fd("fd2")} \cup m
           Y == {Fd("fd2")} \cup m
           Z == {Fd("fd2"), Temp} \cup m
           W == {Temp} \cup m
           x == Ending(a.file, X)
           y == Ending(a.file, Y)
           z == Ending(a.file, Z)
           w == Ending(a.file, W)
           e == Ending(a.file, m)
<1>1. /\ Kid \notin X /\ Kid \notin Y /\ Kid \notin Z /\ Kid \notin W /\ Kid \notin m
      /\ "temp" \in p.uses
      /\ a.may \ {Entry("temp")} \subseteq X /\ X \ {Fd("fd")} \subseteq Y
      /\ Y \ {Fd("fd2")} \subseteq m
      /\ a.may \ {Fd("fd")} \subseteq Z /\ Z \ {Fd("fd2")} \subseteq W
  BY Different DEF Temp, Buffers, OnDisk
<1> HIDE DEF p, X, Y, Z, W
<1>2. Step(p, a, Unlink("temp"), x) /\ Tame(x) /\ x.file = a.file /\ x.may = X
  BY <1>1, Ends
<1>3. Step(p, a, Close("fd"), z) /\ Tame(z) /\ z.file = a.file /\ z.may = Z
  BY <1>1, Ends
<1>4. Tame(y) /\ y.file = a.file /\ y.may = Y
  BY <1>1, Ends
<1> HIDE DEF x, y, z, w, e
<1>5. Step(p, x, Close("fd"), y)
  BY <1>1, <1>2, Ends DEF y
<1>6. Step(p, y, Close("fd2"), e)
  BY <1>1, <1>4, Ends DEF e
<1>7. Step(p, z, Close("fd2"), w)
  BY <1>1, <1>3, Ends DEF w
<1>8. Path(p, RemoveBoth, a, e)
  BY <1>2, <1>5, <1>6, PathThree DEF Tame, RemoveBoth
<1>9. Path(p, CloseBoth, a, w)
  BY <1>3, <1>7, PathTwo DEF Tame, CloseBoth
<1>10. ASSUME NEW f, NEW V \in {{}, {Temp}} PROVE Finishes(p, <<Unlink("temp")>>, Ending(f, V))
  <2> DEFINE g == Ending(f, V)
             h == Ending(f, {})
  <2>1. Kid \notin V /\ V \ {Entry("temp")} \subseteq {} /\ Kid \notin {}
    BY Different DEF Temp
  <2>2. Tame(g) /\ g.file = f /\ g.may = V /\ h.may = {}
    BY <2>1, BlocksAssumption DEF Ending, At, Tame, Bounded, Far
  <2> HIDE DEF g
  <2>3. Step(p, g, Unlink("temp"), h)
    BY <1>1, <2>1, <2>2, Ends
  <2> HIDE DEF h
  <2>4. Path(p, <<Unlink("temp")>>, g, h)
    BY <2>2, <2>3, PathCall DEF Tame
  <2> QED
    BY <2>2, <2>4 DEF g, Finishes
<1> QED
  BY <1>8, <1>9, <1>10 DEF p, e, w, W

\* A state with two open files.
LEMMA CopyTame ==
  ASSUME NEW m \in Buffers, NEW hi \in 0 .. Far, NEW top \in 0 .. Far
  PROVE  /\ Tame(Copy(m, hi, top)) /\ Copy(m, hi, top).file = "work"
         /\ Copy(m, hi, top).may \subseteq {Fd("fd"), Fd("fd2"), Temp} \cup m
BY BlocksAssumption, Different DEF Copy, At, Tame, Bounded, Buffers, Temp, Far

\* disk_cp() ends with nothing left.
LEMMA disk_cp_Finishes == Finishes(OnDisk({}), disk_cp, Start)
<1> DEFINE p == OnDisk({})
           a == Copy({}, 0, 0)
           b == Copy({}, Blocks, Blocks)
           r == Rounds(Blocks, <<Read("fd", CloseBoth), Write("fd2", CloseBoth)>>)
           f == <<Unlink("temp")>>
<1>1. /\ {} \in Buffers /\ Blocks \in 0 .. Blocks /\ Blocks \in 0 .. Far /\ half \in 0 .. Blocks
      /\ half \in 0 .. Far
      /\ {Temp} \cup {} = {Temp}
  BY BlocksAssumption, Halves DEF Buffers, Far
<1>2. Path(p, OpenBoth, Start, a)
  BY OpenBothPath
<1>3. Path(p, r, a, b)
  BY <1>1, CopyLoop, Undone
<1>4. Tame(b) /\ b.file = "work" /\ b.may \subseteq {Fd("fd"), Fd("fd2"), Temp} \cup {}
  BY <1>1, CopyTame
<1> HIDE DEF p, a, b, r
<1>5. Path(p, RemoveBoth, b, Ending("work", {})) /\ Finishes(p, f, Ending("work", {}))
  BY <1>1, <1>4, CopyEnds DEF p
<1> HIDE DEF f
<1>6. Path(p, (OpenBoth \o r) \o RemoveBoth, Start, Ending("work", {}))
  BY <1>2, <1>3, <1>5, PathConcat
<1>7. Finishes(p, ((OpenBoth \o r) \o RemoveBoth) \o f, Start)
  BY <1>5, <1>6, FinishesAfter
<1> QED
  BY <1>7 DEF disk_cp, r, f, p

\* disk_bcp() ends with nothing left.
LEMMA disk_bcp_Finishes == Finishes(OnDisk({}), disk_bcp, Start)
<1> DEFINE p == OnDisk({})
           a == Copy({}, 0, 0)
           b == Copy({}, Blocks, Blocks)
           r == Rounds(Blocks, <<Read("fd", CloseBoth), Write("fd2", CloseBoth)>>)
           f == <<Unlink("temp")>>
<1>1. /\ {} \in Buffers /\ Blocks \in 0 .. Blocks /\ Blocks \in 0 .. Far /\ half \in 0 .. Blocks
      /\ half \in 0 .. Far
      /\ {Temp} \cup {} = {Temp}
  BY BlocksAssumption, Halves DEF Buffers, Far
<1>2. Path(p, OpenBoth, Start, a)
  BY OpenBothPath
<1>3. Path(p, r, a, b)
  BY <1>1, CopyLoop, Undone
<1>4. Tame(b) /\ b.file = "work" /\ b.may \subseteq {Fd("fd"), Fd("fd2"), Temp} \cup {}
  BY <1>1, CopyTame
<1> HIDE DEF p, a, b, r
<1>5. Path(p, RemoveBoth, b, Ending("work", {})) /\ Finishes(p, f, Ending("work", {}))
  BY <1>1, <1>4, CopyEnds DEF p
<1> HIDE DEF f
<1>6. Path(p, (OpenBoth \o r) \o RemoveBoth, Start, Ending("work", {}))
  BY <1>2, <1>3, <1>5, PathConcat
<1>7. Finishes(p, ((OpenBoth \o r) \o RemoveBoth) \o f, Start)
  BY <1>5, <1>6, FinishesAfter
<1> QED
  BY <1>7 DEF disk_bcp, r, f, p

\* sync_disk_cp() ends with nothing left.
LEMMA sync_disk_cp_Finishes == Finishes(OnDisk({}), sync_disk_cp, Start)
<1> DEFINE p == OnDisk({})
           a == Copy({}, 0, 0)
           b == Copy({}, half, half)
           r == Rounds(half, <<Read("fd", RemoveBoth), Write("fd2", RemoveBoth)>>)
           f == <<Unlink("temp")>>
<1>1. /\ {} \in Buffers /\ Blocks \in 0 .. Blocks /\ Blocks \in 0 .. Far /\ half \in 0 .. Blocks
      /\ half \in 0 .. Far
      /\ {Temp} \cup {} = {Temp}
  BY BlocksAssumption, Halves DEF Buffers, Far
<1>2. Path(p, OpenBoth, Start, a)
  BY OpenBothPath
<1>3. Path(p, r, a, b)
  BY <1>1, CopyLoop, Undone
<1>4. Tame(b) /\ b.file = "work" /\ b.may \subseteq {Fd("fd"), Fd("fd2"), Temp} \cup {}
  BY <1>1, CopyTame
<1> HIDE DEF p, a, b, r
<1>5. Path(p, CloseBoth, b, Ending("work", {Temp})) /\ Finishes(p, f, Ending("work", {Temp}))
  BY <1>1, <1>4, CopyEnds DEF p
<1> HIDE DEF f
<1>6. Path(p, (OpenBoth \o r) \o CloseBoth, Start, Ending("work", {Temp}))
  BY <1>2, <1>3, <1>5, PathConcat
<1>7. Finishes(p, ((OpenBoth \o r) \o CloseBoth) \o f, Start)
  BY <1>5, <1>6, FinishesAfter
<1> QED
  BY <1>7 DEF sync_disk_cp, r, f, p

\* disk_dio_cp() ends with nothing left.
LEMMA disk_dio_cp_Finishes == Finishes(OnDisk({"alloc"}), disk_dio_cp, Start)
<1> DEFINE p == OnDisk({"alloc"})
           m == {Mem("buf")}
           a == Copy({}, 0, 0)
           b == Copy(m, 0, 0)
           u == CloseBoth \o <<Free("buf")>>
           r == <<Read("fd", u), Write("fd2", u)>>
           w == Rounds(0, r)
           c == <<local_pma(<<>>)>>
           f == <<Free("buf")>>
<1>1. {} \in Buffers /\ m \in Buffers /\ 0 \in 0 .. Far /\ 0 \in Int /\ 0 \in Nat
  BY BlocksAssumption DEF Buffers, Far
<1>2. Path(p, OpenBoth, Start, a)
  BY OpenBothPath
<1>3. Tame(a) /\ Tame(b) /\ b.file = "work" /\ b.may \subseteq {Fd("fd"), Fd("fd2"), Temp} \cup m
  BY <1>1, CopyTame
<1>4. Path(p, c, a, b)
  <2>1. Has(a, {Mem("buf")}, {}, b) /\ "buf" \in MemNames
    BY Different DEF Copy, At, Temp, Has, MemNames
  <2>2. Undoes(p, a, "alloc", <<>>)
    BY Different DEF Copy, At, Temp, Undoes, OnDisk
  <2>3. Keeps(a, b)
    BY DEF Copy, At, Keeps
  <2>4. Step(p, a, local_pma(<<>>), b)
    BY <1>3, <2>1, <2>2, <2>3, StepAlloc DEF local_pma, Tame
  <2> HIDE DEF a, b
  <2> QED
    BY <1>3, <2>4, PathCall DEF Tame
<1>5. IsSequence(r) /\ r # <<>>
  BY Bodies
<1>6. ASSUME NEW g PROVE Finishes(p, f, Ending(g, m))
  <2> DEFINE o == One(m, 0, 0, 0)
  <2>1. Tame(o) /\ o.may \subseteq {Fd("fd"), Temp} \cup m
    BY <1>1, OneTame
  <2> HIDE DEF o, m
  <2> QED
    BY <1>1, <2>1, OneEnds
<1> HIDE DEF p, m, a, b, u, r, c, f
<1>7. Path(p, w, b, b)
  BY <1>1, <1>3, <1>5, SameLoop DEF Tame
<1>8. Path(p, RemoveBoth, b, Ending("work", m))
  BY <1>1, <1>3, CopyEnds DEF p
<1> HIDE DEF w
<1>9. Path(p, ((OpenBoth \o c) \o w) \o RemoveBoth, Start, Ending("work", m))
  BY <1>2, <1>4, <1>7, <1>8, PathConcat
<1>10. Finishes(p, (((OpenBoth \o c) \o w) \o RemoveBoth) \o f, Start)
  BY <1>6, <1>9, FinishesAfter
<1> QED
  BY <1>10 DEF disk_dio_cp, pma_success, c, r, u, w, f, p

\* The work file read from its start to its end.
LEMMA WorkLoop ==
  ASSUME NEW m \in Buffers, NEW u, Close("fd") \in Range(u), NEW n \in 0 .. Blocks
  PROVE  Path(OnWork, Rounds(n, <<Read("fd", u)>>), Work(m, 0), Work(m, n))
<1> DEFINE S == [i \in 0 .. n |-> Work(m, i)]
<1>1. n \in Nat /\ S[0] = Work(m, 0) /\ S[n] = Work(m, n)
  BY BlocksAssumption
<1>2. \A i \in 0 .. n : Bounded(Work(m, i))
  BY BlocksAssumption, Different DEF Work, At, Bounded, Far
<1>3. ASSUME NEW i \in 1 .. n PROVE Path(OnWork, <<Read("fd", u)>>, S[i - 1], S[i])
  <2> DEFINE j == i - 1
  <2>1. j \in 0 .. Blocks - 1 /\ j + 1 = i /\ 0 \in 0 .. Far /\ j \in 0 .. n
    BY BlocksAssumption DEF Far
  <2>2. S[j] = Work(m, j) /\ S[i] = Work(m, i)
    BY <2>1
  <2> HIDE DEF j
  <2>3. Step(OnWork, Work(m, j), Read("fd", u), Work(m, j + 1))
    BY <2>1, WorkSteps
  <2>4. Path(OnWork, <<Read("fd", u)>>, S[j], S[i])
    BY <1>2, <2>1, <2>2, <2>3, PathCall
  <2> QED
    BY <2>4 DEF j
<1>4. Bounded(S[0])
  BY <1>1, <1>2, BlocksAssumption
<1> HIDE DEF S
<1>5. Path(OnWork, Rounds(n, <<Read("fd", u)>>), S[0], S[n])
  BY <1>1, <1>3, <1>4, Bodies, PathRounds
<1> QED
  BY <1>1, <1>5

\* The end of the tests with the work file.
LEMMA WorkEnds ==
  ASSUME NEW m \in Buffers, NEW hi \in 0 .. Far
  PROVE  /\ Finishes(OnWork, <<Close("fd")>>, Work({}, hi))
         /\ Finishes(OnWork, <<Close("fd"), Free("buf")>>, Work(m, hi))
<1> DEFINE p == OnWork
           x == Work({}, hi)
           y == Work(m, hi)
           d == Ending("work", {})
           e == Ending("work", m)
<1>1. ASSUME NEW k \in Buffers
      PROVE  /\ Kid \notin k /\ Tame(Work(k, hi)) /\ Work(k, hi).file = "work"
             /\ Work(k, hi).may \ {Fd("fd")} \subseteq k /\ k \ {Mem("buf")} \subseteq {}
  BY BlocksAssumption, Different DEF Work, At, Tame, Bounded, Buffers, Far
<1>2. {} \in Buffers /\ Kid \notin {}
  BY DEF Buffers
<1>3. /\ Tame(x) /\ x.file = "work" /\ x.may \ {Fd("fd")} \subseteq {}
      /\ Tame(y) /\ y.file = "work" /\ y.may \ {Fd("fd")} \subseteq m
      /\ Kid \notin m /\ m \ {Mem("buf")} \subseteq {}
  BY <1>1, <1>2
<1> HIDE DEF p, x, y
<1>4. Step(p, x, Close("fd"), d) /\ Tame(d) /\ d.may = {}
  BY <1>2, <1>3, Ends
<1>5. Step(p, y, Close("fd"), e) /\ Tame(e) /\ e.may = m /\ e.file = "work"
  BY <1>3, Ends
<1> HIDE DEF e
<1>6. Step(p, e, Free("buf"), d)
  BY <1>2, <1>3, <1>5, Ends
<1> HIDE DEF d
<1>7. Path(p, <<Close("fd")>>, x, d)
  BY <1>3, <1>4, PathCall DEF Tame
<1>8. Path(p, <<Close("fd"), Free("buf")>>, y, d)
  BY <1>3, <1>4, <1>5, <1>6, PathTwo DEF Tame
<1> QED
  BY <1>4, <1>7, <1>8 DEF Finishes, p, x, y

\* disk_brd() ends with nothing left.
LEMMA disk_brd_Finishes == Finishes(OnWork, disk_brd, Empty)
<1> DEFINE o == <<Open("fd", "work", <<>>), Rewind("fd", <<Close("fd")>>)>>
           r == Rounds(Blocks, <<Read("fd", <<Close("fd")>>)>>)
<1>1. /\ {} \in Buffers /\ 0 \in 0 .. Far /\ Blocks \in 0 .. Blocks /\ Blocks \in 0 .. Far
      /\ Bounded(Empty) /\ Empty = At({}, {}, "", 0, 0, 0, 0)
  BY BlocksAssumption, Different DEF Buffers, Far, Empty, At, Bounded
<1>2. Step(OnWork, Empty, Open("fd", "work", <<>>), Work({}, 0))
  <2> DEFINE a == Empty
             b == Work({}, 0)
  <2>1. Bounded(b) /\ Undoes(OnWork, a, "open", <<>>) /\ Has(a, {Fd("fd")}, {}, b)
    BY BlocksAssumption, Different DEF Empty, Work, At, Bounded, Undoes, Has, Far
  <2>2. b.file = "work" /\ b.lo <= 0 /\ 0 <= b.hi /\ a.top <= b.top /\ b.size <= a.size
    BY DEF Empty, Work, At
  <2> HIDE DEF a, b
  <2> QED
    BY <2>1, <2>2, StepOpen DEF a, b
<1>3. Step(OnWork, Work({}, 0), Rewind("fd", <<Close("fd")>>), Work({}, 0))
  <2> DEFINE b == Work({}, 0)
             u == <<Close("fd")>>
  <2>1. Bounded(b) /\ Undoes(OnWork, b, "rewind", u) /\ Has(b, {}, {}, b)
    BY BlocksAssumption, Different, Undone DEF Empty, Work, At, Bounded, Undoes, Has, Far
  <2>2. b.lo <= 0 /\ 0 <= b.hi /\ b.top <= b.top /\ b.size <= b.size
    BY DEF Work, At
  <2> HIDE DEF b, u
  <2> QED
    BY <2>1, <2>2, StepRewind DEF b, u
<1>4. Path(OnWork, o, Empty, Work({}, 0))
  BY <1>1, <1>2, <1>3, PathTwo
<1>5. Path(OnWork, r, Work({}, 0), Work({}, Blocks))
  BY <1>1, WorkLoop, Undone
<1>6. Finishes(OnWork, <<Close("fd")>>, Work({}, Blocks))
  BY <1>1, WorkEnds
<1> HIDE DEF o, r
<1>7. Finishes(OnWork, (o \o r) \o <<Close("fd")>>, Empty)
  BY <1>4, <1>5, <1>6, PathConcat, FinishesAfter
<1> QED
  BY <1>7 DEF disk_brd, o, r

\* disk_dio_rd() ends with nothing left.
LEMMA disk_dio_rd_Finishes == Finishes(OnWork, disk_dio_rd, Empty)
<1> DEFINE m == {Mem("buf")}
           a == At(m, {}, "", 0, 0, 0, 0)
           u == <<Close("fd")>>
           o == <<local_pma(<<>>), Open("fd", "work", <<>>), Rewind("fd", u)>>
           r == Rounds(Blocks, <<Read("fd", <<Close("fd"), Free("buf")>>)>>)
           f == <<Close("fd"), Free("buf")>>
<1>1. /\ m \in Buffers /\ 0 \in 0 .. Far /\ Blocks \in 0 .. Blocks /\ Blocks \in 0 .. Far
      /\ Bounded(Empty) /\ Bounded(a)
  BY BlocksAssumption, Different DEF Buffers, Far, Empty, At, Bounded
<1>2. Step(OnWork, Empty, local_pma(<<>>), a)
  <2>1. /\ "buf" \in MemNames /\ Undoes(OnWork, Empty, "alloc", <<>>)
        /\ Has(Empty, {Mem("buf")}, {}, a)
    BY Different DEF Empty, At, Undoes, Has, MemNames
  <2>2. Keeps(Empty, a)
    BY DEF Keeps, Empty, At
  <2> HIDE DEF a
  <2> QED
    BY <1>1, <2>1, <2>2, StepAlloc DEF local_pma
<1>3. Step(OnWork, a, Open("fd", "work", <<>>), Work(m, 0))
  <2> DEFINE b == Work(m, 0)
  <2>1. Bounded(b) /\ Undoes(OnWork, a, "open", <<>>) /\ Has(a, {Fd("fd")}, {}, b)
    BY BlocksAssumption, Different DEF Work, At, Bounded, Undoes, Has, Far
  <2>2. b.file = "work" /\ b.lo <= 0 /\ 0 <= b.hi /\ a.top <= b.top /\ b.size <= a.size
    BY DEF Work, At
  <2> HIDE DEF a, b
  <2> QED
    BY <2>1, <2>2, StepOpen DEF b
<1>4. Step(OnWork, Work(m, 0), Rewind("fd", u), Work(m, 0))
  <2> DEFINE b == Work(m, 0)
  <2>1. Bounded(b) /\ Undoes(OnWork, b, "rewind", u) /\ Has(b, {}, {}, b)
    BY BlocksAssumption, Different, Undone DEF Empty, Work, At, Bounded, Undoes, Has, Far
  <2>2. b.lo <= 0 /\ 0 <= b.hi /\ b.top <= b.top /\ b.size <= b.size
    BY DEF Work, At
  <2> HIDE DEF b, u
  <2> QED
    BY <2>1, <2>2, StepRewind DEF b
<1>5. Path(OnWork, r, Work(m, 0), Work(m, Blocks))
  BY <1>1, WorkLoop, Undone
<1>6. Finishes(OnWork, f, Work(m, Blocks))
  BY <1>1, WorkEnds
<1> HIDE DEF m, a, u
<1>7. Path(OnWork, o, Empty, Work(m, 0))
  BY <1>1, <1>2, <1>3, <1>4, PathThree
<1> HIDE DEF o, r, f
<1>8. Finishes(OnWork, (o \o r) \o f, Empty)
  BY <1>5, <1>6, <1>7, PathConcat, FinishesAfter
<1> QED
  BY <1>8 DEF disk_dio_rd, o, r, f, u

(***************************************************************************)
(* The other tests: no positions in files, any call may leave what it has. *)
(***************************************************************************)
Holder(uses, segs) == [uses |-> uses, loose |-> Fallible, ipc |-> segs]
Holds(may, must, file) == At(may, must, file, 0, 0, 0, 0)
Plain(a) == Bounded(a) /\ Kid \notin a.may /\ a.lo = 0 /\ a.hi = 0 /\ a.top = 0 /\ a.size = 0
Private(a) == Plain(a) /\ \A w : Ipc(w) \notin a.may

\* States without open blocks differ in what is held alone.
LEMMA PlainKeeps ==
  ASSUME NEW a, Plain(a), NEW b, Plain(b), b.file = a.file
  PROVE  Keeps(a, b)
BY DEF Plain, Keeps

\* What the calls of these tests do, of those that have no child and no segment.
LEMMA PrivateSteps ==
  ASSUME NEW p, p.loose = Fallible, NEW a, Private(a), NEW b, Private(b), b.file = a.file
  PROVE  /\ \A x : Has(a, {}, {Fd(x)}, b) => Step(p, a, Close(x), b)
         /\ \A f \in p.uses : Has(a, {}, {Entry(f)}, b) => Step(p, a, Unlink(f), b)
         /\ \A x : Has(a, {}, {Mem(x)}, b) => Step(p, a, Free(x), b)
         /\ \A f \in p.uses : \A u : b.file = f /\ Has(a, {Fd("fd"), Entry(f)}, {}, b)
               => Step(p, a, Creat("fd", f, u), b)
         /\ \A f \in p.uses : \A u : f # "temp" /\ Entry(f) \notin a.may /\ Has(a, {Entry(f)}, {}, b)
               => Step(p, a, Make(f, u), b)
         /\ \A f \in p.uses : \A u : Entry(f) \in a.must /\ Has(a, {}, {Entry(f)}, b)
               => Step(p, a, UnlinkOrFail(f, u), b)
         /\ \A X : X \cap {"fd", "fd2"} = {} /\ Has(a, {Fd(x) : x \in X}, {}, b)
               => Step(p, a, Socket(X), b)
         /\ \A x, u : {x} \cap {"fd", "fd2"} = {} /\ Has(a, {Fd(y) : y \in {x}}, {}, b)
               => Step(p, a, Fopen(x, u), b)
         /\ \A x : x \notin {"fd", "fd2"} /\ Has(a, {Fd(x)}, {}, b) => Step(p, a, Accept(x), b)
         /\ \A x : Fd(x) \in a.must /\ Has(a, {}, {}, b) => Step(p, a, Send(x), b)
         /\ \A x : Fd(x) \in a.must /\ Has(a, {}, {}, b) => Step(p, a, Receive(x), b)
         /\ \A x \in MemNames : \A u : Has(a, {Mem(x)}, {}, b) => Step(p, a, Alloc(x, u), b)
         /\ \A u : Has(a, {}, {}, b) => Step(p, a, Try(u), b)
<1>1. Keeps(a, b) /\ Bounded(b)
  BY DEF Private, Plain, Keeps
<1>2. \A op \in Fallible : \A u : Undoes(p, a, op, u)
  BY DEF Private, Plain, Undoes
<1>3. Kid \notin a.may
  BY DEF Private, Plain
<1>4. \A op \in {"creat", "make", "remove", "socket", "send", "receive", "alloc", "try"} : op \in Fallible
  BY DEF Fallible
<1>5. b.lo <= 0 /\ 0 <= b.hi /\ b.size <= 0 /\ a.top <= b.top /\ b.size <= a.size
  BY DEF Private, Plain
<1>6. ASSUME NEW x, Has(a, {}, {Fd(x)}, b) PROVE Step(p, a, Close(x), b)
  BY <1>1, <1>2, <1>3, <1>4, <1>5, <1>6, StepClose
<1>7. ASSUME NEW f \in p.uses, Has(a, {}, {Entry(f)}, b) PROVE Step(p, a, Unlink(f), b)
  BY <1>1, <1>2, <1>3, <1>4, <1>5, <1>7, StepUnlink
<1>8. ASSUME NEW x, Has(a, {}, {Mem(x)}, b) PROVE Step(p, a, Free(x), b)
  BY <1>1, <1>2, <1>3, <1>4, <1>5, <1>8, StepFree
<1>9. ASSUME NEW f \in p.uses, NEW u, b.file = f /\ Has(a, {Fd("fd"), Entry(f)}, {}, b)
      PROVE  Step(p, a, Creat("fd", f, u), b)
  BY <1>1, <1>2, <1>3, <1>4, <1>5, <1>9, StepCreat
<1>10. ASSUME NEW f \in p.uses, NEW u, f # "temp" /\ Entry(f) \notin a.may /\ Has(a, {Entry(f)}, {}, b)
       PROVE  Step(p, a, Make(f, u), b)
  BY <1>1, <1>2, <1>3, <1>4, <1>5, <1>10, StepMake
<1>11. ASSUME NEW f \in p.uses, NEW u, Entry(f) \in a.must /\ Has(a, {}, {Entry(f)}, b)
       PROVE  Step(p, a, UnlinkOrFail(f, u), b)
  BY <1>1, <1>2, <1>3, <1>4, <1>5, <1>11, StepUnlinkOrFail
<1>12. ASSUME NEW X, X \cap {"fd", "fd2"} = {} /\ Has(a, {Fd(x) : x \in X}, {}, b)
       PROVE  Step(p, a, Socket(X), b)
  BY <1>1, <1>2, <1>3, <1>4, <1>5, <1>12, StepSocket
<1>13. ASSUME NEW x, x \notin {"fd", "fd2"} /\ Has(a, {Fd(x)}, {}, b) PROVE Step(p, a, Accept(x), b)
  BY <1>1, <1>2, <1>3, <1>4, <1>5, <1>13, StepAccept
<1>14. ASSUME NEW x, Fd(x) \in a.must /\ Has(a, {}, {}, b) PROVE Step(p, a, Send(x), b)
  BY <1>1, <1>2, <1>3, <1>4, <1>5, <1>14, StepSend
<1>15. ASSUME NEW x, Fd(x) \in a.must /\ Has(a, {}, {}, b) PROVE Step(p, a, Receive(x), b)
  BY <1>1, <1>2, <1>3, <1>4, <1>5, <1>15, StepReceive
<1>16. ASSUME NEW x \in MemNames, NEW u, Has(a, {Mem(x)}, {}, b) PROVE Step(p, a, Alloc(x, u), b)
  BY <1>1, <1>2, <1>3, <1>4, <1>5, <1>16, StepAlloc
<1>17. ASSUME NEW u, Has(a, {}, {}, b) PROVE Step(p, a, Try(u), b)
  BY <1>1, <1>2, <1>3, <1>4, <1>5, <1>17, StepTry
<1>18. ASSUME NEW x, NEW u, {x} \cap {"fd", "fd2"} = {} /\ Has(a, {Fd(y) : y \in {x}}, {}, b)
       PROVE  Step(p, a, Fopen(x, u), b)
  BY <1>1, <1>2, <1>3, <1>4, <1>5, <1>18, StepFopen
<1> QED
  BY <1>6, <1>7, <1>8, <1>9, <1>10, <1>11, <1>12, <1>13, <1>14, <1>15, <1>16, <1>17, <1>18

\* What is known of Loops.
LEMMA LoopCounts == Loops \in Nat \ {0} /\ Loops \in Int /\ Loops - 1 \in Int
BY LoopsAssumption

\* A loop whose first round ends where all the others begin and end.
LEMMA FirstThenSame ==
  ASSUME NEW p, NEW n \in Nat \ {0}, NEW body, NEW a, NEW b, Bounded(a), IsSequence(body),
         body # <<>>,
         Path(p, body, a, b), Path(p, body, b, b)
  PROVE  Path(p, Rounds(n, body), a, b)
<1> DEFINE S == [i \in 0 .. n |-> IF i = 0 THEN a ELSE b]
<1>1. S[0] = a /\ S[n] = b /\ \A i \in 1 .. n : S[i] = b /\ S[i - 1] = (IF i = 1 THEN a ELSE b)
  OBVIOUS
<1> HIDE DEF S
<1>2. \A i \in 1 .. n : Path(p, body, S[i - 1], S[i])
  BY <1>1
<1>3. Path(p, Rounds(n, body), S[0], S[n])
  BY ONLY <1>1, <1>2, n \in Nat \ {0}, Bounded(a), IsSequence(body), body # <<>>, PathRounds
<1> QED
  BY <1>1, <1>3

\* The transfers between two descriptors, and their end.
LEMMA ReadWriteClose ==
  ASSUME NEW p, p.loose = Fallible, NEW rd, NEW wr, NEW a, Private(a), Fd(rd) \in a.must,
         Fd(wr) \in a.must,
         NEW b, Private(b), NEW c, Private(c), b.file = a.file, c.file = a.file,
         Has(a, {}, {Fd(rd)}, b), Has(b, {}, {Fd(wr)}, c)
  PROVE  Path(p, read_write_close(rd, wr), a, c)
<1> DEFINE body == <<Send(wr), Receive(rd)>>
           end == <<Close(rd), Close(wr)>>
<1>1. Has(a, {}, {}, a) /\ Bounded(a) /\ Bounded(b)
  BY DEF Has, Private, Plain
<1>2. Step(p, a, Send(wr), a) /\ Step(p, a, Receive(rd), a)
  BY <1>1, PrivateSteps
<1>3. Path(p, body, a, a)
  BY <1>1, <1>2, PathTwo
<1>4. Step(p, a, Close(rd), b) /\ Step(p, b, Close(wr), c)
  BY PrivateSteps
<1>5. Path(p, end, a, c)
  BY <1>1, <1>4, PathTwo
<1>6. IsSequence(body) /\ body # <<>>
  BY Bodies
<1> HIDE DEF body, end
<1>7. Path(p, Rounds(Loops - 1, body), a, a)
  BY <1>1, <1>3, <1>6, LoopCounts, SameLoop
<1>8. Path(p, Rounds(Loops - 1, body) \o end, a, c)
  BY <1>5, <1>7, PathConcat
<1> QED
  BY <1>8 DEF read_write_close, body, end

\* Seven calls.
LEMMA PathSeven ==
  ASSUME NEW p, NEW s0, NEW s1, NEW s2, NEW s3, NEW s4, NEW s5, NEW s6, NEW s7,
         NEW c1, NEW c2, NEW c3, NEW c4, NEW c5, NEW c6, NEW c7, Bounded(s0),
         Step(p, s0, c1, s1),
         Step(p, s1, c2, s2),
         Step(p, s2, c3, s3),
         Step(p, s3, c4, s4),
         Step(p, s4, c5, s5),
         Step(p, s5, c6, s6),
         Step(p, s6, c7, s7)
  PROVE  Path(p, <<c1, c2, c3, c4, c5, c6, c7>>, s0, s7)
<1> DEFINE A == <<s0, s1, s2, s3, s4, s5, s6, s7>>
           q == <<c1, c2, c3, c4, c5, c6, c7>>
<1>1. /\ A[1] = s0 /\ A[2] = s1 /\ A[3] = s2 /\ A[4] = s3 /\ A[5] = s4 /\ A[6] = s5 /\ A[7] = s6
      /\ A[8] = s7
  OBVIOUS
<1>2. q \in Seq({c1, c2, c3, c4, c5, c6, c7}) /\ Len(q) = 7
      /\ q[1] = c1 /\ q[2] = c2 /\ q[3] = c3 /\ q[4] = c4 /\ q[5] = c5 /\ q[6] = c6 /\ q[7] = c7
  OBVIOUS
<1> HIDE DEF A, q
<1>3. /\ 1 .. 7 = {1, 2, 3, 4, 5, 6, 7} /\ 1 + 1 = 2 /\ 2 + 1 = 3 /\ 3 + 1 = 4 /\ 4 + 1 = 5
      /\ 5 + 1 = 6 /\ 6 + 1 = 7 /\ 7 + 1 = 8
  OBVIOUS
<1>4. Chain(p, q, A)
  BY <1>1, <1>2, <1>3 DEF Chain
<1> QED
  BY <1>1, <1>2, <1>3, <1>4 DEF Path, IsSequence, q

\* Eight calls.
LEMMA PathEight ==
  ASSUME NEW p, NEW s0, NEW s1, NEW s2, NEW s3, NEW s4, NEW s5, NEW s6, NEW s7, NEW s8,
         NEW c1, NEW c2, NEW c3, NEW c4, NEW c5, NEW c6, NEW c7, NEW c8, Bounded(s0),
         Step(p, s0, c1, s1),
         Step(p, s1, c2, s2),
         Step(p, s2, c3, s3),
         Step(p, s3, c4, s4),
         Step(p, s4, c5, s5),
         Step(p, s5, c6, s6),
         Step(p, s6, c7, s7),
         Step(p, s7, c8, s8)
  PROVE  Path(p, <<c1, c2, c3, c4, c5, c6, c7, c8>>, s0, s8)
<1> DEFINE A == <<s0, s1, s2, s3, s4, s5, s6, s7, s8>>
           q == <<c1, c2, c3, c4, c5, c6, c7, c8>>
<1>1. /\ A[1] = s0 /\ A[2] = s1 /\ A[3] = s2 /\ A[4] = s3 /\ A[5] = s4 /\ A[6] = s5 /\ A[7] = s6
      /\ A[8] = s7 /\ A[9] = s8
  OBVIOUS
<1>2. q \in Seq({c1, c2, c3, c4, c5, c6, c7, c8}) /\ Len(q) = 8
      /\ q[1] = c1 /\ q[2] = c2 /\ q[3] = c3 /\ q[4] = c4 /\ q[5] = c5 /\ q[6] = c6 /\ q[7] = c7
      /\ q[8] = c8
  OBVIOUS
<1> HIDE DEF A, q
<1>3. /\ 1 .. 8 = {1, 2, 3, 4, 5, 6, 7, 8} /\ 1 + 1 = 2 /\ 2 + 1 = 3 /\ 3 + 1 = 4 /\ 4 + 1 = 5
      /\ 5 + 1 = 6 /\ 6 + 1 = 7 /\ 7 + 1 = 8 /\ 8 + 1 = 9
  OBVIOUS
<1>4. Chain(p, q, A)
  BY <1>1, <1>2, <1>3 DEF Chain
<1> QED
  BY <1>1, <1>2, <1>3, <1>4 DEF Path, IsSequence, q

\* sieve() ends with nothing left.
LEMMA sieve_Finishes == Finishes(Holder({}, FALSE), sieve, Holds({}, {}, ""))
<1> DEFINE p == Holder({}, FALSE)
           a == Holds({}, {}, "")
           b == Holds({Mem("table")}, {}, "")
           z == Holds({}, {}, "")
<1>1. p.loose = Fallible /\ p.uses = {} /\ z.may = {}
  BY DEF Holder, Holds, At
<1>2. Private(a) /\ Private(b) /\ Private(z)
  BY BlocksAssumption, Different DEF Holds, At, Private, Plain, Bounded
<1>3. Bounded(a) /\ a.file = "" /\ Bounded(b) /\ b.file = "" /\ Bounded(z) /\ z.file = ""
  BY <1>2 DEF Private, Plain, Holds, At
<1>4. /\ "table" \in MemNames /\ Has(a, {Mem("table")}, {}, b)
      /\ Has(b, {}, {Mem("table")}, z)
  BY Different DEF Holds, At, Has, MemNames, Temp
<1> HIDE DEF p, a, b, z
<1>5. /\ Step(p, a, Alloc("table", <<>>), b)
      /\ Step(p, b, Free("table"), z)
  BY <1>1, <1>2, <1>3, <1>4, PrivateSteps
<1>6. Path(p, <<Alloc("table", <<>>), Free("table")>>, a, z)
  BY <1>3, <1>5, PathTwo
<1> QED
  BY <1>1, <1>6 DEF Finishes, sieve, p, a

\* mem_rtns_1() ends with nothing left.
LEMMA mem_rtns_1_Finishes == Finishes(Holder({}, FALSE), mem_rtns_1, Holds({}, {}, ""))
<1> DEFINE p == Holder({}, FALSE)
           a == Holds({}, {}, "")
           b == Holds({Mem("array")}, {}, "")
           z == Holds({}, {}, "")
<1>1. p.loose = Fallible /\ p.uses = {} /\ a.may = {}
  BY DEF Holder, Holds, At
<1>2. Private(a) /\ Private(b) /\ Private(z)
  BY BlocksAssumption, Different DEF Holds, At, Private, Plain, Bounded
<1>3. Bounded(a) /\ a.file = "" /\ Bounded(b) /\ b.file = "" /\ Bounded(z) /\ z.file = ""
  BY <1>2 DEF Private, Plain, Holds, At
<1>4. /\ "array" \in MemNames /\ Has(a, {Mem("array")}, {}, b)
      /\ "array" \in MemNames /\ Has(b, {Mem("array")}, {}, b)
      /\ Has(b, {}, {Mem("array")}, a)
  BY Different DEF Holds, At, Has, MemNames, Temp
<1> HIDE DEF p, a, b, z
<1>5. /\ Step(p, a, Alloc("array", <<Segv>>), b)
      /\ Step(p, b, Alloc("array", <<Segv>>), b)
      /\ Step(p, b, Free("array"), a)
  BY <1>1, <1>2, <1>3, <1>4, PrivateSteps
<1>6. Path(p, Rounds(Loops, <<Alloc("array", <<Segv>>), Alloc("array", <<Segv>>), Free("array")>>), a, a)
  <2>1. /\ IsSequence(<<Alloc("array", <<Segv>>), Alloc("array", <<Segv>>), Free("array")>>)
        /\ <<Alloc("array", <<Segv>>), Alloc("array", <<Segv>>), Free("array")>> # <<>> 
    BY Bodies
  <2>2. Path(p, <<Alloc("array", <<Segv>>), Alloc("array", <<Segv>>), Free("array")>>, a, a)
    BY <1>3, <1>5, PathThree
  <2> QED
    BY <1>3, <2>1, <2>2, LoopCounts, SameLoop
<1> QED
  BY <1>1, <1>6 DEF Finishes, mem_rtns_1, p, a

\* dir_rtns_1() ends with nothing left.
LEMMA dir_rtns_1_Finishes == Finishes(Holder({}, FALSE), dir_rtns_1, Holds({}, {}, ""))
<1> DEFINE p == Holder({}, FALSE)
           a == Holds({}, {}, "")
           b == Holds({Fd("dir")}, {}, "")
           z == Holds({}, {}, "")
<1>1. p.loose = Fallible /\ p.uses = {} /\ z.may = {}
  BY DEF Holder, Holds, At
<1>2. Private(a) /\ Private(b) /\ Private(z)
  BY BlocksAssumption, Different DEF Holds, At, Private, Plain, Bounded
<1>3. Bounded(a) /\ a.file = "" /\ Bounded(b) /\ b.file = "" /\ Bounded(z) /\ z.file = ""
  BY <1>2 DEF Private, Plain, Holds, At
<1>4. /\ {"dir"} \cap {"fd", "fd2"} = {} /\ Has(a, {Fd(x) : x \in {"dir"}}, {}, b)
      /\ Has(b, {}, {Fd("dir")}, z)
  BY Different DEF Holds, At, Has, MemNames, Temp
<1> HIDE DEF p, a, b, z
<1>5. /\ Step(p, a, Socket({"dir"}), b)
      /\ Step(p, b, Close("dir"), z)
  BY <1>1, <1>2, <1>3, <1>4, PrivateSteps
<1>6. Path(p, <<Socket({"dir"}), Close("dir")>>, a, z)
  BY <1>3, <1>5, PathTwo
<1> QED
  BY <1>1, <1>6 DEF Finishes, dir_rtns_1, p, a

\* signal_test() ends with nothing left.
LEMMA signal_test_Finishes == Finishes(Holder({}, FALSE), signal_test, Holds({}, {}, ""))
<1> DEFINE p == Holder({}, FALSE)
           a == Holds({}, {}, "")
<1>1. p.loose = Fallible /\ p.uses = {} /\ a.may = {}
  BY DEF Holder, Holds, At
<1>2. Private(a)
  BY BlocksAssumption, Different DEF Holds, At, Private, Plain, Bounded
<1>3. Bounded(a) /\ a.file = ""
  BY <1>2 DEF Private, Plain, Holds, At
<1>4. /\ Has(a, {}, {}, a)
  BY Different DEF Holds, At, Has, MemNames, Temp
<1> HIDE DEF p, a
<1>5. /\ Step(p, a, Try(<<>>), a)
  BY <1>1, <1>2, <1>3, <1>4, PrivateSteps
<1>6. Path(p, Rounds(Loops, <<Try(<<>>)>>), a, a)
  <2>1. IsSequence(<<Try(<<>>)>>) /\ <<Try(<<>>)>> # <<>> 
    BY Bodies
  <2>2. Path(p, <<Try(<<>>)>>, a, a)
    BY <1>3, <1>5, PathCall
  <2> QED
    BY <1>3, <2>1, <2>2, LoopCounts, SameLoop
<1> QED
  BY <1>1, <1>6 DEF Finishes, signal_test, p, a

\* page_test() ends with nothing left.
LEMMA page_test_Finishes == Finishes(Holder({}, FALSE), page_test, Holds({}, {}, ""))
<1> DEFINE p == Holder({}, FALSE)
           a == Holds({}, {}, "")
           b == Holds({Mem("break")}, {}, "")
           z == Holds({}, {}, "")
<1>1. p.loose = Fallible /\ p.uses = {} /\ z.may = {}
  BY DEF Holder, Holds, At
<1>2. Private(a) /\ Private(b) /\ Private(z)
  BY BlocksAssumption, Different DEF Holds, At, Private, Plain, Bounded
<1>3. Bounded(a) /\ a.file = "" /\ Bounded(b) /\ b.file = "" /\ Bounded(z) /\ z.file = ""
  BY <1>2 DEF Private, Plain, Holds, At
<1>4. /\ "break" \in MemNames /\ Has(a, {Mem("break")}, {}, b)
      /\ Has(b, {}, {}, b)
      /\ Has(b, {}, {Mem("break")}, z)
  BY Different DEF Holds, At, Has, MemNames, Temp
<1> HIDE DEF p, a, b, z
<1>5. /\ Step(p, a, Alloc("break", <<>>), b)
      /\ Step(p, b, Try(<<>>), b)
      /\ Step(p, b, Free("break"), z)
  BY <1>1, <1>2, <1>3, <1>4, PrivateSteps
<1>6. Path(p, <<Alloc("break", <<>>)>>, a, b)
  BY <1>3, <1>5, PathCall
<1>7. Path(p, Rounds(Loops, <<Try(<<>>)>>), b, b)
  <2>1. IsSequence(<<Try(<<>>)>>) /\ <<Try(<<>>)>> # <<>> 
    BY Bodies
  <2>2. Path(p, <<Try(<<>>)>>, b, b)
    BY <1>3, <1>5, PathCall
  <2> QED
    BY <1>3, <2>1, <2>2, LoopCounts, SameLoop
<1>8. Path(p, <<Free("break")>>, b, z)
  BY <1>3, <1>5, PathCall
<1>9. Path(p, <<Alloc("break", <<>>)>> \o Rounds(Loops, <<Try(<<>>)>>),
           a, b)
  BY <1>6, <1>7, PathConcat
<1>10. Path(p, (<<Alloc("break", <<>>)>> \o Rounds(Loops, <<Try(<<>>)>>)) \o <<Free("break")>>,
           a, z)
  BY <1>8, <1>9, PathConcat
<1> QED
  BY <1>1, <1>10 DEF Finishes, page_test, p, a

\* brk_test() ends with nothing left.
LEMMA brk_test_Finishes == Finishes(Holder({}, FALSE), brk_test, Holds({}, {}, ""))
<1> DEFINE p == Holder({}, FALSE)
           a == Holds({}, {}, "")
           b == Holds({Mem("break")}, {}, "")
           z == Holds({}, {}, "")
<1>1. p.loose = Fallible /\ p.uses = {} /\ z.may = {}
  BY DEF Holder, Holds, At
<1>2. Private(a) /\ Private(b) /\ Private(z)
  BY BlocksAssumption, Different DEF Holds, At, Private, Plain, Bounded
<1>3. Bounded(a) /\ a.file = "" /\ Bounded(b) /\ b.file = "" /\ Bounded(z) /\ z.file = ""
  BY <1>2 DEF Private, Plain, Holds, At
<1>4. /\ "break" \in MemNames /\ Has(a, {Mem("break")}, {}, b)
      /\ Has(b, {}, {}, b)
      /\ Has(b, {}, {Mem("break")}, z)
  BY Different DEF Holds, At, Has, MemNames, Temp
<1> HIDE DEF p, a, b, z
<1>5. /\ Step(p, a, Alloc("break", <<>>), b)
      /\ Step(p, b, Try(<<>>), b)
      /\ Step(p, b, Free("break"), z)
  BY <1>1, <1>2, <1>3, <1>4, PrivateSteps
<1>6. Path(p, <<Alloc("break", <<>>)>>, a, b)
  BY <1>3, <1>5, PathCall
<1>7. Path(p, Rounds(Loops, <<Try(<<>>)>>), b, b)
  <2>1. IsSequence(<<Try(<<>>)>>) /\ <<Try(<<>>)>> # <<>> 
    BY Bodies
  <2>2. Path(p, <<Try(<<>>)>>, b, b)
    BY <1>3, <1>5, PathCall
  <2> QED
    BY <1>3, <2>1, <2>2, LoopCounts, SameLoop
<1>8. Path(p, <<Free("break")>>, b, z)
  BY <1>3, <1>5, PathCall
<1>9. Path(p, <<Alloc("break", <<>>)>> \o Rounds(Loops, <<Try(<<>>)>>),
           a, b)
  BY <1>6, <1>7, PathConcat
<1>10. Path(p, (<<Alloc("break", <<>>)>> \o Rounds(Loops, <<Try(<<>>)>>)) \o <<Free("break")>>,
           a, z)
  BY <1>8, <1>9, PathConcat
<1> QED
  BY <1>1, <1>10 DEF Finishes, brk_test, p, a

\* creat_clo() ends with nothing left.
LEMMA creat_clo_Finishes ==
  Finishes(Holder({"creat"}, FALSE), creat_clo, Holds({Entry("creat")}, {}, "creat"))
<1> DEFINE p == Holder({"creat"}, FALSE)
           a == Holds({Entry("creat")}, {}, "creat")
           b == Holds({Fd("fd"), Entry("creat")}, {}, "creat")
           z == Holds({}, {}, "creat")
           body == <<Creat("fd", "creat", <<>>), Close("fd"), Try(<<>>)>>
<1>1. p.loose = Fallible /\ p.uses = {"creat"} /\ z.may = {}
  BY DEF Holder, Holds, At
<1>2. Private(a) /\ Private(b) /\ Private(z)
  BY BlocksAssumption, Different DEF Holds, At, Private, Plain, Bounded
<1>3. /\ Bounded(a) /\ a.file = "creat" /\ Bounded(b) /\ b.file = "creat" /\ Bounded(z)
      /\ z.file = "creat"
  BY <1>2 DEF Private, Plain, Holds, At
<1>4. /\ Has(a, {Fd("fd"), Entry("creat")}, {}, b)
      /\ Has(b, {}, {Fd("fd")}, a)
      /\ Has(a, {}, {}, a)
      /\ Has(a, {}, {Entry("creat")}, z)
  BY Different DEF Holds, At, Has, MemNames, Temp
<1> HIDE DEF p, a, b, z
<1>5. /\ Step(p, a, Creat("fd", "creat", <<>>), b)
      /\ Step(p, b, Close("fd"), a)
      /\ Step(p, a, Try(<<>>), a)
      /\ Step(p, a, Unlink("creat"), z)
  BY <1>1, <1>2, <1>3, <1>4, PrivateSteps
<1>6. Path(p, Rounds(Loops, body), a, a)
  <2>1. /\ IsSequence(body)
        /\ body # <<>> 
    BY Bodies
  <2>2. Path(p, body, a, a)
    BY <1>3, <1>5, PathThree
  <2> QED
    BY <1>3, <2>1, <2>2, LoopCounts, SameLoop
<1>7. Path(p, <<Unlink("creat")>>, a, z)
  BY <1>3, <1>5, PathCall
<1>8. Path(p, Rounds(Loops, body) \o <<Unlink("creat")>>,
           a, z)
  BY <1>6, <1>7, PathConcat
<1> QED
  BY <1>1, <1>8 DEF Finishes, creat_clo, p, a

\* link_test() ends with nothing left.
LEMMA link_test_Finishes ==
  Finishes(Holder({"link0", "link1", "link2"}, FALSE), link_test, Holds({}, {}, "link0"))
<1> DEFINE p == Holder({"link0", "link1", "link2"}, FALSE)
           a == Holds({}, {}, "link0")
           b == Holds({Fd("fd"), Entry("link0")}, {Fd("fd"), Entry("link0")}, "link0")
           c == Holds({Fd("fd"), Entry("link0"), Entry("link1")},
                      {Fd("fd"), Entry("link0"), Entry("link1")}, "link0")
           d == Holds({Fd("fd"), Entry("link0"), Entry("link1"), Entry("link2")},
                      {Fd("fd"), Entry("link0"), Entry("link1"), Entry("link2")}, "link0")
           e == Holds({Fd("fd"), Entry("link0"), Entry("link2")},
                      {Fd("fd"), Entry("link0"), Entry("link2")}, "link0")
           h == Holds({Fd("fd"), Entry("link1"), Entry("link2")},
                      {Fd("fd"), Entry("link1"), Entry("link2")}, "link0")
           i == Holds({Fd("fd"), Entry("link2")}, {Fd("fd"), Entry("link2")}, "link0")
           j == Holds({Fd("fd")}, {}, "link0")
           z == Holds({}, {}, "link0")
           begin == <<Creat("fd", "link0", <<>>), Make("link1", <<>>), Make("link2", <<>>)>>
           body == <<UnlinkOrFail("link1", <<>>), Make("link1", <<>>),
                     UnlinkOrFail("link2", <<>>), Make("link2", <<>>)>>
           end == <<UnlinkOrFail("link0", <<>>), UnlinkOrFail("link1", <<>>),
                    UnlinkOrFail("link2", <<>>), Close("fd")>>
<1>1. p.loose = Fallible /\ p.uses = {"link0", "link1", "link2"} /\ z.may = {}
  BY DEF Holder, Holds, At
<1>2. /\ Private(a) /\ Private(b) /\ Private(c) /\ Private(d) /\ Private(e) /\ Private(h)
      /\ Private(i) /\ Private(j) /\ Private(z)
  BY BlocksAssumption, Different DEF Holds, At, Private, Plain, Bounded
<1>3. /\ Bounded(a) /\ a.file = "link0" /\ Bounded(b) /\ b.file = "link0" /\ Bounded(c)
      /\ c.file = "link0" /\ Bounded(d) /\ d.file = "link0" /\ Bounded(e) /\ e.file = "link0"
      /\ Bounded(h) /\ h.file = "link0" /\ Bounded(i) /\ i.file = "link0" /\ Bounded(j)
      /\ j.file = "link0" /\ Bounded(z) /\ z.file = "link0"
  BY <1>2 DEF Private, Plain, Holds, At
<1>4. /\ Has(a, {Fd("fd"), Entry("link0")}, {}, b)
      /\ Entry("link1") \notin b.may /\ Has(b, {Entry("link1")}, {}, c)
      /\ Entry("link2") \notin c.may /\ Has(c, {Entry("link2")}, {}, d)
      /\ Entry("link1") \in d.must /\ Has(d, {}, {Entry("link1")}, e)
      /\ Entry("link1") \notin e.may /\ Has(e, {Entry("link1")}, {}, d)
      /\ Entry("link2") \in d.must /\ Has(d, {}, {Entry("link2")}, c)
      /\ Entry("link0") \in d.must /\ Has(d, {}, {Entry("link0")}, h)
      /\ Entry("link1") \in h.must /\ Has(h, {}, {Entry("link1")}, i)
      /\ Entry("link2") \in i.must /\ Has(i, {}, {Entry("link2")}, j)
      /\ Has(j, {}, {Fd("fd")}, z)
  BY Different DEF Holds, At, Has, MemNames, Temp
<1> HIDE DEF p, a, b, c, d, e, h, i, j, z
<1>5. /\ Step(p, a, Creat("fd", "link0", <<>>), b)
      /\ Step(p, b, Make("link1", <<>>), c)
      /\ Step(p, c, Make("link2", <<>>), d)
      /\ Step(p, d, UnlinkOrFail("link1", <<>>), e)
      /\ Step(p, e, Make("link1", <<>>), d)
      /\ Step(p, d, UnlinkOrFail("link2", <<>>), c)
      /\ Step(p, d, UnlinkOrFail("link0", <<>>), h)
      /\ Step(p, h, UnlinkOrFail("link1", <<>>), i)
      /\ Step(p, i, UnlinkOrFail("link2", <<>>), j)
      /\ Step(p, j, Close("fd"), z)
  BY <1>1, <1>2, <1>3, <1>4, PrivateSteps
<1>6. Path(p, begin, a, d)
  BY <1>3, <1>5, PathThree
<1>7. Path(p, Rounds(Loops, body), d, d)
  <2>1. /\ IsSequence(body)
        /\ body # <<>> 
    BY Bodies
  <2>2. Path(p, body, d, d)
    BY <1>3, <1>5, PathFour
  <2> QED
    BY <1>3, <2>1, <2>2, LoopCounts, SameLoop
<1>8. Path(p, end, d, z)
  BY <1>3, <1>5, PathFour
<1>9. Path(p, begin \o Rounds(Loops, body),
           a, d)
  BY <1>6, <1>7, PathConcat
<1>10. Path(p, (begin \o Rounds(Loops, body)) \o end,
           a, z)
  BY <1>8, <1>9, PathConcat
<1> QED
  BY <1>1, <1>10 DEF Finishes, link_test, p, a

\* tcp_test() ends with nothing left.
LEMMA tcp_test_Finishes == Finishes(Holder({}, FALSE), tcp_test, Holds({}, {}, ""))
<1> DEFINE p == Holder({}, FALSE)
           a == Holds({}, {}, "")
           b == Holds({Fd("wr")}, {Fd("wr")}, "")
           c == Holds({Fd("wr"), Fd("rd")}, {Fd("wr"), Fd("rd")}, "")
           d == Holds({Fd("wr"), Fd("rd"), Fd("new")}, {Fd("wr"), Fd("rd"), Fd("new")}, "")
           e == Holds({Fd("wr"), Fd("new")}, {Fd("wr"), Fd("new")}, "")
           h == Holds({Fd("wr")}, {Fd("wr")}, "")
           z == Holds({}, {}, "")
           server == <<Socket({"wr"})>>
           binds == <<Try(<<>>), Try(<<>>), Try(<<>>), Try(<<>>)>>
           joins == <<Socket({"rd"}), Try(<<>>), Accept("new"), Try(<<>>)>>
           begin == (server \o binds) \o joins
<1>1. p.loose = Fallible /\ p.uses = {} /\ z.may = {}
  BY DEF Holder, Holds, At
<1>2. Private(a) /\ Private(b) /\ Private(c) /\ Private(d) /\ Private(e) /\ Private(h) /\ Private(z)
  BY BlocksAssumption, Different DEF Holds, At, Private, Plain, Bounded
<1>3. /\ Bounded(a) /\ a.file = "" /\ Bounded(b) /\ b.file = "" /\ Bounded(c) /\ c.file = ""
      /\ Bounded(d) /\ d.file = "" /\ Bounded(e) /\ e.file = "" /\ Bounded(h) /\ h.file = ""
      /\ Bounded(z) /\ z.file = ""
  BY <1>2 DEF Private, Plain, Holds, At
<1>4. /\ {"wr"} \cap {"fd", "fd2"} = {} /\ Has(a, {Fd(x) : x \in {"wr"}}, {}, b)
      /\ Has(b, {}, {}, b)
      /\ {"rd"} \cap {"fd", "fd2"} = {} /\ Has(b, {Fd(x) : x \in {"rd"}}, {}, c)
      /\ Has(c, {}, {}, c)
      /\ Has(c, {Fd("new")}, {}, d)
      /\ Has(d, {}, {}, d)
      /\ Fd("rd") \in d.must /\ Fd("new") \in d.must /\ Has(d, {}, {Fd("rd")}, e)
      /\ Has(e, {}, {Fd("new")}, h)
      /\ Has(h, {}, {Fd("wr")}, z)
  BY Different DEF Holds, At, Has, MemNames, Temp
<1> HIDE DEF p, a, b, c, d, e, h, z
<1>5. /\ Step(p, a, Socket({"wr"}), b)
      /\ Step(p, b, Try(<<>>), b)
      /\ Step(p, b, Socket({"rd"}), c)
      /\ Step(p, c, Try(<<>>), c)
      /\ Step(p, c, Accept("new"), d)
      /\ Step(p, d, Try(<<>>), d)
      /\ Step(p, h, Close("wr"), z)
  BY <1>1, <1>2, <1>3, <1>4, PrivateSteps
<1>6. Path(p, begin, a, d)
  <2>1. Path(p, server, a, b)
    BY <1>3, <1>5, PathCall
  <2>2. Path(p, binds, b, b)
    BY <1>3, <1>5, PathFour
  <2>3. Path(p, joins, b, d)
    BY <1>3, <1>5, PathFour
  <2>4. Path(p, server \o binds, a, b)
    BY <2>1, <2>2, PathConcat
  <2> QED
    BY <2>3, <2>4, PathConcat
<1>7. Path(p, read_write_close("rd", "new"), d, h)
  BY <1>1, <1>2, <1>3, <1>4, ReadWriteClose
<1>8. Path(p, <<Close("wr")>>, h, z)
  BY <1>3, <1>5, PathCall
<1>9. Path(p, begin \o read_write_close("rd", "new"),
           a, h)
  BY <1>6, <1>7, PathConcat
<1>10. Path(p, (begin \o read_write_close("rd", "new")) \o <<Close("wr")>>,
           a, z)
  BY <1>8, <1>9, PathConcat
<1> QED
  BY <1>1, <1>10 DEF Finishes, tcp_test, p, a

\* udp_test() ends with nothing left.
LEMMA udp_test_Finishes == Finishes(Holder({}, FALSE), udp_test, Holds({}, {}, ""))
<1> DEFINE p == Holder({}, FALSE)
           a == Holds({}, {}, "")
           b == Holds({Fd("wr")}, {Fd("wr")}, "")
           c == Holds({Fd("wr"), Fd("rd")}, {Fd("wr"), Fd("rd")}, "")
           d == Holds({Fd("wr")}, {Fd("wr")}, "")
           z == Holds({}, {}, "")
           begin == <<Socket({"wr"}), Try(<<>>), Try(<<>>), Socket({"rd"}), Try(<<>>),
                      Try(<<>>), Try(<<>>)>>
<1>1. p.loose = Fallible /\ p.uses = {} /\ z.may = {}
  BY DEF Holder, Holds, At
<1>2. Private(a) /\ Private(b) /\ Private(c) /\ Private(d) /\ Private(z)
  BY BlocksAssumption, Different DEF Holds, At, Private, Plain, Bounded
<1>3. /\ Bounded(a) /\ a.file = "" /\ Bounded(b) /\ b.file = "" /\ Bounded(c) /\ c.file = ""
      /\ Bounded(d) /\ d.file = "" /\ Bounded(z) /\ z.file = ""
  BY <1>2 DEF Private, Plain, Holds, At
<1>4. /\ {"wr"} \cap {"fd", "fd2"} = {} /\ Has(a, {Fd(x) : x \in {"wr"}}, {}, b)
      /\ Has(b, {}, {}, b)
      /\ {"rd"} \cap {"fd", "fd2"} = {} /\ Has(b, {Fd(x) : x \in {"rd"}}, {}, c)
      /\ Has(c, {}, {}, c)
      /\ Fd("rd") \in c.must /\ Fd("wr") \in c.must /\ Has(c, {}, {Fd("rd")}, d)
      /\ Has(d, {}, {Fd("wr")}, z)
  BY Different DEF Holds, At, Has, MemNames, Temp
<1> HIDE DEF p, a, b, c, d, z
<1>5. /\ Step(p, a, Socket({"wr"}), b)
      /\ Step(p, b, Try(<<>>), b)
      /\ Step(p, b, Socket({"rd"}), c)
      /\ Step(p, c, Try(<<>>), c)
  BY <1>1, <1>2, <1>3, <1>4, PrivateSteps
<1>6. Path(p, begin, a, c)
  BY <1>3, <1>5, PathSeven
<1>7. Path(p, read_write_close("rd", "wr"), c, z)
  BY <1>1, <1>2, <1>3, <1>4, ReadWriteClose
<1>8. Path(p, begin \o read_write_close("rd", "wr"),
           a, z)
  BY <1>6, <1>7, PathConcat
<1> QED
  BY <1>1, <1>8 DEF Finishes, udp_test, p, a

\* fifo_test() ends with nothing left.
LEMMA fifo_test_Finishes == Finishes(Holder({"fifo"}, FALSE), fifo_test, Holds({}, {}, ""))
<1> DEFINE p == Holder({"fifo"}, FALSE)
           a == Holds({}, {}, "")
           b == Holds({Entry("fifo")}, {Entry("fifo")}, "")
           c == Holds({Entry("fifo"), Fd("rd")}, {Entry("fifo"), Fd("rd")}, "")
           d == Holds({Entry("fifo"), Fd("rd"), Fd("wr")}, {Entry("fifo"), Fd("rd"), Fd("wr")}, "")
           e == Holds({Entry("fifo"), Fd("wr")}, {Entry("fifo"), Fd("wr")}, "")
           h == Holds({Entry("fifo")}, {Entry("fifo")}, "")
           z == Holds({}, {}, "")
           begin == <<Make("fifo", <<>>), Socket({"rd"}), Socket({"wr"})>>
<1>1. p.loose = Fallible /\ p.uses = {"fifo"} /\ z.may = {}
  BY DEF Holder, Holds, At
<1>2. Private(a) /\ Private(b) /\ Private(c) /\ Private(d) /\ Private(e) /\ Private(h) /\ Private(z)
  BY BlocksAssumption, Different DEF Holds, At, Private, Plain, Bounded
<1>3. /\ Bounded(a) /\ a.file = "" /\ Bounded(b) /\ b.file = "" /\ Bounded(c) /\ c.file = ""
      /\ Bounded(d) /\ d.file = "" /\ Bounded(e) /\ e.file = "" /\ Bounded(h) /\ h.file = ""
      /\ Bounded(z) /\ z.file = ""
  BY <1>2 DEF Private, Plain, Holds, At
<1>4. /\ Entry("fifo") \notin a.may /\ Has(a, {Entry("fifo")}, {}, b)
      /\ {"rd"} \cap {"fd", "fd2"} = {} /\ Has(b, {Fd(x) : x \in {"rd"}}, {}, c)
      /\ {"wr"} \cap {"fd", "fd2"} = {} /\ Has(c, {Fd(x) : x \in {"wr"}}, {}, d)
      /\ Fd("rd") \in d.must /\ Fd("wr") \in d.must /\ Has(d, {}, {Fd("rd")}, e)
      /\ Has(e, {}, {Fd("wr")}, h)
      /\ Has(h, {}, {Entry("fifo")}, z)
  BY Different DEF Holds, At, Has, MemNames, Temp
<1> HIDE DEF p, a, b, c, d, e, h, z
<1>5. /\ Step(p, a, Make("fifo", <<>>), b)
      /\ Step(p, b, Socket({"rd"}), c)
      /\ Step(p, c, Socket({"wr"}), d)
      /\ Step(p, h, Unlink("fifo"), z)
  BY <1>1, <1>2, <1>3, <1>4, PrivateSteps
<1>6. Path(p, begin, a, d)
  BY <1>3, <1>5, PathThree
<1>7. Path(p, read_write_close("rd", "wr"), d, h)
  BY <1>1, <1>2, <1>3, <1>4, ReadWriteClose
<1>8. Path(p, <<Unlink("fifo")>>, h, z)
  BY <1>3, <1>5, PathCall
<1>9. Path(p, begin \o read_write_close("rd", "wr"),
           a, h)
  BY <1>6, <1>7, PathConcat
<1>10. Path(p, (begin \o read_write_close("rd", "wr")) \o <<Unlink("fifo")>>,
           a, z)
  BY <1>8, <1>9, PathConcat
<1> QED
  BY <1>1, <1>10 DEF Finishes, fifo_test, p, a

\* stream_pipe() ends with nothing left.
LEMMA stream_pipe_Finishes == Finishes(Holder({}, FALSE), stream_pipe, Holds({}, {}, ""))
<1> DEFINE p == Holder({}, FALSE)
           a == Holds({}, {}, "")
           b == Holds({Fd("rd"), Fd("wr")}, {Fd("rd"), Fd("wr")}, "")
           c == Holds({Fd("wr")}, {Fd("wr")}, "")
           z == Holds({}, {}, "")
<1>1. p.loose = Fallible /\ p.uses = {} /\ z.may = {}
  BY DEF Holder, Holds, At
<1>2. Private(a) /\ Private(b) /\ Private(c) /\ Private(z)
  BY BlocksAssumption, Different DEF Holds, At, Private, Plain, Bounded
<1>3. /\ Bounded(a) /\ a.file = "" /\ Bounded(b) /\ b.file = "" /\ Bounded(c) /\ c.file = ""
      /\ Bounded(z) /\ z.file = ""
  BY <1>2 DEF Private, Plain, Holds, At
<1>4. /\ {"rd", "wr"} \cap {"fd", "fd2"} = {} /\ Has(a, {Fd(x) : x \in {"rd", "wr"}}, {}, b)
      /\ Fd("rd") \in b.must /\ Fd("wr") \in b.must /\ Has(b, {}, {Fd("rd")}, c)
      /\ Has(c, {}, {Fd("wr")}, z)
  BY Different DEF Holds, At, Has, MemNames, Temp
<1> HIDE DEF p, a, b, c, z
<1>5. /\ Step(p, a, Socket({"rd", "wr"}), b)
  BY <1>1, <1>2, <1>3, <1>4, PrivateSteps
<1>6. Path(p, <<Socket({"rd", "wr"})>>, a, b)
  BY <1>3, <1>5, PathCall
<1>7. Path(p, read_write_close("rd", "wr"), b, z)
  BY <1>1, <1>2, <1>3, <1>4, ReadWriteClose
<1>8. Path(p, <<Socket({"rd", "wr"})>> \o read_write_close("rd", "wr"),
           a, z)
  BY <1>6, <1>7, PathConcat
<1> QED
  BY <1>1, <1>8 DEF Finishes, stream_pipe, p, a

\* dgram_pipe() ends with nothing left.
LEMMA dgram_pipe_Finishes == Finishes(Holder({}, FALSE), dgram_pipe, Holds({}, {}, ""))
<1> DEFINE p == Holder({}, FALSE)
           a == Holds({}, {}, "")
           b == Holds({Fd("rd"), Fd("wr")}, {Fd("rd"), Fd("wr")}, "")
           c == Holds({Fd("wr")}, {Fd("wr")}, "")
           z == Holds({}, {}, "")
<1>1. p.loose = Fallible /\ p.uses = {} /\ z.may = {}
  BY DEF Holder, Holds, At
<1>2. Private(a) /\ Private(b) /\ Private(c) /\ Private(z)
  BY BlocksAssumption, Different DEF Holds, At, Private, Plain, Bounded
<1>3. /\ Bounded(a) /\ a.file = "" /\ Bounded(b) /\ b.file = "" /\ Bounded(c) /\ c.file = ""
      /\ Bounded(z) /\ z.file = ""
  BY <1>2 DEF Private, Plain, Holds, At
<1>4. /\ {"rd", "wr"} \cap {"fd", "fd2"} = {} /\ Has(a, {Fd(x) : x \in {"rd", "wr"}}, {}, b)
      /\ Fd("rd") \in b.must /\ Fd("wr") \in b.must /\ Has(b, {}, {Fd("rd")}, c)
      /\ Has(c, {}, {Fd("wr")}, z)
  BY Different DEF Holds, At, Has, MemNames, Temp
<1> HIDE DEF p, a, b, c, z
<1>5. /\ Step(p, a, Socket({"rd", "wr"}), b)
  BY <1>1, <1>2, <1>3, <1>4, PrivateSteps
<1>6. Path(p, <<Socket({"rd", "wr"})>>, a, b)
  BY <1>3, <1>5, PathCall
<1>7. Path(p, read_write_close("rd", "wr"), b, z)
  BY <1>1, <1>2, <1>3, <1>4, ReadWriteClose
<1>8. Path(p, <<Socket({"rd", "wr"})>> \o read_write_close("rd", "wr"),
           a, z)
  BY <1>6, <1>7, PathConcat
<1> QED
  BY <1>1, <1>8 DEF Finishes, dgram_pipe, p, a

\* pipe_cpy() ends with nothing left.
LEMMA pipe_cpy_Finishes == Finishes(Holder({}, FALSE), pipe_cpy, Holds({}, {}, ""))
<1> DEFINE p == Holder({}, FALSE)
           a == Holds({}, {}, "")
           b == Holds({Fd("rd"), Fd("wr")}, {Fd("rd"), Fd("wr")}, "")
           c == Holds({Fd("wr")}, {Fd("wr")}, "")
           z == Holds({}, {}, "")
<1>1. p.loose = Fallible /\ p.uses = {} /\ z.may = {}
  BY DEF Holder, Holds, At
<1>2. Private(a) /\ Private(b) /\ Private(c) /\ Private(z)
  BY BlocksAssumption, Different DEF Holds, At, Private, Plain, Bounded
<1>3. /\ Bounded(a) /\ a.file = "" /\ Bounded(b) /\ b.file = "" /\ Bounded(c) /\ c.file = ""
      /\ Bounded(z) /\ z.file = ""
  BY <1>2 DEF Private, Plain, Holds, At
<1>4. /\ {"rd", "wr"} \cap {"fd", "fd2"} = {} /\ Has(a, {Fd(x) : x \in {"rd", "wr"}}, {}, b)
      /\ Fd("rd") \in b.must /\ Fd("wr") \in b.must /\ Has(b, {}, {Fd("rd")}, c)
      /\ Has(c, {}, {Fd("wr")}, z)
  BY Different DEF Holds, At, Has, MemNames, Temp
<1> HIDE DEF p, a, b, c, z
<1>5. /\ Step(p, a, Socket({"rd", "wr"}), b)
  BY <1>1, <1>2, <1>3, <1>4, PrivateSteps
<1>6. Path(p, <<Socket({"rd", "wr"})>>, a, b)
  BY <1>3, <1>5, PathCall
<1>7. Path(p, read_write_close("rd", "wr"), b, z)
  BY <1>1, <1>2, <1>3, <1>4, ReadWriteClose
<1>8. Path(p, <<Socket({"rd", "wr"})>> \o read_write_close("rd", "wr"),
           a, z)
  BY <1>6, <1>7, PathConcat
<1> QED
  BY <1>1, <1>8 DEF Finishes, pipe_cpy, p, a

\* disk_src() ends with nothing left.
LEMMA disk_src_Finishes ==
  Finishes(Holder({"src"}, FALSE), disk_src, Holds({Entry("src")}, {}, "src"))
<1> DEFINE undo == <<Free("cwd"), Free("list")>>
           p == Holder({"src"}, FALSE)
           a == Holds({Entry("src")}, {}, "src")
           b == Holds({Entry("src"), Mem("cwd")}, {}, "src")
           c == Holds({Entry("src"), Mem("cwd"), Fd("fp")}, {}, "src")
           d == Holds({Entry("src"), Mem("cwd"), Mem("list"), Fd("fp")}, {}, "src")
           e == Holds({Entry("src"), Mem("cwd"), Mem("list")}, {}, "src")
           h == Holds({Fd("fd"), Entry("src"), Mem("cwd"), Mem("list")}, {Entry("src")}, "src")
           i == Holds({Entry("src"), Mem("cwd"), Mem("list")}, {Entry("src")}, "src")
           j == Holds({Mem("cwd"), Mem("list")}, {}, "src")
           k == Holds({Mem("cwd")}, {}, "src")
           z == Holds({}, {}, "src")
           body == <<Try(undo), Creat("fd", "src", undo), Close("fd"), UnlinkOrFail("src", undo)>>
<1>1. p.loose = Fallible /\ p.uses = {"src"} /\ z.may = {}
  BY DEF Holder, Holds, At
<1>2. /\ Private(a) /\ Private(b) /\ Private(c) /\ Private(d) /\ Private(e) /\ Private(h)
      /\ Private(i) /\ Private(j) /\ Private(k) /\ Private(z)
  BY BlocksAssumption, Different DEF Holds, At, Private, Plain, Bounded
<1>3. /\ Bounded(a) /\ a.file = "src" /\ Bounded(b) /\ b.file = "src" /\ Bounded(c)
      /\ c.file = "src" /\ Bounded(d) /\ d.file = "src" /\ Bounded(e) /\ e.file = "src"
      /\ Bounded(h) /\ h.file = "src" /\ Bounded(i) /\ i.file = "src" /\ Bounded(j)
      /\ j.file = "src" /\ Bounded(k) /\ k.file = "src" /\ Bounded(z) /\ z.file = "src"
  BY <1>2 DEF Private, Plain, Holds, At
<1>4. /\ Has(j, {}, {}, j) /\ Has(j, {Fd("fd"), Entry("src")}, {}, h)
      /\ Has(a, {}, {}, a)
      /\ "cwd" \in MemNames /\ Has(a, {Mem("cwd")}, {}, b)
      /\ {"fp"} \cap {"fd", "fd2"} = {} /\ Has(b, {Fd(x) : x \in {"fp"}}, {}, c)
      /\ "list" \in MemNames /\ Has(c, {Mem("list")}, {}, d)
      /\ "list" \in MemNames /\ Has(d, {Mem("list")}, {}, d)
      /\ Has(d, {}, {Fd("fp")}, e)
      /\ Has(e, {}, {}, e)
      /\ Has(e, {Fd("fd"), Entry("src")}, {}, h)
      /\ Has(h, {}, {Fd("fd")}, i)
      /\ Entry("src") \in i.must /\ Has(i, {}, {Entry("src")}, j)
      /\ Has(j, {}, {Mem("list")}, k)
      /\ Has(k, {}, {Mem("cwd")}, z)
  BY Different DEF Holds, At, Has, MemNames, Temp
<1> HIDE DEF undo, p, a, b, c, d, e, h, i, j, k, z
<1>5. /\ Step(p, j, Try(undo), j) /\ Step(p, j, Creat("fd", "src", undo), h)
      /\ Step(p, a, Try(<<>>), a)
      /\ Step(p, a, Alloc("cwd", <<>>), b)
      /\ Step(p, b, Fopen("fp", <<Free("cwd")>>), c)
      /\ Step(p, c, Alloc("list", <<Free("cwd")>>), d)
      /\ Step(p, d, Alloc("list", <<Abort>>), d)
      /\ Step(p, d, Close("fp"), e)
      /\ Step(p, e, Try(undo), e)
      /\ Step(p, e, Creat("fd", "src", undo), h)
      /\ Step(p, h, Close("fd"), i)
      /\ Step(p, i, UnlinkOrFail("src", undo), j)
      /\ Step(p, j, Free("list"), k)
      /\ Step(p, k, Free("cwd"), z)
  BY <1>1, <1>2, <1>3, <1>4, PrivateSteps
<1>6. Path(p, <<Try(<<>>), Alloc("cwd", <<>>), Fopen("fp", <<Free("cwd")>>)>>, a, c)
  BY <1>3, <1>5, PathThree
<1>7. Path(p, <<Alloc("list", <<Free("cwd")>>)>>, c, d)
  BY <1>3, <1>5, PathCall
<1>8. Path(p, Rounds(Loops - 1, <<Alloc("list", <<Abort>>)>>), d, d)
  <2>1. IsSequence(<<Alloc("list", <<Abort>>)>>) /\ <<Alloc("list", <<Abort>>)>> # <<>> 
    BY Bodies
  <2>2. Path(p, <<Alloc("list", <<Abort>>)>>, d, d)
    BY <1>3, <1>5, PathCall
  <2> QED
    BY <1>3, <2>1, <2>2, LoopCounts, SameLoop
<1>9. Path(p, <<Close("fp")>>, d, e)
  BY <1>3, <1>5, PathCall
<1>10. Path(p, Rounds(Loops, body), e, j)
  <2>1. /\ IsSequence(body)
        /\ body # <<>> 
    BY Bodies
  <2>2. Path(p, body, e, j)
    BY <1>3, <1>5, PathFour
  <2>3. Path(p, body, j, j)
    BY <1>3, <1>5, PathFour
  <2> QED
    BY <1>3, <2>1, <2>2, <2>3, LoopCounts, FirstThenSame
<1>11. Path(p, <<Free("list"), Free("cwd")>>, j, z)
  BY <1>3, <1>5, PathTwo
<1>12. Path(p, get_list(<<Free("cwd")>>), c, d)
  BY <1>7, <1>8, PathConcat DEF get_list
<1>13. Path(p, <<Try(<<>>), Alloc("cwd", <<>>), Fopen("fp", <<Free("cwd")>>)>>
                 \o get_list(<<Free("cwd")>>), a, d)
  BY <1>6, <1>12, PathConcat
<1> DEFINE begin == <<Try(<<>>), Alloc("cwd", <<>>), Fopen("fp", <<Free("cwd")>>)>>
                      \o get_list(<<Free("cwd")>>)
<1>14. Path(p, begin \o <<Close("fp")>>, a, e)
  BY <1>9, <1>13, PathConcat
<1>15. Path(p, (begin \o <<Close("fp")>>) \o Rounds(Loops, body), a, j)
  BY <1>10, <1>14, PathConcat
<1>16. Path(p, ((begin \o <<Close("fp")>>) \o Rounds(Loops, body)) \o <<Free("list"), Free("cwd")>>, a, z)
  BY <1>11, <1>15, PathConcat
<1> QED
  BY <1>1, <1>16 DEF Finishes, disk_src, undo, p, a

\* A child that is waited for.
LEMMA ForkAndWait ==
  ASSUME NEW p
  PROVE  LET a == Holds({}, {}, "") IN
         /\ Bounded(a) /\ a.may = {}
         /\ Path(p, <<Fork, WaitAll>>, a, a)
<1> DEFINE a == Holds({}, {}, "")
           b == Holds({Kid}, {}, "")
<1>1. Bounded(a) /\ Bounded(b) /\ a.may = {}
  BY BlocksAssumption DEF Holds, At, Bounded
<1>2. Has(a, {Kid}, {}, b) /\ Has(b, {}, {Kid}, a) /\ Keeps(a, b) /\ Keeps(b, a)
  BY DEF Holds, At, Has, Keeps
<1> HIDE DEF a, b
<1>3. Step(p, a, Fork, b) /\ Step(p, b, WaitAll, a)
  BY <1>1, <1>2, StepFork, StepWaitAll
<1>4. Path(p, <<Fork, WaitAll>>, a, a)
  BY <1>1, <1>3, PathTwo
<1> QED
  BY <1>1, <1>4 DEF a

\* A test that forks and waits in a loop ends with nothing left.
LEMMA Fork_Finishes ==
  /\ Finishes(Holder({}, FALSE), exec_test, Holds({}, {}, ""))
  /\ Finishes(Holder({}, FALSE), fork_test, Holds({}, {}, ""))
  /\ Finishes(Holder({}, FALSE), aim_system, Holds({}, {}, ""))
<1> DEFINE a == Holds({}, {}, "")
           p == Holder({}, FALSE)
           body == <<Fork, WaitAll>>
<1>1. Bounded(a) /\ a.may = {} /\ Path(p, body, a, a)
  BY ForkAndWait
<1>2. IsSequence(body) /\ body # <<>>
  BY Bodies
<1> HIDE DEF a, p, body
<1>3. Path(p, Rounds(Loops, body), a, a)
  BY <1>1, <1>2, LoopCounts, SameLoop
<1> QED
  BY <1>1, <1>3 DEF Finishes, exec_test, fork_test, aim_system, a, p, body

\* misc_rtns_1() ends with nothing left.
LEMMA misc_rtns_1_Finishes == Finishes(Holder({}, FALSE), misc_rtns_1, Holds({}, {}, ""))
<1> DEFINE a == Holds({}, {}, "")
           p == Holder({}, FALSE)
           body == [i \in 1 .. 9 |-> Try(<<>>)]
           A == [i \in 1 .. 10 |-> a]
<1>1. p.loose = Fallible /\ a.may = {} /\ Private(a) /\ Bounded(a) /\ Has(a, {}, {}, a)
  BY BlocksAssumption, Different DEF Holder, Holds, At, Private, Plain, Bounded, Has
<1> HIDE DEF a, p
<1>2. Step(p, a, Try(<<>>), a)
  BY <1>1, PrivateSteps
<1>3. body \in Seq({Try(<<>>)}) /\ Len(body) = 9
  <2>1. 9 \in Nat /\ body \in [1 .. 9 -> {Try(<<>>)}]
    OBVIOUS
  <2> QED
    BY <2>1, FunctionIsSequence
<1>4. \A i \in 1 .. 9 : body[i] = Try(<<>>) /\ A[i] = a /\ A[i + 1] = a
  OBVIOUS
<1>5. A[1] = a /\ A[9 + 1] = a
  OBVIOUS
<1> HIDE DEF body, A
<1>6. Path(p, body, a, a)
  BY <1>1, <1>2, <1>3, <1>4, <1>5 DEF Path, Chain, IsSequence
<1>7. IsSequence(body) /\ body # <<>>
  <2>1. Len(<<>>) = 0 /\ Len(body) = 9
    BY <1>3
  <2>2. body # <<>>
    BY <2>1
  <2> QED
    BY <1>3, <2>2 DEF IsSequence
<1>8. Path(p, Rounds(Loops, body), a, a)
  BY <1>1, <1>6, <1>7, LoopCounts, SameLoop
<1> QED
  BY <1>1, <1>8 DEF Finishes, misc_rtns_1, a, p, body

\* The segment and the semaphore are there until they are cleared.
LEMMA shared_memory_Finishes == Finishes(Holder({}, TRUE), shared_memory, Holds({}, {}, ""))
<1> DEFINE p == Holder({}, TRUE)
           a == Holds({}, {}, "")
           b == Holds({Ipc("shm")}, {Ipc("shm")}, "")
           c == Holds({Ipc("shm"), Ipc("sem")}, {Ipc("shm"), Ipc("sem")}, "")
           d == Holds({Ipc("shm"), Ipc("sem"), Ipc("taken")}, {Ipc("shm"), Ipc("sem")}, "")
           body == side \o side
<1>1. Plain(a) /\ Plain(b) /\ Plain(c) /\ Plain(d)
  BY BlocksAssumption, Different DEF Holds, At, Plain, Bounded
<1>2. /\ Has(a, {Ipc("shm")}, {}, b) /\ Has(b, {Ipc("sem")}, {}, c) /\ Has(c, {}, {}, c)
      /\ Has(c, {Ipc("taken")}, {}, d) /\ Has(d, {}, {Ipc("taken")}, c)
      /\ Has(c, {}, {Ipc("shm"), Ipc("sem"), Ipc("taken")}, a)
      /\ Ipc("shm") \in b.may /\ Ipc("shm") \in c.must /\ Ipc("sem") \in c.must
      /\ Ipc("sem") \in d.must /\ Ipc("shm") \in d.must /\ Has(d, {}, {}, d)
      /\ Ipc("shm") \notin a.may /\ Ipc("taken") \notin c.may
      /\ a.may = {} /\ p.ipc /\ p.loose = Fallible
      /\ a.file = "" /\ b.file = "" /\ c.file = "" /\ d.file = ""
  BY Different DEF Holds, At, Has, Holder
<1> HIDE DEF p, a, b, c, d
<1>3. /\ Bounded(a) /\ Bounded(b) /\ Bounded(c) /\ Bounded(d)
      /\ Kid \notin a.may /\ Kid \notin b.may /\ Kid \notin c.may /\ Kid \notin d.may
  BY <1>1 DEF Plain
<1>4. ASSUME NEW x \in {a, b, c, d}, NEW y \in {a, b, c, d} PROVE Keeps(x, y)
  <2>1. Plain(x) /\ Plain(y) /\ y.file = x.file
    BY <1>1, <1>2
  <2> QED
    BY <2>1, PlainKeeps
<1>5. /\ \A x \in {a, b, c, d}, op \in {"shmat", "semctl", "semop"} : Undoes(p, x, op, <<Clear>>)
      /\ Undoes(p, d, "copy", <<Clear, Segv>>)
  <2>1. Clear \in Range(<<Clear>>) /\ Clear \in Range(<<Clear, Segv>>)
    BY RangeOf
  <2>2. {"shmat", "copy", "semctl", "semop"} \subseteq p.loose
    BY <1>2 DEF Fallible
  <2> HIDE DEF body
  <2> QED
    BY <1>3, <2>1, <2>2 DEF Undoes
<1>6. Step(p, a, ShmGet, b) /\ Step(p, b, SemGet, c)
  BY <1>2, <1>3, <1>4, StepShmGet, StepSemGet
<1>7. Step(p, c, ShmAt, c) /\ Step(p, c, SemCtl, c)
  BY <1>2, <1>3, <1>4, <1>5, StepShmAt, StepSemCtl
<1>8. Step(p, c, SemOp("wait"), d) /\ Step(p, d, Memcpy, d) /\ Step(p, d, SemOp("signal"), c)
  BY <1>2, <1>3, <1>4, <1>5, StepSemWait, StepMemcpy, StepSemSignal
<1>9. Step(p, c, Clear, a)
  BY <1>2, <1>3, <1>4, StepClear
<1>10. Path(p, create_shared_memory, a, c)
  BY <1>3, <1>6, PathTwo DEF create_shared_memory
<1>11. Path(p, <<ShmAt, SemCtl>>, c, c)
  BY <1>3, <1>7, PathTwo
<1>12. Path(p, body, c, c)
  <2>1. Path(p, side, c, c)
    BY <1>3, <1>8, PathThree DEF side
  <2> QED
    BY <2>1, PathConcat
<1>13. IsSequence(body) /\ body # <<>>
  <2>1. PICK S : side \in Seq(S) /\ Len(side) = 3
    <3>1. side \in Seq({SemOp("wait"), Memcpy, SemOp("signal")})
      BY DEF side
    <3>2. Len(side) = 3
      BY DEF side
    <3> QED
      BY <3>1, <3>2
  <2>2. body \in Seq(S) /\ Len(body) = 6
    <3>1. side \in Seq(S)
      BY <2>1
    <3>2. side \o side \in Seq(S) /\ Len(side \o side) = Len(side) + Len(side)
      BY <3>1, ConcatProperties, Zenon
    <3> QED
      BY <2>1, <3>2
  <2>3. Len(<<>>) = 0
    OBVIOUS
  <2> QED
    BY <2>2, <2>3 DEF IsSequence
<1>14. Path(p, <<Clear>>, c, a)
  BY <1>3, <1>9, PathCall
<1> HIDE DEF body
<1>15. Path(p, Rounds(Loops, body), c, c)
  BY <1>3, <1>12, <1>13, LoopCounts, SameLoop
<1>16. Path(p, ((create_shared_memory \o <<ShmAt, SemCtl>>) \o Rounds(Loops, body)) \o <<Clear>>, a, a)
  BY <1>10, <1>11, <1>14, <1>15, PathConcat
<1> QED
  BY <1>2, <1>16 DEF Finishes, shared_memory, p, a, body

(***************************************************************************)
(* Each of the tests ends with nothing left.                               *)
(***************************************************************************)
WorkTests == {"disk_brd", "disk_dio_rd"}
AlignedTests == {"disk_dio_cp", "disk_dio_wrt"}
Uses(t) ==
  IF t = "link_test" THEN {"link0", "link1", "link2"} ELSE
  IF t = "creat_clo" THEN {"creat"} ELSE
  IF t = "fifo_test" THEN {"fifo"} ELSE
  IF t = "disk_src" THEN {"src"} ELSE
  IF t \in DOMAIN DiskTest \ WorkTests THEN {"temp"} ELSE {}
Loose(t) ==
  IF t \in AlignedTests THEN {"alloc"} ELSE
  IF t \in DOMAIN DiskTest THEN {} ELSE Fallible
Profile(t) == [uses |-> Uses(t), loose |-> Loose(t), ipc |-> t = "shared_memory"]
\* Names that a user gives to the files of more than one of its tests.
Kept == {"temp", "src"}
Old(t) == {Entry(n) : n \in Uses(t) \cap Kept}
Completes(t, q) == \E a : Finishes(Profile(t), q, a) /\ Old(t) \subseteq a.may /\ a.must = {}

\* The tests by name.
LEMMA TestNames ==
  /\ DOMAIN DiskTest = {"disk_rr", "disk_rw", "sync_disk_rw", "disk_rd", "disk_cp",
        "sync_disk_cp", "disk_wrt", "sync_disk_wrt", "sync_disk_update", "disk_dio_rr",
        "disk_dio_rw", "disk_dio_rd", "disk_dio_cp", "disk_dio_wrt", "disk_brr",
        "disk_brw", "disk_brd", "disk_bcp", "disk_bwrt"}
  /\ DOMAIN SystemTest = {"creat_clo", "page_test", "brk_test", "signal_test", "exec_test",
        "fork_test", "link_test", "shared_memory", "tcp_test", "udp_test",
        "stream_pipe", "dgram_pipe", "pipe_cpy", "fifo_test", "disk_src",
        "sieve", "mem_rtns_1", "dir_rtns_1", "misc_rtns_1", "shell_rtns_1",
        "shell_rtns_2", "shell_rtns_3"}
BY DEF DiskTest, SystemTest

\* Every disk test completes.
LEMMA DiskPrograms == \A t \in DOMAIN DiskTest : Completes(t, DiskTest[t])
<1>1. Completes("disk_rr", disk_rr)
  <2>1. Profile("disk_rr") = OnDisk({})
    BY TestNames DEF Profile, Uses, Loose, WorkTests, AlignedTests, OnDisk
  <2>2. Old("disk_rr") \subseteq Start.may /\ Start.must = {}
    BY TestNames DEF Old, Kept, Uses, WorkTests, At, Start, Temp
  <2> QED
    BY <2>1, <2>2, disk_rr_Finishes DEF Completes
<1>2. Completes("disk_rw", disk_rw)
  <2>1. Profile("disk_rw") = OnDisk({})
    BY TestNames DEF Profile, Uses, Loose, WorkTests, AlignedTests, OnDisk
  <2>2. Old("disk_rw") \subseteq Start.may /\ Start.must = {}
    BY TestNames DEF Old, Kept, Uses, WorkTests, At, Start, Temp
  <2> QED
    BY <2>1, <2>2, disk_rw_Finishes DEF Completes
<1>3. Completes("sync_disk_rw", sync_disk_rw)
  <2>1. Profile("sync_disk_rw") = OnDisk({})
    BY TestNames DEF Profile, Uses, Loose, WorkTests, AlignedTests, OnDisk
  <2>2. Old("sync_disk_rw") \subseteq Start.may /\ Start.must = {}
    BY TestNames DEF Old, Kept, Uses, WorkTests, At, Start, Temp
  <2> QED
    BY <2>1, <2>2, sync_disk_rw_Finishes DEF Completes
<1>4. Completes("disk_rd", disk_rd)
  <2>1. Profile("disk_rd") = OnDisk({})
    BY TestNames DEF Profile, Uses, Loose, WorkTests, AlignedTests, OnDisk
  <2>2. Old("disk_rd") \subseteq Start.may /\ Start.must = {}
    BY TestNames DEF Old, Kept, Uses, WorkTests, At, Start, Temp
  <2> QED
    BY <2>1, <2>2, disk_rd_Finishes DEF Completes
<1>5. Completes("disk_cp", disk_cp)
  <2>1. Profile("disk_cp") = OnDisk({})
    BY TestNames DEF Profile, Uses, Loose, WorkTests, AlignedTests, OnDisk
  <2>2. Old("disk_cp") \subseteq Start.may /\ Start.must = {}
    BY TestNames DEF Old, Kept, Uses, WorkTests, At, Start, Temp
  <2> QED
    BY <2>1, <2>2, disk_cp_Finishes DEF Completes
<1>6. Completes("sync_disk_cp", sync_disk_cp)
  <2>1. Profile("sync_disk_cp") = OnDisk({})
    BY TestNames DEF Profile, Uses, Loose, WorkTests, AlignedTests, OnDisk
  <2>2. Old("sync_disk_cp") \subseteq Start.may /\ Start.must = {}
    BY TestNames DEF Old, Kept, Uses, WorkTests, At, Start, Temp
  <2> QED
    BY <2>1, <2>2, sync_disk_cp_Finishes DEF Completes
<1>7. Completes("disk_wrt", disk_wrt)
  <2>1. Profile("disk_wrt") = OnDisk({})
    BY TestNames DEF Profile, Uses, Loose, WorkTests, AlignedTests, OnDisk
  <2>2. Old("disk_wrt") \subseteq Start.may /\ Start.must = {}
    BY TestNames DEF Old, Kept, Uses, WorkTests, At, Start, Temp
  <2> QED
    BY <2>1, <2>2, disk_wrt_Finishes DEF Completes
<1>8. Completes("sync_disk_wrt", sync_disk_wrt)
  <2>1. Profile("sync_disk_wrt") = OnDisk({})
    BY TestNames DEF Profile, Uses, Loose, WorkTests, AlignedTests, OnDisk
  <2>2. Old("sync_disk_wrt") \subseteq Start.may /\ Start.must = {}
    BY TestNames DEF Old, Kept, Uses, WorkTests, At, Start, Temp
  <2> QED
    BY <2>1, <2>2, sync_disk_wrt_Finishes DEF Completes
<1>9. Completes("sync_disk_update", sync_disk_update)
  <2>1. Profile("sync_disk_update") = OnDisk({})
    BY TestNames DEF Profile, Uses, Loose, WorkTests, AlignedTests, OnDisk
  <2>2. Old("sync_disk_update") \subseteq Start.may /\ Start.must = {}
    BY TestNames DEF Old, Kept, Uses, WorkTests, At, Start, Temp
  <2> QED
    BY <2>1, <2>2, sync_disk_update_Finishes DEF Completes
<1>10. Completes("disk_dio_rr", disk_dio_rr)
  <2>1. Profile("disk_dio_rr") = OnDisk({})
    BY TestNames DEF Profile, Uses, Loose, WorkTests, AlignedTests, OnDisk
  <2>2. Old("disk_dio_rr") \subseteq Start.may /\ Start.must = {}
    BY TestNames DEF Old, Kept, Uses, WorkTests, At, Start, Temp
  <2> QED
    BY <2>1, <2>2, disk_dio_rr_Finishes DEF Completes
<1>11. Completes("disk_dio_rw", disk_dio_rw)
  <2>1. Profile("disk_dio_rw") = OnDisk({})
    BY TestNames DEF Profile, Uses, Loose, WorkTests, AlignedTests, OnDisk
  <2>2. Old("disk_dio_rw") \subseteq Start.may /\ Start.must = {}
    BY TestNames DEF Old, Kept, Uses, WorkTests, At, Start, Temp
  <2> QED
    BY <2>1, <2>2, disk_dio_rw_Finishes DEF Completes
<1>12. Completes("disk_dio_rd", disk_dio_rd)
  <2>1. Profile("disk_dio_rd") = OnWork
    BY TestNames DEF Profile, Uses, Loose, WorkTests, AlignedTests, OnWork
  <2>2. Old("disk_dio_rd") \subseteq Empty.may /\ Empty.must = {}
    BY TestNames DEF Old, Kept, Uses, WorkTests, At, Empty
  <2> QED
    BY <2>1, <2>2, disk_dio_rd_Finishes DEF Completes
<1>13. Completes("disk_dio_cp", disk_dio_cp)
  <2>1. Profile("disk_dio_cp") = OnDisk({"alloc"})
    BY TestNames DEF Profile, Uses, Loose, WorkTests, AlignedTests, OnDisk
  <2>2. Old("disk_dio_cp") \subseteq Start.may /\ Start.must = {}
    BY TestNames DEF Old, Kept, Uses, WorkTests, At, Start, Temp
  <2> QED
    BY <2>1, <2>2, disk_dio_cp_Finishes DEF Completes
<1>14. Completes("disk_dio_wrt", disk_dio_wrt)
  <2>1. Profile("disk_dio_wrt") = OnDisk({"alloc"})
    BY TestNames DEF Profile, Uses, Loose, WorkTests, AlignedTests, OnDisk
  <2>2. Old("disk_dio_wrt") \subseteq Start.may /\ Start.must = {}
    BY TestNames DEF Old, Kept, Uses, WorkTests, At, Start, Temp
  <2> QED
    BY <2>1, <2>2, disk_dio_wrt_Finishes DEF Completes
<1>15. Completes("disk_brr", disk_brr)
  <2>1. Profile("disk_brr") = OnDisk({})
    BY TestNames DEF Profile, Uses, Loose, WorkTests, AlignedTests, OnDisk
  <2>2. Old("disk_brr") \subseteq Start.may /\ Start.must = {}
    BY TestNames DEF Old, Kept, Uses, WorkTests, At, Start, Temp
  <2> QED
    BY <2>1, <2>2, disk_brr_Finishes DEF Completes
<1>16. Completes("disk_brw", disk_brw)
  <2>1. Profile("disk_brw") = OnDisk({})
    BY TestNames DEF Profile, Uses, Loose, WorkTests, AlignedTests, OnDisk
  <2>2. Old("disk_brw") \subseteq Start.may /\ Start.must = {}
    BY TestNames DEF Old, Kept, Uses, WorkTests, At, Start, Temp
  <2> QED
    BY <2>1, <2>2, disk_brw_Finishes DEF Completes
<1>17. Completes("disk_brd", disk_brd)
  <2>1. Profile("disk_brd") = OnWork
    BY TestNames DEF Profile, Uses, Loose, WorkTests, AlignedTests, OnWork
  <2>2. Old("disk_brd") \subseteq Empty.may /\ Empty.must = {}
    BY TestNames DEF Old, Kept, Uses, WorkTests, At, Empty
  <2> QED
    BY <2>1, <2>2, disk_brd_Finishes DEF Completes
<1>18. Completes("disk_bcp", disk_bcp)
  <2>1. Profile("disk_bcp") = OnDisk({})
    BY TestNames DEF Profile, Uses, Loose, WorkTests, AlignedTests, OnDisk
  <2>2. Old("disk_bcp") \subseteq Start.may /\ Start.must = {}
    BY TestNames DEF Old, Kept, Uses, WorkTests, At, Start, Temp
  <2> QED
    BY <2>1, <2>2, disk_bcp_Finishes DEF Completes
<1>19. Completes("disk_bwrt", disk_bwrt)
  <2>1. Profile("disk_bwrt") = OnDisk({})
    BY TestNames DEF Profile, Uses, Loose, WorkTests, AlignedTests, OnDisk
  <2>2. Old("disk_bwrt") \subseteq Start.may /\ Start.must = {}
    BY TestNames DEF Old, Kept, Uses, WorkTests, At, Start, Temp
  <2> QED
    BY <2>1, <2>2, disk_bwrt_Finishes DEF Completes
<1> QED
  BY <1>1, <1>2, <1>3, <1>4, <1>5, <1>6, <1>7, <1>8, <1>9, <1>10, <1>11, <1>12, <1>13, <1>14, <1>15,
     <1>16, <1>17, <1>18, <1>19, TestNames DEF DiskTest

\* Every other test completes.
LEMMA SystemPrograms == \A t \in DOMAIN SystemTest : Completes(t, SystemTest[t])
<1>1. Completes("creat_clo", creat_clo)
  <2>1. Profile("creat_clo") = Holder({"creat"}, FALSE)
    BY TestNames DEF Profile, Uses, Loose, WorkTests, AlignedTests, Holder
  <2>2. /\ Old("creat_clo") \subseteq Holds({Entry("creat")}, {}, "creat").may
        /\ Holds({Entry("creat")}, {}, "creat").must = {}
    BY TestNames DEF Old, Kept, Uses, WorkTests, At, Holds
  <2> QED
    BY <2>1, <2>2, creat_clo_Finishes DEF Completes
<1>2. Completes("page_test", page_test)
  <2>1. Profile("page_test") = Holder({}, FALSE)
    BY TestNames DEF Profile, Uses, Loose, WorkTests, AlignedTests, Holder
  <2>2. Old("page_test") \subseteq Holds({}, {}, "").may /\ Holds({}, {}, "").must = {}
    BY TestNames DEF Old, Kept, Uses, WorkTests, At, Holds
  <2> QED
    BY <2>1, <2>2, page_test_Finishes DEF Completes
<1>3. Completes("brk_test", brk_test)
  <2>1. Profile("brk_test") = Holder({}, FALSE)
    BY TestNames DEF Profile, Uses, Loose, WorkTests, AlignedTests, Holder
  <2>2. Old("brk_test") \subseteq Holds({}, {}, "").may /\ Holds({}, {}, "").must = {}
    BY TestNames DEF Old, Kept, Uses, WorkTests, At, Holds
  <2> QED
    BY <2>1, <2>2, brk_test_Finishes DEF Completes
<1>4. Completes("signal_test", signal_test)
  <2>1. Profile("signal_test") = Holder({}, FALSE)
    BY TestNames DEF Profile, Uses, Loose, WorkTests, AlignedTests, Holder
  <2>2. Old("signal_test") \subseteq Holds({}, {}, "").may /\ Holds({}, {}, "").must = {}
    BY TestNames DEF Old, Kept, Uses, WorkTests, At, Holds
  <2> QED
    BY <2>1, <2>2, signal_test_Finishes DEF Completes
<1>5. Completes("exec_test", exec_test)
  <2>1. Profile("exec_test") = Holder({}, FALSE)
    BY TestNames DEF Profile, Uses, Loose, WorkTests, AlignedTests, Holder
  <2>2. Old("exec_test") \subseteq Holds({}, {}, "").may /\ Holds({}, {}, "").must = {}
    BY TestNames DEF Old, Kept, Uses, WorkTests, At, Holds
  <2> QED
    BY <2>1, <2>2, Fork_Finishes DEF Completes
<1>6. Completes("fork_test", fork_test)
  <2>1. Profile("fork_test") = Holder({}, FALSE)
    BY TestNames DEF Profile, Uses, Loose, WorkTests, AlignedTests, Holder
  <2>2. Old("fork_test") \subseteq Holds({}, {}, "").may /\ Holds({}, {}, "").must = {}
    BY TestNames DEF Old, Kept, Uses, WorkTests, At, Holds
  <2> QED
    BY <2>1, <2>2, Fork_Finishes DEF Completes
<1>7. Completes("link_test", link_test)
  <2>1. Profile("link_test") = Holder({"link0", "link1", "link2"}, FALSE)
    BY TestNames DEF Profile, Uses, Loose, WorkTests, AlignedTests, Holder
  <2>2. Old("link_test") \subseteq Holds({}, {}, "link0").may /\ Holds({}, {}, "link0").must = {}
    BY TestNames DEF Old, Kept, Uses, WorkTests, At, Holds
  <2> QED
    BY <2>1, <2>2, link_test_Finishes DEF Completes
<1>8. Completes("shared_memory", shared_memory)
  <2>1. Profile("shared_memory") = Holder({}, TRUE)
    BY TestNames DEF Profile, Uses, Loose, WorkTests, AlignedTests, Holder
  <2>2. Old("shared_memory") \subseteq Holds({}, {}, "").may /\ Holds({}, {}, "").must = {}
    BY TestNames DEF Old, Kept, Uses, WorkTests, At, Holds
  <2> QED
    BY <2>1, <2>2, shared_memory_Finishes DEF Completes
<1>9. Completes("tcp_test", tcp_test)
  <2>1. Profile("tcp_test") = Holder({}, FALSE)
    BY TestNames DEF Profile, Uses, Loose, WorkTests, AlignedTests, Holder
  <2>2. Old("tcp_test") \subseteq Holds({}, {}, "").may /\ Holds({}, {}, "").must = {}
    BY TestNames DEF Old, Kept, Uses, WorkTests, At, Holds
  <2> QED
    BY <2>1, <2>2, tcp_test_Finishes DEF Completes
<1>10. Completes("udp_test", udp_test)
  <2>1. Profile("udp_test") = Holder({}, FALSE)
    BY TestNames DEF Profile, Uses, Loose, WorkTests, AlignedTests, Holder
  <2>2. Old("udp_test") \subseteq Holds({}, {}, "").may /\ Holds({}, {}, "").must = {}
    BY TestNames DEF Old, Kept, Uses, WorkTests, At, Holds
  <2> QED
    BY <2>1, <2>2, udp_test_Finishes DEF Completes
<1>11. Completes("stream_pipe", stream_pipe)
  <2>1. Profile("stream_pipe") = Holder({}, FALSE)
    BY TestNames DEF Profile, Uses, Loose, WorkTests, AlignedTests, Holder
  <2>2. Old("stream_pipe") \subseteq Holds({}, {}, "").may /\ Holds({}, {}, "").must = {}
    BY TestNames DEF Old, Kept, Uses, WorkTests, At, Holds
  <2> QED
    BY <2>1, <2>2, stream_pipe_Finishes DEF Completes
<1>12. Completes("dgram_pipe", dgram_pipe)
  <2>1. Profile("dgram_pipe") = Holder({}, FALSE)
    BY TestNames DEF Profile, Uses, Loose, WorkTests, AlignedTests, Holder
  <2>2. Old("dgram_pipe") \subseteq Holds({}, {}, "").may /\ Holds({}, {}, "").must = {}
    BY TestNames DEF Old, Kept, Uses, WorkTests, At, Holds
  <2> QED
    BY <2>1, <2>2, dgram_pipe_Finishes DEF Completes
<1>13. Completes("pipe_cpy", pipe_cpy)
  <2>1. Profile("pipe_cpy") = Holder({}, FALSE)
    BY TestNames DEF Profile, Uses, Loose, WorkTests, AlignedTests, Holder
  <2>2. Old("pipe_cpy") \subseteq Holds({}, {}, "").may /\ Holds({}, {}, "").must = {}
    BY TestNames DEF Old, Kept, Uses, WorkTests, At, Holds
  <2> QED
    BY <2>1, <2>2, pipe_cpy_Finishes DEF Completes
<1>14. Completes("fifo_test", fifo_test)
  <2>1. Profile("fifo_test") = Holder({"fifo"}, FALSE)
    BY TestNames DEF Profile, Uses, Loose, WorkTests, AlignedTests, Holder
  <2>2. Old("fifo_test") \subseteq Holds({}, {}, "").may /\ Holds({}, {}, "").must = {}
    BY TestNames DEF Old, Kept, Uses, WorkTests, At, Holds
  <2> QED
    BY <2>1, <2>2, fifo_test_Finishes DEF Completes
<1>15. Completes("disk_src", disk_src)
  <2>1. Profile("disk_src") = Holder({"src"}, FALSE)
    BY TestNames DEF Profile, Uses, Loose, WorkTests, AlignedTests, Holder
  <2>2. /\ Old("disk_src") \subseteq Holds({Entry("src")}, {}, "src").may
        /\ Holds({Entry("src")}, {}, "src").must = {}
    BY TestNames DEF Old, Kept, Uses, WorkTests, At, Holds
  <2> QED
    BY <2>1, <2>2, disk_src_Finishes DEF Completes
<1>16. Completes("sieve", sieve)
  <2>1. Profile("sieve") = Holder({}, FALSE)
    BY TestNames DEF Profile, Uses, Loose, WorkTests, AlignedTests, Holder
  <2>2. Old("sieve") \subseteq Holds({}, {}, "").may /\ Holds({}, {}, "").must = {}
    BY TestNames DEF Old, Kept, Uses, WorkTests, At, Holds
  <2> QED
    BY <2>1, <2>2, sieve_Finishes DEF Completes
<1>17. Completes("mem_rtns_1", mem_rtns_1)
  <2>1. Profile("mem_rtns_1") = Holder({}, FALSE)
    BY TestNames DEF Profile, Uses, Loose, WorkTests, AlignedTests, Holder
  <2>2. Old("mem_rtns_1") \subseteq Holds({}, {}, "").may /\ Holds({}, {}, "").must = {}
    BY TestNames DEF Old, Kept, Uses, WorkTests, At, Holds
  <2> QED
    BY <2>1, <2>2, mem_rtns_1_Finishes DEF Completes
<1>18. Completes("dir_rtns_1", dir_rtns_1)
  <2>1. Profile("dir_rtns_1") = Holder({}, FALSE)
    BY TestNames DEF Profile, Uses, Loose, WorkTests, AlignedTests, Holder
  <2>2. Old("dir_rtns_1") \subseteq Holds({}, {}, "").may /\ Holds({}, {}, "").must = {}
    BY TestNames DEF Old, Kept, Uses, WorkTests, At, Holds
  <2> QED
    BY <2>1, <2>2, dir_rtns_1_Finishes DEF Completes
<1>19. Completes("misc_rtns_1", misc_rtns_1)
  <2>1. Profile("misc_rtns_1") = Holder({}, FALSE)
    BY TestNames DEF Profile, Uses, Loose, WorkTests, AlignedTests, Holder
  <2>2. Old("misc_rtns_1") \subseteq Holds({}, {}, "").may /\ Holds({}, {}, "").must = {}
    BY TestNames DEF Old, Kept, Uses, WorkTests, At, Holds
  <2> QED
    BY <2>1, <2>2, misc_rtns_1_Finishes DEF Completes
<1>20. Completes("shell_rtns_1", shell_rtns_1)
  <2>1. Profile("shell_rtns_1") = Holder({}, FALSE)
    BY TestNames DEF Profile, Uses, Loose, WorkTests, AlignedTests, Holder
  <2>2. Old("shell_rtns_1") \subseteq Holds({}, {}, "").may /\ Holds({}, {}, "").must = {}
    BY TestNames DEF Old, Kept, Uses, WorkTests, At, Holds
  <2> QED
    BY <2>1, <2>2, Fork_Finishes DEF Completes, shell_rtns_1, aim_system
<1>21. Completes("shell_rtns_2", shell_rtns_2)
  <2>1. Profile("shell_rtns_2") = Holder({}, FALSE)
    BY TestNames DEF Profile, Uses, Loose, WorkTests, AlignedTests, Holder
  <2>2. Old("shell_rtns_2") \subseteq Holds({}, {}, "").may /\ Holds({}, {}, "").must = {}
    BY TestNames DEF Old, Kept, Uses, WorkTests, At, Holds
  <2> QED
    BY <2>1, <2>2, Fork_Finishes DEF Completes, shell_rtns_2, aim_system
<1>22. Completes("shell_rtns_3", shell_rtns_3)
  <2>1. Profile("shell_rtns_3") = Holder({}, FALSE)
    BY TestNames DEF Profile, Uses, Loose, WorkTests, AlignedTests, Holder
  <2>2. Old("shell_rtns_3") \subseteq Holds({}, {}, "").may /\ Holds({}, {}, "").must = {}
    BY TestNames DEF Old, Kept, Uses, WorkTests, At, Holds
  <2> QED
    BY <2>1, <2>2, Fork_Finishes DEF Completes, shell_rtns_3, aim_system
<1> QED
  BY <1>1, <1>2, <1>3, <1>4, <1>5, <1>6, <1>7, <1>8, <1>9, <1>10, <1>11, <1>12, <1>13, <1>14, <1>15,
     <1>16, <1>17, <1>18, <1>19, <1>20, <1>21, <1>22, TestNames DEF SystemTest

\* Every test of the suite, run from its first call to its last, finds what each call works on,
\* stays within its file and has given back all it took; and wherever it fails its clean-up
\* covers what it may have then (the functions of disk1.c, pipe_test.c, creat_clo.c and the others).
LEMMA Programs ==
  /\ DOMAIN Program = DOMAIN DiskTest \cup DOMAIN SystemTest
  /\ \A t \in DOMAIN Program : Completes(t, Program[t])
<1>1. DOMAIN DiskTest \cap DOMAIN SystemTest = {}
  BY TestNames
<1>2. /\ DOMAIN Program = DOMAIN DiskTest \cup DOMAIN SystemTest
      /\ \A t \in DOMAIN DiskTest : Program[t] = DiskTest[t]
      /\ \A t \in DOMAIN SystemTest : Program[t] = SystemTest[t]
  BY <1>1 DEF Program
<1> QED
  BY ONLY <1>2, DiskPrograms, SystemPrograms
====
