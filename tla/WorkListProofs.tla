--------------------------- MODULE WorkListProofs ---------------------------
(***************************************************************************)
(* Proofs about the test list of a child, for any number of tests, lines,  *)
(* weights and jobs.  The runs owed are counted as the elements of a set,  *)
(* so that a draw takes one element out of it and no sum is needed.  Last, *)
(* that a draw gives each listed test one remainder, and that a child has  *)
(* a bounded number of steps.                                              *)
(***************************************************************************)
EXTENDS WorkList, Integers, FiniteSetTheorems, SequenceTheorems, TLAPS

Listed == Linked(wlist)
Working == phase \in {"draw", "run", "exit"}
Running == IF phase = "run" THEN 1 ELSE 0

\* What the workfile gives.
Weights ==
  /\ phase \in {"parse", "allot", "draw", "run", "exit"}
  /\ lines \in 0 .. MaxLines /\ jobs \in 1 .. MaxJobs
  /\ hits \in [Test -> 0 .. MaxHits]
  /\ totalHits \in Nat /\ totalHits <= lines * MaxHits
  /\ phase # "parse" => totalHits > 0

\* A list with its size and no test twice.
Formed(list) ==
  /\ list \in [items : Seq(Test), size : Nat, tail : Test \cup {NULL}]
  /\ list.size = Len(list.items)
  /\ \A p, q \in 1 .. Len(list.items) : list.items[p] = list.items[q] => p = q

\* The list has each test that is owed a run, and the item of the walk.
Lists ==
  /\ Formed(wlist) /\ wlist.size <= NTests
  /\ item \in Test \cup {NULL}
  /\ phase = "parse" => wlist.size = 0
  /\ phase = "allot" =>
       item \in Test /\ wlist.size = item - 1 /\ \A p \in 1 .. item - 1 : wlist.items[p] = p
  /\ phase = "draw" /\ wlist.size > 0 => item \in Listed
  /\ phase = "run" => item \in Listed
  /\ Working => \A t \in Test : load[t] > 0 => t \in Listed

\* What a test has had and what it is owed are its share, as far as shares are given.
Shares ==
  /\ load \in [Test -> Nat] /\ count \in [Test -> Nat]
  /\ phase = "parse" => \A t \in Test : load[t] = 0 /\ count[t] = 0
  /\ phase = "allot" =>
       \A t \in Test : /\ count[t] = 0
                       /\ load[t] = IF t < item THEN RoundedLoad(hits[t]) ELSE 0
  /\ Working =>
       \A t \in Test :
         count[t] + load[t] + (IF phase = "run" /\ t = item THEN 1 ELSE 0) = RoundedLoad(hits[t])

\* The loop count is what has been run, what is owed and the run in hand.
Sums ==
  /\ ppu \in Nat /\ j \in Nat /\ IsFiniteSet(OwedRuns)
  /\ ppu = j + Owed + Running
  /\ phase \in {"parse", "allot"} => j = 0
  /\ phase = "draw" => j < ppu
  /\ phase = "exit" => j = ppu

WInv == Weights /\ Lists /\ Shares /\ Sums

-----------------------------------------------------------------------------
(* Arithmetic.                                                             *)

\* Quotient and remainder.
LEMMA Division ==
  ASSUME NEW a \in Nat, NEW d \in Nat \ {0}
  PROVE  /\ a \div d \in Nat /\ a % d \in 0 .. d - 1
         /\ a = d * (a \div d) + (a % d)
BY SMT

\* A share is rounded by less than one run, and is 0 only for a weight of 0.
LEMMA Rounding ==
  ASSUME NEW h \in Nat, jobs \in Nat \ {0}, totalHits \in Nat \ {0}
  PROVE  /\ RoundedLoad(h) \in Nat
         /\ h > 0 <=> RoundedLoad(h) > 0
         /\ RoundedLoad(h) * totalHits < h * jobs + totalHits
         /\ h * jobs < RoundedLoad(h) * totalHits + totalHits
<1> DEFINE a == h * jobs
           q == a \div totalHits
           r == a % totalHits
<1>1. a \in Nat /\ (h > 0 <=> a > 0)
  BY SMT
<1>2. q \in Nat /\ r \in 0 .. totalHits - 1 /\ a = totalHits * q + r
  BY <1>1, Division
<1>3. RoundedLoad(h) = IF 2 * r >= totalHits THEN q + 1
                       ELSE IF r # 0 /\ q = 0 THEN 1 ELSE q
  BY DEF RoundedLoad
<1> HIDE DEF a, q, r
<1>4. q * totalHits = totalHits * q /\ (q + 1) * totalHits = totalHits * q + totalHits
  BY <1>2
<1>5. q > 0 <=> totalHits * q > 0
  BY <1>2
<1>6. q = 0 => totalHits * q = 0
  BY <1>2
<1>7. CASE RoundedLoad(h) = q + 1 /\ r > 0
  BY <1>1, <1>2, <1>4, <1>7 DEF a
<1>8. CASE RoundedLoad(h) = q /\ (q = 0 => r = 0)
  BY <1>1, <1>2, <1>4, <1>5, <1>6, <1>8 DEF a
<1> QED
  BY <1>2, <1>3, <1>7, <1>8

-----------------------------------------------------------------------------
(* The list.                                                               *)

\* The items of a list, its size, and its head.
LEMMA FormedFacts ==
  ASSUME NEW list, Formed(list)
  PROVE  /\ list.items \in Seq(Test) /\ Len(list.items) \in Nat /\ list.size = Len(list.items)
         /\ DOMAIN list.items = 1 .. Len(list.items)
         /\ Linked(list) = {list.items[p] : p \in 1 .. Len(list.items)}
         /\ Linked(list) \subseteq Test
         /\ list_head(list) = IF list.size = 0 THEN NULL ELSE list.items[1]
         /\ list_head(list) \in Test \cup {NULL}
         /\ list.size > 0 => list_head(list) \in Linked(list)
<1> DEFINE s == list.items
<1>1. s \in Seq(Test) /\ list.size = Len(s)
  BY DEF Formed
<1> HIDE DEF s
<1>2. Len(s) \in Nat /\ DOMAIN s = 1 .. Len(s) /\ \A p \in 1 .. Len(s) : s[p] \in Test
  BY <1>1
<1>3. Linked(list) = {s[p] : p \in 1 .. Len(s)}
  BY <1>2 DEF Linked, Range, s
<1>4. (s = <<>> <=> Len(s) = 0) /\ (s # <<>> => Head(s) = s[1])
  BY <1>1
<1>5. list_head(list) = IF Len(s) = 0 THEN NULL ELSE s[1]
  BY <1>4 DEF list_head, s
<1>6. Len(s) > 0 => s[1] \in {s[p] : p \in 1 .. Len(s)} /\ s[1] \in Test
  BY <1>2
<1> QED
  BY <1>1, <1>2, <1>3, <1>5, <1>6 DEF s

\* The walk from an item of a list ends at an item of the list.
LEMMA WalkInList ==
  ASSUME NEW list, Formed(list), NEW t \in Linked(list), NEW k \in Nat
  PROVE  Walk(list, t, k) \in Linked(list)
<1> DEFINE s == list.items
<1>1. s \in Seq(Test) /\ DOMAIN s = 1 .. Len(s) /\ Linked(list) = {s[p] : p \in 1 .. Len(s)}
  BY FormedFacts
<1>2. Place(list, t) \in 1 .. Len(s)
  BY <1>1 DEF Place
<1>3. Len(s) \in Nat \ {0} /\ Place(list, t) - 1 + k \in Nat
  BY <1>1, <1>2
<1>4. (Place(list, t) - 1 + k) % Len(s) \in 0 .. Len(s) - 1
  BY <1>3, Division
<1> QED
  BY <1>1, <1>3, <1>4 DEF Walk

\* Removing an item of a list that has none twice leaves the others.
LEMMA Removal ==
  ASSUME NEW list, Formed(list), NEW t \in Linked(list)
  PROVE  LET new == aiml_remove(list, t)
         IN  Formed(new) /\ new.size = list.size - 1 /\ Linked(new) = Linked(list) \ {t}
<1> DEFINE s == list.items
           n == Len(s)
           i == Place(list, t)
           u == SubSeq(s, 1, i - 1)
           v == SubSeq(s, i + 1, n)
           w == u \o v
<1>1. s \in Seq(Test) /\ n \in Nat /\ DOMAIN s = 1 .. n /\ Linked(list) = {s[p] : p \in 1 .. n}
  BY FormedFacts
<1>2. i \in 1 .. n /\ s[i] = t
  BY <1>1 DEF Place
<1>3. \A p \in 1 .. n : s[p] \in Test
  BY <1>1
<1>4. aiml_remove(list, t) = [list EXCEPT !.items = w, !.size = list.size - 1]
  BY DEF aiml_remove, RemoveAt, Formed
<1> HIDE DEF i, s, n
<1>5. u \in Seq(Test) /\ Len(u) = i - 1 /\ \A p \in 1 .. i - 1 : u[p] = s[p]
  <2>1. \A p \in 1 .. i - 1 : s[p] \in Test
    BY <1>1, <1>2, <1>3
  <2> QED
    BY <1>1, <1>2, <2>1, SubSeqProperties
<1>6. v \in Seq(Test) /\ Len(v) = n - i /\ \A p \in 1 .. n - i : v[p] = s[i + p]
  <2>1. \A p \in i + 1 .. n : s[p] \in Test
    BY <1>1, <1>2, <1>3
  <2> QED
    BY <1>1, <1>2, <2>1, SubSeqProperties
<1> HIDE DEF u, v
<1>7. /\ w \in Seq(Test) /\ Len(w) = n - 1
      /\ \A p \in 1 .. n - 1 : w[p] = IF p < i THEN s[p] ELSE s[p + 1]
  <2>1. /\ w \in Seq(Test) /\ Len(w) = i - 1 + (n - i)
        /\ \A p \in 1 .. i - 1 + (n - i) : w[p] = IF p <= i - 1 THEN u[p] ELSE v[p - (i - 1)]
    <3>1. /\ w \in Seq(Test) /\ Len(w) = Len(u) + Len(v)
          /\ \A p \in 1 .. Len(u) + Len(v) : w[p] = IF p <= Len(u) THEN u[p] ELSE v[p - Len(u)]
      <4>1. u \in Seq(Test) /\ v \in Seq(Test)
        BY <1>5, <1>6
      <4> QED
        BY <4>1, ConcatProperties
    <3> HIDE DEF w
    <3> QED
      BY <1>5, <1>6, <3>1
  <2> HIDE DEF w
  <2>2. ASSUME NEW p \in 1 .. n - 1
        PROVE  w[p] = IF p < i THEN s[p] ELSE s[p + 1]
    <3>1. CASE p < i
      <4>1. p \in 1 .. i - 1 /\ p \in 1 .. i - 1 + (n - i) /\ p <= i - 1
        BY <1>1, <1>2, <3>1
      <4> QED
        BY <1>5, <2>1, <3>1, <4>1
    <3>2. CASE ~(p < i)
      <4>1. w[p] = v[p - (i - 1)] /\ p - (i - 1) \in 1 .. n - i /\ i + (p - (i - 1)) = p + 1
        BY <1>1, <1>2, <2>1, <3>2
      <4> QED
        BY <1>6, <3>2, <4>1
    <3> QED
      BY <3>1, <3>2
  <2> QED
    BY <1>1, <1>2, <2>1, <2>2
<1> HIDE DEF w
<1> DEFINE new == [list EXCEPT !.items = w, !.size = list.size - 1]
<1>8. /\ new \in [items : Seq(Test), size : Nat, tail : Test \cup {NULL}]
      /\ new.items = w /\ new.size = n - 1 /\ list.size = n
  <2> DEFINE short == [list EXCEPT !.items = w]
  <2>1. /\ short \in [items : Seq(Test), size : Nat, tail : Test \cup {NULL}]
        /\ short.items = w /\ short.size = list.size /\ new = [short EXCEPT !.size = list.size - 1]
    BY <1>7 DEF Formed
  <2>2. list.size = n /\ n - 1 \in Nat
    BY <1>1, <1>2 DEF n, s, Formed
  <2> HIDE DEF short
  <2> QED
    BY <2>1, <2>2
<1>9. ASSUME NEW p \in 1 .. n - 1, NEW q \in 1 .. n - 1, w[p] = w[q]
      PROVE  p = q
  <2> DEFINE at(x) == IF x < i THEN x ELSE x + 1
  <2>1. at(p) \in 1 .. n /\ at(q) \in 1 .. n /\ w[p] = s[at(p)] /\ w[q] = s[at(q)]
    BY <1>1, <1>2, <1>7
  <2>2. at(p) = at(q)
    BY <1>9, <2>1 DEF s, n, Formed
  <2> QED
    BY <1>2, <2>2
<1>10. {w[p] : p \in 1 .. n - 1} = {s[p] : p \in 1 .. n} \ {t}
  <2>1. ASSUME NEW p \in 1 .. n - 1
        PROVE  w[p] \in {s[x] : x \in 1 .. n} \ {t}
    <3> DEFINE at == IF p < i THEN p ELSE p + 1
    <3>1. at \in 1 .. n /\ at # i /\ w[p] = s[at]
      BY <1>1, <1>2, <1>7
    <3> QED
      BY <1>2, <3>1 DEF s, n, Formed
  <2>2. ASSUME NEW p \in 1 .. n, s[p] # t
        PROVE  s[p] \in {w[x] : x \in 1 .. n - 1}
    <3>1. p < i \/ p > i
      BY <1>1, <1>2, <2>2
    <3>2. CASE p < i
      <4>1. p \in 1 .. n - 1 /\ w[p] = s[p]
        BY <1>1, <1>2, <1>7, <3>2
      <4> QED
        BY <4>1
    <3>3. CASE p > i
      <4>1. p - 1 \in 1 .. n - 1 /\ ~(p - 1 < i) /\ p - 1 + 1 = p
        BY <1>1, <1>2, <3>3
      <4>2. w[p - 1] = s[p]
        BY <1>7, <4>1
      <4> QED
        BY <4>1, <4>2
    <3> QED
      BY <3>1, <3>2, <3>3
  <2> QED
    BY <2>1, <2>2
<1>11. Linked(new) = {w[p] : p \in 1 .. n - 1}
  BY <1>7, <1>8 DEF Linked, Range
<1> HIDE DEF new
<1>12. Formed(new) /\ new.size = list.size - 1
  BY <1>1, <1>7, <1>8, <1>9 DEF Formed
<1> QED
  BY <1>1, <1>4, <1>10, <1>11, <1>12 DEF new

-----------------------------------------------------------------------------
(* The runs owed.                                                          *)

Runs(f) == UNION {{t} \X (1 .. f[t]) : t \in Test}

\* A run belongs to a test and is numbered up to what the test is owed.
LEMMA RunsOf ==
  ASSUME NEW f \in [Test -> Nat], NEW r
  PROVE  r \in Runs(f) <=> \E t \in Test : \E i \in 1 .. f[t] : r = <<t, i>>
BY DEF Runs

\* A draw takes one run.
LEMMA OneTaken ==
  ASSUME NEW f \in [Test -> Nat], NEW t \in Test, f[t] > 0, IsFiniteSet(Runs(f))
  PROVE  LET g == [f EXCEPT ![t] = f[t] - 1]
         IN  IsFiniteSet(Runs(g)) /\ Cardinality(Runs(g)) = Cardinality(Runs(f)) - 1
<1> DEFINE g == [f EXCEPT ![t] = f[t] - 1]
<1>1. g \in [Test -> Nat] /\ g[t] = f[t] - 1 /\ \A x \in Test : x # t => g[x] = f[x]
  OBVIOUS
<1> HIDE DEF g
<1>2. <<t, f[t]>> \in Runs(f)
  BY RunsOf
<1>3. ASSUME NEW r
      PROVE  r \in Runs(g) <=> r \in Runs(f) /\ r # <<t, f[t]>>
  <2>1. ASSUME NEW x \in Test, NEW i \in Nat
        PROVE  i \in 1 .. g[x] <=> i \in 1 .. f[x] /\ <<x, i>> # <<t, f[t]>>
    BY <1>1
  <2>2. \A x \in Test : f[x] \in Nat /\ g[x] \in Nat
    BY <1>1
  <2>3. (\E x \in Test : \E i \in 1 .. g[x] : r = <<x, i>>)
          <=> (\E x \in Test : \E i \in 1 .. f[x] : r = <<x, i>>) /\ r # <<t, f[t]>>
    BY <2>1, <2>2
  <2> QED
    BY <1>1, <2>3, RunsOf
<1>4. Runs(g) = Runs(f) \ {<<t, f[t]>>}
  BY <1>3
<1>5. IsFiniteSet(Runs(g)) /\ Cardinality(Runs(g)) = Cardinality(Runs(f)) - 1
  <2> DEFINE all == Runs(f)
             run == <<t, f[t]>>
  <2>1. run \in all /\ IsFiniteSet(all) /\ Runs(g) = all \ {run}
    BY <1>2, <1>4
  <2> HIDE DEF all, run
  <2>2. IsFiniteSet(all \ {run}) /\ Cardinality(all \ {run}) = Cardinality(all) - 1
    BY <2>1, FS_RemoveElement
  <2> QED
    BY <2>1, <2>2 DEF all
<1> QED
  BY <1>5 DEF g

\* A share of n runs adds n.
LEMMA ShareAdded ==
  ASSUME NEW f \in [Test -> Nat], NEW t \in Test, f[t] = 0, NEW n \in Nat, IsFiniteSet(Runs(f))
  PROVE  LET g == [f EXCEPT ![t] = n]
         IN  IsFiniteSet(Runs(g)) /\ Cardinality(Runs(g)) = Cardinality(Runs(f)) + n
<1> DEFINE g == [f EXCEPT ![t] = n]
           new == {t} \X (1 .. n)
<1>1. g \in [Test -> Nat] /\ g[t] = n /\ \A x \in Test : x # t => g[x] = f[x]
  OBVIOUS
<1> HIDE DEF g
<1>2. IsFiniteSet(new) /\ Cardinality(new) = n
  <2>1. IsFiniteSet({t}) /\ Cardinality({t}) = 1
    BY FS_Singleton
  <2>2. IsFiniteSet(1 .. n) /\ Cardinality(1 .. n) = n
    <3>1. 1 \in Int /\ n \in Int
      OBVIOUS
    <3>2. IsFiniteSet(1 .. n) /\ Cardinality(1 .. n) = IF 1 > n THEN 0 ELSE n - 1 + 1
      BY <3>1, FS_Interval
    <3> QED
      BY <3>2
  <2>3. IsFiniteSet(new) /\ Cardinality(new) = 1 * n
    <3> DEFINE one == {t}
               many == 1 .. n
    <3>1. IsFiniteSet(one) /\ IsFiniteSet(many) /\ Cardinality(one) = 1 /\ Cardinality(many) = n
      BY <2>1, <2>2
    <3> HIDE DEF one, many
    <3>2. IsFiniteSet(one \X many) /\ Cardinality(one \X many) = Cardinality(one) * Cardinality(many)
      BY <3>1, FS_Product
    <3> QED
      BY <3>1, <3>2 DEF one, many
  <2> QED
    BY <2>3
<1>3. Runs(g) = Runs(f) \cup new
  <2>1. ASSUME NEW r
        PROVE  r \in Runs(g) <=> r \in Runs(f) \/ r \in new
    <3>1. ASSUME NEW x \in Test, NEW i \in Nat
          PROVE  i \in 1 .. g[x] <=> i \in 1 .. f[x] \/ (x = t /\ i \in 1 .. n)
      BY <1>1
    <3>2. \A x \in Test : f[x] \in Nat /\ g[x] \in Nat
      BY <1>1
    <3>3. (\E x \in Test : \E i \in 1 .. g[x] : r = <<x, i>>)
            <=> (\E x \in Test : \E i \in 1 .. f[x] : r = <<x, i>>) \/ (\E i \in 1 .. n : r = <<t, i>>)
      BY <3>1, <3>2
    <3>4. r \in new <=> \E i \in 1 .. n : r = <<t, i>>
      OBVIOUS
    <3> QED
      BY <1>1, <3>3, <3>4, RunsOf
  <2> QED
    BY <2>1
<1>4. Runs(f) \cap new = {}
  <2> SUFFICES ASSUME NEW r \in Runs(f), r \in new
               PROVE  FALSE
    OBVIOUS
  <2>1. PICK x \in Test : \E i \in 1 .. f[x] : r = <<x, i>>
    BY RunsOf
  <2> QED
    BY <2>1
<1>5. Cardinality(Runs(f)) \in Nat
  BY FS_CardinalityType
<1> QED
  <2>1. Cardinality(Runs(f) \cap new) = 0
    BY <1>4, FS_EmptySet
  <2>2. /\ IsFiniteSet(Runs(f) \cup new)
        /\ Cardinality(Runs(f) \cup new)
             = Cardinality(Runs(f)) + Cardinality(new) - Cardinality(Runs(f) \cap new)
    BY <1>2, FS_Union
  <2>3. Cardinality(Runs(g)) = Cardinality(Runs(f)) + n
    BY <1>2, <1>3, <1>5, <2>1, <2>2
  <2> QED
    BY <1>3, <2>2, <2>3 DEF g

\* Runs that are owed are owed to some test.
LEMMA SomeOwed ==
  ASSUME NEW f \in [Test -> Nat], IsFiniteSet(Runs(f))
  PROVE  /\ Cardinality(Runs(f)) \in Nat
         /\ Cardinality(Runs(f)) = 0 <=> \A t \in Test : f[t] = 0
<1>1. Cardinality(Runs(f)) \in Nat /\ (Cardinality(Runs(f)) = 0 <=> Runs(f) = {})
  BY FS_CardinalityType, FS_EmptySet
<1>2. ASSUME NEW t \in Test, f[t] # 0
      PROVE  Runs(f) # {}
  <2>1. 1 \in 1 .. f[t]
    BY <1>2
  <2>2. <<t, 1>> \in Runs(f)
    BY <2>1, RunsOf
  <2> QED
    BY <2>2
<1>3. ASSUME \A t \in Test : f[t] = 0
      PROVE  Runs(f) = {}
  BY <1>3, RunsOf
<1> QED
  BY <1>1, <1>2, <1>3

-----------------------------------------------------------------------------
(* The invariant.                                                          *)

\* A workfile not yet read, an empty list, nothing owed.
LEMMA InvInit == Init => WInv
<1> SUFFICES ASSUME Init PROVE WInv
  OBVIOUS
<1>1. Weights
  BY WorkListAssumption DEF Init, Weights
<1>2. Lists
  <2>1. wlist = [items |-> <<>>, size |-> 0, tail |-> NULL] /\ <<>> \in Seq(Test) /\ Len(<<>>) = 0
    BY DEF Init, aiml_init
  <2>2. Formed(wlist)
    BY <2>1 DEF Formed
  <2> QED
    BY WorkListAssumption, <2>1, <2>2 DEF Init, Lists, Working
<1>3. Shares
  BY DEF Init, Shares, Working
<1>4. Runs(load) = {}
  BY DEF Init, Runs
<1>5. Sums
  BY <1>4, FS_EmptySet DEF Init, Sums, Owed, OwedRuns, Runs, Running
<1> QED
  BY <1>1, <1>2, <1>3, <1>5 DEF WInv

\* The weights change only while the workfile is read.
LEMMA WeightsStep ==
  ASSUME WInv, [Next]_vars
  PROVE  Weights'
<1>1. CASE UNCHANGED <<lines, hits, totalHits, jobs>> /\ phase # "parse" /\ phase' \in {"allot", "draw", "run", "exit"}
  BY <1>1 DEF WInv, Weights
<1>2. CASE UNCHANGED vars
  BY <1>2 DEF WInv, Weights, vars
<1>3. ASSUME NEW t \in Test, NEW h \in 0 .. MaxHits, ReadLine(t, h)
      PROVE  Weights'
  <2>1. lines \in Nat /\ MaxHits \in Nat /\ MaxLines \in Nat
    BY WorkListAssumption DEF WInv, Weights
  <2>2. (lines + 1) * MaxHits = lines * MaxHits + MaxHits /\ lines * MaxHits \in Nat
    BY <2>1
  <2>3. totalHits + h <= (lines + 1) * MaxHits /\ totalHits + h \in Nat
    BY <2>1, <2>2 DEF WInv, Weights
  <2> QED
    BY <1>3, <2>1, <2>3 DEF WInv, Weights, ReadLine
<1>4. CASE EndOfFile
  BY <1>4 DEF WInv, Weights, EndOfFile
<1>5. CASE AllotItem
  BY <1>1, <1>5 DEF WInv, Weights, AllotItem
<1>6. ASSUME NEW k \in 0 .. wlist.size - 1, Draw(k)
      PROVE  Weights'
  BY <1>1, <1>6 DEF Draw, DropExhausted
<1>7. CASE RunTest
  BY <1>1, <1>7 DEF RunTest
<1> QED
  BY <1>2, <1>3, <1>4, <1>5, <1>6, <1>7 DEF Next

\* An item with no runs left may go: the walk goes on from the head.
LEMMA Dropped ==
  ASSUME WInv, NEW t \in Listed, DropExhausted(t)
  PROVE  /\ Formed(wlist') /\ wlist'.size <= NTests /\ Linked(wlist') = Listed \ {t}
         /\ item' \in Test \cup {NULL} /\ (wlist'.size > 0 => item' \in Linked(wlist'))
<1>1. Formed(wlist) /\ wlist.size <= NTests /\ wlist.size \in Nat /\ NTests \in Nat
  BY FormedFacts, WorkListAssumption DEF WInv, Lists
<1>2. wlist' = aiml_remove(wlist, t) /\ item' = list_head(wlist')
  BY DEF DropExhausted
<1>3. Formed(wlist') /\ wlist'.size = wlist.size - 1 /\ Linked(wlist') = Listed \ {t}
  BY <1>1, <1>2, Removal DEF Listed
<1>4. item' \in Test \cup {NULL} /\ (wlist'.size > 0 => item' \in Linked(wlist'))
  BY <1>2, <1>3, FormedFacts
<1> QED
  BY <1>1, <1>3, <1>4

\* A turn of the allotment: a test more on the list, with its share.
LEMMA AllotStep ==
  ASSUME WInv, AllotItem
  PROVE  Lists' /\ Shares' /\ Sums'
<1> DEFINE n == RoundedLoad(hits[item])
<1>1. /\ phase = "allot" /\ item \in Test /\ NTests \in Nat \ {0}
      /\ jobs \in Nat \ {0} /\ totalHits \in Nat \ {0} /\ hits \in [Test -> Nat]
  BY WorkListAssumption DEF AllotItem, WInv, Lists, Weights
<1>2. \A t \in Test : RoundedLoad(hits[t]) \in Nat /\ RoundedLoad(hits[t])' = RoundedLoad(hits[t])
  <2>1. UNCHANGED <<hits, totalHits, jobs>>
    BY DEF AllotItem
  <2>2. \A t \in Test : hits[t] \in Nat
    BY <1>1
  <2> QED
    BY <1>1, <2>1, <2>2, Rounding DEF RoundedLoad
<1>3. n \in Nat
  BY <1>1, <1>2
<1>4. /\ wlist' = aiml_insert(wlist, item) /\ load' = [load EXCEPT ![item] = n] /\ ppu' = ppu + n
      /\ UNCHANGED <<j, count, hits>>
  BY DEF AllotItem
<1> HIDE DEF n
<1>5. Formed(wlist') /\ wlist'.size = item /\ \A p \in 1 .. item : wlist'.items[p] = p
  <2> DEFINE s == wlist.items
             new == Append(s, item)
  <2>1. /\ s \in Seq(Test) /\ Len(s) = item - 1 /\ \A p \in 1 .. item - 1 : s[p] = p
        /\ wlist.size = item - 1 /\ item \in Nat \ {0}
    BY <1>1, FormedFacts DEF WInv, Lists, Test
  <2> HIDE DEF s
  <2>2. new \in Seq(Test) /\ Len(new) = item /\ \A p \in 1 .. item : new[p] = p
    BY <1>1, <2>1
  <2>3. wlist' = [items |-> new, size |-> item, tail |-> item]
    BY <1>4, <2>1 DEF aiml_insert, s
  <2> HIDE DEF new
  <2> QED
    BY <1>1, <2>1, <2>2, <2>3 DEF Formed
<1>6. load \in [Test -> Nat] /\ load[item] = 0
  <2>1. ~(item < item)
    BY <1>1 DEF Test
  <2> QED
    BY <1>1, <2>1 DEF WInv, Shares
<1>7. load' \in [Test -> Nat] /\ load'[item] = n /\ \A t \in Test : t # item => load'[t] = load[t]
  BY <1>1, <1>3, <1>4, <1>6
<1>8. IsFiniteSet(OwedRuns') /\ Owed' = Owed + n /\ Owed \in Nat
  <2>1. OwedRuns = Runs(load) /\ OwedRuns' = Runs(load') /\ IsFiniteSet(Runs(load))
    BY DEF WInv, Sums, OwedRuns, Runs
  <2>2. IsFiniteSet(Runs(load')) /\ Cardinality(Runs(load')) = Cardinality(Runs(load)) + n
    BY <1>1, <1>3, <1>4, <1>6, <2>1, ShareAdded
  <2> QED
    BY <1>6, <2>1, <2>2, SomeOwed DEF Owed
<1>9. ppu' \in Nat /\ ppu' = Owed' /\ j' = 0
  BY <1>1, <1>3, <1>4, <1>8 DEF WInv, Sums, Running
<1>10. ASSUME NEW t \in Test, t <= item
       PROVE  load'[t] = RoundedLoad(hits[t])'
  <2>1. CASE t = item
    BY <1>1, <1>2, <1>7, <2>1 DEF n
  <2>2. CASE t # item
    <3>1. t < item
      BY <1>1, <1>10, <2>2 DEF Test
    <3> QED
      BY <1>1, <1>2, <1>7, <2>2, <3>1 DEF WInv, Shares
  <2> QED
    BY <2>1, <2>2
<1>11. \A t \in Test : count'[t] = 0
  BY <1>1, <1>4 DEF WInv, Shares
<1>12. CASE item # NTests
  <2>1. item' = item + 1 /\ phase' = "allot" /\ item + 1 \in Test /\ item' \in Test
    BY <1>1, <1>12 DEF AllotItem, Test
  <2>2. Lists'
    BY <1>1, <1>5, <2>1 DEF Lists, Working, Test
  <2>3. Shares'
    <3>1. \A t \in Test : load'[t] = IF t < item + 1 THEN RoundedLoad(hits[t])' ELSE 0
      BY <1>1, <1>7, <1>10 DEF WInv, Shares, Test
    <3> QED
      BY <1>4, <1>7, <1>11, <2>1, <3>1 DEF Shares, Working, WInv
  <2>4. Sums'
    BY <1>8, <1>9, <2>1 DEF Sums, Running
  <2> QED
    BY <2>2, <2>3, <2>4
<1>13. CASE item = NTests
  <2>1. /\ item' = list_head(wlist') /\ phase' = IF ppu' > 0 THEN "draw" ELSE "exit"
        /\ phase' \in {"draw", "exit"}
    BY <1>13 DEF AllotItem
  <2>2. Linked(wlist') = Test /\ DOMAIN wlist'.items = Test
    <3>1. /\ Linked(wlist') = {wlist'.items[p] : p \in 1 .. Len(wlist'.items)}
          /\ DOMAIN wlist'.items = 1 .. Len(wlist'.items) /\ Len(wlist'.items) = item
      BY <1>5, FormedFacts
    <3> QED
      BY <1>5, <1>13, <3>1 DEF Test
  <2>4. item' = 1 /\ item' \in Test
    <3>1. list_head(wlist') = IF wlist'.size = 0 THEN NULL ELSE wlist'.items[1]
      BY <1>5, FormedFacts
    <3>2. wlist'.size # 0 /\ 1 \in 1 .. item /\ 1 \in Test
      BY <1>1, <1>5 DEF Test
    <3> QED
      BY <1>5, <2>1, <3>1, <3>2
  <2>5. Lists'
    BY <1>1, <1>5, <1>13, <2>1, <2>2, <2>4 DEF Lists, Listed, Test
  <2>6. Shares'
    <3>1. \A t \in Test : count'[t] + load'[t] = RoundedLoad(hits[t])' /\ load'[t] \in Nat
      BY <1>1, <1>7, <1>10, <1>11, <1>13 DEF Test
    <3> QED
      BY <1>4, <1>7, <2>1, <3>1 DEF Shares, WInv
  <2>7. Sums'
    BY <1>8, <1>9, <2>1 DEF Sums, Running
  <2> QED
    BY <2>5, <2>6, <2>7
<1> QED
  BY <1>12, <1>13

\* A draw that finds a run takes it; one that finds none shortens the list.
LEMMA DrawStep ==
  ASSUME WInv, NEW k \in 0 .. wlist.size - 1, Draw(k)
  PROVE  Lists' /\ Shares' /\ Sums'
<1> DEFINE t == Walk(wlist, item, k)
<1>1. phase = "draw" /\ wlist.size \in Nat /\ wlist.size > 0 /\ k \in Nat /\ item \in Listed
  BY FormedFacts DEF Draw, WInv, Lists
<1>2. t \in Listed /\ t \in Test
  <2>1. Listed \subseteq Test
    BY FormedFacts DEF WInv, Lists, Listed
  <2> QED
    BY <1>1, <2>1, WalkInList DEF WInv, Lists, Listed
<1>3. /\ IF HasRuns(t) THEN load' = [load EXCEPT ![t] = @ - 1] /\ item' = t /\ phase' = "run" /\ UNCHANGED wlist
                       ELSE DropExhausted(t) /\ UNCHANGED <<load, phase>>
      /\ UNCHANGED <<hits, totalHits, jobs, ppu, j, count>>
  BY DEF Draw
<1> HIDE DEF t
<1>4. \A x \in Test : RoundedLoad(hits[x])' = RoundedLoad(hits[x])
  BY <1>3 DEF RoundedLoad
<1>5. load \in [Test -> Nat] /\ IsFiniteSet(Runs(load)) /\ Runs(load) = OwedRuns
  BY DEF WInv, Shares, Sums, OwedRuns, Runs
<1>6. Working /\ \A x \in Test : count[x] + load[x] = RoundedLoad(hits[x])
  BY <1>1, <1>5 DEF WInv, Shares, Working
<1>7. CASE load[t] > 0
  <2>1. load' = [load EXCEPT ![t] = load[t] - 1] /\ item' = t /\ phase' = "run" /\ UNCHANGED wlist
    BY <1>3, <1>7 DEF HasRuns
  <2>2. load' \in [Test -> Nat] /\ load'[t] = load[t] - 1 /\ \A x \in Test : x # t => load'[x] = load[x]
    BY <1>2, <1>5, <1>7, <2>1
  <2>3. IsFiniteSet(OwedRuns') /\ Owed' = Owed - 1 /\ Owed \in Nat
    BY <1>2, <1>5, <1>7, <2>1, OneTaken, SomeOwed DEF Owed, OwedRuns, Runs
  <2>4. Lists'
    <3>1. \A x \in Test : load'[x] > 0 => load[x] > 0
      BY <1>5, <1>7, <2>2
    <3> QED
      BY <1>2, <1>6, <2>1, <3>1 DEF WInv, Lists, Listed, Working
  <2>5. Shares'
    <3>1. \A x \in Test : count[x] \in Nat /\ load[x] \in Nat
      BY <1>5 DEF WInv, Shares
    <3>2. ASSUME NEW x \in Test
          PROVE  count[x] + load'[x] + (IF x = t THEN 1 ELSE 0) = RoundedLoad(hits[x])
      BY <1>6, <1>7, <2>2, <3>1
    <3> QED
      BY <1>3, <1>4, <2>1, <2>2, <3>2 DEF WInv, Shares
  <2>6. Sums'
    BY <1>1, <1>3, <2>1, <2>3 DEF WInv, Sums, Running
  <2> QED
    BY <2>4, <2>5, <2>6
<1>8. CASE ~(load[t] > 0)
  <2>1. DropExhausted(t) /\ load' = load /\ phase' = "draw"
    BY <1>1, <1>3, <1>8 DEF HasRuns
  <2>2. Lists'
    BY <1>2, <1>6, <1>8, <2>1, Dropped DEF WInv, Lists, Listed, Working
  <2>3. Shares'
    BY <1>1, <1>3, <1>4, <1>5, <1>6, <2>1 DEF WInv, Shares
  <2>4. Sums'
    BY <1>1, <1>3, <2>1 DEF WInv, Sums, Running, Owed, OwedRuns
  <2> QED
    BY <2>2, <2>3, <2>4
<1> QED
  BY <1>7, <1>8

\* A run of a test: counted, its item removed after its last run, and the loop goes on
\* as long as something is owed.
LEMMA RunStep ==
  ASSUME WInv, RunTest
  PROVE  Lists' /\ Shares' /\ Sums'
<1>1. /\ phase = "run" /\ item \in Listed /\ count' = [count EXCEPT ![item] = @ + 1] /\ j' = j + 1
      /\ IF LastRun THEN DropExhausted(item) ELSE UNCHANGED <<wlist, item>>
      /\ phase' = (IF j + 1 < ppu THEN "draw" ELSE "exit") /\ phase' \in {"draw", "exit"}
      /\ UNCHANGED <<hits, totalHits, jobs, load, ppu>>
  BY DEF RunTest, WInv, Lists, MoreRuns
<1>2. item \in Test
  BY <1>1, FormedFacts DEF WInv, Lists, Listed
<1>3. \A x \in Test : RoundedLoad(hits[x])' = RoundedLoad(hits[x])
  BY <1>1 DEF RoundedLoad
<1>4. /\ Working /\ load \in [Test -> Nat] /\ count \in [Test -> Nat]
      /\ \A x \in Test : load[x] > 0 => x \in Listed
  BY <1>1 DEF WInv, Lists, Shares, Working
<1>5. Lists'
  <2>1. CASE load[item] = 0
    <3>1. DropExhausted(item)
      BY <1>1, <2>1 DEF LastRun
    <3>2. \A x \in Test : load'[x] > 0 => x \in Listed \ {item}
      BY <1>1, <1>4, <2>1
    <3> QED
      BY <1>1, <3>1, <3>2, Dropped DEF Lists, Listed
  <2>2. CASE load[item] # 0
    <3>1. UNCHANGED <<wlist, item, load>>
      BY <1>1, <2>2 DEF LastRun
    <3> QED
      BY <1>1, <1>4, <3>1 DEF WInv, Lists, Listed
  <2> QED
    BY <2>1, <2>2
<1>6. Shares'
  <2>1. count' \in [Test -> Nat] /\ \A x \in Test : count'[x] = count[x] + IF x = item THEN 1 ELSE 0
    BY <1>1, <1>2, <1>4
  <2>2. \A x \in Test : count[x] + load[x] + (IF x = item THEN 1 ELSE 0) = RoundedLoad(hits[x])
    BY <1>1, <1>4 DEF WInv, Shares
  <2>3. ASSUME NEW x \in Test
        PROVE  count'[x] + load[x] = RoundedLoad(hits[x]) /\ count'[x] \in Nat /\ load[x] \in Nat
    BY <1>4, <2>1, <2>2
  <2> QED
    BY <1>1, <1>3, <1>4, <2>1, <2>3 DEF Shares
<1>7. Sums'
  <2>1. Owed \in Nat /\ Owed' = Owed /\ OwedRuns' = OwedRuns
    BY <1>1, <1>4, SomeOwed DEF WInv, Sums, Owed, OwedRuns, Runs
  <2>2. ppu = j + Owed + 1 /\ j \in Nat /\ ppu \in Nat
    BY <1>1 DEF WInv, Sums, Running
  <2> QED
    BY <1>1, <2>1, <2>2 DEF WInv, Sums, Running
<1> QED
  BY <1>5, <1>6, <1>7

\* Every step keeps the invariant.
LEMMA InvStep == WInv /\ [Next]_vars => WInv'
<1> SUFFICES ASSUME WInv, [Next]_vars PROVE WInv'
  OBVIOUS
<1>1. Weights'
  BY WeightsStep
<1>2. CASE UNCHANGED vars
  <2>1. UNCHANGED <<phase, hits, totalHits, jobs, wlist, load, ppu, item, j, count>>
    BY <1>2 DEF vars
  <2>2. Lists'
    BY <2>1 DEF WInv, Lists, Listed, Working
  <2>3. Shares'
    BY <2>1 DEF WInv, Shares, Working, RoundedLoad
  <2>4. Sums'
    BY <2>1 DEF WInv, Sums, Running, Owed, OwedRuns
  <2> QED
    BY <1>1, <2>2, <2>3, <2>4 DEF WInv
<1>3. ASSUME NEW t \in Test, NEW h \in 0 .. MaxHits, ReadLine(t, h)
      PROVE  WInv'
  BY <1>1, <1>3 DEF ReadLine, WInv, Lists, Shares, Sums, Working, Running, Owed, OwedRuns
<1>4. CASE EndOfFile
  <2>1. NTests \in Nat \ {0} /\ phase = "parse" /\ phase' = "allot" /\ item' = 1
    BY <1>4, WorkListAssumption DEF EndOfFile
  <2>2. 1 \in Test /\ \A t \in Test : ~(t < 1)
    BY <2>1 DEF Test
  <2>3. UNCHANGED <<wlist, load, ppu, j, count>>
    BY <1>4 DEF EndOfFile
  <2>4. Lists'
    BY <2>1, <2>2, <2>3 DEF WInv, Lists, Working
  <2>5. Shares'
    BY <2>1, <2>2, <2>3 DEF WInv, Shares, Working
  <2>6. Sums'
    BY <2>1, <2>3 DEF WInv, Sums, Running, Owed, OwedRuns
  <2> QED
    BY <1>1, <2>4, <2>5, <2>6 DEF WInv
<1> QED
  BY <1>1, <1>2, <1>3, <1>4, AllotStep, DrawStep, RunStep DEF Next, WInv

\* The invariant holds in every behaviour.
THEOREM WorkListInvariance == Spec => []WInv
BY InvInit, InvStep, PTL DEF Spec

-----------------------------------------------------------------------------
(* The properties.                                                         *)

\* Types and bounds of all variables, for any bounds of workfile and options.
THEOREM WorkListTypeCorrect == Spec => []TypeOK
<1>1. WInv => TypeOK
  <2> SUFFICES ASSUME WInv PROVE TypeOK
    OBVIOUS
  <2>1. MaxLines \in Nat /\ MaxHits \in Nat /\ NTests \in Nat /\ lines \in Nat /\ lines <= MaxLines
    BY WorkListAssumption DEF WInv, Weights
  <2>2. lines * MaxHits <= MaxLines * MaxHits /\ lines * MaxHits \in Nat /\ MaxLines * MaxHits \in Nat
    BY <2>1
  <2>3. totalHits \in 0 .. MaxLines * MaxHits
    BY <2>2 DEF WInv, Weights
  <2>4. Owed \in Nat /\ j \in 0 .. ppu
    BY SomeOwed DEF WInv, Shares, Sums, Owed, OwedRuns, Runs, Running
  <2>5. wlist.items \in Seq(Test) /\ wlist.size \in 0 .. NTests /\ wlist.tail \in Test \cup {NULL}
    BY <2>1, FormedFacts DEF WInv, Lists, Formed
  <2> QED
    BY <2>1, <2>3, <2>4, <2>5 DEF TypeOK, WInv, Weights, Lists, Shares, Sums
<1> QED
  BY <1>1, WorkListInvariance, PTL

\* Every test of the workfile gets its share, rounded by less than one run and never to
\* nothing, whatever the weights and the number of jobs.
THEOREM AllotmentFairHolds == Spec => []AllotmentFair
<1>1. WInv => AllotmentFair
  <2> SUFFICES ASSUME WInv, Working, NEW t \in Test
               PROVE  LET allotted == count[t] + load[t] + (IF phase = "run" /\ t = item THEN 1 ELSE 0)
                      IN  /\ hits[t] > 0 <=> allotted > 0
                          /\ allotted * totalHits < hits[t] * jobs + totalHits
                          /\ hits[t] * jobs < allotted * totalHits + totalHits
    BY DEF AllotmentFair, Working
  <2>1. jobs \in Nat \ {0} /\ totalHits \in Nat \ {0} /\ hits[t] \in Nat
    BY WorkListAssumption DEF WInv, Weights, Working
  <2>2. count[t] + load[t] + (IF phase = "run" /\ t = item THEN 1 ELSE 0) = RoundedLoad(hits[t])
    BY DEF WInv, Shares
  <2>3. LET n == RoundedLoad(hits[t])
        IN  /\ hits[t] > 0 <=> n > 0
            /\ n * totalHits < hits[t] * jobs + totalHits
            /\ hits[t] * jobs < n * totalHits + totalHits
    BY <2>1, Rounding
  <2> QED
    BY <2>2, <2>3, Zenon
<1> QED
  BY <1>1, WorkListInvariance, PTL

\* The list and the loop count run out together: a child that draws has a listed test
\* with a run left, so that the modulus of the draw is never 0.
THEOREM DrawHasWorkHolds == Spec => []DrawHasWork
<1>1. WInv => DrawHasWork
  <2> SUFFICES ASSUME WInv, phase = "draw"
               PROVE  /\ ppu - j = Owed
                      /\ wlist.size = Len(wlist.items)
                      /\ \E p \in 1 .. wlist.size : load[wlist.items[p]] > 0
                      /\ \E p \in 1 .. wlist.size : wlist.items[p] = item
    BY DEF DrawHasWork
  <2>1. Owed \in Nat /\ (Owed = 0 <=> \A t \in Test : load[t] = 0)
    BY SomeOwed DEF WInv, Shares, Sums, Owed, OwedRuns, Runs
  <2>2. ppu - j = Owed /\ Owed > 0
    BY <2>1 DEF WInv, Sums, Running
  <2>3. PICK t \in Test : load[t] > 0
    BY <2>1, <2>2 DEF WInv, Shares
  <2>4. /\ wlist.size = Len(wlist.items) /\ wlist.size \in Nat
        /\ Listed = {wlist.items[p] : p \in 1 .. wlist.size}
    BY FormedFacts DEF WInv, Lists, Listed
  <2>5. PICK p \in 1 .. wlist.size : wlist.items[p] = t
    BY <2>3, <2>4 DEF WInv, Lists, Working
  <2>6. wlist.size > 0 /\ item \in Listed
    BY <2>4, <2>5 DEF WInv, Lists
  <2> QED
    BY <2>2, <2>3, <2>4, <2>5, <2>6
<1> QED
  BY <1>1, WorkListInvariance, PTL

\* A test that is owed runs is on the list exactly once, after any removals, and a child
\* that ends its loop has run every test as often as it was allotted.
THEOREM NoRunLostHolds == Spec => []NoRunLost
<1>1. WInv => OwedListedOnce
  <2> SUFFICES ASSUME WInv, Working, NEW t \in Test, load[t] > 0
               PROVE  Cardinality({p \in DOMAIN wlist.items : wlist.items[p] = t}) = 1
    BY DEF OwedListedOnce, Working
  <2>1. /\ DOMAIN wlist.items = 1 .. Len(wlist.items) /\ t \in Listed
        /\ \A p, q \in 1 .. Len(wlist.items) : wlist.items[p] = wlist.items[q] => p = q
    BY FormedFacts DEF WInv, Lists, Formed
  <2>2. PICK p \in DOMAIN wlist.items : wlist.items[p] = t
    BY <2>1 DEF Listed, Linked, Range
  <2>3. {q \in DOMAIN wlist.items : wlist.items[q] = t} = {p}
    BY <2>1, <2>2
  <2> QED
    BY <2>3, FS_Singleton
<1>2. WInv => LoadCompleted
  <2> SUFFICES ASSUME WInv, phase = "exit" PROVE j = ppu /\ Owed = 0
    BY DEF LoadCompleted
  <2>1. Owed \in Nat
    BY SomeOwed DEF WInv, Shares, Sums, Owed, OwedRuns, Runs
  <2> QED
    BY <2>1 DEF WInv, Sums, Running
<1>3. WInv => NoRunLost
  BY <1>1, <1>2 DEF NoRunLost
<1> QED
  BY <1>3, WorkListInvariance, PTL
-----------------------------------------------------------------------------
(* The draw: every listed item is met by exactly one remainder, so one     *)
(* draw in wlist.size runs a given test that is owed, and draws that run   *)
(* none are bounded by the items there are to remove.                      *)

\* A remainder of a number below twice the divisor.
LEMMA SmallRemainder ==
  ASSUME NEW n \in Nat \ {0}, NEW x \in 0 .. 2 * n - 1
  PROVE  x % n = IF x < n THEN x ELSE x - n
<1>1. x % n \in 0 .. n - 1 /\ x \div n \in Nat /\ x = n * (x \div n) + (x % n)
  <2>1. x \in Nat
    OBVIOUS
  <2> QED
    BY <2>1, Division
<1>2. x \div n < 2
  <2> SUFFICES ASSUME x \div n >= 2 PROVE FALSE
    BY <1>1
  <2>1. n * (x \div n) >= n * 2
    BY <1>1
  <2> QED
    BY <1>1, <2>1
<1>3. CASE x \div n = 0
  BY <1>1, <1>3
<1>4. CASE x \div n = 1
  BY <1>1, <1>4
<1> QED
  BY <1>1, <1>2, <1>3, <1>4

\* From any item of a list the walk meets any other for exactly one number of links
\* below the size of the list.
LEMMA WalkReaches ==
  ASSUME NEW list, Formed(list), NEW t \in Linked(list), NEW u \in Linked(list)
  PROVE  \E k \in 0 .. list.size - 1 :
           /\ Walk(list, t, k) = u
           /\ \A l \in 0 .. list.size - 1 : Walk(list, t, l) = u => l = k
<1> DEFINE s == list.items
           n == Len(s)
           a == Place(list, t) - 1
           b == Place(list, u) - 1
           k == IF a <= b THEN b - a ELSE b - a + n
<1>1. /\ s \in Seq(Test) /\ n \in Nat /\ list.size = n /\ DOMAIN s = 1 .. n
      /\ Linked(list) = {s[p] : p \in 1 .. n}
  BY FormedFacts
<1>2. Place(list, t) \in 1 .. n /\ Place(list, u) \in 1 .. n /\ s[Place(list, u)] = u
  BY <1>1 DEF Place
<1>3. \A l \in Nat : Walk(list, t, l) = s[((a + l) % n) + 1]
  BY DEF Walk
<1>4. \A p, q \in 1 .. n : s[p] = s[q] => p = q
  BY DEF Formed
<1> HIDE DEF s, n
<1>5. a \in 0 .. n - 1 /\ b \in 0 .. n - 1 /\ n \in Nat \ {0} /\ s[b + 1] = u
  BY <1>1, <1>2
<1> HIDE DEF a, b
<1>6. k \in 0 .. n - 1 /\ a + k \in 0 .. 2 * n - 1
  BY <1>5
<1>7. (a + k) % n = b
  BY <1>5, <1>6, SmallRemainder
<1>8. Walk(list, t, k) = u
  BY <1>3, <1>5, <1>6, <1>7
<1>9. ASSUME NEW l \in 0 .. n - 1, Walk(list, t, l) = u
      PROVE  l = k
  <2>1. a + l \in 0 .. 2 * n - 1
    BY <1>5
  <2>2. (a + l) % n = IF a + l < n THEN a + l ELSE a + l - n
    <3> DEFINE x == a + l
    <3>1. x \in 0 .. 2 * n - 1 /\ n \in Nat \ {0}
      BY <1>5, <2>1
    <3> HIDE DEF x
    <3>2. x % n = IF x < n THEN x ELSE x - n
      BY <3>1, SmallRemainder
    <3> QED
      BY <1>5, <2>1, <3>1, <3>2 DEF x
  <2>3. ((a + l) % n) + 1 \in 1 .. n
    BY <1>5, <2>1, <2>2
  <2>4. ((a + l) % n) + 1 = b + 1
    <3>1. b + 1 \in 1 .. n /\ l \in Nat
      BY <1>5
    <3>2. s[((a + l) % n) + 1] = u
      BY <1>3, <1>9, <3>1
    <3> QED
      BY <1>4, <1>5, <2>3, <3>1, <3>2
  <2> QED
    BY <1>5, <2>2, <2>4
<1> QED
  BY <1>1, <1>6, <1>8, <1>9

\* Whenever a child draws, some listed test is owed a run, and each listed test is
\* drawn for exactly one value of aim_rand() % wlist.size.
DrawIsFair ==
  phase = "draw" =>
    /\ \E t \in Listed : HasRuns(t)
    /\ \A t \in Listed : \E k \in 0 .. wlist.size - 1 :
         /\ Walk(wlist, item, k) = t
         /\ \A l \in 0 .. wlist.size - 1 : Walk(wlist, item, l) = t => l = k

\* A draw finds a listed test with runs, and none of them is left out or favoured.
THEOREM DrawIsFairHolds == Spec => []DrawIsFair
<1>1. WInv /\ DrawHasWork => DrawIsFair
  <2> SUFFICES ASSUME WInv, DrawHasWork, phase = "draw" PROVE DrawIsFair
    BY DEF DrawIsFair
  <2>1. PICK p \in 1 .. wlist.size : load[wlist.items[p]] > 0
    BY DEF DrawHasWork
  <2>2. Formed(wlist) /\ wlist.size = Len(wlist.items)
    BY DEF WInv, Lists, Formed
  <2>3. wlist.items[p] \in Listed
    BY <2>1, <2>2, FormedFacts DEF Listed
  <2>4. \E t \in Listed : HasRuns(t)
    BY <2>1, <2>3 DEF HasRuns
  <2>5. item \in Listed
    BY <2>1, <2>2 DEF WInv, Lists
  <2> QED
    BY <2>2, <2>4, <2>5, WalkReaches DEF DrawIsFair, Listed
<1> QED
  BY <1>1, WorkListInvariance, DrawHasWorkHolds, PTL

\* What a child still has to do: draw and run what it is owed, and remove items.
Effort == 2 * (ppu - j) + wlist.size - Running

\* The loop of a child ends: every draw and every run uses up some of an effort that
\* is bounded by its loop count and the number of tests.
THEOREM LoopIsFinite ==
  Spec => /\ [](Working => Effort \in 0 .. 2 * ppu + NTests)
          /\ [][Working => Effort' < Effort]_vars
<1>1. WInv => (Working => Effort \in 0 .. 2 * ppu + NTests)
  <2> SUFFICES ASSUME WInv, Working PROVE Effort \in 0 .. 2 * ppu + NTests
    OBVIOUS
  <2>1. ppu \in Nat /\ j \in Nat /\ Owed \in Nat /\ Running \in {0, 1} /\ ppu = j + Owed + Running
    BY FS_CardinalityType DEF WInv, Sums, Running, Owed
  <2>2. wlist.size \in Nat /\ wlist.size <= NTests
    BY DEF WInv, Lists, Formed
  <2>3. Running = 1 => wlist.size > 0
    BY FormedFacts DEF WInv, Lists, Running, Listed
  <2> QED
    BY <2>1, <2>2, <2>3, WorkListAssumption DEF Effort
<1>2. WInv /\ WInv' /\ Next => (Working => Effort' < Effort)
  <2> SUFFICES ASSUME WInv, WInv', Next, Working PROVE Effort' < Effort
    OBVIOUS
  <2>1. ppu \in Nat /\ j \in Nat /\ wlist.size \in Nat /\ wlist'.size \in Nat
    BY DEF WInv, Lists, Sums, Formed
  <2>2. ASSUME NEW k \in 0 .. wlist.size - 1, Draw(k) PROVE Effort' < Effort
    <3> DEFINE t == Walk(wlist, item, k)
    <3>1. phase = "draw" /\ ppu' = ppu /\ j' = j /\ item \in Listed /\ k \in Nat
      BY <2>2 DEF Draw, WInv, Lists, Formed
    <3>2. t \in Linked(wlist)
      BY <3>1, WalkInList DEF WInv, Lists, Listed
    <3>3. CASE HasRuns(t)
      BY <2>1, <2>2, <3>1, <3>3 DEF Draw, Effort, Running
    <3>4. CASE ~HasRuns(t)
      <4>1. wlist' = aiml_remove(wlist, t) /\ phase' = phase
        BY <2>2, <3>4 DEF Draw, DropExhausted
      <4>2. wlist'.size = wlist.size - 1
        BY <3>2, <4>1, Removal DEF WInv, Lists
      <4> QED
        BY <2>1, <3>1, <4>1, <4>2 DEF Effort, Running
    <3> QED
      BY <3>3, <3>4
  <2>3. CASE RunTest
    <3>1. phase = "run" /\ ppu' = ppu /\ j' = j + 1 /\ phase' # "run" /\ item \in Linked(wlist)
      BY <2>3 DEF RunTest, WInv, Lists, Listed
    <3>2. wlist'.size <= wlist.size
      <4>1. CASE LastRun
        BY <2>1, <2>3, <3>1, <4>1, Removal DEF RunTest, DropExhausted, WInv, Lists
      <4>2. CASE ~LastRun
        BY <2>1, <2>3, <4>2 DEF RunTest
      <4> QED
        BY <4>1, <4>2
    <3> QED
      BY <2>1, <3>1, <3>2 DEF Effort, Running
  <2> QED
    BY <2>2, <2>3 DEF Next, Working, ReadLine, EndOfFile, AllotItem
<1> QED
  BY <1>1, <1>2, InvStep, WorkListInvariance, PTL DEF Spec
=============================================================================
