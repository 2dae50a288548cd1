------------------------------ MODULE WorkList ------------------------------
(***************************************************************************)
(* From the workfile to the tests one child runs: the weights (`hits') of  *)
(* the workfile are turned into a load for each test (runloop(), driver.c  *)
(* 837-876) on a linked list (aiml_insert(), aiml_remove()), and the child *)
(* draws tests from that list at random until its loop count is used up    *)
(* (driver.c 957-1046).  A test is identified with its list item; tests    *)
(* are numbered in the order of register_test().                           *)
(***************************************************************************)
EXTENDS Naturals, Sequences, FiniteSets, SequencesExt

CONSTANTS
  NTests,     \* number of registered tests, the size of global_list
  MaxLines,   \* bound: lines of the workfile
  MaxHits,    \* bound: weight on one line
  MaxJobs     \* bound: value of -j (invars->jobs)

ASSUME WorkListAssumption ==
  /\ NTests \in Nat \ {0}
  /\ MaxLines \in Nat \ {0}
  /\ MaxHits \in Nat \ {0}
  /\ MaxJobs \in Nat \ {0}

Test == 1 .. NTests
NULL == 0

VARIABLES
  phase,       \* "parse", "allot", "draw", "run" or "exit"
  lines,       \* workfile lines read
  hits,        \* item->hits on global_list
  totalHits,   \* total_hits
  jobs,        \* rl->procs_per_user as set by multiuser()
  wlist,       \* the child's list: its items in link order, size and tail
  load,        \* item->hits on wlist: runs still owed to a test
  ppu,         \* tmp_total, then rl->procs_per_user
  item,        \* the item pointer of the walk
  j,           \* counter of the child's loop
  count        \* item->count: completed runs of a test

vars == <<phase, lines, hits, totalHits, jobs, wlist, load, ppu, item, j, count>>

-----------------------------------------------------------------------------
(* The linked list.                                                        *)

aiml_init == [items |-> <<>>, size |-> 0, tail |-> NULL]

aiml_insert(list, t) ==
  [items |-> Append(list.items, t), size |-> list.size + 1, tail |-> t]

Linked(list) == Range(list.items)
Place(list, t) == CHOOSE p \in DOMAIN list.items : list.items[p] = t

\* Removing the last item leaves `tail' on the freed item; an item that is not on
\* the list is not removed.
aiml_remove_KeepsSize(list, t) ==
  IF t \in Linked(list)
    THEN [list EXCEPT !.items = RemoveAt(@, Place(list, t))]
    ELSE list
aiml_remove(list, t) ==
  IF t \in Linked(list)
    THEN [list EXCEPT !.items = RemoveAt(@, Place(list, t)), !.size = @ - 1]
    ELSE list

list_head(list) == IF list.items = <<>> THEN NULL ELSE Head(list.items)

\* The item k links further, going round at the end of the list.
Walk(list, from, k) ==
  list.items[((Place(list, from) - 1 + k) % Len(list.items)) + 1]

-----------------------------------------------------------------------------

Init ==
  /\ phase = "parse"
  /\ lines = 0
  /\ hits = [t \in Test |-> 0]
  /\ totalHits = 0
  /\ jobs \in 1 .. MaxJobs
  /\ wlist = aiml_init
  /\ load = [t \in Test |-> 0]
  /\ ppu = 0
  /\ item = NULL
  /\ j = 0
  /\ count = [t \in Test |-> 0]

\* One "<hits> <test>" line: check_name() overwrites the hits of a test that is
\* listed twice, total_hits adds both.
ReadLine(t, h) ==
  /\ phase = "parse"
  /\ lines < MaxLines
  /\ lines' = lines + 1
  /\ hits' = [hits EXCEPT ![t] = h]
  /\ totalHits' = totalHits + h
  /\ UNCHANGED <<phase, jobs, wlist, load, ppu, item, j, count>>

\* Not modelled: a workfile of total weight 0, whose shares are 0.0/0.
EndOfFile ==
  /\ phase = "parse"
  /\ totalHits > 0
  /\ phase' = "allot"
  /\ item' = 1
  /\ UNCHANGED <<lines, hits, totalHits, jobs, wlist, load, ppu, j, count>>

\* hits/total_hits * procs_per_user, rounded half up, but a share below one
\* half that is not zero counts as one.
RoundedLoad_HalfUpOnly(h) ==
  (h * jobs) \div totalHits
    + (IF 2 * ((h * jobs) % totalHits) >= totalHits THEN 1 ELSE 0)
RoundedLoad(h) ==
  LET whole == (h * jobs) \div totalHits
      part == (h * jobs) % totalHits
  IN  IF 2 * part >= totalHits THEN whole + 1
      ELSE IF part # 0 /\ whole = 0 THEN 1
      ELSE whole

\* One turn of the walk over global_list; after the last the child starts, at
\* the head of its list.
AllotItem ==
  /\ phase = "allot"
  /\ wlist' = aiml_insert(wlist, item)
  /\ load' = [load EXCEPT ![item] = RoundedLoad(hits[item])]
  /\ ppu' = ppu + RoundedLoad(hits[item])
  /\ IF item = NTests
       THEN /\ item' = list_head(wlist')
            /\ phase' = IF ppu' > 0 THEN "draw" ELSE "exit"
       ELSE item' = item + 1 /\ UNCHANGED phase
  /\ UNCHANGED <<lines, hits, totalHits, jobs, j, count>>

\* k = aim_rand() % wlist.size: the walk goes on from where it stands.  An item
\* with no hits left is removed and the draw repeated from the head.
DropExhausted(t) ==
  /\ wlist' = aiml_remove(wlist, t)
  /\ item' = list_head(wlist')

HasRuns_AtZero(t) == load[t] >= 0
HasRuns(t) == load[t] > 0

Draw(k) ==
  /\ phase = "draw"
  /\ LET t == Walk(wlist, item, k)
     IN  IF HasRuns(t)
           THEN /\ load' = [load EXCEPT ![t] = @ - 1]
                /\ item' = t
                /\ phase' = "run"
                /\ UNCHANGED wlist
           ELSE /\ DropExhausted(t)
                /\ UNCHANGED <<load, phase>>
  /\ UNCHANGED <<lines, hits, totalHits, jobs, ppu, j, count>>

\* The test returns: its item is counted, removed if it was its last run, and
\* the loop goes on or ends.
LastRun_Early == load[item] <= 1
LastRun == load[item] = 0

MoreRuns_OneMore == j < ppu
MoreRuns == j + 1 < ppu

RunTest ==
  /\ phase = "run"
  /\ count' = [count EXCEPT ![item] = @ + 1]
  /\ IF LastRun
       THEN DropExhausted(item)
       ELSE UNCHANGED <<wlist, item>>
  /\ j' = j + 1
  /\ phase' = IF MoreRuns THEN "draw" ELSE "exit"
  /\ UNCHANGED <<lines, hits, totalHits, jobs, load, ppu>>

Next ==
  \/ \E t \in Test, h \in 0 .. MaxHits : ReadLine(t, h)
  \/ EndOfFile
  \/ AllotItem
  \/ \E k \in 0 .. wlist.size - 1 : Draw(k)
  \/ RunTest

Spec == Init /\ [][Next]_vars

\* The child runs; whichever numbers aim_rand() gives.
Fairness == WF_vars(AllotItem \/ RunTest \/ \E k \in 0 .. wlist.size - 1 : Draw(k))

FairSpec == Spec /\ Fairness

-----------------------------------------------------------------------------
(* Properties.                                                             *)

\* The runs still owed to the tests, numbered test by test.
OwedRuns == UNION {{t} \X (1 .. load[t]) : t \in Test}
Owed == Cardinality(OwedRuns)

TypeOK ==
  /\ phase \in {"parse", "allot", "draw", "run", "exit"}
  /\ lines \in 0 .. MaxLines
  /\ hits \in [Test -> 0 .. MaxHits]
  /\ totalHits \in 0 .. MaxLines * MaxHits
  /\ jobs \in 1 .. MaxJobs
  /\ wlist.items \in Seq(Test)
  /\ wlist.size \in 0 .. NTests
  /\ wlist.tail \in Test \cup {NULL}
  /\ load \in [Test -> Nat]
  /\ ppu \in Nat
  /\ item \in Test \cup {NULL}
  /\ j \in 0 .. ppu
  /\ count \in [Test -> Nat]

\* Every test of the workfile is run at least once and no other test is; a load
\* is off its exact share by less than one run (comment driver.c 844; README,
\* option --jobs).
AllotmentFair ==
  phase \in {"draw", "run", "exit"} =>
    \A t \in Test :
      LET allotted == count[t] + load[t] + (IF phase = "run" /\ t = item THEN 1 ELSE 0)
      IN  /\ hits[t] > 0 <=> allotted > 0
          /\ allotted * totalHits < hits[t] * jobs + totalHits
          /\ hits[t] * jobs < allotted * totalHits + totalHits

\* The loop count and the list run out together: as long as the child draws,
\* some listed test has a run left, so the modulus wlist.size is never 0 and
\* the draw cannot remove the last item.
DrawHasWork ==
  phase = "draw" =>
    /\ ppu - j = Owed
    /\ wlist.size = Len(wlist.items)
    /\ \E p \in 1 .. wlist.size : load[wlist.items[p]] > 0
    /\ \E p \in 1 .. wlist.size : wlist.items[p] = item

\* A test that is still owed runs is on the list, once: aiml_remove() finds
\* every item it is asked for and no run is lost with a freed item.
OwedListedOnce ==
  phase \in {"draw", "run", "exit"} =>
    \A t \in Test : load[t] > 0 =>
      Cardinality({p \in DOMAIN wlist.items : wlist.items[p] = t}) = 1

\* A child that ends its loop has run every test as often as it was allotted,
\* in whatever order the random numbers chose.
LoadCompleted == phase = "exit" => j = ppu /\ Owed = 0

\* No run is lost, neither on the way nor at the end (runloop() 961-1061).
NoRunLost == OwedListedOnce /\ LoadCompleted

\* The draw always comes to an end: each one runs a test or shortens the list.
LoopEnds == phase = "draw" ~> phase = "exit"
=============================================================================
