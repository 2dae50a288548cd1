--------------------------------- MODULE Forks ---------------------------------
(***************************************************************************)
(* forker() of libltp: a process makes copies of itself, as its own        *)
(* children (mode 0) or each the child of the one before (mode 1), and     *)
(* every process keeps a table of the pids it knows of.  All processes run *)
(* on at once.                                                             *)
(***************************************************************************)
EXTENDS Integers, Sequences, FiniteSets, Functions

CONSTANTS
  Copies,    \* numbers of copies asked for
  MaxPids    \* FORKER_MAX_PIDS
ASSUME ForksAssumption ==
  /\ Copies \subseteq Nat \ {0}
  /\ MaxPids \in Nat \ {0}

VARIABLES
  mode, ncopies,   \* the arguments
  process,         \* process[pid]: its memory: cnt, Forker_npids, Forker_pids, and
                   \* what forker() has returned, Running before that
  parent,          \* parent[pid]; pids are numbers in the order of the forks, from 1
  refused          \* history: a fork has failed
forkVars == <<mode, ncopies, process, parent, refused>>

Running == -1
Pids == DOMAIN process
Slots == 1 .. MaxPids   \* the table; an entry counts from 1 here

\* Forker_pids is set to 0 at its first entry.
ForkInit ==
  /\ mode \in {0, 1} /\ ncopies \in Copies
  /\ process = << [cnt |-> 1, npids |-> 0, pids |-> [i \in Slots |-> 0], ret |-> Running] >>
  /\ parent = <<0>> /\ refused = FALSE

\* The last entry is left alone, and with it the pid of one fork, and of all later ones.
Entered(s, pid) ==
  [s EXCEPT !.npids = @ + 1,
            !.pids = IF s.npids + 1 < MaxPids THEN [@ EXCEPT ![s.npids + 1] = pid] ELSE @]
Returned(s, ret) == [s EXCEPT !.ret = ret]
NextTurn(s) == [s EXCEPT !.cnt = @ + 1]

Forks(p) == process[p].ret = Running /\ process[p].cnt < ncopies

\* A fork: parent and child go on from the same memory.
ParentForks(p, known, child) ==
  IF mode = 1 THEN [p |-> Returned(known, known.cnt - 1), child |-> NextTurn(known)]
              ELSE [p |-> NextTurn(known), child |-> Returned(known, known.cnt)]
fork_BothStop(p) ==
  /\ Forks(p)
  /\ LET new   == Len(process) + 1
         known == Entered(process[p], new)
     IN  /\ process' = Append([process EXCEPT ![p] = Returned(known, known.cnt - 1)],
                              Returned(known, known.cnt))
         /\ parent' = Append(parent, p)
  /\ UNCHANGED <<mode, ncopies, refused>>
fork(p) ==
  /\ Forks(p)
  /\ LET new   == Len(process) + 1
         after == ParentForks(p, Entered(process[p], new), new)
     IN  /\ process' = Append([process EXCEPT ![p] = after.p], after.child)
         /\ parent' = Append(parent, p)
  /\ UNCHANGED <<mode, ncopies, refused>>

\* A fork that fails ends the forking.  Nothing is put behind the entries of the table.
fork_Fails(p) ==
  /\ Forks(p)
  /\ process' = [process EXCEPT ![p] = Returned(@, IF mode = 1 THEN 0 ELSE @.cnt - 1)]
  /\ refused' = TRUE
  /\ UNCHANGED <<mode, ncopies, parent>>

\* All copies are made: the table is ended by a 0.
forker_Returns(p) ==
  /\ process[p].ret = Running /\ process[p].cnt >= ncopies
  /\ process' = [process EXCEPT ![p] =
       LET s == Returned(@, @.cnt - 1)
       IN  IF s.npids < MaxPids THEN [s EXCEPT !.pids = [@ EXCEPT ![s.npids + 1] = 0]] ELSE s]
  /\ UNCHANGED <<mode, ncopies, parent, refused>>

ForkNext == \E p \in Pids : fork(p) \/ fork_Fails(p) \/ forker_Returns(p)
ForkSpec == ForkInit /\ [][ForkNext]_forkVars

-----------------------------------------------------------------------------
(* Properties.                                                             *)

Children(p) == {q \in Pids : parent[q] = p}
Stopped == \A p \in Pids : process[p].ret # Running

\* The entries of a table before the first 0.
Listed(p) ==
  {process[p].pids[i] : i \in {j \in Slots : \A k \in 1 .. j : process[p].pids[k] # 0}}
Older(p) == 2 .. p

\* When forker() has returned everywhere, there are as many processes as were asked for
\* if no fork failed; a process of mode 0 that made them has all of them in its table
\* and a copy those made before it and itself; in mode 1 a process has those above it,
\* itself and its child; and the values returned tell the processes of mode 1 apart.
\* A table of MaxPids entries holds MaxPids - 1 pids.
ForksKnown ==
  Stopped =>
    /\ \A p \in Pids :
         Listed(p) = {q \in Older(p) \cup Children(p) : q <= MaxPids}
    /\ mode = 0 => Children(1) = Pids \ {1}
    /\ ~refused => Len(process) = ncopies
    /\ mode = 1 /\ ~refused => IsInjective([p \in Pids |-> process[p].ret])
=============================================================================
