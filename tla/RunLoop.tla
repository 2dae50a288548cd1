------------------------------- MODULE RunLoop -------------------------------
(***************************************************************************)
(* One load point of the multiuser benchmark: runloop() of driver.c with   *)
(* the signal handlers and the forker() it relies on.  The parent forks    *)
(* RunNum children, waits for one message of each on a pipe (`umbilical'), *)
(* sleeps, fires the gun (SIGUSR1 to the process group), reaps the         *)
(* children and reports.  A child installs its handlers, sends its         *)
(* message, calls pause(), arms an alarm and runs Jobs tests.              *)
(*                                                                         *)
(* A child whose test fails sends SIGTERM to the parent, whose handler     *)
(* kill_all_child_processes() passes it on to the group, reaps everybody   *)
(* and exits.  A handler runs at the instant the signal is sent: a process *)
(* in a system call or on its way into one takes the signal before its     *)
(* next system call returns, and every step below is such a call.          *)
(***************************************************************************)
EXTENDS Naturals, FiniteSets

CONSTANTS
  RunNum,         \* rl->runnum, the number of users of this load point
  Jobs,           \* rl->procs_per_user, the tests one child runs
  Faults,         \* the environment events a run allows, see FaultKind
  SleepSuffices,  \* does sleep(SLEEP) let every child reach pause()?
  DoTools         \* the do_tools flag: monitoring commands are run

FaultKind == {"pipe", "fork", "read", "write", "test", "hang", "kill", "term", "tool"}

ASSUME RunLoopAssumption ==
  /\ RunNum \in Nat \ {0}
  /\ Jobs \in Nat
  /\ Faults \subseteq FaultKind
  /\ SleepSuffices \in BOOLEAN
  /\ DoTools \in BOOLEAN

Child == 1 .. RunNum
Parent == 0

VARIABLES
  pc,           \* where the parent is
  cnt,          \* loop counter of forker(): children below it exist
  msgs,         \* messages in the pipe
  kidsForked,   \* kids_forked: messages read, later children not yet reaped
  numChildren,  \* num_children: children that ended with exit()
  toolsOn,      \* tools_on
  reported,     \* the results of this load point have been written
  files,        \* the shared disk work files exist
  cpc,          \* where each child is
  left,         \* iterations of its loop each child still has to make
  outcome,      \* how each child ended
  deaf          \* processes that ignore SIGTERM

parentVars == <<pc, cnt, kidsForked, numChildren, toolsOn, reported>>
childVars == <<left, outcome>>
vars == <<parentVars, msgs, files, cpc, childVars, deaf>>

ParentPC == {"setup", "pipe", "fork", "read", "sleep", "begin", "wait",
             "report", "returned", "term", "reap", "exited"}
ChildPC == {"absent", "forked", "armed", "sent", "paused", "started",
            "working", "hung", "failing", "quitting", "zombie", "gone"}
Outcome == {"none", "done", "timeout", "failed", "nowrite", "quit", "killed"}

Live(c) == cpc[c] \notin {"absent", "zombie", "gone"}
Unreaped(c) == cpc[c] \notin {"absent", "gone"}

Init ==
  /\ pc = "setup"
  /\ cnt = 1
  /\ msgs = 0
  /\ kidsForked = 0
  /\ numChildren = 0
  /\ toolsOn = FALSE
  /\ reported = FALSE
  /\ files = TRUE
  /\ cpc = [c \in Child |-> "absent"]
  /\ left = [c \in Child |-> Jobs]
  /\ outcome = [c \in Child |-> "none"]
  /\ deaf = {}

-----------------------------------------------------------------------------
(* The parent.                                                             *)

\* system("<tool> <command> ...") and exit(1) when it fails.
ToolFails == DoTools /\ "tool" \in Faults

SetupTools ==
  /\ pc = "setup"
  /\ \/ pc' = "pipe"
     \/ ToolFails /\ pc' = "exited"
  /\ UNCHANGED <<cnt, msgs, kidsForked, numChildren, toolsOn, reported, files,
                 cpc, childVars, deaf>>

\* When pipe() fails runloop() returns 1, a result multiuser() drops.
OpenPipe ==
  /\ pc = "pipe"
  /\ \/ pc' = "fork"
     \/ "pipe" \in Faults /\ pc' = "returned"
  /\ UNCHANGED <<cnt, msgs, kidsForked, numChildren, toolsOn, reported, files,
                 cpc, childVars, deaf>>

\* forker(runnum + 1, 0, ...): one child of the parent per turn of its loop.
MoreToFork_OneMore == cnt <= RunNum + 1
MoreToFork == cnt <= RunNum

Fork ==
  /\ pc = "fork"
  /\ MoreToFork
  /\ cnt' = cnt + 1
  /\ cpc' = [cpc EXCEPT ![cnt] = "forked"]
  /\ UNCHANGED <<pc, msgs, kidsForked, numChildren, toolsOn, reported, files,
                 childVars, deaf>>

\* forker() returns, early when fork() fails: the parent prints that it has
\* fewer children than it wanted and goes on all the same.
ForkerReturns ==
  /\ pc = "fork"
  /\ MoreToFork => "fork" \in Faults
  /\ pc' = "read"
  /\ UNCHANGED <<cnt, msgs, kidsForked, numChildren, toolsOn, reported, files,
                 cpc, childVars, deaf>>

\* One read() of the loop `while (kids_forked < runnum)'.  The parent holds
\* the write end too, so an empty pipe blocks it and never gives end of file.
ReadMessage ==
  /\ pc = "read"
  /\ kidsForked < RunNum
  /\ msgs > 0
  /\ msgs' = msgs - 1
  /\ kidsForked' = kidsForked + 1
  /\ UNCHANGED <<pc, cnt, numChildren, toolsOn, reported, files, cpc,
                 childVars, deaf>>

\* A read() that fails: runloop() returns 1, a result multiuser() drops, and waits for
\* nobody.  The children it has forked go on to their pause(); the gun that may end
\* it is that of a later load point, which is outside this module.
ReadFails ==
  /\ "read" \in Faults
  /\ pc = "read"
  /\ kidsForked < RunNum
  /\ pc' = "returned"
  /\ UNCHANGED <<cnt, msgs, kidsForked, numChildren, toolsOn, reported, files,
                 cpc, childVars, deaf>>

AllMessagesRead_OneShort == kidsForked >= RunNum - 1
AllMessagesRead_OneMore == kidsForked > RunNum
AllMessagesRead == kidsForked = RunNum

ClosePipe ==
  /\ pc = "read"
  /\ AllMessagesRead
  /\ pc' = "sleep"
  /\ UNCHANGED <<cnt, msgs, kidsForked, numChildren, toolsOn, reported, files,
                 cpc, childVars, deaf>>

\* sleep(SLEEP); kill(0, SIGUSR1).  The signal ends a pause(); a child that
\* is not in pause() runs the handler, which does nothing, and keeps on.
Gun ==
  /\ pc = "sleep"
  /\ SleepSuffices => \A c \in Child : cpc[c] # "sent"
  /\ cpc' = [c \in Child |-> IF cpc[c] = "paused" THEN "started" ELSE cpc[c]]
  /\ pc' = "begin"
  /\ UNCHANGED <<cnt, msgs, kidsForked, numChildren, toolsOn, reported, files,
                 childVars, deaf>>

BeginTools ==
  /\ pc = "begin"
  /\ \/ pc' = "wait" /\ toolsOn' = DoTools
     \/ ToolFails /\ pc' = "exited" /\ UNCHANGED toolsOn
  /\ UNCHANGED <<cnt, msgs, kidsForked, numChildren, reported, files, cpc,
                 childVars, deaf>>

\* The end of child c is counted if it called exit(), whatever the status.
Counted_Any(c) == TRUE
Counted(c) == outcome[c] # "killed"

\* kids_forked after child c has been reaped, and where that leads.
KidsAfter_ExitedOnly(c) == IF Counted(c) THEN kidsForked - 1 ELSE kidsForked
KidsAfter(c) == kidsForked - 1

AfterReap_OneShort(c) == IF KidsAfter(c) <= 1 THEN "report" ELSE "wait"
AfterReap(c) == IF KidsAfter(c) = 0 THEN "report" ELSE "wait"

\* The tools are halted once more than an eighth of the children have ended.
HaltDue_Never(n) == n > RunNum
HaltDue(n) == n > RunNum \div 8

\* A turn of the wait loop.  Its other exit, wait() failing with ECHILD, needs a
\* parent that waits for more children than it has: WaitAccounting excludes it.
ReapChild(c) ==
  /\ pc = "wait"
  /\ kidsForked > 0
  /\ cpc[c] = "zombie"
  /\ cpc' = [cpc EXCEPT ![c] = "gone"]
  /\ kidsForked' = KidsAfter(c)
  /\ numChildren' = IF Counted(c) THEN numChildren + 1 ELSE numChildren
  /\ LET halt == toolsOn /\ outcome[c] # "killed" /\ HaltDue(numChildren')
     IN  /\ toolsOn' = (toolsOn /\ ~halt)
         /\ \/ pc' = AfterReap(c)
            \/ halt /\ ToolFails /\ pc' = "exited"
  /\ UNCHANGED <<cnt, msgs, reported, files, childVars, deaf>>

Report ==
  /\ pc = "report"
  /\ reported' = TRUE
  /\ \/ pc' = "returned"
     \/ ToolFails /\ pc' = "exited"
  /\ UNCHANGED <<cnt, msgs, kidsForked, numChildren, toolsOn, files, cpc,
                 childVars, deaf>>

-----------------------------------------------------------------------------
(* SIGTERM in the parent: kill_all_child_processes().                      *)

\* The parent's place after somebody sent it SIGTERM.
AfterTerm_Lost == pc
AfterTerm ==
  IF Parent \in deaf \/ pc \in {"returned", "exited"} THEN pc ELSE "term"

\* signal(SIGTERM, SIG_IGN), unlink the work files, kill(0, SIGTERM).  A child
\* that has not called tst_sig() still has the parent's handler and quits; any
\* other runs child_sighandler(), which ignores further SIGTERMs, cleans up and
\* returns -- out of pause(), if the child was in it.
KillGroup ==
  /\ pc = "term"
  /\ pc' = "reap"
  /\ files' = FALSE
  /\ deaf' = {Parent} \cup {c \in Child : Live(c)}
  /\ cpc' = [c \in Child |-> CASE cpc[c] = "forked" -> "quitting"
                               [] cpc[c] = "paused" -> "started"
                               [] OTHER -> cpc[c]]
  /\ UNCHANGED <<cnt, msgs, kidsForked, numChildren, toolsOn, reported,
                 childVars>>

\* while (wait(0) != -1);
AllReaped_NoWait == TRUE
AllReaped == \A c \in Child : ~Unreaped(c)

ReapAny(c) ==
  /\ pc = "reap"
  /\ cpc[c] = "zombie"
  /\ cpc' = [cpc EXCEPT ![c] = "gone"]
  /\ UNCHANGED <<parentVars, msgs, files, childVars, deaf>>

ExitAfterReap ==
  /\ pc = "reap"
  /\ AllReaped
  /\ pc' = "exited"
  /\ UNCHANGED <<cnt, msgs, kidsForked, numChildren, toolsOn, reported, files,
                 cpc, childVars, deaf>>

-----------------------------------------------------------------------------
(* A child.                                                                *)

Move(c, from, to) ==
  /\ cpc[c] = from
  /\ cpc' = [cpc EXCEPT ![c] = to]

Exit(c, how) ==
  /\ cpc' = [cpc EXCEPT ![c] = "zombie"]
  /\ outcome' = [outcome EXCEPT ![c] = how]

\* close(umbilical[0]), seeds, tst_sig(FORK, child_sighandler, NULL).
InstallHandlers(c) ==
  /\ Move(c, "forked", "armed")
  /\ UNCHANGED <<parentVars, msgs, files, childVars, deaf>>

SendReady(c) ==
  /\ Move(c, "armed", "sent")
  /\ msgs' = msgs + 1
  /\ UNCHANGED <<parentVars, files, childVars, deaf>>

SendFails(c) ==
  /\ "write" \in Faults
  /\ cpc[c] = "armed"
  /\ Exit(c, "nowrite")
  /\ UNCHANGED <<parentVars, msgs, files, left, deaf>>

Pause(c) ==
  /\ Move(c, "sent", "paused")
  /\ UNCHANGED <<parentVars, msgs, files, childVars, deaf>>

\* alarm(runnum * chld_alrm)
ArmAlarm(c) ==
  /\ Move(c, "started", "working")
  /\ UNCHANGED <<parentVars, msgs, files, childVars, deaf>>

RunTest(c) ==
  /\ cpc[c] = "working"
  /\ left[c] > 0
  /\ left' = [left EXCEPT ![c] = @ - 1]
  /\ UNCHANGED <<parentVars, msgs, files, cpc, outcome, deaf>>

\* func_ret < 0: kill(pa_pid, SIGTERM).  A disk test also fails when the work
\* files it opens have been unlinked.
FailTest(c) ==
  /\ Move(c, "working", "failing")
  /\ left[c] > 0
  /\ "test" \in Faults \/ ~files
  /\ pc' = AfterTerm
  /\ UNCHANGED <<cnt, msgs, kidsForked, numChildren, toolsOn, reported, files,
                 childVars, deaf>>

ExitFailed(c) ==
  /\ cpc[c] = "failing"
  /\ Exit(c, "failed")
  /\ UNCHANGED <<parentVars, msgs, files, left, deaf>>

\* A test that does not return.
Hang(c) ==
  /\ "hang" \in Faults
  /\ left[c] > 0
  /\ Move(c, "working", "hung")
  /\ UNCHANGED <<parentVars, msgs, files, childVars, deaf>>

Timeout_Returns(c) == cpc[c] = "hung" /\ UNCHANGED vars

\* SIGALRM: child_sighandler() calls exit(1).
Timeout(c) ==
  /\ cpc[c] = "hung"
  /\ Exit(c, "timeout")
  /\ UNCHANGED <<parentVars, msgs, files, left, deaf>>

Finish(c) ==
  /\ cpc[c] = "working"
  /\ left[c] = 0
  /\ Exit(c, "done")
  /\ UNCHANGED <<parentVars, msgs, files, left, deaf>>

\* The inherited kill_all_child_processes() in a child: its own kill() finds
\* every process of the group deaf, its wait() has no child, it exits 0.
Quit(c) ==
  /\ cpc[c] = "quitting"
  /\ Exit(c, "quit")
  /\ UNCHANGED <<parentVars, msgs, files, left, deaf>>

-----------------------------------------------------------------------------
(* The environment.                                                        *)

\* An operator's kill of the parent.
OperatorTerm ==
  /\ "term" \in Faults
  /\ pc # AfterTerm
  /\ pc' = AfterTerm
  /\ UNCHANGED <<cnt, msgs, kidsForked, numChildren, toolsOn, reported, files,
                 cpc, childVars, deaf>>

\* A child dies of a signal nobody can handle (SIGKILL).
Killed(c) ==
  /\ "kill" \in Faults
  /\ Live(c)
  /\ Exit(c, "killed")
  /\ UNCHANGED <<parentVars, msgs, files, left, deaf>>

-----------------------------------------------------------------------------

ParentStep ==
  \/ SetupTools \/ OpenPipe \/ Fork \/ ForkerReturns \/ ReadMessage \/ ReadFails
  \/ ClosePipe \/ Gun \/ BeginTools \/ Report
  \/ KillGroup \/ ExitAfterReap
  \/ \E c \in Child : ReapChild(c) \/ ReapAny(c)

ChildStep(c) ==
  \/ InstallHandlers(c) \/ SendReady(c) \/ SendFails(c) \/ Pause(c)
  \/ ArmAlarm(c) \/ RunTest(c) \/ FailTest(c) \/ ExitFailed(c) \/ Hang(c)
  \/ Timeout(c) \/ Finish(c) \/ Quit(c)

Environment == OperatorTerm \/ \E c \in Child : Killed(c)

Next == ParentStep \/ (\E c \in Child : ChildStep(c)) \/ Environment

Spec == Init /\ [][Next]_vars

(***************************************************************************)
(* The scheduler runs every process that can run, and alarm() ends a test  *)
(* that hangs: a hung child's only step is Timeout.  Nothing is assumed    *)
(* of the environment.                                                     *)
(***************************************************************************)
Fairness == WF_vars(ParentStep) /\ \A c \in Child : WF_vars(ChildStep(c))

FairSpec == Spec /\ Fairness

-----------------------------------------------------------------------------
(* Properties.                                                             *)

TypeOK ==
  /\ pc \in ParentPC
  /\ cnt \in 1 .. RunNum + 1
  /\ msgs \in 0 .. RunNum
  /\ kidsForked \in 0 .. RunNum
  /\ numChildren \in 0 .. RunNum
  /\ toolsOn \in BOOLEAN
  /\ reported \in BOOLEAN
  /\ files \in BOOLEAN
  /\ cpc \in [Child -> ChildPC]
  /\ left \in [Child -> 0 .. Jobs]
  /\ outcome \in [Child -> Outcome]
  /\ deaf \in SUBSET (Child \cup {Parent})

\* Child c has passed the point where it sends its message.
Ready(c) == cpc[c] \notin {"absent", "forked", "armed", "quitting"}
Started(c) == cpc[c] \in {"started", "working", "hung", "failing"}

\* The umbilical is a barrier: unless the run is being killed, no child starts
\* its load while another has not yet reported ready (driver.c 877-880, 1092).
StartBarrier ==
  (\E c \in Child : Started(c)) /\ Parent \notin deaf
    => \A d \in Child : Ready(d)

\* The wait loop never waits for more children than there are, which would end
\* it by ECHILD, nor for fewer, which would leave some behind: while it runs
\* kids_forked is the number of children not yet reaped (driver.c 1128-1214).
WaitAccounting ==
  pc \in {"begin", "wait", "report"} =>
    /\ kidsForked = Cardinality({c \in Child : Unreaped(c)})
    /\ pc = "wait" => kidsForked > 0

\* A load point in which some test failed is never reported: the SIGTERM of the
\* failing child overtakes its own exit (driver.c 1022-1028, 1831).
FailureNeverReported ==
  reported => \A c \in Child : outcome[c] # "failed"

\* runloop() leaves no child behind when it has reported, nor kill_all_child_processes()
\* when it exits (the one place where the parent ignores SIGTERM).  Two ways out leave
\* children: exit(1) after a failed tool (driver.c 1122), and the return after a failed
\* read() (1097) -- before the gun, and of children that have not begun their load.
NoOrphans ==
  /\ reported \/ (pc = "exited" /\ Parent \in deaf) => \A c \in Child : ~Unreaped(c)
  /\ pc = "returned" /\ (\E c \in Child : Unreaped(c)) =>
       /\ "read" \in Faults
       /\ kidsForked < RunNum
       /\ \A c \in Child : ~Started(c)

\* A load point is reported only when all its children have been reaped,
\* num_children is the number of those that called exit(), and monitoring has been
\* halted if all of them did (driver.c 1179: the only halt, inside the wait loop,
\* 1215-1275).
ReportIsFinal ==
  reported =>
    /\ \A c \in Child : cpc[c] = "gone"
    /\ numChildren = Cardinality({c \in Child : outcome[c] # "killed"})
    /\ numChildren = RunNum => ~toolsOn

\* Who could take a step now, said by the guards of the steps above.  Nothing
\* wakes a child in pause() but a signal.
ParentCanStep ==
  \/ pc \in {"setup", "pipe", "fork", "begin", "report", "term"}
  \/ pc = "read" /\ (msgs > 0 \/ AllMessagesRead)
  \/ pc = "sleep" /\ (SleepSuffices => \A c \in Child : cpc[c] # "sent")
  \/ pc \in {"wait", "reap"} /\ \E c \in Child : cpc[c] = "zombie"
  \/ pc = "reap" /\ AllReaped

ChildCanStep(c) == cpc[c] \notin {"absent", "paused", "zombie", "gone"}

Stuck == ~ParentCanStep /\ \A c \in Child : ~ChildCanStep(c)

\* When nobody can go on, either the load point is over, or the parent reads the
\* pipe and a child was not forked or died without its message (driver.c 1094),
\* or the parent waits for a child whose pause() no signal will end (940).
StuckForAReason ==
  Stuck =>
    \/ pc \in {"returned", "exited"}
    \/ /\ pc = "read"
       /\ \E c \in Child : cpc[c] = "absent" \/ outcome[c] \in {"nowrite", "killed"}
    \/ /\ pc \in {"wait", "reap"}
       /\ \E c \in Child : cpc[c] = "paused"

\* runloop() returns or the program exits.
RunEnds == <>(pc \in {"returned", "exited"})

\* Every child that was forked ends, by itself or through its alarm, unless runloop()
\* has returned from a failed read(): then it waits for a gun (driver.c 940).
ChildEnds ==
  \A c \in Child : cpc[c] # "absent" ~>
    \/ cpc[c] \in {"zombie", "gone"}
    \/ cpc[c] = "paused" /\ pc = "returned" /\ ~reported

\* The phase of LoadPoint the parent is in, and the state of a user whose child
\* is at `place' and, if it has ended, ended in the way `how'.
LoadPhase ==
  CASE reported -> "published"
    [] ~reported /\ pc \in {"begin", "wait", "report"} -> "running"
    [] ~reported /\ pc \in {"term", "reap", "exited", "returned"} -> "aborted"
    [] OTHER -> "assembling"

UserView(place, how) ==
  CASE place \in {"absent", "forked", "armed"} -> "away"
    [] place \in {"sent", "paused"} -> "ready"
    [] place \in {"started", "working", "hung", "failing"} -> "working"
    [] place \in {"zombie", "gone"} /\ how = "done" -> "completed"
    [] OTHER -> "dropped"

\* The load point promised by LoadPoint.
LP == INSTANCE LoadPoint WITH
  User <- Child,
  phase <- LoadPhase,
  user <- [c \in Child |-> UserView(cpc[c], outcome[c])]

\* runloop() implements it when no SIGTERM comes from outside and every child
\* gets from its write() to its pause() during the parent's sleep().
ImplementsLoadPoint == LP!Spec

-----------------------------------------------------------------------------
(* What the comments and documents say and the code does not do.           *)

\* "they will send a message up when they are forked and ready to run"
\* (driver.c 878): once the gun is fired no child waits for it any more.
GunHeard == pc \in {"begin", "wait"} => \A c \in Child : cpc[c] \notin {"sent", "paused"}

\* "Each individual run executes until all of its jobs have completed the set
\* of randomly ordered tests" (README.aim7 45): a reported load is complete.
ReportedLoadComplete == reported => \A c \in Child : outcome[c] = "done"

\* "sends signals to all child process and waits for their death" (driver.c
\* 1828): kill_all_child_processes() gets to its exit(0).
KillAllEnds == pc = "term" ~> pc = "exited"
=============================================================================
