----------------------------- MODULE SingleUser -----------------------------
(***************************************************************************)
(* The single user benchmark (singleuser(), driver.c): each test of the    *)
(* workfile is repeated until an alarm clears a flag, or skipped when it   *)
(* fails once.  It shares main()'s repeats, the work files and the end of  *)
(* the program with MultiUser, which this module extends.                  *)
(***************************************************************************)
EXTENDS MultiUser, Sequences

CONSTANTS
  NTests,   \* tests on global_list
  Hit,      \* those with hits > 0 in the workfile
  Disks     \* those registered with the argument "DISKS"

ASSUME SingleUserAssumption ==
  /\ NTests \in Nat \ {0}
  /\ Hit \subseteq 1 .. NTests
  /\ Disks \subseteq 1 .. NTests

VARIABLES
  spc,      \* "idle", "item", "armed", "loop": the place in singleuser()
  item,     \* number of the test on the list
  placed,   \* tests whose "DISKS" has been replaced by a directory
  flag,     \* cleared by alarm_handler()
  alarm,    \* the test whose alarm is pending: a pair of repeat and test, or NoAlarm
  cutBy,    \* the test whose alarm has cleared the flag, or NoAlarm
  count,    \* repetitions, counted up to 1
  single,   \* lines of singleuser.ss: repeat, test, count
  kept,     \* singleuser.<n>.ss
  failed    \* history: tests that failed

singleVars == <<spc, item, placed, flag, alarm, cutBy, count, single, kept, failed>>
allVars == <<vars, singleVars>>

NoAlarm == <<0, 0>>
Here == <<run_num, item>>

SingleInit ==
  /\ Init
  /\ spc = "idle"
  /\ item = 0
  /\ placed = {}
  /\ flag = 0
  /\ alarm = NoAlarm
  /\ cutBy = NoAlarm
  /\ count = 0
  /\ single = {}
  /\ kept = [r \in 1 .. invars.repeat |-> {}]
  /\ failed = {}

\* singleuser.ss is opened with "w", fakeh is unpacked.
StartSingleUser ==
  /\ pc = "main" /\ repeat > 0 /\ invars.mode = "single" /\ spc = "idle"
  /\ single' = {}
  /\ fakeh' = Dirs
  /\ spc' = "item"
  /\ item' = 1
  /\ UNCHANGED <<pc, how, invars, repeat, run_num, rampVars, work, fn1arr, fileVars,
                 placed, flag, alarm, cutBy, count, kept, failed>>

\* On to the next item of the list, or out of the loop.
NextItem == IF item < NTests THEN spc' = "item" /\ item' = item + 1
                             ELSE spc' = "close" /\ UNCHANGED item

SkipItem ==
  /\ spc = "item" /\ pc = "main"
  /\ item \notin Hit
  /\ NextItem
  /\ UNCHANGED <<vars, placed, flag, alarm, cutBy, count, single, kept, failed>>

\* The first time a test asks for "DISKS" the work files are made; the result of that
\* is not looked at, and the next repeat does not try again.
SetFlag ==
  /\ spc = "item" /\ pc = "main"
  /\ item \in Hit
  /\ IF item \in Disks \ placed
       THEN /\ placed' = placed \cup {item}
            /\ \/ CreateAllFiles(invars.filesize)
               \/ \E d \in Dirs : /\ fn1arr' = fn1arr \cup 1 .. d - 1
                                  /\ work' = [x \in Dirs |-> IF x < d THEN invars.filesize
                                                             ELSE IF x = d THEN 0 ELSE work[x]]
       ELSE UNCHANGED <<placed, work, fn1arr>>
  /\ flag' = 1
  /\ cutBy' = NoAlarm
  /\ spc' = "armed"
  /\ UNCHANGED <<pc, how, invars, repeat, run_num, rampVars, fakeh, fileVars,
                 item, alarm, count, single, kept, failed>>

\* alarm() takes the place of an alarm that is still pending.
PendingAfterAlarm_Kept == IF alarm = NoAlarm THEN Here ELSE alarm
PendingAfterAlarm == Here

SetAlarm ==
  /\ spc = "armed" /\ pc = "main"
  /\ alarm' = PendingAfterAlarm
  /\ count' = 0
  /\ spc' = "loop"
  /\ UNCHANGED <<vars, item, placed, flag, cutBy, single, kept, failed>>

\* The timer runs out at any time after it was set: also after its test has failed.
AlarmFires ==
  /\ pc = "main"
  /\ alarm # NoAlarm
  /\ alarm' = NoAlarm
  /\ flag' = 0
  /\ cutBy' = IF flag = 1 THEN alarm ELSE cutBy
  /\ UNCHANGED <<vars, spc, item, placed, count, single, kept, failed>>

RunOnce ==
  /\ spc = "loop" /\ pc = "main"
  /\ flag = 1
  /\ count' = 1
  /\ UNCHANGED <<vars, spc, item, placed, flag, alarm, cutBy, single, kept, failed>>

\* trouble = 1: no line, and the alarm stays pending.
TestFails ==
  /\ spc = "loop" /\ pc = "main"
  /\ flag = 1
  /\ failed' = failed \cup {Here}
  /\ NextItem
  /\ UNCHANGED <<vars, placed, flag, alarm, cutBy, count, single, kept>>

\* The loop ends with flag = 0.
LoopDone == flag = 0
ReportTest ==
  /\ spc = "loop" /\ pc = "main"
  /\ LoopDone
  /\ single' = single \cup {<<run_num, item, count>>}
  /\ NextItem
  /\ UNCHANGED <<vars, placed, flag, alarm, cutBy, count, kept, failed>>

\* singleuser() returns, and main() renames its report unless this is the last repeat.
MovesReport(left) == left > 1
EndSingleUser ==
  /\ spc = "close" /\ pc = "main"
  /\ spc' = "idle"
  /\ IF MovesReport(repeat)
       THEN single' = {} /\ kept' = [kept EXCEPT ![run_num] = single]
       ELSE UNCHANGED <<single, kept>>
  /\ repeat' = repeat - 1
  /\ run_num' = run_num + 1
  /\ UNCHANGED <<pc, how, invars, rampVars, diskVars, fileVars,
                 item, placed, flag, alarm, cutBy, count, failed>>

SingleStep ==
  \/ StartSingleUser \/ SkipItem \/ SetFlag \/ SetAlarm
  \/ RunOnce \/ TestFails \/ ReportTest \/ EndSingleUser

DriverNext ==
  \/ Next /\ UNCHANGED singleVars
  \/ SingleStep
  \/ AlarmFires

DriverSpec == SingleInit /\ [][DriverNext]_allVars

\* The program runs on, its tests return, and a timer that is set runs out.
DriverFairSpec ==
  DriverSpec /\ WF_allVars((Next /\ UNCHANGED singleVars) \/ SingleStep) /\ WF_allVars(AlarmFires)

-----------------------------------------------------------------------------
(* Properties.                                                             *)

SingleTypeOK ==
  /\ spc \in {"idle", "item", "armed", "loop", "close"}
  /\ item \in 0 .. NTests
  /\ placed \subseteq Disks
  /\ flag \in {0, 1}
  /\ {alarm, cutBy} \subseteq Nat \X (0 .. NTests)
  /\ count \in {0, 1}
  /\ single \subseteq (1 .. invars.repeat) \X (1 .. NTests) \X {0, 1}
  /\ DOMAIN kept = 1 .. invars.repeat
  /\ failed \subseteq (1 .. invars.repeat) \X (1 .. NTests)

DriverTypeOK == TypeOK /\ SingleTypeOK

\* A test that is timed by another alarm than its own (and so may be reported with a
\* count of 0) is timed by that of the test directly before it, since alarm() replaces
\* the older one, and only after some test has failed and left its alarm behind
\* (singleuser() 1751-1768).
Before(a, b) == a[1] < b[1] \/ (a[1] = b[1] /\ a[2] < b[2])
CutShortAfterFailureOnly ==
  spc = "loop" /\ cutBy \notin {NoAlarm, Here} =>
    /\ \E f \in failed : Before(f, Here)
    /\ \A t \in Hit, r \in 1 .. run_num :
         ~(Before(cutBy, <<r, t>>) /\ Before(<<r, t>>, Here))

\* When a repeat is over, each test of the workfile has either one line in the report
\* of that repeat or has failed in it, also after the report has been renamed.
SingleReport(r) == IF r < run_num /\ r < invars.repeat THEN kept[r] ELSE single
EveryTestAnswered ==
  spc = "idle" /\ invars.mode = "single" =>
    \A r \in 1 .. run_num - 1 : \A t \in Hit :
      Cardinality({l \in SingleReport(r) : l[1] = r /\ l[2] = t})
        = (IF <<r, t>> \in failed THEN 0 ELSE 1)

\* No benchmark loses what it has measured: in multiuser mode each line is in the file of
\* its repeat, in single user mode each test has its line there or has failed.
ReportsComplete == NoReportLost /\ EveryTestAnswered
=============================================================================
