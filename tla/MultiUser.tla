----------------------------- MODULE MultiUser ------------------------------
(***************************************************************************)
(* The multiuser benchmark around its load points: the repeats of main(),  *)
(* the ramp of multiuser() with its stop rules and adaptive increment      *)
(* (driver.c, drv_funcs.c), the work files of each disk directory          *)
(* (disk_funcs.c) and the result files that a repeat writes and renames.   *)
(* A load point, RunLoop in detail, is here one step with the outcomes     *)
(* that LoadPoint leaves it.                                               *)
(***************************************************************************)
EXTENDS Integers, FiniteSets

CONSTANTS
  Inputs,   \* the settings main() may come to, see Options
  Times,    \* seconds a load point may take
  MaxUnreported  \* bound: load points that end without a report

\* struct input_params and the options main() keeps for itself.
Setting ==
  [accepted : BOOLEAN, mode : {"multi", "single"}, timeron : BOOLEAN,
   crossover : BOOLEAN, maxjobs : BOOLEAN, brief : BOOLEAN,
   repeat : Nat, threshold : Nat, jobs : Nat, numdirs : Nat, filesize : Nat, poolsize : Nat,
   minusers : Nat \ {0}, maxusers : Nat, incr : Nat \ {0}]

\* Nothing in the code demands that minusers and incr are not 0: see the hazards of
\* the ramp.
ASSUME MultiUserAssumption ==
  /\ Times \subseteq Nat \ {0}
  /\ MaxUnreported \in Nat
  /\ Inputs \subseteq Setting
  /\ \A s \in Inputs : s.minusers <= s.maxusers

ReportFile == {"multiuser.ss", "csv", "stp_mdata", "stp_hdata", "maxjobs"}
Absent == -1

VARIABLES
  pc,         \* "main", "pool", "runloop", "rules", "end" or "exited"
  how,        \* how the program ended: "", "complete", "killed", "tool"
  invars,     \* the settings; incr is written by the ramp
  repeat,     \* repeats left
  run_num,    \* number of the present repeat
  runnum,     \* rl_vars->runnum
  tpm,        \* rl_vars->tpm and tpm_per_user, jobs per minute
  timers,     \* rl_vars->a_tn and a_tn1
  mjobs,      \* the last five rates
  adapt_cnt,  \* counted up to 9: only cnt > 8 matters
  work,       \* blocks of TMPFILE1 in each directory, or Absent
  fn1arr,     \* directories whose work file has its name stored
  fakeh,      \* directories with an unpacked fakeh
  file,       \* the lines of each report file: pairs of a repeat and its users
  saved,      \* the files renamed after each repeat
  reported,   \* history: the lines any load point has written
  unreported  \* history: load points without a report

rampVars == <<runnum, tpm, timers, mjobs, adapt_cnt>>
diskVars == <<work, fn1arr, fakeh>>
fileVars == <<file, saved, reported, unreported>>
vars == <<pc, how, invars, repeat, run_num, rampVars, diskVars, fileVars>>

Dirs == 1 .. invars.numdirs

-----------------------------------------------------------------------------
(* Work files.                                                             *)

\* disk_unlink_all_test_files(): by the stored names.
UnlinkedBy_FirstOnly(stored, w) == [d \in DOMAIN w |-> IF d = 1 /\ d \in stored THEN Absent ELSE w[d]]
UnlinkedBy(stored, w) == [d \in DOMAIN w |-> IF d \in stored THEN Absent ELSE w[d]]

\* disk_create_all_files() with n blocks per file, when all goes well.  (Without
\* directories it returns 1, which its callers do not take for a failure.)
CreateAllFiles(n) ==
  /\ work' = [d \in Dirs |-> n]
  /\ fn1arr' = Dirs

BlocksPerFile_Pool(users) == invars.filesize + invars.poolsize
BlocksPerFile(users) == invars.filesize + (invars.poolsize \div users)

-----------------------------------------------------------------------------
(* The rules of the ramp.  A load point of t seconds has run jobs * runnum  *)
(* jobs; rates are whole numbers here.                                      *)

JobsPerMinute(t) ==
  [all |-> (60 * invars.jobs * runnum) \div t, user |-> (60 * invars.jobs) \div t]

CrossoverReached == invars.crossover /\ tpm.user <= invars.threshold

Sum5(m) == m[1] + m[2] + m[3] + m[4] + m[5]
SumSq5(m) == m[1]*m[1] + m[2]*m[2] + m[3]*m[3] + m[4]*m[4] + m[5]*m[5]

\* More than one percent below the average of five, after a lower rate than before.
JobRateDrops(m) ==
  m[5] > 0 /\ m[1] < m[2] /\ 100 * (Sum5(m) - 5 * m[1]) > Sum5(m)
\* The standard deviation is below one percent of the average.
JobRateSteady(m) ==
  5 * SumSq5(m) - Sum5(m) * Sum5(m) <= (Sum5(m) * Sum5(m) - 1) \div 10000

NewRates == <<tpm.all, mjobs[1], mjobs[2], mjobs[3], mjobs[4]>>
MaxJobsReached == invars.maxjobs /\ (JobRateDrops(NewRates) \/ JobRateSteady(NewRates))

\* The next increment: the same for nine load points; then small when there is about
\* one job per minute and user; otherwise about doubled while load points get little
\* slower, and about halved when they slow down a lot.
Scaled(incr, a, a1, sum) ==
  IF 10 * a1 < 12 * a THEN (incr * sum) \div a
  ELSE IF 10 * a1 > 13 * a THEN (incr * a) \div sum
  ELSE incr

adjust_adaptive_timer_NoFloor(incr, cnt) ==
  LET extra == tpm.all - runnum
      a     == IF timers[1] = 0 THEN 1 ELSE timers[1]
      sum   == IF timers[1] + timers[2] = 0 THEN 2 ELSE timers[1] + timers[2]
  IN  IF cnt <= 8 THEN incr
      ELSE IF 10 * extra <= runnum THEN IF extra < 2 THEN 1 ELSE extra \div 2
      ELSE Scaled(incr, a, timers[2], sum)
adjust_adaptive_timer(incr, cnt) ==
  LET extra == tpm.all - runnum
      a     == IF timers[1] = 0 THEN 1 ELSE timers[1]
      sum   == IF timers[1] + timers[2] = 0 THEN 2 ELSE timers[1] + timers[2]
      new   == Scaled(incr, a, timers[2], sum)
  IN  IF cnt <= 8 THEN incr
      ELSE IF 10 * extra <= runnum THEN IF extra < 2 THEN 1 ELSE extra \div 2
      ELSE IF new < 1 THEN incr ELSE new

-----------------------------------------------------------------------------

Init ==
  /\ pc = "main"
  /\ how = ""
  /\ invars \in Inputs
  /\ repeat = invars.repeat
  /\ run_num = 1
  /\ runnum = 0
  /\ tpm = [all |-> 0, user |-> 0]
  /\ timers = <<0, 0>>
  /\ mjobs = <<0, 0, 0, 0, 0>>
  /\ adapt_cnt = 0
  /\ work = [d \in Dirs |-> Absent]
  /\ fn1arr = {}
  /\ fakeh = {}
  \* multiuser.ss is only ever appended to: an earlier benchmark may have left one.
  /\ \E old \in {{}, {<<0, 0>>}} :
       file = [f \in ReportFile |-> IF f = "multiuser.ss" THEN old ELSE {}]
  /\ saved = [f \in ReportFile |-> [r \in 1 .. invars.repeat |-> {}]]
  /\ reported = {}
  /\ unreported = 0

\* Headers are written with "w", except that nothing opens multiuser.ss here.
Headed == {"csv"} \cup IF invars.brief THEN {"stp_mdata", "stp_hdata"} ELSE {}

\* A call of multiuser() up to its loop, with the loop's first test.
StartMultiUser ==
  /\ pc = "main" /\ repeat > 0 /\ invars.mode = "multi"
  /\ file' = [f \in ReportFile |-> IF f \in Headed THEN {} ELSE file[f]]
  /\ fakeh' = Dirs
  /\ IF invars.poolsize = 0
       THEN CreateAllFiles(invars.filesize) /\ pc' = "runloop"
       ELSE UNCHANGED <<work, fn1arr>> /\ pc' = "pool"
  /\ runnum' = invars.minusers
  /\ tpm' = [all |-> 0, user |-> 0]
  /\ timers' = <<0, 0>>
  /\ mjobs' = <<0, 0, 0, 0, 0>>
  /\ adapt_cnt' = 0
  /\ UNCHANGED <<how, invars, repeat, run_num, saved, reported, unreported>>

CreatePool ==
  /\ pc = "pool"
  /\ CreateAllFiles(BlocksPerFile(runnum))
  /\ pc' = "runloop"
  /\ UNCHANGED <<how, invars, repeat, run_num, rampVars, fakeh, fileVars>>

\* kill_all_child_processes(), called or as the handler of SIGTERM: the files with a
\* stored name are unlinked.  While files are being created (or their creation has
\* just failed) the file in hand is left with whatever it has got.
Exits(why) ==
  /\ pc' = "exited"
  /\ how' = why
  /\ UNCHANGED <<invars, repeat, run_num, rampVars, fileVars>>

KilledWhileCreating(n) ==
  /\ \E d \in Dirs, stored \in SUBSET Dirs :
       /\ stored = fn1arr \cup 1 .. d - 1
       /\ fn1arr' = stored
       /\ work' = UnlinkedBy(stored, [work EXCEPT ![d] = 0])
  /\ fakeh' = {}
  /\ Exits("killed")

StartFails ==
  /\ pc = "main" /\ repeat > 0 /\ invars.mode = "multi"
  /\ invars.poolsize = 0
  /\ KilledWhileCreating(invars.filesize)

CreatePoolFails ==
  /\ pc = "pool"
  /\ KilledWhileCreating(BlocksPerFile(runnum))

Terminated ==
  /\ pc # "exited"
  /\ work' = UnlinkedBy(fn1arr, work)
  /\ fakeh' = {}
  /\ UNCHANGED fn1arr
  /\ Exits("killed")

\* A tool command that fails ends the program without any clean-up.
ToolFails ==
  /\ pc = "runloop"
  /\ UNCHANGED diskVars
  /\ Exits("tool")

\* runloop() writes a line to every file it knows, or returns without one when it
\* has no pipe (882) or cannot read from it (1094): rates and timers are then those
\* of the load point before.  (RunLoop has the children that a failed read() leaves.)
Appended == {"multiuser.ss", "csv"} \cup IF invars.brief THEN {"stp_mdata", "stp_hdata"} ELSE {}

LoadPublished(t) ==
  /\ pc = "runloop"
  /\ pc' = "rules"
  /\ tpm' = JobsPerMinute(t)
  /\ timers' = <<IF timers[2] > 0 THEN timers[2] ELSE timers[1], t>>
  /\ file' = [f \in ReportFile |->
                IF f \in Appended THEN file[f] \cup {<<run_num, runnum>>} ELSE file[f]]
  /\ reported' = reported \cup {<<run_num, runnum>>}
  /\ UNCHANGED <<how, invars, repeat, run_num, runnum, mjobs, adapt_cnt, diskVars, saved, unreported>>

LoadUnreported ==
  /\ pc = "runloop"
  /\ unreported < MaxUnreported
  /\ unreported' = unreported + 1
  /\ pc' = "rules"
  /\ UNCHANGED <<how, invars, repeat, run_num, rampVars, diskVars, file, saved, reported>>

\* The three breaks leave the loop at once; the work files of a pool stay.
LastLoadPoint == runnum = invars.maxusers \/ CrossoverReached \/ MaxJobsReached

MJobsAfter ==
  IF invars.maxjobs /\ ~CrossoverReached /\ runnum # invars.maxusers THEN NewRates ELSE mjobs

StopRamp ==
  /\ pc = "rules"
  /\ LastLoadPoint
  /\ pc' = "end"
  /\ mjobs' = MJobsAfter
  /\ UNCHANGED <<how, invars, repeat, run_num, runnum, tpm, timers, adapt_cnt, diskVars, fileVars>>

NextIncr == IF invars.timeron THEN adjust_adaptive_timer(invars.incr, adapt_cnt) ELSE invars.incr

RampGoesOn_OneMore(users) == users <= invars.maxusers + 1
RampGoesOn(users) == users <= invars.maxusers

\* Otherwise the increment is adapted, in the settings themselves, and the loop's
\* test made for the users after it.
NextLoadPoint ==
  /\ pc = "rules"
  /\ ~LastLoadPoint
  /\ mjobs' = MJobsAfter
  /\ invars' = [invars EXCEPT !.incr = NextIncr]
  /\ adapt_cnt' = IF invars.timeron /\ adapt_cnt < 9 THEN adapt_cnt + 1 ELSE adapt_cnt
  /\ timers' = IF invars.timeron /\ adapt_cnt > 8 /\ timers[1] = 0 /\ 10 * (tpm.all - runnum) > runnum
                 THEN <<1, timers[2]>> ELSE timers
  /\ runnum' = runnum + NextIncr
  /\ IF invars.poolsize # 0
       THEN work' = UnlinkedBy(fn1arr, work) /\ UNCHANGED <<fn1arr, fakeh>>
       ELSE UNCHANGED diskVars
  /\ pc' = IF ~RampGoesOn(runnum') THEN "end"
           ELSE IF invars.poolsize # 0 THEN "pool" ELSE "runloop"
  /\ UNCHANGED <<how, repeat, run_num, tpm, fileVars>>

\* repeat_fix_results(): the files of a repeat that is not the last are renamed, but
\* the csv file under a name nothing has.
Renamed_None == {"stp_mdata", "stp_hdata", "maxjobs"}
Renamed ==
  {"multiuser.ss"} \cup IF invars.brief THEN {"stp_mdata", "stp_hdata", "maxjobs"} ELSE {}

\* The end of multiuser() and of the turn of main()'s loop.
EndMultiUser ==
  /\ pc = "end"
  /\ pc' = "main"
  /\ LET closed == [file EXCEPT !["maxjobs"] =
                      IF invars.brief THEN {<<run_num, runnum>>} ELSE @]
     IN  IF repeat > 1
           THEN /\ file' = [f \in ReportFile |-> IF f \in Renamed THEN {} ELSE closed[f]]
                /\ saved' = [f \in ReportFile |->
                     IF f \in Renamed THEN [saved[f] EXCEPT ![run_num] = closed[f]] ELSE saved[f]]
           ELSE file' = closed /\ UNCHANGED saved
  /\ repeat' = repeat - 1
  /\ run_num' = run_num + 1
  /\ UNCHANGED <<how, invars, rampVars, diskVars, reported, unreported>>

\* cleanup() and return from main().
Return ==
  /\ pc = "main" /\ repeat = 0
  /\ work' = UnlinkedBy(fn1arr, work)
  /\ fakeh' = {}
  /\ UNCHANGED fn1arr
  /\ Exits("complete")

Next ==
  \/ StartMultiUser \/ StartFails
  \/ CreatePool \/ CreatePoolFails
  \/ \E t \in Times : LoadPublished(t)
  \/ LoadUnreported \/ ToolFails \/ Terminated
  \/ StopRamp \/ NextLoadPoint \/ EndMultiUser \/ Return

Spec == Init /\ [][Next]_vars

\* One process that only ever waits for what RunLoop shows to end.
FairSpec == Spec /\ WF_vars(Next)

-----------------------------------------------------------------------------
(* Properties.                                                             *)

Line == (0 .. invars.repeat) \X Nat
Size == {Absent} \cup Nat

TypeOK ==
  /\ pc \in {"main", "pool", "runloop", "rules", "end", "exited"}
  /\ how \in {"", "complete", "killed", "tool"}
  /\ invars \in Setting
  /\ repeat \in 0 .. invars.repeat
  /\ run_num \in 1 .. invars.repeat + 1
  /\ runnum \in Nat
  /\ tpm \in [all : Nat, user : Nat]
  /\ timers \in Nat \X Nat
  /\ mjobs \in Nat \X Nat \X Nat \X Nat \X Nat
  /\ adapt_cnt \in 0 .. 9
  /\ work \in [Dirs -> Size]
  /\ fn1arr \subseteq Dirs
  /\ fakeh \subseteq Dirs
  /\ file \in [ReportFile -> SUBSET Line]
  /\ saved \in [ReportFile -> [1 .. invars.repeat -> SUBSET Line]]
  /\ reported \subseteq Line
  /\ unreported \in 0 .. MaxUnreported

\* Every repeat measures a growing number of users from the smallest on, and stays
\* within the largest, whatever the adaptive increment makes of itself and carries
\* from one repeat to the next.
R == INSTANCE Ramp WITH
       phase <- IF pc = "exited" THEN "over"
                ELSE IF pc \in {"main", "end"} THEN "idle" ELSE "measuring",
       users <- IF pc \in {"main", "end", "exited"} THEN 0 ELSE runnum,
       smallest <- invars.minusers,
       largest <- invars.maxusers
ImplementsRamp == R!Spec

\* In every load point each directory has a work file, of the size the settings give
\* for the present number of users: the pool is shared out, "we truncate instead of
\* round so never go over poolsize" (comment driver.c 658), and hardly under it.
LoadHasFiles ==
  pc = "runloop" =>
    \A d \in Dirs :
      LET share == work[d] - invars.filesize
      IN  /\ work[d] # Absent /\ share >= 0
          /\ runnum * share <= invars.poolsize
          /\ invars.poolsize < runnum * (share + 1)

\* After a complete benchmark no work file and no fakeh are left, whichever break
\* ended its ramps; after a kill at most one is: a first file whose creation was
\* under way or failed, before its name was stored (disk_funcs.c 154).  A single
\* user run does not notice such a failure and may leave that file as well.
FilesCleanedUp ==
  (pc = "exited" /\ how # "tool") =>
    /\ fakeh = {}
    /\ \A d \in Dirs : work[d] # Absent =>
         /\ how = "killed" \/ invars.mode = "single"
         /\ fn1arr = 1 .. d - 1

\* Each line a load point has written to multiuser.ss, and in a brief run to the data
\* files, is found at the end in the file of its own repeat, and nothing else is
\* there but, in the first, what an earlier benchmark left in multiuser.ss.
FilesOf(f, r) == IF r < run_num /\ r < invars.repeat THEN saved[f][r] ELSE file[f]
LinesOf(r) == {l \in reported : l[1] = r}
NoReportLost ==
  pc = "main" /\ invars.mode = "multi" =>
    \A r \in 1 .. run_num - 1 :
      /\ FilesOf("multiuser.ss", r) \ {<<0, 0>>} = LinesOf(r)
      /\ invars.brief => /\ FilesOf("stp_mdata", r) = LinesOf(r)
                         /\ FilesOf("stp_hdata", r) = LinesOf(r)

\* The same of the csv file, which repeat_fix_results() lists among the "Files to
\* clean up" (comment drv_funcs.c 618-621): it is renamed by a name it does not have.
CsvKept ==
  pc = "main" /\ invars.mode = "multi" =>
    \A r \in 1 .. run_num - 1 : FilesOf("csv", r) = LinesOf(r)

\* The program ends, whichever increments the ramp adapts itself to.
RampEnds == <>(pc = "exited")
=============================================================================
