---------------------------- MODULE DriverProofs ----------------------------
(***************************************************************************)
(* Proofs about the whole driver, for every command line, every duration   *)
(* of a load point, every workfile and any number of repeats.  First the   *)
(* multiuser benchmark: the ramp implements Ramp, a load point finds its   *)
(* work files and the end none, and no line of a report is lost.  Then the *)
(* single user benchmark: an alarm that clears the flag of a test it was   *)
(* not set for, the types of the whole driver, and a line or a failure for *)
(* each test.  Time in a single user run is the order of pairs of a repeat *)
(* and a test.  Last, of both: a measure of the steps left.                *)
(***************************************************************************)
EXTENDS SingleUser, FiniteSetTheorems, TLAPS

\* The turns of the ramp's loop.
Measuring == {"pool", "runloop", "rules"}

\* The users of a ramp stay within the settings, which no step but the adaptive timer
\* writes.
Ramping ==
  /\ pc \in {"main", "pool", "runloop", "rules", "end", "exited"}
  /\ invars \in Setting /\ invars.minusers <= invars.maxusers
  /\ runnum \in Nat
  /\ tpm \in [all : Int, user : Int]
  /\ timers \in Nat \X Nat
  /\ adapt_cnt \in Nat
  /\ pc \in Measuring => /\ invars.mode = "multi"
                         /\ invars.minusers <= runnum /\ runnum <= invars.maxusers
  /\ pc = "end" => invars.mode = "multi"

Incr == invars.incr

\* The adaptive timer never hands back an increment below 1.
LEMMA AdaptedIsPositive ==
  ASSUME Ramping
  PROVE  adjust_adaptive_timer(invars.incr, adapt_cnt) \in Nat \ {0}
<1> DEFINE extra == tpm.all - runnum
           a     == IF timers[1] = 0 THEN 1 ELSE timers[1]
           sum   == IF timers[1] + timers[2] = 0 THEN 2 ELSE timers[1] + timers[2]
           new   == Scaled(invars.incr, a, timers[2], sum)
<1>1. invars.incr \in Nat \ {0}
  BY DEF Ramping, Setting
<1>2. extra \in Int /\ runnum \in Nat
  BY DEF Ramping
<1>3. timers[1] \in Nat /\ timers[2] \in Nat
  BY DEF Ramping
<1>4. a \in Nat \ {0} /\ sum \in Nat \ {0}
  BY <1>3
<1>5. new \in Int
  <2> HIDE DEF a, sum
  <2> DEFINE up == Incr * sum
             down == Incr * a
  <2>1. up \in Int /\ down \in Int
    BY <1>1, <1>4 DEF Incr
  <2> HIDE DEF up, down
  <2>2. up \div a \in Int /\ down \div sum \in Int
    BY <2>1, <1>4
  <2> QED
    BY <2>2, <1>1 DEF Scaled, Incr, up, down
<1>6. (IF extra < 2 THEN 1 ELSE extra \div 2) \in Nat \ {0}
  <2> HIDE DEF extra
  <2> QED
    BY <1>2
<1> HIDE DEF new, extra
<1>7. (IF new < 1 THEN invars.incr ELSE new) \in Nat \ {0}
  BY <1>1, <1>5
<1>8. adjust_adaptive_timer(invars.incr, adapt_cnt) =
        IF adapt_cnt <= 8 THEN invars.incr
        ELSE IF 10 * extra <= runnum THEN IF extra < 2 THEN 1 ELSE extra \div 2
        ELSE IF new < 1 THEN invars.incr ELSE new
  BY DEF adjust_adaptive_timer, new, extra
<1> QED
  BY <1>1, <1>6, <1>7, <1>8

\* A share of the pool: truncated, so that the shares do not exceed it.
LEMMA DivisionRest ==
  ASSUME NEW p \in Nat, NEW u \in Nat \ {0}
  PROVE  p \div u \in Nat /\ u * (p \div u) <= p /\ p < u * (p \div u + 1)
OBVIOUS

\* What a single user run and a late alarm leave alone.
LEMMA SingleKeepsRamp ==
  (SingleStep \/ AlarmFires) => UNCHANGED <<pc, how, invars, rampVars>> /\ pc = "main"
BY DEF SingleStep, AlarmFires, StartSingleUser, SkipItem, SetFlag, SetAlarm, RunOnce, TestFails,
       ReportTest, EndSingleUser, CreateAllFiles, vars

\* Only the increment of the settings changes.
LEMMA SettingsKept ==
  ASSUME Ramping, [DriverNext]_allVars
  PROVE  \/ invars' = invars
         \/ NextLoadPoint /\ NextIncr \in Nat \ {0} /\ invars' = [invars EXCEPT !.incr = NextIncr]
<1>1. CASE Next
  <2>1. CASE NextLoadPoint
    <3>1. NextIncr \in Nat \ {0}
      BY AdaptedIsPositive DEF NextIncr, Ramping, Setting
    <3> QED
      BY <2>1, <3>1 DEF NextLoadPoint
  <2> QED
    BY <1>1, <2>1 DEF Next, StartMultiUser, StartFails, KilledWhileCreating, Exits, CreatePool,
       CreatePoolFails, LoadPublished, LoadUnreported, ToolFails, Terminated, StopRamp,
       EndMultiUser, Return
<1>2. CASE SingleStep \/ AlarmFires
  BY <1>2, SingleKeepsRamp
<1>3. CASE UNCHANGED allVars
  BY <1>3 DEF allVars, vars
<1> QED
  BY <1>1, <1>2, <1>3 DEF DriverNext

\* No ramp has begun.
LEMMA RampingInit == SingleInit => Ramping
<1> SUFFICES ASSUME SingleInit PROVE Ramping
  OBVIOUS
<1>1. pc = "main" /\ invars \in Inputs /\ runnum = 0 /\ tpm = [all |-> 0, user |-> 0]
      /\ timers = <<0, 0>> /\ adapt_cnt = 0
  BY DEF SingleInit, Init
<1>2. invars \in Setting /\ invars.minusers <= invars.maxusers
  BY <1>1, MultiUserAssumption
<1> QED
  BY <1>1, <1>2 DEF Ramping, Measuring

\* Each step keeps the users within the ramp.
LEMMA RampingStep == Ramping /\ [DriverNext]_allVars => Ramping'
<1> SUFFICES ASSUME Ramping, [DriverNext]_allVars PROVE Ramping'
  OBVIOUS
<1> USE DEF Ramping, Measuring
<1>1. /\ invars' \in Setting /\ invars'.minusers = invars.minusers
      /\ invars'.maxusers = invars.maxusers /\ invars'.mode = invars.mode
  BY SettingsKept DEF Setting
<1>2. CASE StartMultiUser
  BY <1>1, <1>2 DEF StartMultiUser, CreateAllFiles, Setting
<1>3. CASE \E t \in Times : LoadPublished(t)
  <2>1. PICK t \in Times : LoadPublished(t)
    BY <1>3
  <2>2. t \in Nat \ {0}
    BY MultiUserAssumption
  <2>3. 60 * invars.jobs \in Nat /\ 60 * invars.jobs * runnum \in Nat
    BY DEF Setting
  <2>4. tpm' \in [all : Int, user : Int]
    <3> DEFINE j == 60 * invars.jobs
               ju == 60 * invars.jobs * runnum
    <3>1. tpm' = [all |-> ju \div t, user |-> j \div t]
      BY <2>1 DEF LoadPublished, JobsPerMinute
    <3>2. ju \in Nat /\ j \in Nat
      BY <2>3
    <3> HIDE DEF j, ju
    <3> QED
      BY <3>1, <3>2, <2>2
  <2>5. timers' \in Nat \X Nat
    BY <2>1, <2>2 DEF LoadPublished
  <2> QED
    BY <1>1, <2>1, <2>4, <2>5 DEF LoadPublished
<1>4. CASE NextLoadPoint
  <2>1. NextIncr \in Nat \ {0}
    BY AdaptedIsPositive DEF NextIncr, Setting
  <2>2. runnum' = runnum + NextIncr
    BY <1>4 DEF NextLoadPoint
  <2>3. pc = "rules" /\ pc' = (IF ~RampGoesOn(runnum') THEN "end"
                               ELSE IF invars.poolsize # 0 THEN "pool" ELSE "runloop")
    BY <1>4 DEF NextLoadPoint
  <2>4. timers' \in Nat \X Nat /\ adapt_cnt' \in Nat /\ tpm' = tpm
    BY <1>4 DEF NextLoadPoint
  <2> QED
    BY <1>1, <2>1, <2>2, <2>3, <2>4 DEF RampGoesOn, Setting
<1>5. CASE StartFails \/ CreatePoolFails \/ ToolFails \/ Terminated \/ Return
  BY <1>1, <1>5 DEF StartFails, CreatePoolFails, KilledWhileCreating, ToolFails, Terminated, Return,
     Exits, rampVars
<1>6. CASE CreatePool \/ LoadUnreported
  BY <1>1, <1>6 DEF CreatePool, LoadUnreported, rampVars
<1>7. CASE StopRamp \/ EndMultiUser
  BY <1>1, <1>7 DEF StopRamp, EndMultiUser, rampVars
<1>8. CASE SingleStep \/ AlarmFires
  BY <1>1, <1>8, SingleKeepsRamp DEF rampVars
<1>9. CASE UNCHANGED allVars
  BY <1>1, <1>9 DEF allVars, vars, rampVars
<1> QED
  BY <1>2, <1>3, <1>4, <1>5, <1>6, <1>7, <1>8, <1>9 DEF DriverNext, Next

\* The invariant of the ramp, over all repeats.
THEOREM RampingHolds == DriverSpec => []Ramping
BY RampingInit, RampingStep, PTL DEF DriverSpec

\* The driver starts between two rounds.
LEMMA RampInit == SingleInit => R!Init
<1> SUFFICES ASSUME SingleInit PROVE R!Init
  OBVIOUS
<1>1. pc = "main" /\ invars.minusers \in Nat /\ invars.maxusers \in Nat
  BY RampingInit DEF SingleInit, Init, Ramping, Setting
<1> QED
  BY <1>1 DEF R!Init

\* Each step of the driver is one of Ramp or leaves round and users alone.
LEMMA RampStep == Ramping /\ Ramping' /\ [DriverNext]_allVars => [R!Next]_(R!vars)
<1> SUFFICES ASSUME Ramping, Ramping', [DriverNext]_allVars PROVE [R!Next]_(R!vars)
  OBVIOUS
<1> USE DEF R!vars, Measuring
<1>1. /\ invars'.minusers = invars.minusers /\ invars'.maxusers = invars.maxusers
  BY SettingsKept DEF Ramping, Setting
<1>2. CASE StartMultiUser
  <2>1. pc = "main" /\ pc' \in {"pool", "runloop"} /\ runnum' = invars.minusers
    BY <1>2 DEF StartMultiUser
  <2> QED
    BY <1>1, <2>1 DEF R!Next, R!StartRound
<1>3. CASE \E t \in Times : LoadPublished(t)
  BY <1>1, <1>3 DEF LoadPublished
<1>4. CASE NextLoadPoint
  <2>1. NextIncr \in Nat \ {0}
    BY AdaptedIsPositive DEF NextIncr, Ramping, Setting
  <2>2. pc = "rules" /\ runnum' = runnum + NextIncr /\ runnum \in Nat
    BY <1>4 DEF NextLoadPoint, Ramping
  <2>3. CASE pc' = "end"
    BY <1>1, <2>2, <2>3 DEF R!Next, R!EndRound
  <2>4. CASE pc' # "end"
    <3>1. pc' \in {"pool", "runloop"} /\ runnum' <= invars.maxusers
      BY <1>4, <2>4 DEF NextLoadPoint, RampGoesOn
    <3>2. runnum < runnum'
      BY <2>1, <2>2
    <3> QED
      BY <1>1, <2>2, <3>1, <3>2 DEF R!Next, R!MoreUsers
  <2> QED
    BY <2>3, <2>4
<1>5. CASE StartFails \/ CreatePoolFails \/ ToolFails \/ Terminated \/ Return
  <2>1. pc # "exited" /\ pc' = "exited"
    BY <1>5 DEF StartFails, CreatePoolFails, KilledWhileCreating, ToolFails, Terminated, Return, Exits
  <2>2. pc \in {"main", "end"} \cup Measuring
    BY <2>1 DEF Ramping
  <2> QED
    BY <1>1, <2>1, <2>2 DEF R!Next, R!End
<1>6. CASE CreatePool \/ LoadUnreported
  BY <1>1, <1>6 DEF CreatePool, LoadUnreported, rampVars
<1>7. CASE StopRamp
  BY <1>1, <1>7 DEF StopRamp, R!Next, R!EndRound
<1>8. CASE EndMultiUser
  BY <1>1, <1>8 DEF EndMultiUser
<1>9. CASE SingleStep \/ AlarmFires
  BY <1>1, <1>9, SingleKeepsRamp DEF rampVars
<1>10. CASE UNCHANGED allVars
  BY <1>1, <1>10 DEF allVars, vars, rampVars
<1> QED
  BY <1>2, <1>3, <1>4, <1>5, <1>6, <1>7, <1>8, <1>9, <1>10 DEF DriverNext, Next

\* The refinement: multiuser() measures in rounds of growing users within the limits,
\* whatever increments the adaptive timer arrives at and carries to the next repeat.
THEOREM ImplementsRampHolds == DriverSpec => ImplementsRamp
BY RampInit, RampStep, RampingHolds, PTL DEF DriverSpec, ImplementsRamp, R!Spec

-----------------------------------------------------------------------------
(* Work files.                                                             *)

\* Files are made for the users of the load point; without a pool, once for all.
Sized ==
  /\ pc = "runloop" => work = [d \in Dirs |-> BlocksPerFile(runnum)]
  /\ pc = "rules" /\ invars.poolsize = 0 => work = [d \in Dirs |-> invars.filesize]

\* There is no load point at the start.
LEMMA SizedInit == SingleInit => Sized
BY DEF SingleInit, Init, Sized

\* Files are made anew before the users change, if their size depends on them.
LEMMA SizedStep == Ramping /\ Ramping' /\ Sized /\ [DriverNext]_allVars => Sized'
<1> SUFFICES ASSUME Ramping, Ramping', Sized, [DriverNext]_allVars PROVE Sized'
  OBVIOUS
<1>1. /\ invars'.poolsize = invars.poolsize /\ invars'.filesize = invars.filesize /\ Dirs' = Dirs
      /\ invars.poolsize \in Nat /\ invars.filesize \in Nat
  BY SettingsKept DEF Ramping, Setting, Dirs
<1>2. \A n \in Nat \ {0} : invars.poolsize = 0 => BlocksPerFile(n) = invars.filesize
  <2> SUFFICES ASSUME NEW n \in Nat \ {0}, invars.poolsize = 0
               PROVE  BlocksPerFile(n) = invars.filesize
    OBVIOUS
  <2>1. 0 \div n = 0
    OBVIOUS
  <2> QED
    BY <1>1, <2>1 DEF BlocksPerFile
<1>3. /\ pc' \in Measuring => runnum' \in Nat \ {0}
      /\ pc \in Measuring => runnum \in Nat \ {0}
  BY DEF Ramping, Setting
<1>4. CASE StartMultiUser
  <2>1. CASE invars.poolsize = 0
    <3>1. work' = [d \in Dirs |-> invars.filesize] /\ pc' = "runloop"
      BY <1>4, <2>1 DEF StartMultiUser, CreateAllFiles
    <3>2. runnum' \in Nat \ {0} /\ invars' = invars
      BY <1>3, <1>4, <3>1 DEF StartMultiUser, Measuring
    <3>3. BlocksPerFile(runnum)' = invars.filesize
      BY <1>1, <1>2, <2>1, <3>2 DEF BlocksPerFile
    <3> QED
      BY <1>1, <3>1, <3>3 DEF Sized
  <2>2. CASE invars.poolsize # 0
    BY <1>4, <2>2 DEF StartMultiUser, Sized
  <2> QED
    BY <2>1, <2>2
<1>5. CASE CreatePool
  BY <1>1, <1>5 DEF CreatePool, CreateAllFiles, BlocksPerFile, Sized, rampVars
<1>6. CASE (\E t \in Times : LoadPublished(t)) \/ LoadUnreported
  <2>1. pc = "runloop" /\ pc' = "rules" /\ work' = work /\ invars' = invars
    BY <1>6 DEF LoadPublished, LoadUnreported, diskVars
  <2>2. invars.poolsize = 0 => BlocksPerFile(runnum) = invars.filesize
    BY <1>2, <1>3, <2>1 DEF Measuring
  <2> QED
    BY <1>1, <2>1, <2>2 DEF Sized
<1>7. CASE NextLoadPoint
  <2>1. CASE invars.poolsize = 0 /\ pc' = "runloop"
    <3>1. work' = [d \in Dirs |-> invars.filesize]
      BY <1>7, <2>1 DEF NextLoadPoint, diskVars, Sized
    <3>2. runnum' \in Nat \ {0}
      BY <1>3, <2>1 DEF Measuring
    <3>3. BlocksPerFile(runnum)' = BlocksPerFile(runnum')
      BY <1>1 DEF BlocksPerFile
    <3> QED
      BY <1>1, <1>2, <2>1, <3>1, <3>2, <3>3 DEF Sized
  <2>2. CASE pc' # "runloop"
    BY <1>7, <2>2 DEF NextLoadPoint, Sized
  <2> QED
    BY <1>7, <2>1, <2>2 DEF NextLoadPoint
<1>8. CASE pc' \notin {"runloop", "rules"}
  BY <1>8 DEF Sized
<1>9. CASE StartFails \/ CreatePoolFails \/ ToolFails \/ Terminated \/ Return \/ StopRamp \/ EndMultiUser
  BY <1>8, <1>9 DEF StartFails, CreatePoolFails, KilledWhileCreating, ToolFails, Terminated, Return,
     Exits, StopRamp, EndMultiUser
<1>10. CASE SingleStep \/ AlarmFires
  BY <1>8, <1>10, SingleKeepsRamp
<1>11. CASE UNCHANGED allVars
  BY <1>11 DEF allVars, vars, rampVars, diskVars, Sized, Dirs, BlocksPerFile
<1> QED
  BY <1>4, <1>5, <1>6, <1>7, <1>9, <1>10, <1>11 DEF DriverNext, Next

\* Every load point finds a work file of the right size in each directory.
THEOREM LoadHasFilesHolds == DriverSpec => []LoadHasFiles
<1>1. Ramping /\ Sized => LoadHasFiles
  <2> SUFFICES ASSUME Ramping, Sized, pc = "runloop", NEW d \in Dirs
               PROVE  LET share == work[d] - invars.filesize
                      IN  /\ work[d] # Absent /\ share >= 0
                          /\ runnum * share <= invars.poolsize
                          /\ invars.poolsize < runnum * (share + 1)
    BY DEF LoadHasFiles
  <2> DEFINE part == invars.poolsize \div runnum
  <2>1. invars.poolsize \in Nat /\ invars.filesize \in Nat /\ runnum \in Nat \ {0}
    BY DEF Ramping, Setting, Measuring
  <2>2. part \in Nat /\ runnum * part <= invars.poolsize /\ invars.poolsize < runnum * (part + 1)
    BY <2>1, DivisionRest
  <2>3. work[d] = invars.filesize + part
    BY DEF Sized, BlocksPerFile
  <2> HIDE DEF part
  <2>4. work[d] - invars.filesize = part /\ work[d] # Absent
    BY <2>1, <2>2, <2>3 DEF Absent
  <2> QED
    BY <2>2, <2>4
<1>2. DriverSpec => [](Ramping /\ Sized)
  <2>1. DriverSpec => []Sized
    BY SizedInit, SizedStep, RampingHolds, PTL DEF DriverSpec
  <2> QED
    BY <2>1, RampingHolds, PTL
<1> QED
  BY <1>1, <1>2, PTL

\* Names are stored from the first directory on, and a file has its name stored but
\* for the last one of a creation that failed unnoticed.
Stored == \E k \in 0 .. invars.numdirs : fn1arr = 1 .. k
Named ==
  pc # "exited" =>
    \A d \in Dirs : work[d] # Absent /\ d \notin fn1arr =>
      invars.mode = "single" /\ fn1arr = 1 .. d - 1

InSingle == spc # "idle" => invars.mode = "single"

Filed == work \in [Dirs -> Size] /\ Stored /\ Named /\ InSingle /\ FilesCleanedUp

\* No file is there at the start.
LEMMA FiledInit == SingleInit => Filed
<1> SUFFICES ASSUME SingleInit PROVE Filed
  OBVIOUS
<1>1. pc = "main" /\ fn1arr = {} /\ work = [d \in Dirs |-> Absent]
  BY DEF SingleInit, Init
<1>2. Stored
  <2>1. 0 \in 0 .. invars.numdirs /\ 1 .. 0 = {}
    BY RampingInit DEF Ramping, Setting
  <2> QED
    BY <1>1, <2>1 DEF Stored
<1> QED
  BY <1>1, <1>2 DEF Filed, Named, InSingle, FilesCleanedUp, Size, SingleInit

\* What unlinking by name leaves.
LEMMA UnlinkLeaves ==
  ASSUME NEW D, NEW w \in [D -> Size], NEW stored
  PROVE  /\ UnlinkedBy(stored, w) \in [D -> Size]
         /\ \A d \in D : UnlinkedBy(stored, w)[d] # Absent => d \notin stored /\ w[d] # Absent
BY DEF UnlinkedBy, Size

\* A single user run makes its files, perhaps not all of them, and nothing else.
LEMMA SingleKeepsFiles ==
  ASSUME Ramping, Filed, SingleStep \/ AlarmFires
  PROVE  work' \in [Dirs -> Size] /\ Stored' /\ Named'
<1>1. /\ invars' = invars /\ Dirs' = Dirs /\ pc' = pc /\ pc = "main"
      /\ invars.filesize \in Nat /\ invars.numdirs \in Nat
  BY SingleKeepsRamp DEF Dirs, Ramping, Setting
<1>2. CASE UNCHANGED <<work, fn1arr>>
  BY <1>1, <1>2 DEF Filed, Stored, Named
<1>3. CASE CreateAllFiles(invars.filesize)
  <2>1. work' \in [Dirs -> Size] /\ fn1arr' = 1 .. invars.numdirs
    BY <1>1, <1>3 DEF CreateAllFiles, Dirs, Size
  <2>2. Stored'
    BY <1>1, <2>1 DEF Stored
  <2> QED
    BY <1>1, <2>1, <2>2 DEF Named, Dirs
<1>4. ASSUME NEW d \in Dirs, SetFlag,
             fn1arr' = fn1arr \cup 1 .. d - 1,
             work' = [x \in Dirs |-> IF x < d THEN invars.filesize ELSE IF x = d THEN 0 ELSE work[x]]
      PROVE  work' \in [Dirs -> Size] /\ Stored' /\ Named'
  <2>1. PICK k \in 0 .. invars.numdirs : fn1arr = 1 .. k
    BY DEF Filed, Stored
  <2>2. d \in 1 .. invars.numdirs /\ invars.mode = "single"
    BY <1>4 DEF Dirs, SetFlag, Filed, InSingle
  <2>3. work' \in [Dirs -> Size]
    BY <1>1, <1>4 DEF Filed, Size
  <2>4. fn1arr' = 1 .. (IF k < d THEN d - 1 ELSE k)
    BY <1>1, <1>4, <2>1, <2>2
  <2>5. Stored'
    <3>1. (IF k < d THEN d - 1 ELSE k) \in 0 .. invars.numdirs
      BY <1>1, <2>1, <2>2
    <3> QED
      BY <1>1, <2>4, <3>1 DEF Stored
  <2>6. ASSUME NEW x \in Dirs, work'[x] # Absent, x \notin fn1arr'
        PROVE  fn1arr' = 1 .. x - 1
    <3>1. x \in 1 .. invars.numdirs /\ x >= d
      BY <1>1, <1>4, <2>2, <2>6 DEF Dirs
    <3>2. CASE x = d
      BY <1>1, <2>1, <2>2, <2>4, <2>6, <3>2
    <3>3. CASE x > d
      <4>1. work[x] # Absent /\ x \notin fn1arr
        BY <1>4, <2>6, <3>3, <3>1, <2>2
      <4>2. fn1arr = 1 .. x - 1
        BY <1>1, <4>1 DEF Filed, Named
      <4> QED
        BY <1>4, <2>2, <3>1, <3>3, <4>2
    <3> QED
      BY <2>2, <3>1, <3>2, <3>3
  <2> QED
    BY <1>1, <2>2, <2>3, <2>5, <2>6 DEF Named
<1> QED
  BY <1>2, <1>3, <1>4 DEF SingleStep, AlarmFires, StartSingleUser, SkipItem, SetFlag, SetAlarm, RunOnce,
     TestFails, ReportTest, EndSingleUser, diskVars, vars

\* A kill during creation leaves at most the file in hand.
LEMMA KilledLeaves ==
  ASSUME Ramping, Filed, NEW n, KilledWhileCreating(n), invars.mode = "multi", pc # "exited"
  PROVE  work' \in [Dirs -> Size] /\ Stored' /\ FilesCleanedUp'
<1>1. PICK d \in Dirs, stored \in SUBSET Dirs :
        /\ stored = fn1arr \cup 1 .. d - 1
        /\ fn1arr' = stored
        /\ work' = UnlinkedBy(stored, [work EXCEPT ![d] = 0])
  BY DEF KilledWhileCreating
<1>2. PICK k \in 0 .. invars.numdirs : fn1arr = 1 .. k
  BY DEF Filed, Stored
<1>3. /\ invars' = invars /\ Dirs' = Dirs /\ invars.numdirs \in Nat /\ d \in 1 .. invars.numdirs
      /\ fakeh' = {} /\ how' = "killed"
  BY <1>1 DEF KilledWhileCreating, Exits, Dirs, Ramping, Setting
<1>4. [work EXCEPT ![d] = 0] \in [Dirs -> Size]
  BY DEF Filed, Size
<1>5. /\ work' \in [Dirs -> Size]
      /\ \A x \in Dirs : work'[x] # Absent => x \notin stored /\ [work EXCEPT ![d] = 0][x] # Absent
  <2> DEFINE w == [work EXCEPT ![d] = 0]
  <2>1. w \in [Dirs -> Size] /\ work' = UnlinkedBy(stored, w)
    BY <1>1, <1>4
  <2> HIDE DEF w
  <2>2. /\ UnlinkedBy(stored, w) \in [Dirs -> Size]
        /\ \A x \in Dirs : UnlinkedBy(stored, w)[x] # Absent => x \notin stored /\ w[x] # Absent
    BY <2>1, UnlinkLeaves
  <2> QED
    BY <2>1, <2>2 DEF w
<1>6. Stored'
  <2>1. stored = 1 .. (IF k < d THEN d - 1 ELSE k) /\ (IF k < d THEN d - 1 ELSE k) \in 0 .. invars.numdirs
    BY <1>1, <1>2, <1>3
  <2> QED
    BY <1>1, <1>3, <2>1 DEF Stored
<1>7. ASSUME NEW x \in Dirs, work'[x] # Absent
      PROVE  fn1arr' = 1 .. x - 1
  <2>1. x \notin stored /\ [work EXCEPT ![d] = 0][x] # Absent
    BY <1>5, <1>7
  <2>2. x = d
    BY <1>1, <2>1 DEF Filed, Named
  <2> QED
    BY <1>1, <1>2, <1>3, <2>1, <2>2
<1> QED
  BY <1>3, <1>5, <1>6, <1>7 DEF FilesCleanedUp

\* The other ends unlink what has a name.
LEMMA EndsLeave ==
  ASSUME Ramping, Filed, pc # "exited", UNCHANGED <<invars, fn1arr>>,
         work' = UnlinkedBy(fn1arr, work), fakeh' = {}, how' \in {"killed", "complete"}
  PROVE  work' \in [Dirs -> Size] /\ Stored' /\ FilesCleanedUp'
<1>1. Dirs' = Dirs /\ work \in [Dirs -> Size]
  BY DEF Dirs, Filed
<1>2. /\ work' \in [Dirs -> Size]
      /\ \A x \in Dirs : work'[x] # Absent => x \notin fn1arr /\ work[x] # Absent
  BY <1>1, UnlinkLeaves
<1>3. Stored'
  BY DEF Filed, Stored
<1>4. \A x \in Dirs : work'[x] # Absent => invars.mode = "single" /\ fn1arr = 1 .. x - 1
  BY <1>2 DEF Filed, Named
<1> QED
  BY <1>1, <1>2, <1>3, <1>4 DEF FilesCleanedUp

\* Each step keeps files and names together.
LEMMA FiledStep == Ramping /\ Ramping' /\ Filed /\ [DriverNext]_allVars => Filed'
<1> SUFFICES ASSUME Ramping, Ramping', Filed, [DriverNext]_allVars PROVE Filed'
  OBVIOUS
<1>1. /\ invars'.numdirs = invars.numdirs /\ invars'.mode = invars.mode /\ Dirs' = Dirs
      /\ invars.numdirs \in Nat /\ invars.filesize \in Nat /\ invars.poolsize \in Nat
  BY SettingsKept DEF Ramping, Setting, Dirs
<1>2. InSingle'
  <2>1. CASE Next /\ UNCHANGED singleVars
    BY <1>1, <2>1 DEF singleVars, Filed, InSingle
  <2>2. CASE SingleStep \/ AlarmFires
    BY <1>1, <2>2 DEF Filed, InSingle, SingleStep, AlarmFires, StartSingleUser, SkipItem, SetFlag,
       SetAlarm, RunOnce, TestFails, ReportTest, EndSingleUser
  <2>3. CASE UNCHANGED allVars
    BY <1>1, <2>3 DEF allVars, singleVars, Filed, InSingle
  <2> QED
    BY <2>1, <2>2, <2>3 DEF DriverNext
<1>3. CASE StartFails \/ CreatePoolFails
  <2>1. PICK n : KilledWhileCreating(n)
    BY <1>3 DEF StartFails, CreatePoolFails
  <2>2. invars.mode = "multi" /\ pc # "exited" /\ pc' = "exited"
    BY <1>3, <2>1 DEF StartFails, CreatePoolFails, Ramping, Measuring, KilledWhileCreating, Exits
  <2>3. work' \in [Dirs -> Size] /\ Stored' /\ FilesCleanedUp'
    BY <2>1, <2>2, KilledLeaves
  <2> QED
    BY <1>1, <1>2, <2>2, <2>3 DEF Filed, Named
<1>4. CASE Terminated \/ Return
  <2>1. /\ pc # "exited" /\ pc' = "exited" /\ UNCHANGED <<invars, fn1arr>>
        /\ work' = UnlinkedBy(fn1arr, work) /\ fakeh' = {} /\ how' \in {"killed", "complete"}
    BY <1>4 DEF Terminated, Return, Exits
  <2>2. work' \in [Dirs -> Size] /\ Stored' /\ FilesCleanedUp'
    BY <2>1, EndsLeave
  <2> QED
    BY <1>1, <1>2, <2>1, <2>2 DEF Filed, Named
<1>5. CASE ToolFails
  BY <1>1, <1>2, <1>5 DEF ToolFails, Exits, diskVars, Filed, Stored, Named, FilesCleanedUp
<1>6. CASE StartMultiUser \/ CreatePool
  <2>1. pc' # "exited" /\ pc # "exited" /\ invars' = invars
    BY <1>6 DEF StartMultiUser, CreatePool
  <2>2. CASE UNCHANGED <<work, fn1arr>>
    BY <1>1, <1>2, <2>1, <2>2 DEF Filed, Stored, Named, FilesCleanedUp
  <2>3. ASSUME NEW n \in Nat, CreateAllFiles(n)
        PROVE  Filed'
    <3>1. work' \in [Dirs -> Size] /\ fn1arr' = 1 .. invars.numdirs
      BY <2>3 DEF CreateAllFiles, Dirs, Size
    <3>2. Stored'
      BY <1>1, <3>1 DEF Stored
    <3> QED
      BY <1>1, <1>2, <2>1, <3>1, <3>2 DEF Filed, Named, FilesCleanedUp, Dirs
  <2>4. CASE CreatePool
    <3>1. runnum \in Nat \ {0}
      BY <2>4 DEF CreatePool, Ramping, Setting, Measuring
    <3>2. BlocksPerFile(runnum) \in Nat
      BY <1>1, <3>1, DivisionRest DEF BlocksPerFile
    <3> QED
      BY <2>3, <2>4, <3>2 DEF CreatePool
  <2>5. CASE StartMultiUser
    <3>1. CreateAllFiles(invars.filesize) \/ UNCHANGED <<work, fn1arr>>
      BY <2>5 DEF StartMultiUser
    <3> QED
      BY <1>1, <2>2, <2>3, <3>1
  <2> QED
    BY <1>6, <2>4, <2>5
<1>7. CASE NextLoadPoint
  <2>1. pc' # "exited" /\ pc = "rules" /\ fn1arr' = fn1arr
    BY <1>7 DEF NextLoadPoint, diskVars
  <2>2. Stored'
    BY <1>1, <2>1 DEF Filed, Stored
  <2>3. CASE work' = work
    BY <1>1, <1>2, <2>1, <2>2, <2>3 DEF Filed, Named, FilesCleanedUp
  <2>4. CASE work' = UnlinkedBy(fn1arr, work)
    <3>1. /\ work' \in [Dirs -> Size]
          /\ \A x \in Dirs : work'[x] # Absent => x \notin fn1arr /\ work[x] # Absent
      BY <2>4, UnlinkLeaves DEF Filed
    <3> QED
      BY <1>1, <1>2, <2>1, <2>2, <3>1 DEF Filed, Named, FilesCleanedUp
  <2> QED
    BY <1>7, <2>3, <2>4 DEF NextLoadPoint, diskVars
<1>8. CASE (\E t \in Times : LoadPublished(t)) \/ LoadUnreported \/ StopRamp \/ EndMultiUser
  <2>1. pc' # "exited" /\ pc # "exited" /\ UNCHANGED <<work, fn1arr, invars>>
    BY <1>8 DEF LoadPublished, LoadUnreported, StopRamp, EndMultiUser, diskVars
  <2> QED
    BY <1>1, <1>2, <2>1 DEF Filed, Stored, Named, FilesCleanedUp
<1>9. CASE SingleStep \/ AlarmFires
  <2>1. work' \in [Dirs -> Size] /\ Stored' /\ Named'
    BY <1>9, SingleKeepsFiles
  <2>2. pc' = "main"
    BY <1>9, SingleKeepsRamp
  <2>3. FilesCleanedUp'
    BY <2>2 DEF FilesCleanedUp
  <2> QED
    BY <1>1, <1>2, <2>1, <2>3 DEF Filed
<1>10. CASE UNCHANGED allVars
  BY <1>1, <1>2, <1>10 DEF allVars, vars, diskVars, Filed, Stored, Named, FilesCleanedUp
<1> QED
  BY <1>3, <1>4, <1>5, <1>6, <1>7, <1>8, <1>9, <1>10 DEF DriverNext, Next

\* The invariant of the work files.
THEOREM FiledHolds == DriverSpec => []Filed
BY FiledInit, FiledStep, RampingHolds, PTL DEF DriverSpec

\* No work file outlives the program, but the one in hand when its creation ended.
THEOREM FilesCleanedUpHolds == DriverSpec => []FilesCleanedUp
<1>1. Filed => FilesCleanedUp
  BY DEF Filed
<1> QED
  BY <1>1, FiledHolds, PTL

-----------------------------------------------------------------------------
(* Result files of a multiuser run.                                        *)

\* The files that keep their lines, and what an earlier benchmark may have left.
Recorded == {"multiuser.ss"} \cup IF invars.brief THEN {"stp_mdata", "stp_hdata"} ELSE {}
Earlier(f) == IF f = "multiuser.ss" THEN {<<0, 0>>} ELSE {}
Busy == Measuring \cup {"end"}

\* Repeats are counted down and numbered up; lines have the number of a repeat that
\* has begun to measure.
Counted ==
  /\ repeat \in 0 .. invars.repeat
  /\ run_num = invars.repeat - repeat + 1
  /\ pc \in Busy => repeat > 0
  /\ \A l \in reported : l[1] \in 1 .. run_num
  /\ pc = "main" => \A l \in reported : l[1] # run_num
\* File f of an earlier repeat has been renamed with its lines; the present one has
\* those of the present repeat, and none before its first load point.
Filled(f) ==
  /\ \A r \in 1 .. run_num - 1 : r < invars.repeat => saved[f][r] \ Earlier(f) = LinesOf(r)
  /\ pc \in Busy => file[f] \ Earlier(f) = LinesOf(run_num)
  /\ pc = "main" /\ repeat > 0 /\ f \notin Headed => file[f] \ Earlier(f) = {}
  /\ pc = "main" /\ repeat = 0 => file[f] \ Earlier(f) = LinesOf(invars.repeat)
Shaped ==
  /\ DOMAIN file = ReportFile
  /\ DOMAIN saved = ReportFile
  /\ \A f \in ReportFile : DOMAIN saved[f] = 1 .. invars.repeat

Recording ==
  /\ InSingle
  /\ invars.mode = "multi" => Counted /\ Shaped /\ \A f \in Recorded : Filled(f)

\* Nothing has been reported at the start.
LEMMA RecordingInit == SingleInit => Recording
<1> SUFFICES ASSUME SingleInit PROVE Recording
  OBVIOUS
<1>1. /\ pc = "main" /\ repeat = invars.repeat /\ run_num = 1 /\ reported = {} /\ spc = "idle"
      /\ saved = [f \in ReportFile |-> [r \in 1 .. invars.repeat |-> {}]]
  BY DEF SingleInit, Init
<1>2. PICK old \in {{}, {<<0, 0>>}} :
        file = [f \in ReportFile |-> IF f = "multiuser.ss" THEN old ELSE {}]
  BY DEF SingleInit, Init
<1>3. invars.repeat \in Nat
  BY RampingInit DEF Ramping, Setting
<1>4. Counted /\ Shaped
  BY <1>1, <1>2, <1>3 DEF Counted, Shaped, Busy, Measuring
<1>5. ASSUME NEW f \in Recorded
      PROVE  Filled(f)
  <2>1. f \in ReportFile
    BY DEF Recorded, ReportFile
  <2>2. file[f] \ Earlier(f) = {}
    BY <1>2, <2>1 DEF Earlier
  <2> QED
    BY <1>1, <1>3, <2>2 DEF Filled, LinesOf, Busy, Measuring
<1> QED
  BY <1>1, <1>4, <1>5 DEF Recording, InSingle

\* Each step keeps every line in the file of its repeat.
LEMMA RecordingStep == Ramping /\ Ramping' /\ Recording /\ [DriverNext]_allVars => Recording'
<1> SUFFICES ASSUME Ramping, Ramping', Recording, [DriverNext]_allVars PROVE Recording'
  OBVIOUS
<1>1. /\ invars'.repeat = invars.repeat /\ invars'.mode = invars.mode /\ invars'.brief = invars.brief
      /\ invars.repeat \in Nat /\ Recorded' = Recorded /\ Headed' = Headed
  BY SettingsKept DEF Ramping, Setting, Recorded, Headed
<1>2. InSingle'
  <2>1. CASE Next /\ UNCHANGED singleVars
    BY <1>1, <2>1 DEF singleVars, Recording, InSingle
  <2>2. CASE SingleStep \/ AlarmFires
    BY <1>1, <2>2 DEF Recording, InSingle, SingleStep, AlarmFires, StartSingleUser, SkipItem, SetFlag,
       SetAlarm, RunOnce, TestFails, ReportTest, EndSingleUser
  <2>3. CASE UNCHANGED allVars
    BY <1>1, <2>3 DEF allVars, singleVars, Recording, InSingle
  <2> QED
    BY <2>1, <2>2, <2>3 DEF DriverNext
<1> SUFFICES ASSUME invars.mode = "multi"
             PROVE  Counted' /\ Shaped' /\ \A f \in Recorded : Filled(f)'
  BY <1>1, <1>2 DEF Recording
<1>3. Counted /\ Shaped /\ \A f \in Recorded : Filled(f)
  BY DEF Recording
<1>4. /\ Recorded \subseteq ReportFile /\ Recorded \subseteq Renamed /\ Recorded \subseteq Appended
      /\ "maxjobs" \notin Recorded
  BY DEF Recorded, ReportFile, Renamed, Appended
<1>5. \A f : Earlier(f)' = Earlier(f) /\ \A l \in Earlier(f) : l[1] = 0
  BY DEF Earlier
<1>6. CASE StartMultiUser
  <2>1. /\ pc = "main" /\ pc' \in Busy /\ repeat > 0
        /\ UNCHANGED <<repeat, run_num, reported, saved, invars>>
        /\ file' = [f \in ReportFile |-> IF f \in Headed THEN {} ELSE file[f]]
    BY <1>6 DEF StartMultiUser, Busy, Measuring
  <2>2. Counted' /\ Shaped'
    BY <1>1, <1>3, <2>1 DEF Counted, Shaped, Busy, Measuring
  <2>3. ASSUME NEW f \in Recorded
        PROVE  Filled(f)'
    <3>1. LinesOf(run_num)' = {}
      BY <1>3, <2>1 DEF LinesOf, Counted
    <3>2. file'[f] \ Earlier(f) = {}
      BY <1>3, <1>4, <2>1 DEF Filled
    <3>3. \A r \in 1 .. run_num - 1 : r < invars.repeat => saved[f][r] \ Earlier(f) = LinesOf(r)
      BY <1>3 DEF Filled
    <3> QED
      BY <1>1, <1>5, <2>1, <3>1, <3>2, <3>3 DEF Filled, LinesOf, Busy, Measuring
  <2> QED
    BY <2>2, <2>3
<1>7. CASE \E t \in Times : LoadPublished(t)
  <2>1. /\ pc = "runloop" /\ pc' = "rules" /\ UNCHANGED <<repeat, run_num, saved, invars>>
        /\ file' = [f \in ReportFile |->
                      IF f \in Appended THEN file[f] \cup {<<run_num, runnum>>} ELSE file[f]]
        /\ reported' = reported \cup {<<run_num, runnum>>}
    BY <1>7 DEF LoadPublished
  <2>2. run_num \in Nat \ {0}
    BY <1>1, <1>3 DEF Counted
  <2>3. Counted' /\ Shaped'
    BY <1>1, <1>3, <2>1, <2>2 DEF Counted, Shaped, Busy, Measuring
  <2>4. ASSUME NEW f \in Recorded
        PROVE  Filled(f)'
    <3>1. /\ LinesOf(run_num)' = LinesOf(run_num) \cup {<<run_num, runnum>>}
          /\ \A r \in 1 .. run_num - 1 : LinesOf(r)' = LinesOf(r)
      BY <2>1, <2>2 DEF LinesOf
    <3>2. file'[f] \ Earlier(f) = (file[f] \ Earlier(f)) \cup {<<run_num, runnum>>}
      BY <1>4, <1>5, <2>1, <2>2
    <3>3. /\ file[f] \ Earlier(f) = LinesOf(run_num)
          /\ \A r \in 1 .. run_num - 1 : r < invars.repeat => saved[f][r] \ Earlier(f) = LinesOf(r)
      BY <1>3, <2>1 DEF Filled, Busy, Measuring
    <3> QED
      BY <1>1, <1>5, <2>1, <3>1, <3>2, <3>3 DEF Filled
  <2> QED
    BY <2>3, <2>4
<1>8. CASE EndMultiUser
  <2> DEFINE closed == [file EXCEPT !["maxjobs"] = IF invars.brief THEN {<<run_num, runnum>>} ELSE @]
  <2>1. /\ pc = "end" /\ pc' = "main" /\ UNCHANGED <<reported, invars>>
        /\ repeat' = repeat - 1 /\ run_num' = run_num + 1
        /\ IF repeat > 1
             THEN /\ file' = [f \in ReportFile |-> IF f \in Renamed THEN {} ELSE closed[f]]
                  /\ saved' = [f \in ReportFile |->
                       IF f \in Renamed THEN [saved[f] EXCEPT ![run_num] = closed[f]] ELSE saved[f]]
             ELSE file' = closed /\ UNCHANGED saved
    BY <1>8 DEF EndMultiUser
  <2>2. \A f \in Recorded : closed[f] = file[f]
    BY <1>3, <1>4 DEF Shaped
  <2>3. DOMAIN closed = ReportFile
    BY <1>3 DEF Shaped
  <2> HIDE DEF closed
  <2>4. repeat \in 1 .. invars.repeat /\ run_num = invars.repeat - repeat + 1
    BY <1>1, <1>3, <2>1 DEF Counted, Busy
  <2>5. Counted'
    BY <1>1, <1>3, <2>1, <2>4 DEF Counted, Busy, Measuring
  <2>6. Shaped'
    BY <1>1, <1>3, <2>1, <2>3 DEF Shaped
  <2>7. ASSUME NEW f \in Recorded
        PROVE  Filled(f)'
    <3>1. /\ file[f] \ Earlier(f) = LinesOf(run_num)
          /\ \A r \in 1 .. run_num - 1 : r < invars.repeat => saved[f][r] \ Earlier(f) = LinesOf(r)
      BY <1>3, <2>1 DEF Filled, Busy
    <3>2. \A r : LinesOf(r)' = LinesOf(r)
      BY <2>1 DEF LinesOf
    <3>3. CASE repeat > 1
      <4>1. file'[f] = {} /\ saved'[f] = [saved[f] EXCEPT ![run_num] = file[f]]
        BY <1>4, <2>1, <2>2, <3>3
      <4>2. saved'[f][run_num] = file[f] /\ \A r \in 1 .. run_num - 1 : saved'[f][r] = saved[f][r]
        BY <1>1, <1>3, <1>4, <2>4, <4>1 DEF Shaped
      <4>3. \A r \in 1 .. run_num' - 1 : r = run_num \/ r \in 1 .. run_num - 1
        BY <1>1, <2>1, <2>4
      <4>4. \A r \in 1 .. run_num' - 1 : r < invars.repeat => saved'[f][r] \ Earlier(f) = LinesOf(r)
        BY <3>1, <4>2, <4>3
      <4>5. repeat' # 0 /\ file'[f] \ Earlier(f) = {}
        BY <1>1, <2>1, <2>4, <3>3, <4>1
      <4> QED
        BY <1>1, <1>5, <2>1, <3>2, <4>4, <4>5 DEF Filled, Busy, Measuring
    <3>4. CASE repeat = 1
      <4>1. file'[f] = file[f] /\ saved' = saved /\ repeat' = 0 /\ run_num = invars.repeat
        BY <1>1, <2>1, <2>2, <2>4, <3>4
      <4>2. \A r \in 1 .. run_num' - 1 : r < invars.repeat => saved'[f][r] \ Earlier(f) = LinesOf(r)
        BY <1>1, <2>1, <2>4, <3>1, <4>1
      <4> QED
        BY <1>1, <1>5, <2>1, <3>1, <3>2, <4>1, <4>2 DEF Filled, Busy, Measuring
    <3> QED
      BY <2>4, <3>3, <3>4
  <2> QED
    BY <2>5, <2>6, <2>7
<1>9. CASE /\ UNCHANGED <<repeat, run_num, file, saved, reported>>
           /\ pc' = pc \/ pc' = "exited" \/ {pc, pc'} \subseteq Busy
  <2>1. Counted' /\ Shaped'
    BY <1>1, <1>3, <1>9 DEF Counted, Shaped, Busy, Measuring
  <2>2. ASSUME NEW f \in Recorded
        PROVE  Filled(f)'
    <3>1. \A r : LinesOf(r)' = LinesOf(r)
      BY <1>9 DEF LinesOf
    <3>2. Filled(f)
      BY <1>3
    <3> QED
      BY <1>1, <1>5, <1>9, <3>1, <3>2 DEF Filled, Busy, Measuring
  <2> QED
    BY <2>1, <2>2
<1>10. CASE \/ StartFails \/ CreatePoolFails \/ ToolFails \/ Terminated \/ Return
            \/ CreatePool \/ LoadUnreported \/ StopRamp \/ NextLoadPoint
  BY <1>9, <1>10 DEF StartFails, CreatePoolFails, KilledWhileCreating, ToolFails, Terminated, Return,
     CreatePool, LoadUnreported, StopRamp, NextLoadPoint, Exits, fileVars, Busy, Measuring
<1>11. CASE SingleStep
  BY <1>11 DEF Recording, InSingle, SingleStep, StartSingleUser, SkipItem, SetFlag, SetAlarm, RunOnce,
     TestFails, ReportTest, EndSingleUser
<1>12. CASE AlarmFires \/ UNCHANGED allVars
  BY <1>9, <1>12 DEF AlarmFires, allVars, vars, fileVars
<1> QED
  BY <1>6, <1>7, <1>8, <1>10, <1>11, <1>12 DEF DriverNext, Next

\* The invariant of the reports.
THEOREM RecordingHolds == DriverSpec => []Recording
BY RecordingInit, RecordingStep, RampingHolds, PTL DEF DriverSpec

\* No line is lost, and none is found in the file of another repeat.
THEOREM NoReportLostHolds == DriverSpec => []NoReportLost
<1>1. Ramping /\ Recording => NoReportLost
  <2> SUFFICES ASSUME Ramping, Recording, pc = "main", invars.mode = "multi", NEW r \in 1 .. run_num - 1
               PROVE  /\ FilesOf("multiuser.ss", r) \ {<<0, 0>>} = LinesOf(r)
                      /\ invars.brief => /\ FilesOf("stp_mdata", r) = LinesOf(r)
                                         /\ FilesOf("stp_hdata", r) = LinesOf(r)
    BY DEF NoReportLost
  <2>1. Counted /\ \A f \in Recorded : Filled(f)
    BY DEF Recording
  <2>2. invars.repeat \in Nat
    BY DEF Ramping, Setting
  <2>3. r < run_num /\ (r < invars.repeat \/ (r = invars.repeat /\ repeat = 0))
    BY <2>1, <2>2 DEF Counted
  <2>4. \A f \in Recorded : FilesOf(f, r) \ Earlier(f) = LinesOf(r)
    BY <2>1, <2>3 DEF Filled, FilesOf
  <2> QED
    BY <2>4 DEF Recorded, Earlier
<1> QED
  BY <1>1, RampingHolds, RecordingHolds, PTL
-----------------------------------------------------------------------------
\* The test that is to be measured next, or is being measured.
Position ==
  CASE spc = "idle"  -> <<run_num, 1>>
    [] spc = "close" -> <<run_num + 1, 1>>
    [] OTHER         -> Here

\* An alarm set for the last test before pos, and not without an earlier failure.
Adjoins(a, pos) ==
  \A t \in Hit, r \in Nat : ~(Before(a, <<r, t>>) /\ Before(<<r, t>>, pos))
Stale(a, pos) ==
  /\ a \in Nat \X Nat /\ Before(a, pos)
  /\ \E f \in failed : f = a \/ Before(f, a)
  /\ Adjoins(a, pos)

\* Where singleuser() is.
Placed ==
  /\ run_num \in Nat \ {0}
  /\ spc \in {"idle", "item", "armed", "loop", "close"}
  /\ spc \in {"item", "armed", "loop"} => item \in 1 .. NTests
  /\ spc = "close" => item = NTests
  /\ failed \subseteq Nat \X Nat
  /\ flag \in {0, 1}
\* The alarm that may still fire: in the loop its own, before the loop a stale one.
Pending ==
  /\ spc # "loop" => alarm = NoAlarm \/ Stale(alarm, Position)
  /\ spc = "loop" => alarm \in {NoAlarm, Here}
  /\ invars.mode = "multi" => spc = "idle" /\ alarm = NoAlarm
\* What has cleared the flag: nothing, its own alarm or a stale one; once it is
\* cleared and the own alarm pending still, it was a stale one.
Cut ==
  /\ spc = "armed" => (flag = 1 /\ cutBy = NoAlarm) \/ (flag = 0 /\ Stale(cutBy, Here))
  /\ spc = "loop" => cutBy \in {NoAlarm, Here} \/ Stale(cutBy, Here)
  /\ spc = "loop" /\ flag = 0 /\ alarm = Here => Stale(cutBy, Here)

Alarms == Placed /\ Pending /\ Cut

\* No alarm is set at the start.
LEMMA AlarmsInit == SingleInit => Alarms
<1> SUFFICES ASSUME SingleInit PROVE Alarms
  OBVIOUS
<1>1. /\ run_num = 1 /\ spc = "idle" /\ item = 0 /\ failed = {} /\ flag = 0 /\ alarm = NoAlarm
  BY DEF SingleInit, Init
<1> QED
  BY <1>1 DEF Alarms, Placed, Pending, Cut

\* A history that grows keeps an alarm stale.
LEMMA StaysStale ==
  ASSUME NEW a, NEW pos, Stale(a, pos), failed \subseteq failed'
  PROVE  Stale(a, pos)'
BY DEF Stale, Adjoins

\* Nothing is measured between two neighbours.
LEMMA NextAdjoins ==
  ASSUME NEW r \in Nat, NEW i \in 1 .. NTests
  PROVE  /\ Adjoins(<<r, i>>, <<r, i + 1>>) /\ Before(<<r, i>>, <<r, i + 1>>)
         /\ i = NTests => Adjoins(<<r, i>>, <<r + 1, 1>>) /\ Before(<<r, i>>, <<r + 1, 1>>)
<1>1. \A t \in Hit : t \in 1 .. NTests
  BY SingleUserAssumption
<1> QED
  BY <1>1, SingleUserAssumption DEF Adjoins, Before

\* Nor is it when a test without hits is passed over.
LEMMA SkipAdjoins ==
  ASSUME NEW r \in Nat, NEW i \in 1 .. NTests, i \notin Hit, NEW a \in Nat \X Nat,
         Before(a, <<r, i>>), Adjoins(a, <<r, i>>)
  PROVE  /\ Adjoins(a, <<r, i + 1>>) /\ Before(a, <<r, i + 1>>)
         /\ i = NTests => Adjoins(a, <<r + 1, 1>>) /\ Before(a, <<r + 1, 1>>)
<1>1. \A t \in Hit : t \in 1 .. NTests /\ t # i
  BY SingleUserAssumption
<1>2. a[1] \in Nat /\ a[2] \in Nat
  OBVIOUS
<1> QED
  BY <1>1, <1>2, SingleUserAssumption DEF Adjoins, Before

\* After the list the next repeat begins.
NextPosition == IF item < NTests THEN <<run_num, item + 1>> ELSE <<run_num + 1, 1>>

\* NextItem moves to the neighbour.
LEMMA NextItemPosition ==
  ASSUME Placed, item \in 1 .. NTests, NextItem, run_num' = run_num
  PROVE  /\ Position' = NextPosition
         /\ spc' \in {"item", "close"}
         /\ spc' = "item" => item' \in 1 .. NTests
         /\ spc' = "close" => item' = NTests
BY SingleUserAssumption DEF NextItem, NextPosition, Position, Here, Placed

\* A step of singleuser().
LEMMA AlarmsSingle ==
  ASSUME Ramping, InSingle, Alarms, SingleStep
  PROVE  Alarms'
<1> USE DEF Alarms
<1>1. invars' = invars /\ invars.mode = "single"
  BY SingleKeepsRamp DEF InSingle, SingleStep, StartSingleUser, SkipItem, SetFlag, SetAlarm, RunOnce,
     TestFails, ReportTest, EndSingleUser
<1>2. CASE StartSingleUser
  <2>1. /\ spc = "idle" /\ spc' = "item" /\ item' = 1
        /\ UNCHANGED <<run_num, flag, alarm, cutBy, failed>>
    BY <1>2 DEF StartSingleUser
  <2>2. Position' = Position
    BY <2>1 DEF Position, Here
  <2>3. \A a : Stale(a, Position) => Stale(a, Position)'
    BY <2>1, <2>2 DEF Stale, Adjoins
  <2> QED
    BY <1>1, <2>1, <2>3, SingleUserAssumption DEF Placed, Pending, Cut
<1>3. CASE SkipItem
  <2>1. /\ spc = "item" /\ item \in 1 .. NTests /\ item \notin Hit /\ NextItem
        /\ UNCHANGED <<run_num, flag, alarm, cutBy, failed>>
    BY <1>3 DEF SkipItem, vars, Placed
  <2>2. /\ Position = <<run_num, item>> /\ Position' = NextPosition
        /\ spc' \in {"item", "close"}
        /\ spc' = "item" => item' \in 1 .. NTests
        /\ spc' = "close" => item' = NTests
    BY <2>1, NextItemPosition DEF Position, Here
  <2>3. ASSUME Stale(alarm, Position)
        PROVE  Stale(alarm, Position)'
    <3>1. Adjoins(alarm, NextPosition) /\ Before(alarm, NextPosition)
      BY <2>1, <2>2, <2>3, SkipAdjoins, SingleUserAssumption DEF Stale, NextPosition, Placed
    <3> QED
      BY <2>1, <2>2, <2>3, <3>1 DEF Stale, Adjoins
  <2> QED
    BY <1>1, <2>1, <2>2, <2>3 DEF Placed, Pending, Cut
<1>4. CASE SetFlag
  <2>1. /\ spc = "item" /\ spc' = "armed" /\ flag' = 1 /\ cutBy' = NoAlarm
        /\ UNCHANGED <<run_num, item, alarm, failed>>
    BY <1>4 DEF SetFlag
  <2>2. Position' = Position
    BY <2>1 DEF Position, Here
  <2>3. \A a : Stale(a, Position) => Stale(a, Position)'
    BY <2>1, <2>2 DEF Stale, Adjoins
  <2> QED
    BY <1>1, <2>1, <2>3 DEF Placed, Pending, Cut
<1>5. CASE SetAlarm
  <2>1. /\ spc = "armed" /\ spc' = "loop" /\ alarm' = Here
        /\ UNCHANGED <<run_num, item, flag, cutBy, failed>>
    BY <1>5 DEF SetAlarm, PendingAfterAlarm, vars
  <2>2. Here' = Here
    BY <2>1 DEF Here
  <2>3. \A a : Stale(a, Here) => Stale(a, Here)'
    BY <2>1, <2>2 DEF Stale, Adjoins
  <2> QED
    BY <1>1, <2>1, <2>2, <2>3 DEF Placed, Pending, Cut
<1>6. CASE RunOnce
  <2>1. spc = "loop" /\ UNCHANGED <<spc, run_num, item, flag, alarm, cutBy, failed>>
    BY <1>6 DEF RunOnce, vars
  <2>2. Here' = Here
    BY <2>1 DEF Here
  <2>3. \A a : Stale(a, Here) => Stale(a, Here)'
    BY <2>1, <2>2 DEF Stale, Adjoins
  <2> QED
    BY <1>1, <2>1, <2>2, <2>3 DEF Placed, Pending, Cut
<1>7. CASE TestFails \/ ReportTest
  <2>1. /\ spc = "loop" /\ item \in 1 .. NTests /\ NextItem
        /\ UNCHANGED <<run_num, flag, alarm, cutBy>>
        /\ failed' \in {failed, failed \cup {Here}}
    BY <1>7 DEF TestFails, ReportTest, vars, Placed
  <2>2. /\ Position' = NextPosition
        /\ spc' \in {"item", "close"}
        /\ spc' = "item" => item' \in 1 .. NTests
        /\ spc' = "close" => item' = NTests
    BY <2>1, NextItemPosition
  <2>3. Here = <<run_num, item>> /\ Here \in Nat \X Nat
    BY <2>1 DEF Here, Placed
  <2>4. ASSUME alarm = Here
        PROVE  \E f \in failed' : f = Here \/ Before(f, Here)
    <3>1. CASE TestFails
      BY <3>1, <2>1 DEF TestFails
    <3>2. CASE ReportTest
      <4>1. Stale(cutBy, Here) /\ failed' = failed
        BY <2>1, <2>4, <3>2 DEF ReportTest, LoopDone, Cut
      <4>2. PICK f \in failed : f = cutBy \/ Before(f, cutBy)
        BY <4>1 DEF Stale
      <4>3. Before(f, Here)
        <5>1. /\ f[1] \in Nat /\ f[2] \in Nat /\ cutBy[1] \in Nat /\ cutBy[2] \in Nat
              /\ Here[1] \in Nat /\ Here[2] \in Nat
          BY <2>3, <4>1 DEF Stale, Placed
        <5> QED
          BY <4>1, <4>2, <5>1 DEF Stale, Before
      <4> QED
        BY <4>1, <4>3
    <3> QED
      BY <1>7, <3>1, <3>2
  <2>5. Adjoins(Here, NextPosition) /\ Before(Here, NextPosition)
    BY <2>1, <2>3, NextAdjoins, SingleUserAssumption DEF NextPosition, Placed
  <2>6. alarm = Here => Stale(alarm, Position)'
    BY <2>1, <2>2, <2>3, <2>4, <2>5 DEF Stale, Adjoins
  <2>7. failed' \subseteq Nat \X Nat
    BY <2>1, <2>3 DEF Placed
  <2> QED
    BY <1>1, <2>1, <2>2, <2>6, <2>7 DEF Placed, Pending, Cut
<1>8. CASE EndSingleUser
  <2>1. /\ spc = "close" /\ spc' = "idle" /\ run_num' = run_num + 1
        /\ UNCHANGED <<flag, alarm, cutBy, failed>>
    BY <1>8 DEF EndSingleUser
  <2>2. Position' = Position
    BY <2>1 DEF Position
  <2>3. \A a : Stale(a, Position) => Stale(a, Position)'
    BY <2>1, <2>2 DEF Stale, Adjoins
  <2> QED
    BY <1>1, <2>1, <2>3 DEF Placed, Pending, Cut
<1> QED
  BY <1>2, <1>3, <1>4, <1>5, <1>6, <1>7, <1>8 DEF SingleStep

\* So does every other step, the alarm's own among them.
LEMMA AlarmsStep == Ramping /\ InSingle /\ Alarms /\ [DriverNext]_allVars => Alarms'
<1> SUFFICES ASSUME Ramping, InSingle, Alarms, [DriverNext]_allVars PROVE Alarms'
  OBVIOUS
<1>1. invars'.mode = invars.mode
  BY SettingsKept DEF Ramping, Setting
<1>2. CASE EndMultiUser /\ UNCHANGED singleVars
  <2>1. /\ invars.mode = "multi" /\ run_num' = run_num + 1
        /\ UNCHANGED <<spc, item, flag, alarm, cutBy, failed>>
    BY <1>2 DEF EndMultiUser, Ramping, singleVars
  <2> QED
    BY <1>1, <2>1 DEF Alarms, Placed, Pending, Cut
<1>3. CASE UNCHANGED <<run_num, singleVars>>
  <2>1. UNCHANGED <<run_num, spc, item, flag, alarm, cutBy, failed>>
    BY <1>3 DEF singleVars
  <2>2. Position' = Position /\ Here' = Here
    BY <2>1 DEF Position, Here
  <2>3. /\ Stale(alarm, Position)' <=> Stale(alarm, Position)
        /\ Stale(cutBy, Here)' <=> Stale(cutBy, Here)
    BY <2>1, <2>2 DEF Stale, Adjoins
  <2> QED
    BY <1>1, <2>1, <2>2, <2>3 DEF Alarms, Placed, Pending, Cut
<1>4. CASE Next /\ UNCHANGED singleVars
  <2>1. EndMultiUser \/ run_num' = run_num
    BY <1>4 DEF Next, StartMultiUser, StartFails, KilledWhileCreating, Exits, CreatePool,
       CreatePoolFails, LoadPublished, LoadUnreported, ToolFails, Terminated, StopRamp,
       NextLoadPoint, Return
  <2> QED
    BY <1>2, <1>3, <1>4, <2>1
<1>5. CASE AlarmFires
  <2>1. /\ alarm # NoAlarm /\ alarm' = NoAlarm /\ flag' = 0
        /\ cutBy' = (IF flag = 1 THEN alarm ELSE cutBy)
        /\ UNCHANGED <<run_num, spc, item, failed>>
    BY <1>5 DEF AlarmFires, vars
  <2>2. Here' = Here /\ Here # NoAlarm
    BY <2>1 DEF Here, NoAlarm, Alarms, Placed
  <2>3. \A a : Stale(a, Here) => Stale(a, Here)'
    BY <2>1, <2>2 DEF Stale, Adjoins
  <2>4. spc = "armed" => Position = Here
    BY DEF Position
  <2>5. spc = "armed" => Stale(cutBy', Here)
    BY <2>1, <2>4 DEF Alarms, Placed, Pending, Cut
  <2>6. spc = "loop" => cutBy' \in {NoAlarm, Here} \/ Stale(cutBy', Here)
    BY <2>1 DEF Alarms, Placed, Pending, Cut
  <2>7. Stale(cutBy', Here) => Stale(cutBy, Here)'
    BY <2>1, <2>2 DEF Stale, Adjoins
  <2> QED
    BY <1>1, <2>1, <2>2, <2>5, <2>6, <2>7 DEF Alarms, Placed, Pending, Cut
<1>6. CASE SingleStep
  BY <1>6, AlarmsSingle
<1>7. CASE UNCHANGED allVars
  BY <1>3, <1>7 DEF allVars, vars
<1> QED
  BY <1>4, <1>5, <1>6, <1>7 DEF DriverNext

\* The invariant of the alarms.
THEOREM AlarmsHold == DriverSpec => []Alarms
<1>1. Recording => InSingle
  BY DEF Recording
<1> QED
  BY <1>1, AlarmsInit, AlarmsStep, RampingHolds, RecordingHolds, PTL DEF DriverSpec

\* A test is timed by another alarm than its own only by that of the test before it,
\* and only after a failure, for any workfile, any number of repeats and any timing
\* (alarm() in singleuser(), which never cancels the alarm of a failed test).
THEOREM CutShortHolds == DriverSpec => []CutShortAfterFailureOnly
<1>1. Alarms => CutShortAfterFailureOnly
  <2> SUFFICES ASSUME Alarms, spc = "loop", cutBy \notin {NoAlarm, Here}
               PROVE  /\ \E f \in failed : Before(f, Here)
                      /\ \A t \in Hit, r \in 1 .. run_num :
                           ~(Before(cutBy, <<r, t>>) /\ Before(<<r, t>>, Here))
    BY DEF CutShortAfterFailureOnly
  <2>1. Stale(cutBy, Here) /\ failed \subseteq Nat \X Nat /\ run_num \in Nat /\ item \in 1 .. NTests
    BY DEF Alarms, Cut, Placed
  <2>2. PICK f \in failed : f = cutBy \/ Before(f, cutBy)
    BY <2>1 DEF Stale
  <2>3. Before(f, Here)
    <3>1. /\ f[1] \in Nat /\ f[2] \in Nat /\ cutBy[1] \in Nat /\ cutBy[2] \in Nat
          /\ Here[1] \in Nat /\ Here[2] \in Int
      BY <2>1, SingleUserAssumption DEF Stale, Here
    <3> QED
      BY <2>1, <2>2, <3>1 DEF Stale, Before
  <2> QED
    BY <2>1, <2>3 DEF Stale, Adjoins
<1> QED
  BY <1>1, AlarmsHold, PTL

-----------------------------------------------------------------------------
(* Types.                                                                  *)

\* A repeat is counted off when it is over.
Started ==
  /\ run_num = invars.repeat - repeat + 1
  /\ pc \in Busy \/ spc # "idle" => repeat > 0
  /\ spc \in {"item", "armed", "loop"} => item \in 1 .. NTests
Types == DriverTypeOK /\ Started

\* The initial values have their types.
LEMMA TypesInit == SingleInit => Types
<1> SUFFICES ASSUME SingleInit PROVE Types
  OBVIOUS
<1>1. Init
  BY DEF SingleInit
<1>2. invars \in Setting
  BY RampingInit DEF Ramping
<1>3. invars.repeat \in Nat
  BY <1>2 DEF Setting
<1>4. PICK old \in {{}, {<<0, 0>>}} :
        file = [f \in ReportFile |-> IF f = "multiuser.ss" THEN old ELSE {}]
  BY <1>1 DEF Init
<1>5. file \in [ReportFile -> SUBSET Line]
  BY <1>4, <1>3 DEF Line
<1>6. saved \in [ReportFile -> [1 .. invars.repeat -> SUBSET Line]]
  BY <1>1 DEF Init
<1>7. work \in [Dirs -> Size] /\ fn1arr \subseteq Dirs /\ fakeh \subseteq Dirs
  BY <1>1 DEF Init, Size
<1>8. TypeOK
  <2>1. repeat = invars.repeat /\ run_num = 1 /\ runnum = 0 /\ adapt_cnt = 0 /\ unreported = 0
    BY <1>1 DEF Init
  <2>2. pc = "main" /\ how = "" /\ reported = {}
    BY <1>1 DEF Init
  <2>3. repeat \in 0 .. invars.repeat
    BY <1>3, <2>1
  <2>4. run_num \in 1 .. invars.repeat + 1
    BY <1>3, <2>1
  <2>5. tpm \in [all : Nat, user : Nat] /\ timers \in Nat \X Nat
        /\ mjobs \in Nat \X Nat \X Nat \X Nat \X Nat
    BY <1>1 DEF Init
  <2>6. runnum \in Nat /\ adapt_cnt \in 0 .. 9 /\ unreported \in 0 .. MaxUnreported
    BY <2>1, MultiUserAssumption
  <2>7. /\ pc \in {"main", "pool", "runloop", "rules", "end", "exited"}
        /\ how \in {"", "complete", "killed", "tool"} /\ reported \subseteq Line
    BY <2>2, Zenon
  <2> QED
    BY <1>2, <1>5, <1>6, <1>7, <2>3, <2>4, <2>5, <2>6, <2>7, Zenon DEF TypeOK
<1>9. SingleTypeOK
  <2>1. /\ spc = "idle" /\ item = 0 /\ placed = {} /\ flag = 0 /\ alarm = <<0, 0>> /\ cutBy = <<0, 0>>
        /\ count = 0 /\ single = {} /\ kept = [r \in 1 .. invars.repeat |-> {}] /\ failed = {}
    BY DEF SingleInit, NoAlarm
  <2> QED
    BY <2>1, SingleUserAssumption DEF SingleTypeOK
<1>10. Started
  <2>1. pc = "main" /\ spc = "idle" /\ repeat = invars.repeat /\ run_num = 1
    BY <1>1 DEF SingleInit, Init
  <2>2. run_num = invars.repeat - repeat + 1
    BY <1>3, <2>1
  <2> QED
    BY <2>1, <2>2 DEF Started, Busy, Measuring
<1> QED
  BY <1>8, <1>9, <1>10 DEF Types, DriverTypeOK

\* The counters of repeats.
LEMMA CountersTyped ==
  ASSUME Types, Ramping, Ramping', InSingle, [DriverNext]_allVars
  PROVE  /\ repeat' \in 0 .. invars'.repeat /\ run_num' \in 1 .. invars'.repeat + 1
         /\ invars'.repeat = invars.repeat /\ Dirs' = Dirs /\ Line' = Line
         /\ Started'
<1>1. /\ invars'.repeat = invars.repeat /\ Dirs' = Dirs /\ Line' = Line /\ invars.repeat \in Nat
      /\ invars'.mode = invars.mode
  BY SettingsKept DEF Ramping, Setting, Dirs, Line
<1>2. /\ repeat \in 0 .. invars.repeat /\ Started
      /\ spc \in {"idle", "item", "armed", "loop", "close"} /\ item \in 0 .. NTests
  BY DEF Types, DriverTypeOK, TypeOK, SingleTypeOK
<1>3. \/ UNCHANGED <<repeat, run_num>>
      \/ repeat > 0 /\ repeat' = repeat - 1 /\ run_num' = run_num + 1
  <2>1. CASE Next
    BY <1>2, <2>1 DEF Next, StartMultiUser, StartFails, KilledWhileCreating, Exits, CreatePool,
       CreatePoolFails, LoadPublished, LoadUnreported, ToolFails, Terminated, StopRamp,
       NextLoadPoint, EndMultiUser, Return, Started, Busy
  <2>2. CASE SingleStep \/ AlarmFires
    BY <1>2, <2>2 DEF SingleStep, AlarmFires, StartSingleUser, SkipItem, SetFlag, SetAlarm, RunOnce,
       TestFails, ReportTest, EndSingleUser, Started, vars
  <2>3. CASE UNCHANGED allVars
    BY <2>3 DEF allVars, vars
  <2> QED
    BY <2>1, <2>2, <2>3 DEF DriverNext
<1>4. /\ repeat' \in 0 .. invars'.repeat /\ run_num' \in 1 .. invars'.repeat + 1
      /\ run_num' = invars'.repeat - repeat' + 1
  BY <1>1, <1>2, <1>3 DEF Started
<1>5. /\ pc' \in Busy \/ spc' # "idle" => repeat' > 0
      /\ spc' \in {"item", "armed", "loop"} => item' \in 1 .. NTests
  <2>1. CASE Next /\ UNCHANGED singleVars
    <3>1. UNCHANGED <<spc, item>>
      BY <2>1 DEF singleVars
    <3>2. CASE EndMultiUser
      BY <1>1, <1>2, <3>1, <3>2 DEF EndMultiUser, Ramping, InSingle, Busy, Measuring
    <3>3. CASE StartMultiUser
      BY <1>2, <3>1, <3>3 DEF StartMultiUser, Started
    <3>4. CASE ~EndMultiUser /\ ~StartMultiUser
      <4>1. repeat' = repeat /\ (pc' \in Busy => pc \in Busy)
        BY <2>1, <3>4 DEF Next, StartFails, KilledWhileCreating, Exits, CreatePool,
           CreatePoolFails, LoadPublished, LoadUnreported, ToolFails, Terminated, StopRamp,
           NextLoadPoint, Return, Busy, Measuring
      <4> QED
        BY <1>2, <3>1, <4>1 DEF Started
    <3> QED
      BY <3>2, <3>3, <3>4
  <2>2. CASE SingleStep \/ AlarmFires
    <3>1. pc' = "main"
      BY <2>2, SingleKeepsRamp
    <3>2. CASE EndSingleUser
      BY <3>1, <3>2 DEF EndSingleUser, Busy, Measuring
    <3>3. CASE StartSingleUser
      BY <3>1, <3>3, SingleUserAssumption DEF StartSingleUser, Busy, Measuring
    <3>4. CASE ~EndSingleUser /\ ~StartSingleUser
      BY <1>2, <2>2, <3>1, <3>4, SingleUserAssumption DEF SingleStep, AlarmFires, SkipItem, SetFlag,
         SetAlarm, RunOnce, TestFails, ReportTest, NextItem, Started, Busy, Measuring, vars
    <3> QED
      BY <3>2, <3>3, <3>4
  <2>3. CASE UNCHANGED allVars
    BY <1>2, <2>3 DEF allVars, vars, singleVars, Started
  <2> QED
    BY <2>1, <2>2, <2>3 DEF DriverNext
<1> QED
  BY <1>1, <1>4, <1>5 DEF Started

\* What the ramp computes.
LEMMA RatesTyped ==
  ASSUME Types, Ramping, Ramping', [DriverNext]_allVars
  PROVE  /\ tpm' \in [all : Nat, user : Nat] /\ adapt_cnt' \in 0 .. 9
         /\ mjobs' \in Nat \X Nat \X Nat \X Nat \X Nat
<1>1. /\ tpm \in [all : Nat, user : Nat] /\ adapt_cnt \in 0 .. 9
      /\ mjobs \in Nat \X Nat \X Nat \X Nat \X Nat
  BY DEF Types, DriverTypeOK, TypeOK
<1>2. CASE \E t \in Times : LoadPublished(t)
  <2>1. PICK t \in Times : LoadPublished(t)
    BY <1>2
  <2>2. t \in Nat \ {0}
    BY MultiUserAssumption
  <2> DEFINE j == 60 * invars.jobs
             ju == 60 * invars.jobs * runnum
  <2>3. tpm' = [all |-> ju \div t, user |-> j \div t]
    BY <2>1 DEF LoadPublished, JobsPerMinute
  <2>4. ju \in Nat /\ j \in Nat
    BY DEF Ramping, Setting
  <2> HIDE DEF j, ju
  <2>5. ju \div t \in Nat /\ j \div t \in Nat
    BY <2>2, <2>4, DivisionRest
  <2> QED
    BY <1>1, <2>1, <2>3, <2>5 DEF LoadPublished
<1>3. CASE StopRamp \/ NextLoadPoint
  <2>1. MJobsAfter \in Nat \X Nat \X Nat \X Nat \X Nat
    BY <1>1 DEF MJobsAfter, NewRates
  <2> QED
    BY <1>1, <1>3, <2>1 DEF StopRamp, NextLoadPoint
<1>4. CASE StartMultiUser
  BY <1>4 DEF StartMultiUser
<1>5. CASE UNCHANGED <<tpm, adapt_cnt, mjobs>>
  BY <1>1, <1>5
<1>6. CASE \/ StartFails \/ CreatePoolFails \/ ToolFails \/ Terminated \/ Return
           \/ CreatePool \/ LoadUnreported \/ EndMultiUser
  BY <1>5, <1>6 DEF StartFails, CreatePoolFails, KilledWhileCreating, ToolFails, Terminated, Return,
     CreatePool, LoadUnreported, EndMultiUser, Exits, rampVars
<1>7. CASE SingleStep \/ AlarmFires \/ UNCHANGED allVars
  BY <1>5, <1>7, SingleKeepsRamp DEF allVars, vars, rampVars
<1> QED
  BY <1>2, <1>3, <1>4, <1>6, <1>7 DEF DriverNext, Next

\* Directories with files.
LEMMA FilesTyped ==
  ASSUME Types, Ramping, Ramping', [DriverNext]_allVars, Dirs' = Dirs
  PROVE  fn1arr' \subseteq Dirs /\ fakeh' \subseteq Dirs
<1>1. fn1arr \subseteq Dirs /\ fakeh \subseteq Dirs /\ invars.numdirs \in Nat
  BY DEF Types, DriverTypeOK, TypeOK, Ramping, Setting
<1>2. \A d \in Dirs : 1 .. d - 1 \subseteq Dirs
  BY <1>1 DEF Dirs
<1>3. CASE StartMultiUser \/ CreatePool
  BY <1>1, <1>3 DEF StartMultiUser, CreatePool, CreateAllFiles
<1>4. CASE StartFails \/ CreatePoolFails
  BY <1>1, <1>4 DEF StartFails, CreatePoolFails, KilledWhileCreating
<1>5. CASE \/ ToolFails \/ Terminated \/ Return \/ LoadUnreported \/ EndMultiUser \/ StopRamp
           \/ NextLoadPoint \/ \E t \in Times : LoadPublished(t)
  BY <1>1, <1>5 DEF ToolFails, Terminated, Return, LoadUnreported, EndMultiUser, StopRamp,
     NextLoadPoint, LoadPublished, diskVars
<1>6. CASE SingleStep \/ AlarmFires
  BY <1>1, <1>2, <1>6 DEF SingleStep, AlarmFires, StartSingleUser, SkipItem, SetFlag, SetAlarm, RunOnce,
     TestFails, ReportTest, EndSingleUser, CreateAllFiles, vars, diskVars
<1>7. CASE UNCHANGED allVars
  BY <1>1, <1>7 DEF allVars, vars, diskVars
<1> QED
  BY <1>3, <1>4, <1>5, <1>6, <1>7 DEF DriverNext, Next

\* Lines of the reports.
LEMMA LinesTyped ==
  ASSUME Types, Ramping, Ramping', [DriverNext]_allVars, invars'.repeat = invars.repeat
  PROVE  /\ file' \in [ReportFile -> SUBSET Line] /\ reported' \subseteq Line
         /\ saved' \in [ReportFile -> [1 .. invars.repeat -> SUBSET Line]]
         /\ unreported' \in 0 .. MaxUnreported /\ how' \in {"", "complete", "killed", "tool"}
<1>1. /\ file \in [ReportFile -> SUBSET Line] /\ reported \subseteq Line
      /\ saved \in [ReportFile -> [1 .. invars.repeat -> SUBSET Line]]
      /\ unreported \in 0 .. MaxUnreported /\ how \in {"", "complete", "killed", "tool"}
  BY DEF Types, DriverTypeOK, TypeOK
<1>2. pc \in Busy => <<run_num, runnum>> \in Line
  <2>1. repeat \in 0 .. invars.repeat /\ runnum \in Nat /\ invars.repeat \in Nat
    BY DEF Types, DriverTypeOK, TypeOK, Ramping, Setting
  <2> QED
    BY <2>1 DEF Types, Started, Line
<1>3. CASE StartMultiUser
  BY <1>1, <1>3 DEF StartMultiUser
<1>4. CASE \E t \in Times : LoadPublished(t)
  <2>1. <<run_num, runnum>> \in Line
    BY <1>2, <1>4 DEF LoadPublished, Busy, Measuring
  <2> QED
    BY <1>1, <1>4, <2>1 DEF LoadPublished
<1>5. CASE EndMultiUser
  <2> DEFINE closed == [file EXCEPT !["maxjobs"] = IF invars.brief THEN {<<run_num, runnum>>} ELSE @]
  <2>1. <<run_num, runnum>> \in Line
    BY <1>2, <1>5 DEF EndMultiUser, Busy, Measuring
  <2>2. closed \in [ReportFile -> SUBSET Line]
    BY <1>1, <2>1 DEF ReportFile
  <2>3. /\ IF repeat > 1
             THEN /\ file' = [f \in ReportFile |-> IF f \in Renamed THEN {} ELSE closed[f]]
                  /\ saved' = [f \in ReportFile |->
                       IF f \in Renamed THEN [saved[f] EXCEPT ![run_num] = closed[f]] ELSE saved[f]]
             ELSE file' = closed /\ UNCHANGED saved
        /\ UNCHANGED <<reported, unreported, how>>
    BY <1>5 DEF EndMultiUser
  <2> HIDE DEF closed
  <2>4. file' \in [ReportFile -> SUBSET Line]
    BY <2>2, <2>3
  <2>5. saved' \in [ReportFile -> [1 .. invars.repeat -> SUBSET Line]]
    <3>1. \A f \in ReportFile : [saved[f] EXCEPT ![run_num] = closed[f]]
                                  \in [1 .. invars.repeat -> SUBSET Line]
      <4> SUFFICES ASSUME NEW f \in ReportFile
                   PROVE  [saved[f] EXCEPT ![run_num] = closed[f]] \in [1 .. invars.repeat -> SUBSET Line]
        OBVIOUS
      <4>1. saved[f] \in [1 .. invars.repeat -> SUBSET Line] /\ closed[f] \in SUBSET Line
        BY <1>1, <2>2
      <4> QED
        BY <4>1
    <3>2. CASE repeat > 1
      <4> DEFINE moved(f) == IF f \in Renamed THEN [saved[f] EXCEPT ![run_num] = closed[f]] ELSE saved[f]
      <4>1. saved' = [f \in ReportFile |-> moved(f)]
        BY <2>3, <3>2
      <4>2. \A f \in ReportFile : moved(f) \in [1 .. invars.repeat -> SUBSET Line]
        BY <1>1, <3>1
      <4> HIDE DEF moved
      <4> QED
        BY <4>1, <4>2
    <3>3. CASE ~(repeat > 1)
      BY <1>1, <2>3, <3>3
    <3> QED
      BY <3>2, <3>3
  <2> QED
    BY <1>1, <2>3, <2>4, <2>5
<1>6. CASE UNCHANGED <<file, reported, saved>>
  <2>1. unreported' \in 0 .. MaxUnreported /\ how' \in {"", "complete", "killed", "tool"}
    <3>1. CASE LoadUnreported
      <4>1. unreported < MaxUnreported /\ unreported' = unreported + 1 /\ how' = how
        BY <3>1 DEF LoadUnreported
      <4>2. unreported \in 0 .. MaxUnreported /\ MaxUnreported \in Nat
        BY <1>1, MultiUserAssumption
      <4>3. unreported' \in 0 .. MaxUnreported
        BY <4>1, <4>2
      <4> QED
        BY <1>1, <4>1, <4>3
    <3>2. CASE ~LoadUnreported
      BY <1>1, <3>2, SingleKeepsRamp DEF DriverNext, Next, StartMultiUser, StartFails, KilledWhileCreating,
         Exits, CreatePool, CreatePoolFails, LoadPublished, ToolFails, Terminated, StopRamp,
         NextLoadPoint, EndMultiUser, Return, SingleStep, AlarmFires, StartSingleUser, SkipItem, SetFlag,
         SetAlarm, RunOnce, TestFails, ReportTest, EndSingleUser, allVars, vars, fileVars
    <3> QED
      BY <3>1, <3>2
  <2> QED
    BY <1>1, <1>6, <2>1
<1>7. CASE ~StartMultiUser /\ ~EndMultiUser /\ ~\E t \in Times : LoadPublished(t)
  BY <1>6, <1>7 DEF DriverNext, Next, StartFails, KilledWhileCreating, Exits, CreatePool,
     CreatePoolFails, LoadUnreported, ToolFails, Terminated, StopRamp, NextLoadPoint, Return,
     SingleStep, AlarmFires, StartSingleUser, SkipItem, SetFlag, SetAlarm, RunOnce, TestFails,
     ReportTest, EndSingleUser, allVars, vars, fileVars
<1> QED
  BY <1>3, <1>4, <1>5, <1>7

\* The state of a single user run.
LEMMA SingleTyped ==
  ASSUME Types, Ramping, Ramping', [DriverNext]_allVars, invars'.repeat = invars.repeat
  PROVE  SingleTypeOK'
<1> DEFINE Alarm == Nat \X (0 .. NTests)
           Report == (1 .. invars.repeat) \X (1 .. NTests) \X {0, 1}
           Failure == (1 .. invars.repeat) \X (1 .. NTests)
<1>1. /\ spc \in {"idle", "item", "armed", "loop", "close"} /\ item \in 0 .. NTests
      /\ placed \subseteq Disks /\ flag \in {0, 1} /\ alarm \in Alarm /\ cutBy \in Alarm
      /\ count \in {0, 1} /\ single \subseteq Report /\ DOMAIN kept = 1 .. invars.repeat
      /\ failed \subseteq Failure
  BY DEF Types, DriverTypeOK, SingleTypeOK
<1>2. ASSUME /\ spc' \in {"idle", "item", "armed", "loop", "close"} /\ item' \in 0 .. NTests
             /\ placed' \subseteq Disks /\ flag' \in {0, 1} /\ alarm' \in Alarm /\ cutBy' \in Alarm
             /\ count' \in {0, 1} /\ single' \subseteq Report /\ DOMAIN kept' = 1 .. invars.repeat
             /\ failed' \subseteq Failure
      PROVE  SingleTypeOK'
  BY <1>2 DEF SingleTypeOK
<1>3. spc = "loop" => Here \in Failure /\ Here \in Alarm
  <2>1. repeat \in 0 .. invars.repeat /\ invars.repeat \in Nat
    BY DEF Types, DriverTypeOK, TypeOK, Ramping, Setting
  <2> QED
    BY <2>1, SingleUserAssumption DEF Types, Started, Here
<1>4. spc = "armed" => Here \in Alarm
  <2>1. repeat \in 0 .. invars.repeat /\ invars.repeat \in Nat
    BY DEF Types, DriverTypeOK, TypeOK, Ramping, Setting
  <2> QED
    BY <2>1, SingleUserAssumption DEF Types, Started, Here
<1>5. NoAlarm \in Alarm
  BY SingleUserAssumption DEF NoAlarm
<1>6. NextItem => spc' \in {"item", "close"} /\ item' \in 0 .. NTests
  BY <1>1, SingleUserAssumption DEF NextItem
<1>7. CASE UNCHANGED singleVars
  BY <1>1, <1>2, <1>7 DEF singleVars
<1>8. CASE StartSingleUser
  BY <1>1, <1>2, <1>8, SingleUserAssumption DEF StartSingleUser
<1>9. CASE SkipItem
  BY <1>1, <1>2, <1>6, <1>9 DEF SkipItem
<1>10. CASE SetFlag
  BY <1>1, <1>2, <1>5, <1>10 DEF SetFlag
<1>11. CASE SetAlarm
  BY <1>1, <1>2, <1>4, <1>11 DEF SetAlarm, PendingAfterAlarm
<1>12. CASE RunOnce
  BY <1>1, <1>2, <1>12 DEF RunOnce
<1>13. CASE TestFails
  BY <1>1, <1>2, <1>3, <1>6, <1>13 DEF TestFails
<1>14. CASE ReportTest
  <2>1. <<run_num, item, count>> \in Report
    BY <1>1, <1>3, <1>14 DEF ReportTest, Here
  <2> QED
    BY <1>1, <1>2, <1>6, <1>14, <2>1 DEF ReportTest
<1>15. CASE EndSingleUser
  BY <1>1, <1>2, <1>15 DEF EndSingleUser
<1>16. CASE AlarmFires
  BY <1>1, <1>2, <1>5, <1>16 DEF AlarmFires
<1> QED
  BY <1>7, <1>8, <1>9, <1>10, <1>11, <1>12, <1>13, <1>14, <1>15, <1>16
  DEF DriverNext, SingleStep, allVars

\* Each step keeps the types.
LEMMA TypesStep == Types /\ Filed /\ Ramping /\ Ramping' /\ Filed' /\ [DriverNext]_allVars => Types'
<1> SUFFICES ASSUME Types, Filed, Ramping, Ramping', Filed', [DriverNext]_allVars PROVE Types'
  OBVIOUS
<1>1. /\ repeat' \in 0 .. invars'.repeat /\ run_num' \in 1 .. invars'.repeat + 1
      /\ invars'.repeat = invars.repeat /\ Dirs' = Dirs /\ Line' = Line /\ Started'
  BY CountersTyped DEF Filed
<1>2. /\ tpm' \in [all : Nat, user : Nat] /\ adapt_cnt' \in 0 .. 9
      /\ mjobs' \in Nat \X Nat \X Nat \X Nat \X Nat
  BY RatesTyped
<1>3. fn1arr' \subseteq Dirs /\ fakeh' \subseteq Dirs
  BY <1>1, FilesTyped
<1>4. /\ file' \in [ReportFile -> SUBSET Line] /\ reported' \subseteq Line
      /\ saved' \in [ReportFile -> [1 .. invars.repeat -> SUBSET Line]]
      /\ unreported' \in 0 .. MaxUnreported /\ how' \in {"", "complete", "killed", "tool"}
  BY <1>1, LinesTyped
<1>5. /\ pc' \in {"main", "pool", "runloop", "rules", "end", "exited"}
      /\ invars' \in Setting /\ runnum' \in Nat /\ timers' \in Nat \X Nat
  BY DEF Ramping
<1>6. work' \in [Dirs' -> Size]
  BY <1>1 DEF Filed, Size
<1>7. TypeOK'
  BY <1>1, <1>2, <1>3, <1>4, <1>5, <1>6 DEF TypeOK
<1>8. SingleTypeOK'
  BY <1>1, SingleTyped
<1> QED
  BY <1>1, <1>7, <1>8 DEF Types, DriverTypeOK

\* The invariant of the types.
THEOREM TypesHold == DriverSpec => []Types
BY TypesInit, TypesStep, FiledHolds, RampingHolds, PTL DEF DriverSpec

\* Every variable of the driver keeps its type: the increment stays positive however
\* the adaptive timer changes it, and repeats and their numbers stay within the order.
THEOREM DriverTypeCorrect == DriverSpec => []DriverTypeOK
<1>1. Types => DriverTypeOK
  BY DEF Types
<1> QED
  BY <1>1, TypesHold, PTL

-----------------------------------------------------------------------------
(* Reports.                                                                *)

LinesFor(report, r, t) == {l \in report : l[1] = r /\ l[2] = t}
Answers(report, r, t) ==
  IF <<r, t>> \in failed THEN LinesFor(report, r, t) = {}
                         ELSE \E n : LinesFor(report, r, t) = {<<r, t, n>>}
Unasked(t) == LinesFor(single, run_num, t) = {} /\ <<run_num, t>> \notin failed
\* The tests before the present one have been answered, the others not been asked.
Behind(t) == spc = "close" \/ t < item

Answering ==
  invars.mode = "single" =>
    /\ \A r \in 1 .. run_num - 1 : \A t \in Hit : Answers(SingleReport(r), r, t)
    /\ spc # "idle" => \A t \in Hit : IF Behind(t) THEN Answers(single, run_num, t) ELSE Unasked(t)
    /\ \A f \in failed : f[1] \in 1 .. run_num
    /\ spc = "idle" => \A f \in failed : f[1] # run_num

\* There is nothing to answer at the start.
LEMMA AnsweringInit == SingleInit => Answering
<1> SUFFICES ASSUME SingleInit PROVE Answering
  OBVIOUS
<1>1. run_num = 1 /\ spc = "idle" /\ failed = {}
  BY DEF SingleInit, Init
<1> QED
  BY <1>1 DEF Answering

\* Each step of singleuser() answers the present test or leaves it as it is.
LEMMA AnsweringSingle ==
  ASSUME Ramping, Types, InSingle, Answering, SingleStep
  PROVE  Answering'
<1>1. /\ invars' = invars /\ invars.mode = "single"
  BY SingleKeepsRamp DEF InSingle, SingleStep, StartSingleUser, SkipItem, SetFlag, SetAlarm, RunOnce,
     TestFails, ReportTest, EndSingleUser
<1>2. /\ repeat \in 0 .. invars.repeat /\ invars.repeat \in Nat
      /\ run_num = invars.repeat - repeat + 1 /\ run_num \in Nat \ {0}
      /\ spc # "idle" => repeat > 0 /\ run_num <= invars.repeat
      /\ DOMAIN kept = 1 .. invars.repeat
      /\ spc \in {"item", "armed", "loop"} => item \in 1 .. NTests
      /\ \A f \in failed : f = <<f[1], f[2]>>
  <2>1. repeat \in 0 .. invars.repeat /\ invars.repeat \in Nat
    BY DEF Types, DriverTypeOK, TypeOK, Ramping, Setting
  <2>2. run_num = invars.repeat - repeat + 1 /\ (spc # "idle" => repeat > 0)
    BY DEF Types, Started
  <2>3. run_num \in Nat \ {0} /\ (repeat > 0 => run_num <= invars.repeat)
    BY <2>1, <2>2
  <2>4. spc \in {"item", "armed", "loop"} => item \in 1 .. NTests
    BY DEF Types, Started
  <2>5. DOMAIN kept = 1 .. invars.repeat /\ \A f \in failed : f = <<f[1], f[2]>>
    BY DEF Types, DriverTypeOK, SingleTypeOK
  <2> QED
    BY <2>1, <2>2, <2>3, <2>4, <2>5
<1>3. /\ \A r \in 1 .. run_num - 1 : \A t \in Hit : Answers(SingleReport(r), r, t)
      /\ spc # "idle" => \A t \in Hit : IF Behind(t) THEN Answers(single, run_num, t) ELSE Unasked(t)
      /\ \A f \in failed : f[1] \in 1 .. run_num
      /\ spc = "idle" => \A f \in failed : f[1] # run_num
  BY <1>1 DEF Answering
<1>4. \A t \in Hit : t \in 1 .. NTests
  BY SingleUserAssumption
<1>5. repeat > 0 => \A r \in 1 .. run_num - 1 : SingleReport(r) = kept[r]
  BY <1>2 DEF SingleReport
<1>6. CASE StartSingleUser
  <2>1. /\ spc = "idle" /\ repeat > 0 /\ spc' = "item" /\ item' = 1 /\ single' = {}
        /\ UNCHANGED <<run_num, failed, kept>>
    BY <1>6 DEF StartSingleUser
  <2>2. ASSUME NEW r \in 1 .. run_num - 1, NEW t \in Hit
        PROVE  Answers(SingleReport(r), r, t)'
    <3>1. SingleReport(r)' = kept[r] /\ SingleReport(r) = kept[r]
      BY <1>1, <1>2, <1>5, <2>1 DEF SingleReport
    <3> QED
      BY <1>3, <2>1, <3>1 DEF Answers, LinesFor
  <2>3. ASSUME NEW t \in Hit
        PROVE  ~Behind(t)' /\ Unasked(t)'
    BY <1>3, <1>4, <2>1 DEF Behind, Unasked, LinesFor
  <2> QED
    BY <1>1, <1>3, <2>1, <2>2, <2>3 DEF Answering
<1>7. CASE SkipItem
  <2>1. /\ spc = "item" /\ item \notin Hit /\ NextItem
        /\ UNCHANGED <<run_num, failed, kept, single>>
    BY <1>7 DEF SkipItem, vars
  <2>2. \A t \in Hit : Behind(t)' <=> Behind(t)
    <3> SUFFICES ASSUME NEW t \in Hit PROVE Behind(t)' <=> Behind(t)
      OBVIOUS
    <3>1. t \in 1 .. NTests /\ t # item /\ item \in 1 .. NTests /\ NTests \in Nat
      BY <1>2, <1>4, <2>1, SingleUserAssumption
    <3>2. CASE item < NTests
      BY <2>1, <3>1, <3>2 DEF Behind, NextItem
    <3>3. CASE ~(item < NTests)
      BY <2>1, <3>1, <3>3 DEF Behind, NextItem
    <3> QED
      BY <3>2, <3>3
  <2>3. ASSUME NEW r \in 1 .. run_num - 1, NEW t \in Hit
        PROVE  Answers(SingleReport(r), r, t)'
    BY <1>1, <1>3, <2>1 DEF SingleReport, Answers, LinesFor
  <2>4. ASSUME NEW t \in Hit
        PROVE  (IF Behind(t) THEN Answers(single, run_num, t) ELSE Unasked(t))'
    BY <1>3, <2>1, <2>2 DEF Answers, Unasked, LinesFor
  <2>5. spc' # "idle"
    BY <2>1 DEF NextItem
  <2> QED
    BY <1>1, <1>3, <2>1, <2>3, <2>4, <2>5 DEF Answering
<1>8. CASE SetFlag \/ SetAlarm \/ RunOnce
  <2>1. /\ spc # "idle" /\ spc' # "idle" /\ (spc' = "close" <=> spc = "close")
        /\ UNCHANGED <<item, run_num, failed, kept, single>>
    BY <1>8 DEF SetFlag, SetAlarm, RunOnce, vars
  <2>2. ASSUME NEW r \in 1 .. run_num - 1, NEW t \in Hit
        PROVE  Answers(SingleReport(r), r, t)'
    BY <1>1, <1>3, <2>1 DEF SingleReport, Answers, LinesFor
  <2>3. ASSUME NEW t \in Hit
        PROVE  (IF Behind(t) THEN Answers(single, run_num, t) ELSE Unasked(t))'
    BY <1>3, <2>1 DEF Answers, Unasked, LinesFor, Behind
  <2> QED
    BY <1>1, <1>3, <2>1, <2>2, <2>3 DEF Answering
<1>9. CASE TestFails \/ ReportTest
  <2>1. /\ spc = "loop" /\ NextItem /\ UNCHANGED <<run_num, kept>> /\ item \in 1 .. NTests
        /\ spc' # "idle"
    BY <1>2, <1>9 DEF TestFails, ReportTest, vars, NextItem
  <2>2. \/ failed' = failed \cup {<<run_num, item>>} /\ single' = single
        \/ failed' = failed /\ single' = single \cup {<<run_num, item, count>>}
    BY <1>9 DEF TestFails, ReportTest, Here
  <2>3. \A t \in Hit : Behind(t)' <=> Behind(t) \/ t = item
    <3> SUFFICES ASSUME NEW t \in Hit PROVE Behind(t)' <=> Behind(t) \/ t = item
      OBVIOUS
    <3>1. t \in 1 .. NTests /\ item \in 1 .. NTests /\ NTests \in Nat
      BY <1>4, <2>1, SingleUserAssumption
    <3>2. CASE item < NTests
      BY <2>1, <3>1, <3>2 DEF Behind, NextItem
    <3>3. CASE ~(item < NTests)
      BY <2>1, <3>1, <3>3 DEF Behind, NextItem
    <3> QED
      BY <3>2, <3>3
  <2>4. \A r \in 1 .. run_num - 1 : SingleReport(r) = kept[r] /\ SingleReport(r)' = kept[r]
    BY <1>1, <1>2, <1>5, <2>1 DEF SingleReport
  <2>5. ASSUME NEW r \in 1 .. run_num - 1, NEW t \in Hit
        PROVE  Answers(SingleReport(r), r, t)'
    <3>1. <<r, t>> \in failed' <=> <<r, t>> \in failed
      BY <1>2, <2>2
    <3>2. Answers(kept[r], r, t)
      BY <1>3, <2>4
    <3> QED
      BY <2>1, <2>4, <3>1, <3>2 DEF Answers, LinesFor
  <2>6. ASSUME NEW t \in Hit, t # item
        PROVE  (IF Behind(t) THEN Answers(single, run_num, t) ELSE Unasked(t))'
    <3>1. <<run_num, t>> \in failed' <=> <<run_num, t>> \in failed
      BY <2>2, <2>6
    <3>2. LinesFor(single', run_num, t) = LinesFor(single, run_num, t)
      BY <2>2, <2>6 DEF LinesFor
    <3>3. IF Behind(t) THEN Answers(single, run_num, t) ELSE Unasked(t)
      BY <1>3, <2>1
    <3> QED
      BY <2>1, <2>3, <2>6, <3>1, <3>2, <3>3 DEF Answers, Unasked, LinesFor
  <2>7. ASSUME NEW t \in Hit, t = item
        PROVE  Answers(single, run_num, t)'
    <3>1. LinesFor(single, run_num, t) = {} /\ <<run_num, t>> \notin failed
      BY <1>2, <1>3, <2>1, <2>7 DEF Behind, Unasked
    <3>2. CASE failed' = failed \cup {<<run_num, item>>} /\ single' = single
      BY <2>1, <2>7, <3>1, <3>2 DEF Answers, LinesFor
    <3>3. CASE failed' = failed /\ single' = single \cup {<<run_num, item, count>>}
      <4>1. LinesFor(single', run_num, t) = {<<run_num, t, count>>}
        BY <2>7, <3>1, <3>3 DEF LinesFor
      <4> QED
        BY <2>1, <3>1, <3>3, <4>1 DEF Answers
    <3> QED
      BY <2>2, <3>2, <3>3
  <2>8. \A f \in failed' : f[1] \in 1 .. run_num'
    BY <1>2, <1>3, <2>1, <2>2
  <2> QED
    BY <1>1, <2>1, <2>3, <2>5, <2>6, <2>7, <2>8 DEF Answering
<1>10. CASE EndSingleUser
  <2>1. /\ spc = "close" /\ spc' = "idle" /\ run_num' = run_num + 1 /\ repeat' = repeat - 1
        /\ failed' = failed
        /\ IF repeat > 1
             THEN single' = {} /\ kept' = [kept EXCEPT ![run_num] = single]
             ELSE UNCHANGED <<single, kept>>
    BY <1>10 DEF EndSingleUser, MovesReport
  <2>2. \A t \in Hit : Answers(single, run_num, t)
    BY <1>3, <2>1 DEF Behind
  <2>3. run_num < invars.repeat <=> repeat > 1
    BY <1>2
  <2>4. ASSUME NEW r, r = run_num
        PROVE  SingleReport(r)' = single
    <3>1. r < run_num' /\ r \in 1 .. invars.repeat
      BY <1>2, <2>1, <2>4
    <3>2. CASE repeat > 1
      BY <1>1, <1>2, <2>1, <2>3, <2>4, <3>1, <3>2 DEF SingleReport
    <3>3. CASE ~(repeat > 1)
      BY <1>1, <1>2, <2>1, <2>3, <2>4, <3>1, <3>3 DEF SingleReport
    <3> QED
      BY <3>2, <3>3
  <2>5. ASSUME NEW r \in 1 .. run_num' - 1, NEW t \in Hit
        PROVE  Answers(SingleReport(r), r, t)'
    <3>1. CASE r = run_num
      <4>1. SingleReport(r)' = single /\ Answers(single, r, t)
        BY <2>2, <2>4, <3>1
      <4> QED
        BY <2>1, <4>1 DEF Answers, LinesFor
    <3>2. CASE r # run_num
      <4>1. r \in 1 .. run_num - 1
        BY <1>2, <2>1, <3>2
      <4>2. SingleReport(r)' = SingleReport(r)
        BY <1>1, <1>2, <1>5, <2>1, <4>1 DEF SingleReport
      <4> QED
        BY <1>3, <2>1, <4>1, <4>2 DEF Answers, LinesFor
    <3> QED
      BY <3>1, <3>2
  <2>6. \A f \in failed' : f[1] \in 1 .. run_num' /\ f[1] # run_num'
    BY <1>2, <1>3, <2>1
  <2> QED
    BY <1>1, <2>1, <2>5, <2>6 DEF Answering
<1> QED
  BY <1>6, <1>7, <1>8, <1>9, <1>10 DEF SingleStep

\* The other steps leave the reports of a single user run alone.
LEMMA AnsweringStep ==
  Ramping /\ Types /\ InSingle /\ Answering /\ [DriverNext]_allVars => Answering'
<1> SUFFICES ASSUME Ramping, Types, InSingle, Answering, [DriverNext]_allVars PROVE Answering'
  OBVIOUS
<1>1. invars'.mode = invars.mode /\ invars'.repeat = invars.repeat
  BY SettingsKept DEF Ramping, Setting
<1>2. CASE invars.mode # "single"
  BY <1>1, <1>2 DEF Answering
<1>3. CASE invars.mode = "single" /\ UNCHANGED <<run_num, spc, item, failed, single, kept>>
  <2>1. \A r : SingleReport(r)' = SingleReport(r)
    BY <1>1, <1>3 DEF SingleReport
  <2>2. /\ \A r \in 1 .. run_num - 1 : \A t \in Hit : Answers(SingleReport(r), r, t)
        /\ spc # "idle" => \A t \in Hit : IF Behind(t) THEN Answers(single, run_num, t) ELSE Unasked(t)
        /\ \A f \in failed : f[1] \in 1 .. run_num
        /\ spc = "idle" => \A f \in failed : f[1] # run_num
    BY <1>3 DEF Answering
  <2>3. ASSUME NEW r \in 1 .. run_num - 1, NEW t \in Hit
        PROVE  Answers(SingleReport(r), r, t)'
    BY <1>3, <2>1, <2>2 DEF Answers, LinesFor
  <2>4. ASSUME NEW t \in Hit, spc # "idle"
        PROVE  (IF Behind(t) THEN Answers(single, run_num, t) ELSE Unasked(t))'
    BY <1>3, <2>2, <2>4 DEF Answers, Unasked, LinesFor, Behind
  <2> QED
    BY <1>3, <2>2, <2>3, <2>4 DEF Answering
<1>4. CASE invars.mode = "single" /\ Next /\ UNCHANGED singleVars
  <2>1. ~EndMultiUser
    BY <1>4 DEF EndMultiUser, Ramping
  <2>2. run_num' = run_num
    BY <1>4, <2>1 DEF Next, StartMultiUser, StartFails, KilledWhileCreating, Exits, CreatePool,
       CreatePoolFails, LoadPublished, LoadUnreported, ToolFails, Terminated, StopRamp,
       NextLoadPoint, Return
  <2> QED
    BY <1>3, <1>4, <2>2 DEF singleVars
<1>5. CASE invars.mode = "single" /\ (AlarmFires \/ UNCHANGED allVars)
  BY <1>3, <1>5 DEF AlarmFires, allVars, vars, singleVars
<1>6. CASE SingleStep
  BY <1>6, AnsweringSingle
<1> QED
  BY <1>2, <1>4, <1>5, <1>6 DEF DriverNext

\* Each test of the workfile has one line in the report of each repeat or has failed
\* in it, for any workfile, number of repeats and place of the failures.
THEOREM EveryTestAnsweredHolds == DriverSpec => []EveryTestAnswered
<1>1. DriverSpec => []InSingle
  <2>1. Recording => InSingle
    BY DEF Recording
  <2> QED
    BY <2>1, RecordingHolds, PTL
<1>2. DriverSpec => []Answering
  BY <1>1, AnsweringInit, AnsweringStep, TypesHold, RampingHolds, PTL DEF DriverSpec
<1>3. Answering => EveryTestAnswered
  <2> SUFFICES ASSUME Answering, spc = "idle", invars.mode = "single",
                      NEW r \in 1 .. run_num - 1, NEW t \in Hit
               PROVE  Cardinality({l \in SingleReport(r) : l[1] = r /\ l[2] = t})
                        = (IF <<r, t>> \in failed THEN 0 ELSE 1)
    BY DEF EveryTestAnswered
  <2>1. Answers(SingleReport(r), r, t)
    BY DEF Answering
  <2>2. CASE <<r, t>> \in failed
    BY <2>1, <2>2, FS_EmptySet DEF Answers, LinesFor
  <2>3. CASE <<r, t>> \notin failed
    BY <2>1, <2>3, FS_Singleton DEF Answers, LinesFor
  <2> QED
    BY <2>2, <2>3
<1> QED
  BY <1>2, <1>3, PTL

\* No benchmark loses what it has measured, in either mode, for any command line.
THEOREM ReportsCompleteHolds == DriverSpec => []ReportsComplete
<1>1. NoReportLost /\ EveryTestAnswered => ReportsComplete
  BY DEF ReportsComplete
<1> QED
  BY <1>1, NoReportLostHolds, EveryTestAnsweredHolds, PTL

-----------------------------------------------------------------------------
(* The number of steps.                                                    *)

\* The most that one turn of main()'s loop may take, in either mode, when the
\* repetitions of a single test are not counted; what is left of the present turn,
\* of its ramp or of its list; and what is left of the program.
Turn == 6 + 3 * invars.maxusers + 4 * NTests
RampLeft ==
  CASE pc = "pool"    -> 4 + 3 * (invars.maxusers - runnum)
    [] pc = "runloop" -> 3 + 3 * (invars.maxusers - runnum)
    [] pc = "rules"   -> 2 + 3 * (invars.maxusers - runnum)
    [] pc = "end"     -> 1
    [] OTHER          -> 0
ListLeft ==
  CASE spc = "item"  -> 5 + 4 * (NTests - item)
    [] spc = "armed" -> 4 + 4 * (NTests - item)
    [] spc = "loop"  -> 2 + 4 * (NTests - item)
    [] spc = "close" -> 1
    [] OTHER         -> 0
AlarmLeft == IF alarm = NoAlarm THEN 0 ELSE 1
InTurn == pc # "main" \/ spc # "idle"
TurnsLeft == IF InTurn THEN repeat - 1 ELSE repeat
Effort == IF pc = "exited" THEN 0 ELSE 1 + TurnsLeft * Turn + RampLeft + ListLeft + AlarmLeft

\* What the measure needs of the invariants above: which of the two modes is where, and
\* that only its own alarm may still end a test that is being repeated.
Going ==
  /\ Ramping /\ InSingle
  /\ repeat \in 0 .. invars.repeat /\ invars.repeat \in Nat
  /\ pc \in Busy \/ spc # "idle" => repeat > 0
  /\ spc \in {"idle", "item", "armed", "loop", "close"}
  /\ spc \in {"item", "armed", "loop"} => item \in 1 .. NTests
  /\ spc = "loop" => alarm \in {NoAlarm, Here}
  /\ spc = "loop" /\ flag = 1 => alarm = Here

\* A turn is never longer than Turn.
Fits ==
  /\ Turn \in Nat /\ RampLeft \in Int /\ ListLeft \in Int /\ AlarmLeft \in {0, 1}
  /\ 0 <= RampLeft /\ 0 <= ListLeft /\ RampLeft + ListLeft < Turn - 1

\* What is left of a turn fits into one.
LEMMA TurnFits == Going => Fits
<1> SUFFICES ASSUME Going PROVE Fits
  OBVIOUS
<1>1. invars.maxusers \in Nat /\ invars.minusers \in Nat \ {0} /\ NTests \in Nat \ {0} /\ runnum \in Nat
  BY SingleUserAssumption DEF Going, Ramping, Setting
<1>2. Turn = 6 + 3 * invars.maxusers + 4 * NTests /\ Turn \in Nat
  BY <1>1 DEF Turn
<1>3. RampLeft \in Nat /\ RampLeft <= 4 + 3 * invars.maxusers
  <2>1. CASE pc \in Measuring
    <3>1. runnum <= invars.maxusers
      BY <2>1 DEF Going, Ramping
    <3> QED
      BY <1>1, <2>1, <3>1 DEF RampLeft, Measuring
  <2>2. CASE pc \notin Measuring
    BY <1>1, <2>2 DEF RampLeft, Measuring
  <2> QED
    BY <2>1, <2>2
<1>4. ListLeft \in Nat /\ ListLeft <= 1 + 4 * NTests
  <2>1. CASE spc \in {"item", "armed", "loop"}
    <3>1. item \in 1 .. NTests
      BY <2>1 DEF Going
    <3> QED
      BY <1>1, <2>1, <3>1 DEF ListLeft
  <2>2. CASE spc \notin {"item", "armed", "loop"}
    BY <1>1, <2>2 DEF ListLeft
  <2> QED
    BY <2>1, <2>2
<1>5. RampLeft = 0 \/ ListLeft = 0
  BY DEF Going, InSingle, Ramping, RampLeft, ListLeft, Measuring
<1> QED
  BY <1>1, <1>2, <1>3, <1>4, <1>5 DEF AlarmLeft, Fits

\* The same of the next state.
LEMMA TurnFitsNext == Going' => Fits'
BY TurnFits, PTL

\* The terms of a sum.
LEMMA FirstShrinks ==
  ASSUME NEW r \in Int, NEW s \in Int, NEW l \in Int, NEW a \in Int, s < r
  PROVE  s + l + a < r + l + a
OBVIOUS
\* The second and third term together.
LEMMA LastShrink ==
  ASSUME NEW r \in Int, NEW m \in Int, NEW n \in Int, NEW a \in Int, NEW b \in Int, n + b < m + a
  PROVE  r + n + b < r + m + a
OBVIOUS
\* One of two terms.
LEMMA OneShrinks ==
  ASSUME NEW m \in Int, NEW n \in Int, NEW a \in Int, n < m
  PROVE  n + a < m + a
OBVIOUS
\* An alarm more for two steps less.
LEMMA TwoForOne ==
  ASSUME NEW m \in Int, NEW a \in Int, NEW b \in Int, b <= 1, 0 <= a
  PROVE  (m - 2) + b < m + a
OBVIOUS

\* A turn less outweighs anything that the present one may still take.
LEMMA TurnOutweighs ==
  ASSUME NEW t \in Nat, NEW n \in Int
  PROVE  n * t \in Int /\ (n - 1) * t + t = n * t
OBVIOUS

\* A product grows with its factor.
LEMMA ProductGrows ==
  ASSUME NEW t \in Nat, NEW n \in Nat, NEW m \in 0 .. n
  PROVE  m * t \in Nat /\ m * t <= n * t
<1>1. n - m \in Nat /\ (n - m) * t \in Nat
  OBVIOUS
<1>2. m * t \in Nat /\ n * t \in Nat /\ (n - m) * t = n * t - m * t
  OBVIOUS
<1> QED
  BY <1>1, <1>2

\* The steps left are a number within the bound, and some until the program has ended.
LEMMA EffortFits ==
  ASSUME Going
  PROVE  /\ Effort \in 0 .. 2 + invars.repeat * Turn
         /\ pc # "exited" => /\ TurnsLeft \in 0 .. invars.repeat
                            /\ TurnsLeft * Turn \in Nat
                            /\ Effort > 0
<1>1. /\ Turn \in Nat /\ RampLeft \in Int /\ ListLeft \in Int /\ AlarmLeft \in {0, 1}
      /\ 0 <= RampLeft /\ 0 <= ListLeft
      /\ RampLeft + ListLeft < Turn - 1
  BY TurnFits DEF Fits
<1>2. invars.repeat \in Nat /\ repeat \in 0 .. invars.repeat
  BY DEF Going
<1> DEFINE all == invars.repeat * Turn
           ahead == TurnsLeft * Turn
<1>3. all \in Nat
  BY <1>1, <1>2
<1>4. CASE pc = "exited"
  <2> HIDE DEF all
  <2>1. Effort = 0
    BY <1>4 DEF Effort
  <2>2. 0 \in 0 .. 2 + all
    BY <1>3
  <2> QED
    BY <1>4, <2>1, <2>2 DEF all
<1>5. CASE pc # "exited" /\ InTurn
  <2>1. TurnsLeft = repeat - 1 /\ repeat > 0
    BY <1>5 DEF TurnsLeft, InTurn, Going, Ramping, Busy, Measuring
  <2>2. TurnsLeft \in 0 .. invars.repeat - 1
    BY <1>2, <2>1
  <2>3. ahead \in Nat /\ ahead <= (invars.repeat - 1) * Turn
    BY <1>1, <1>2, <2>2, ProductGrows
  <2>4. (invars.repeat - 1) * Turn + Turn = all
    BY <1>1, <1>2, TurnOutweighs
  <2>5. (invars.repeat - 1) * Turn \in Int
    BY <1>1, <1>2
  <2>6. Effort = 1 + ahead + RampLeft + ListLeft + AlarmLeft
    BY <1>5 DEF Effort
  <2> HIDE DEF ahead, all
  <2>7. Effort \in 0 .. 2 + all /\ Effort > 0
    BY <1>1, <1>3, <2>3, <2>4, <2>5, <2>6
  <2> QED
    BY <1>2, <2>2, <2>3, <2>7 DEF ahead, all
<1>6. CASE pc # "exited" /\ ~InTurn
  <2>1. TurnsLeft = repeat /\ RampLeft = 0 /\ ListLeft = 0
    BY <1>6 DEF TurnsLeft, InTurn, RampLeft, ListLeft
  <2>2. ahead \in Nat /\ ahead <= all
    BY <1>1, <1>2, <2>1, ProductGrows
  <2>3. Effort = 1 + ahead + RampLeft + ListLeft + AlarmLeft
    BY <1>6 DEF Effort
  <2> HIDE DEF ahead, all
  <2>4. Effort \in 0 .. 2 + all /\ Effort > 0
    BY <1>1, <1>3, <2>1, <2>2, <2>3
  <2> QED
    BY <1>2, <2>1, <2>2, <2>4 DEF ahead, all
<1> QED
  BY <1>4, <1>5, <1>6

\* The settings of the measure do not change.
LEMMA TurnKept ==
  ASSUME Going, [DriverNext]_allVars
  PROVE  Turn' = Turn /\ invars'.maxusers = invars.maxusers
<1>1. invars'.maxusers = invars.maxusers
  BY SettingsKept DEF Going, Ramping, Setting
<1> QED
  BY <1>1 DEF Turn

\* A step within a turn, and the first of one.
LEMMA EffortShrinks ==
  ASSUME Going, Going', [DriverNext]_allVars, pc # "exited",
         \/ pc' = "exited"
         \/ TurnsLeft' = TurnsLeft /\ RampLeft' + ListLeft' + AlarmLeft' < RampLeft + ListLeft + AlarmLeft
         \/ TurnsLeft' = TurnsLeft - 1 /\ AlarmLeft' = AlarmLeft
  PROVE  Effort' < Effort
<1>1. /\ Turn \in Nat /\ RampLeft \in Int /\ ListLeft \in Int /\ AlarmLeft \in {0, 1}
      /\ 0 <= RampLeft /\ 0 <= ListLeft
  BY TurnFits DEF Fits
<1>2. TurnsLeft \in Nat /\ TurnsLeft * Turn \in Nat /\ Effort > 0
      /\ Effort = 1 + TurnsLeft * Turn + RampLeft + ListLeft + AlarmLeft
  BY EffortFits DEF Effort, Going
<1>3. Turn' = Turn
  BY TurnKept
<1>4. CASE pc' = "exited"
  BY <1>2, <1>4 DEF Effort
<1>5. CASE pc' # "exited"
  <2>1. RampLeft' \in Int /\ ListLeft' \in Int /\ AlarmLeft' \in Int
    BY <1>3, TurnFitsNext DEF Fits
  <2>5. RampLeft' + ListLeft' < Turn - 1
    BY <1>3, TurnFitsNext DEF Fits
  <2>2. Effort' = 1 + TurnsLeft' * Turn + RampLeft' + ListLeft' + AlarmLeft'
    BY <1>3, <1>5 DEF Effort
  <2>3. CASE TurnsLeft' = TurnsLeft /\ RampLeft' + ListLeft' + AlarmLeft' < RampLeft + ListLeft + AlarmLeft
    <3> DEFINE ahead == TurnsLeft * Turn
    <3>1. ahead \in Nat /\ Effort = 1 + ahead + RampLeft + ListLeft + AlarmLeft
          /\ Effort' = 1 + ahead + RampLeft' + ListLeft' + AlarmLeft'
      BY <1>2, <2>2, <2>3
    <3> DEFINE now == RampLeft + ListLeft + AlarmLeft
               next == RampLeft' + ListLeft' + AlarmLeft'
    <3>2. now \in Int /\ next \in Int
      BY <1>1, <2>1
    <3>4. next < now
      BY <2>3
    <3>3. Effort = 1 + ahead + now /\ Effort' = 1 + ahead + next
      <4> HIDE DEF ahead
      <4> QED
        BY <1>1, <2>1, <3>1
    <3> HIDE DEF ahead, now, next
    <3> QED
      BY <3>1, <3>2, <3>3, <3>4
  <2>4. CASE TurnsLeft' = TurnsLeft - 1 /\ AlarmLeft' = AlarmLeft
    <3> DEFINE ahead == TurnsLeft * Turn
               after == (TurnsLeft - 1) * Turn
    <3>1. ahead \in Nat /\ Effort = 1 + ahead + RampLeft + ListLeft + AlarmLeft
          /\ Effort' = 1 + after + RampLeft' + ListLeft' + AlarmLeft'
      BY <1>2, <2>2, <2>4
    <3>2. after \in Int /\ after + Turn = ahead
      BY <1>1, <1>2, TurnOutweighs
    <3> DEFINE now == RampLeft + ListLeft
               next == RampLeft' + ListLeft'
    <3>3. now \in Int /\ next \in Int
      BY <1>1, <2>1
    <3>5. next < Turn - 1
      BY <2>5
    <3>4. Effort = 1 + ahead + now + AlarmLeft /\ Effort' = 1 + after + next + AlarmLeft
      <4> HIDE DEF ahead, after
      <4> QED
        BY <1>1, <2>1, <2>4, <3>1, <3>2
    <3> HIDE DEF ahead, after, now, next
    <3> QED
      BY <1>1, <3>1, <3>2, <3>3, <3>4, <3>5
  <2> QED
    BY <1>4, <1>5, <2>3, <2>4
<1> QED
  BY <1>4, <1>5
\* What a step of the multiuser benchmark leaves of the other one.
LEMMA ListKept ==
  ASSUME UNCHANGED singleVars
  PROVE  ListLeft' = ListLeft /\ AlarmLeft' = AlarmLeft /\ spc' = spc
BY DEF singleVars, ListLeft, AlarmLeft

\* A load point leaves fewer to come, a turn fewer turns.
LEMMA MultiShrinks ==
  ASSUME Going, Going', Next, UNCHANGED singleVars
  PROVE  Effort' < Effort
<1>1. [DriverNext]_allVars
  BY DEF DriverNext
<1>2. /\ Turn \in Nat /\ RampLeft \in Int /\ ListLeft \in Int /\ AlarmLeft \in Int
      /\ 0 <= RampLeft /\ 0 <= ListLeft
  BY TurnFits DEF Fits
<1>3. /\ ListLeft' = ListLeft /\ AlarmLeft' = AlarmLeft /\ spc' = spc
      /\ invars'.maxusers = invars.maxusers
  BY <1>1, ListKept, TurnKept
<1>4. invars.maxusers \in Nat /\ runnum \in Nat /\ repeat \in Nat
  BY DEF Going, Ramping, Setting
<1>5. CASE StartFails \/ CreatePoolFails \/ ToolFails \/ Terminated \/ Return
  <2>1. pc' = "exited" /\ pc # "exited"
    BY <1>5 DEF StartFails, CreatePoolFails, KilledWhileCreating, ToolFails, Terminated, Return, Exits
  <2> QED
    BY <1>1, <2>1, EffortShrinks
<1>6. CASE StartMultiUser
  <2>1. pc = "main" /\ spc = "idle" /\ pc' \in {"pool", "runloop"} /\ repeat' = repeat
    BY <1>6 DEF StartMultiUser, Going, InSingle
  <2>2. TurnsLeft' = TurnsLeft - 1
    BY <2>1 DEF TurnsLeft, InTurn
  <2> QED
    BY <1>1, <1>3, <2>1, <2>2, EffortShrinks
<1>7. ASSUME pc \in Busy, pc' \in Busy, repeat' = repeat, RampLeft' < RampLeft, RampLeft' \in Int
      PROVE  Effort' < Effort
  <2>1. pc # "exited" /\ TurnsLeft' = TurnsLeft
    BY <1>7 DEF TurnsLeft, InTurn, Busy, Measuring
  <2>2. RampLeft' + ListLeft' + AlarmLeft' < RampLeft + ListLeft + AlarmLeft
    BY <1>2, <1>3, <1>7, FirstShrinks, Zenon
  <2> QED
    BY <1>1, <2>1, <2>2, EffortShrinks
<1>8. CASE CreatePool \/ LoadUnreported \/ StopRamp \/ \E t \in Times : LoadPublished(t)
  <2>1. /\ repeat' = repeat /\ runnum' = runnum
        /\ \/ pc = "pool" /\ pc' = "runloop"
           \/ pc = "runloop" /\ pc' = "rules"
           \/ pc = "rules" /\ pc' = "end"
    BY <1>8 DEF CreatePool, LoadUnreported, StopRamp, LoadPublished, rampVars
  <2>2. pc = "rules" => runnum <= invars.maxusers
    BY DEF Going, Ramping, Measuring
  <2>3. RampLeft' < RampLeft /\ RampLeft' \in Int
    BY <1>3, <1>4, <2>1, <2>2 DEF RampLeft
  <2> QED
    BY <1>7, <2>1, <2>3 DEF Busy, Measuring
<1>9. CASE NextLoadPoint
  <2>1. NextIncr \in Nat \ {0}
    BY AdaptedIsPositive DEF NextIncr, Going, Ramping, Setting
  <2>2. pc = "rules" /\ runnum' = runnum + NextIncr /\ repeat' = repeat
    BY <1>9 DEF NextLoadPoint
  <2>3. \/ pc' = "end"
        \/ pc' \in {"pool", "runloop"}
    BY <1>9 DEF NextLoadPoint
  <2>4. runnum <= invars.maxusers
    BY <2>2 DEF Going, Ramping, Measuring
  <2>5. RampLeft' < RampLeft /\ RampLeft' \in Int
    BY <1>3, <1>4, <2>1, <2>2, <2>3, <2>4 DEF RampLeft
  <2> QED
    BY <1>7, <2>2, <2>3, <2>5 DEF Busy, Measuring
<1>10. CASE EndMultiUser
  <2>1. pc = "end" /\ pc' = "main" /\ repeat' = repeat - 1
    BY <1>10 DEF EndMultiUser
  <2>2. spc = "idle"
    BY <2>1 DEF Going, Ramping, InSingle
  <2>3. TurnsLeft' = TurnsLeft
    BY <1>3, <2>1, <2>2 DEF TurnsLeft, InTurn
  <2>4. RampLeft' = 0 /\ RampLeft = 1
    BY <2>1 DEF RampLeft
  <2>5. RampLeft' + ListLeft' + AlarmLeft' < RampLeft + ListLeft + AlarmLeft
    BY <1>2, <1>3, <2>4
  <2> QED
    BY <1>1, <2>1, <2>3, <2>5, EffortShrinks
<1> QED
  BY <1>5, <1>6, <1>8, <1>9, <1>10 DEF Next

\* So does a test that is skipped, armed, failed or reported.
LEMMA SingleShrinks ==
  ASSUME Going, Going', SingleStep \/ AlarmFires
  PROVE  Effort' < Effort \/ (RunOnce /\ alarm = Here)
<1>1. [DriverNext]_allVars
  BY DEF DriverNext
<1>2. /\ Turn \in Nat /\ RampLeft \in Int /\ ListLeft \in Int /\ AlarmLeft \in Int
      /\ 0 <= RampLeft /\ 0 <= ListLeft
  BY TurnFits DEF Fits
<1>3. pc = "main" /\ pc' = "main"
  BY SingleKeepsRamp
<1>4. RampLeft = 0 /\ RampLeft' = 0
  BY <1>3 DEF RampLeft
<1>5. NTests \in Nat \ {0} /\ repeat \in Nat
  BY SingleUserAssumption DEF Going
<1>6. spc \in {"item", "armed", "loop"} => item \in 1 .. NTests
  BY DEF Going
<1>7. CASE StartSingleUser
  <2>1. spc = "idle" /\ spc' = "item" /\ repeat' = repeat /\ alarm' = alarm
    BY <1>7 DEF StartSingleUser
  <2>2. TurnsLeft' = TurnsLeft - 1 /\ AlarmLeft' = AlarmLeft
    BY <1>3, <2>1 DEF TurnsLeft, InTurn, AlarmLeft
  <2> QED
    BY <1>1, <1>3, <2>2, EffortShrinks
<1>8. ASSUME spc # "idle", spc' # "idle", repeat' = repeat, ListLeft' \in Int, AlarmLeft' \in Int,
             ListLeft' + AlarmLeft' < ListLeft + AlarmLeft
      PROVE  Effort' < Effort
  <2>1. TurnsLeft' = TurnsLeft
    BY <1>8 DEF TurnsLeft, InTurn
  <2>2. RampLeft' + ListLeft' + AlarmLeft' < RampLeft + ListLeft + AlarmLeft
    <3>1. 0 + ListLeft' + AlarmLeft' < 0 + ListLeft + AlarmLeft
      <4>1. 0 \in Int
        OBVIOUS
      <4> QED
        BY <4>1, <1>2, <1>8, LastShrink, Zenon
    <3> QED
      BY <1>4, <3>1, Zenon
  <2> QED
    BY <1>1, <1>3, <2>1, <2>2, EffortShrinks
<1>9. CASE SkipItem \/ TestFails \/ ReportTest
  <2>1. /\ spc \in {"item", "loop"} /\ repeat' = repeat /\ alarm' = alarm
        /\ \/ item < NTests /\ spc' = "item" /\ item' = item + 1
           \/ spc' = "close"
    BY <1>9 DEF SkipItem, TestFails, ReportTest, NextItem, vars
  <2>2. ListLeft' \in Int /\ ListLeft' < ListLeft
    BY <1>5, <1>6, <2>1 DEF ListLeft
  <2>3. AlarmLeft' = AlarmLeft
    BY <2>1 DEF AlarmLeft
  <2>4. ListLeft' + AlarmLeft' < ListLeft + AlarmLeft
    BY <1>2, <2>2, <2>3, OneShrinks, Zenon
  <2>5. spc # "idle" /\ spc' # "idle" /\ AlarmLeft' \in Int
    BY <1>2, <2>1, <2>3
  <2> QED
    BY <1>8, <2>1, <2>2, <2>4, <2>5
<1>10. CASE SetFlag
  <2>1. spc = "item" /\ spc' = "armed" /\ item' = item /\ repeat' = repeat /\ alarm' = alarm
    BY <1>10 DEF SetFlag
  <2>2. ListLeft' \in Int /\ ListLeft' < ListLeft
    BY <1>5, <1>6, <2>1 DEF ListLeft
  <2>3. AlarmLeft' = AlarmLeft
    BY <2>1 DEF AlarmLeft
  <2>4. ListLeft' + AlarmLeft' < ListLeft + AlarmLeft
    BY <1>2, <2>2, <2>3, OneShrinks, Zenon
  <2>5. spc # "idle" /\ spc' # "idle" /\ AlarmLeft' \in Int
    BY <1>2, <2>1, <2>3
  <2> QED
    BY <1>8, <2>1, <2>2, <2>4, <2>5
<1>11. CASE SetAlarm
  <2>1. spc = "armed" /\ spc' = "loop" /\ item' = item /\ repeat' = repeat
    BY <1>11 DEF SetAlarm, vars
  <2>2. ListLeft' \in Int /\ ListLeft' = ListLeft - 2
    BY <1>5, <1>6, <2>1 DEF ListLeft
  <2>3. AlarmLeft' \in Int /\ AlarmLeft' <= 1 /\ 0 <= AlarmLeft
    BY DEF AlarmLeft
  <2>4. ListLeft' + AlarmLeft' < ListLeft + AlarmLeft
    BY <1>2, <2>2, <2>3, TwoForOne, Zenon
  <2> QED
    BY <1>8, <2>1, <2>2, <2>3, <2>4
<1>12. CASE EndSingleUser
  <2>1. spc = "close" /\ spc' = "idle" /\ repeat' = repeat - 1 /\ alarm' = alarm
    BY <1>12 DEF EndSingleUser
  <2>2. TurnsLeft' = TurnsLeft /\ AlarmLeft' = AlarmLeft
    BY <1>3, <2>1 DEF TurnsLeft, InTurn, AlarmLeft
  <2>3. ListLeft' = 0 /\ ListLeft = 1
    BY <2>1 DEF ListLeft
  <2>4. RampLeft' + ListLeft' + AlarmLeft' < RampLeft + ListLeft + AlarmLeft
    BY <1>2, <1>4, <2>2, <2>3
  <2> QED
    BY <1>1, <1>3, <2>2, <2>4, EffortShrinks
<1>13. CASE RunOnce
  BY <1>13 DEF RunOnce, Going
<1>14. CASE AlarmFires
  <2>1. spc' = spc /\ item' = item /\ repeat' = repeat /\ alarm # NoAlarm /\ alarm' = NoAlarm
    BY <1>14 DEF AlarmFires, vars
  <2>2. TurnsLeft' = TurnsLeft /\ AlarmLeft = 1 /\ AlarmLeft' = 0
    BY <1>3, <2>1 DEF TurnsLeft, InTurn, AlarmLeft
  <2>3. ListLeft' = ListLeft
    BY <2>1 DEF ListLeft
  <2>4. RampLeft' + ListLeft' + AlarmLeft' < RampLeft + ListLeft + AlarmLeft
    BY <1>2, <1>4, <2>2, <2>3
  <2> QED
    BY <1>1, <1>3, <2>2, <2>4, EffortShrinks
<1> QED
  BY <1>7, <1>9, <1>10, <1>11, <1>12, <1>13, <1>14 DEF SingleStep
\* While a test is repeated its own alarm is pending: SetAlarm replaces any other, and
\* the alarm clears the flag as it fires.
OwnAlarm == spc = "loop" /\ flag = 1 => alarm = Here

\* Each step keeps the own alarm pending.
LEMMA OwnAlarmStep == Ramping /\ InSingle /\ Alarms /\ OwnAlarm /\ [DriverNext]_allVars => OwnAlarm'
<1> SUFFICES ASSUME Ramping, InSingle, Alarms, OwnAlarm, [DriverNext]_allVars, spc' = "loop", flag' = 1
             PROVE  alarm' = Here'
  BY DEF OwnAlarm
<1>1. CASE Next /\ UNCHANGED singleVars
  <2>1. spc = "loop" /\ flag = 1 /\ alarm' = alarm /\ item' = item
    BY <1>1 DEF singleVars
  <2>2. pc # "end"
    BY <2>1 DEF Ramping, InSingle
  <2>3. run_num' = run_num
    BY <1>1, <2>2 DEF Next, StartMultiUser, StartFails, KilledWhileCreating, Exits, CreatePool,
       CreatePoolFails, LoadPublished, LoadUnreported, ToolFails, Terminated, StopRamp,
       NextLoadPoint, EndMultiUser, Return
  <2> QED
    BY <2>1, <2>3 DEF OwnAlarm, Here
<1>2. CASE SetAlarm
  BY <1>2 DEF SetAlarm, PendingAfterAlarm, Here, vars
<1>3. CASE RunOnce
  BY <1>3 DEF RunOnce, OwnAlarm, Here, vars
<1>4. CASE AlarmFires
  BY <1>4 DEF AlarmFires
<1>5. CASE StartSingleUser \/ SkipItem \/ SetFlag \/ TestFails \/ ReportTest \/ EndSingleUser
  BY <1>5 DEF StartSingleUser, SkipItem, SetFlag, TestFails, ReportTest, EndSingleUser, NextItem
<1>6. CASE UNCHANGED allVars
  BY <1>6 DEF allVars, vars, singleVars, OwnAlarm, Here
<1> QED
  BY <1>1, <1>2, <1>3, <1>4, <1>5, <1>6 DEF DriverNext, SingleStep

\* What the measure needs holds throughout.
THEOREM GoingHolds == DriverSpec => []Going
<1>1. Recording => InSingle
  BY DEF Recording
<1>2. SingleInit => OwnAlarm
  BY DEF SingleInit, OwnAlarm
<1>3. DriverSpec => []OwnAlarm
  BY <1>1, <1>2, OwnAlarmStep, RampingHolds, RecordingHolds, AlarmsHold, PTL DEF DriverSpec
<1>4. Ramping /\ InSingle /\ Types /\ Alarms /\ OwnAlarm => Going
  <2> SUFFICES ASSUME Ramping, InSingle, Types, Alarms, OwnAlarm PROVE Going
    OBVIOUS
  <2>1. repeat \in 0 .. invars.repeat /\ invars.repeat \in Nat
    BY DEF Types, DriverTypeOK, TypeOK, Ramping, Setting
  <2> QED
    BY <2>1 DEF Going, Types, Started, Alarms, Placed, Pending, OwnAlarm
<1> QED
  BY <1>1, <1>3, <1>4, RampingHolds, RecordingHolds, TypesHold, AlarmsHold, PTL

\* A benchmark has a bounded number of steps, whichever increments the adaptive timer
\* comes to and however often each test of a single user run is repeated: every step
\* leaves fewer, except the repetition of a test, and then the alarm of that test is
\* pending, whose firing is such a step (multiuser() and singleuser(), driver.c).
THEOREM BenchmarkIsFinite ==
  DriverSpec => /\ [](Effort \in 0 .. 2 + invars.repeat * Turn)
                /\ [][Effort' < Effort \/ (RunOnce /\ alarm = Here)]_allVars
<1>1. Going => Effort \in 0 .. 2 + invars.repeat * Turn
  BY EffortFits
<1>2. Going /\ Going' /\ [DriverNext]_allVars => [Effort' < Effort \/ (RunOnce /\ alarm = Here)]_allVars
  BY MultiShrinks, SingleShrinks DEF DriverNext
<1> QED
  BY <1>1, <1>2, GoingHolds, PTL DEF DriverSpec
=============================================================================
