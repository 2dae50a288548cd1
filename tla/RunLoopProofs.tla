---------------------------- MODULE RunLoopProofs ----------------------------
(***************************************************************************)
(* Proofs about RunLoop, for every number of children, tests per child and *)
(* set of faults.  The safety properties of RunLoop follow from one        *)
(* inductive invariant, IInv, built in layers: Shape (the types), Control  *)
(* (what the parent's place says about counters and children), Messages    *)
(* (the pipe never carries more messages than there are ready children),   *)
(* Barrier, Accounting, Final and Tools.  A layer's step lemma assumes the *)
(* layers before it.  Then come the refinement of LoadPoint, what stops a  *)
(* load point half-way (Answers and Ends, two layers more), and the bound  *)
(* on its steps.                                                           *)
(***************************************************************************)
EXTENDS RunLoop, FiniteSetTheorems, TLAPS

\* TypeOK without the bounds of the three counters, which need the invariant.

Shape ==
  /\ pc \in ParentPC
  /\ cnt \in 1 .. RunNum + 1
  /\ msgs \in Nat
  /\ kidsForked \in Nat
  /\ numChildren \in Nat
  /\ toolsOn \in BOOLEAN
  /\ reported \in BOOLEAN
  /\ files \in BOOLEAN
  /\ cpc \in [Child -> ChildPC]
  /\ left \in [Child -> 0 .. Jobs]
  /\ outcome \in [Child -> Outcome]
  /\ deaf \in SUBSET (Child \cup {Parent})

\* Initially every variable has its type.
LEMMA ShapeInit == Init => Shape
<1> SUFFICES ASSUME Init PROVE Shape
  OBVIOUS
<1>1. /\ pc \in ParentPC /\ cnt \in 1 .. RunNum + 1 /\ msgs \in Nat
      /\ kidsForked \in Nat /\ numChildren \in Nat
  BY RunLoopAssumption DEF Init, ParentPC
<1>2. toolsOn \in BOOLEAN /\ reported \in BOOLEAN /\ files \in BOOLEAN
  BY DEF Init
<1>3. cpc \in [Child -> ChildPC] /\ outcome \in [Child -> Outcome]
  BY DEF Init, ChildPC, Outcome
<1>4. left \in [Child -> 0 .. Jobs]
  BY RunLoopAssumption DEF Init
<1>5. deaf \in SUBSET (Child \cup {Parent})
  BY DEF Init
<1> QED
  BY <1>1, <1>2, <1>3, <1>4, <1>5 DEF Shape

\* Every step keeps the types.
LEMMA ShapeStep == Shape /\ [Next]_vars => Shape'
<1> USE RunLoopAssumption DEF Shape, ParentPC, ChildPC, Outcome, Child, Parent
<1> SUFFICES ASSUME Shape, [Next]_vars PROVE Shape'
  OBVIOUS
<1>1. CASE SetupTools
    BY <1>1 DEF SetupTools, childVars
<1>2. CASE OpenPipe
    BY <1>2 DEF OpenPipe, childVars
<1>3. CASE Fork
    BY <1>3 DEF Fork, MoreToFork, childVars
<1>4. CASE ForkerReturns
    BY <1>4 DEF ForkerReturns, childVars
<1>5. CASE ReadMessage
    BY <1>5 DEF ReadMessage, childVars
<1>5a. CASE ReadFails
    BY <1>5a DEF ReadFails, childVars
<1>6. CASE ClosePipe
    BY <1>6 DEF ClosePipe, childVars
<1>7. CASE Gun
    BY <1>7 DEF Gun, childVars
<1>8. CASE BeginTools
    BY <1>8 DEF BeginTools, childVars
<1>9. CASE Report
    BY <1>9 DEF Report, childVars
<1>10. CASE KillGroup
    BY <1>10 DEF KillGroup, Live, childVars
<1>11. CASE ExitAfterReap
    BY <1>11 DEF ExitAfterReap, childVars
<1>12. CASE OperatorTerm
    BY <1>12 DEF OperatorTerm, AfterTerm, childVars
<1>13. ASSUME NEW c \in Child, ReapChild(c) PROVE Shape'
    BY <1>13 DEF ReapChild, AfterReap, KidsAfter, childVars
<1>14. ASSUME NEW c \in Child, ReapAny(c) PROVE Shape'
    BY <1>14 DEF ReapAny, parentVars, childVars
<1>15. ASSUME NEW c \in Child, InstallHandlers(c) PROVE Shape'
    BY <1>15 DEF InstallHandlers, Move, parentVars, childVars
<1>16. ASSUME NEW c \in Child, SendReady(c) PROVE Shape'
    BY <1>16 DEF SendReady, Move, parentVars, childVars
<1>17. ASSUME NEW c \in Child, SendFails(c) PROVE Shape'
    BY <1>17 DEF SendFails, Exit, parentVars
<1>18. ASSUME NEW c \in Child, Pause(c) PROVE Shape'
    BY <1>18 DEF Pause, Move, parentVars, childVars
<1>19. ASSUME NEW c \in Child, ArmAlarm(c) PROVE Shape'
    BY <1>19 DEF ArmAlarm, Move, parentVars, childVars
<1>20. ASSUME NEW c \in Child, RunTest(c) PROVE Shape'
    BY <1>20 DEF RunTest, parentVars
<1>21. ASSUME NEW c \in Child, FailTest(c) PROVE Shape'
    BY <1>21 DEF FailTest, AfterTerm, Move, childVars
<1>22. ASSUME NEW c \in Child, ExitFailed(c) PROVE Shape'
    BY <1>22 DEF ExitFailed, Exit, parentVars
<1>23. ASSUME NEW c \in Child, Hang(c) PROVE Shape'
    BY <1>23 DEF Hang, Move, parentVars, childVars
<1>24. ASSUME NEW c \in Child, Timeout(c) PROVE Shape'
    BY <1>24 DEF Timeout, Exit, parentVars
<1>25. ASSUME NEW c \in Child, Finish(c) PROVE Shape'
    BY <1>25 DEF Finish, Exit, parentVars
<1>26. ASSUME NEW c \in Child, Quit(c) PROVE Shape'
    BY <1>26 DEF Quit, Exit, parentVars
<1>27. ASSUME NEW c \in Child, Killed(c) PROVE Shape'
    BY <1>27 DEF Killed, Live, Exit, parentVars
<1>28. CASE UNCHANGED vars
    BY <1>28 DEF vars, parentVars, childVars
<1>29. QED
    BY <1>1, <1>2, <1>3, <1>4, <1>5, <1>6, <1>7, <1>8, <1>9, <1>10, <1>11, <1>12, <1>13, <1>14, <1>15, <1>16, <1>17, <1>18, <1>19, <1>20, <1>21, <1>22, <1>23, <1>24, <1>25, <1>26, <1>27, <1>28, <1>5a
       DEF Next, ParentStep, ChildStep, Environment
-----------------------------------------------------------------------------

\* The parent has not fired the gun yet.
PreGun == pc \in {"setup", "pipe", "fork", "read", "sleep"}

\* What the parent's place and forker()'s counter say about the other variables.
Control ==
  /\ pc \in {"setup", "pipe"} => cnt = 1
  /\ \A c \in Child : cpc[c] = "absent" <=> c >= cnt
  /\ \A c \in Child : cpc[c] \in {"zombie", "gone"} \/ outcome[c] = "none"
  /\ Parent \in deaf => pc \in {"reap", "exited"}
  /\ reported => pc \in {"returned", "exited"}
  /\ PreGun => /\ numChildren = 0
               /\ kidsForked <= RunNum
               /\ \A c \in Child : cpc[c] # "gone" /\ ~Started(c)
  /\ pc \in {"setup", "pipe", "fork"} => kidsForked = 0
  /\ pc = "sleep" => kidsForked = RunNum

\* Initially no child exists and no counter has moved.
LEMMA ControlInit == Init => Control
<1> SUFFICES ASSUME Init PROVE Control
  OBVIOUS
<1> QED
  BY RunLoopAssumption DEF Init, Control, PreGun, Started, Child, Parent

\* Every step keeps Control.
LEMMA ControlStep == Shape /\ Control /\ [Next]_vars => Control'
<1> SUFFICES ASSUME Shape, Control, [Next]_vars PROVE Control'
  OBVIOUS
<1> USE RunLoopAssumption DEF Shape, Control, PreGun, Started, ParentPC, Child, Parent
<1>1. CASE SetupTools
    BY <1>1
       DEF SetupTools, childVars
<1>2. CASE OpenPipe
    BY <1>2
       DEF OpenPipe, childVars
<1>3. CASE Fork
    BY <1>3
       DEF Fork, MoreToFork, childVars
<1>4. CASE ForkerReturns
    BY <1>4
       DEF ForkerReturns, MoreToFork, childVars
<1>5. CASE ReadMessage \/ ReadFails
    BY <1>5
       DEF ReadMessage, ReadFails, childVars
<1>6. CASE ClosePipe
    BY <1>6
       DEF ClosePipe, AllMessagesRead, childVars
<1>7. CASE Gun
    BY <1>7
       DEF Gun, childVars
<1>8. CASE BeginTools
    BY <1>8
       DEF BeginTools, childVars
<1>9. CASE Report
    BY <1>9
       DEF Report, childVars
<1>10. CASE KillGroup
    BY <1>10
       DEF KillGroup, Live, childVars
<1>11. CASE ExitAfterReap
    BY <1>11
       DEF ExitAfterReap, AllReaped, Unreaped, childVars
<1>12. CASE OperatorTerm
    BY <1>12
       DEF OperatorTerm, AfterTerm, childVars
<1>13. ASSUME NEW c \in Child, ReapChild(c) PROVE Control'
    BY <1>13
       DEF ReapChild, AfterReap, KidsAfter, childVars
<1>14. ASSUME NEW c \in Child, ReapAny(c) PROVE Control'
    BY <1>14
       DEF ReapAny, parentVars, childVars
<1>15. ASSUME NEW c \in Child, InstallHandlers(c) PROVE Control'
    BY <1>15
       DEF InstallHandlers, Move, parentVars, childVars
<1>16. ASSUME NEW c \in Child, SendReady(c) PROVE Control'
    BY <1>16
       DEF SendReady, Move, parentVars, childVars
<1>17. ASSUME NEW c \in Child, SendFails(c) PROVE Control'
    BY <1>17
       DEF SendFails, Exit, parentVars
<1>18. ASSUME NEW c \in Child, Pause(c) PROVE Control'
    BY <1>18
       DEF Pause, Move, parentVars, childVars
<1>19. ASSUME NEW c \in Child, ArmAlarm(c) PROVE Control'
    BY <1>19
       DEF ArmAlarm, Move, parentVars, childVars
<1>20. ASSUME NEW c \in Child, RunTest(c) PROVE Control'
    BY <1>20
       DEF RunTest, parentVars
<1>21. ASSUME NEW c \in Child, FailTest(c) PROVE Control'
    BY <1>21
       DEF FailTest, AfterTerm, Move, childVars
<1>22. ASSUME NEW c \in Child, ExitFailed(c) PROVE Control'
    BY <1>22
       DEF ExitFailed, Exit, parentVars
<1>23. ASSUME NEW c \in Child, Hang(c) PROVE Control'
    BY <1>23
       DEF Hang, Move, parentVars, childVars
<1>24. ASSUME NEW c \in Child, Timeout(c) PROVE Control'
    BY <1>24
       DEF Timeout, Exit, parentVars
<1>25. ASSUME NEW c \in Child, Finish(c) PROVE Control'
    BY <1>25
       DEF Finish, Exit, parentVars
<1>26. ASSUME NEW c \in Child, Quit(c) PROVE Control'
    BY <1>26
       DEF Quit, Exit, parentVars
<1>27. ASSUME NEW c \in Child, Killed(c) PROVE Control'
    BY <1>27
       DEF Killed, Live, Exit, parentVars
<1>28. CASE UNCHANGED vars
    BY <1>28
       DEF vars, parentVars, childVars
<1>29. QED
    BY <1>1, <1>2, <1>3, <1>4, <1>5, <1>6, <1>7, <1>8, <1>9, <1>10, <1>11, <1>12, <1>13, <1>14, <1>15, <1>16, <1>17, <1>18, <1>19, <1>20, <1>21, <1>22, <1>23, <1>24, <1>25, <1>26, <1>27, <1>28
       DEF Next, ParentStep, ChildStep, Environment
-----------------------------------------------------------------------------

\* A set of children is finite, has at most RunNum elements, and has RunNum of
\* them only if it holds every child.
LEMMA ChildSets ==
  ASSUME NEW S \in SUBSET Child
  PROVE  /\ IsFiniteSet(S)
         /\ Cardinality(S) \in 0 .. RunNum
         /\ Cardinality(S) = RunNum => S = Child
<1>1. IsFiniteSet(Child) /\ Cardinality(Child) = RunNum
  BY RunLoopAssumption, FS_Interval DEF Child
<1>2. IsFiniteSet(S) /\ Cardinality(S) <= RunNum /\ (Cardinality(S) = RunNum => S = Child)
  BY <1>1, FS_Subset
<1>3. Cardinality(S) \in Nat
  BY <1>2, FS_CardinalityType
<1> QED
  BY RunLoopAssumption, <1>2, <1>3

\* The children that may have sent their message.
ReadySet == {c \in Child : Ready(c)}

\* The pipe and kids_forked together never claim more children than are ready.
Messages ==
  /\ msgs <= Cardinality(ReadySet)
  /\ PreGun => msgs + kidsForked <= Cardinality(ReadySet)

\* No step takes a child out of ReadySet.
LEMMA ReadyGrows ==
  ASSUME Shape, Control, [Next]_vars
  PROVE  ReadySet \subseteq ReadySet'
<1> USE RunLoopAssumption DEF Shape, Control, ReadySet, Ready, ChildPC, Child
<1>1. CASE SetupTools
    BY <1>1
       DEF SetupTools, childVars
<1>2. CASE OpenPipe
    BY <1>2
       DEF OpenPipe, childVars
<1>3. CASE Fork
    BY <1>3
       DEF Fork, MoreToFork, childVars
<1>4. CASE ForkerReturns
    BY <1>4
       DEF ForkerReturns, MoreToFork, childVars
<1>5. CASE ReadMessage \/ ReadFails
    BY <1>5
       DEF ReadMessage, ReadFails, childVars
<1>6. CASE ClosePipe
    BY <1>6
       DEF ClosePipe, AllMessagesRead, childVars
<1>7. CASE Gun
    BY <1>7
       DEF Gun, childVars
<1>8. CASE BeginTools
    BY <1>8
       DEF BeginTools, childVars
<1>9. CASE Report
    BY <1>9
       DEF Report, childVars
<1>10. CASE KillGroup
    BY <1>10
       DEF KillGroup, Live, childVars
<1>11. CASE ExitAfterReap
    BY <1>11
       DEF ExitAfterReap, AllReaped, Unreaped, childVars
<1>12. CASE OperatorTerm
    BY <1>12
       DEF OperatorTerm, AfterTerm, childVars
<1>13. ASSUME NEW c \in Child, ReapChild(c) PROVE ReadySet \subseteq ReadySet'
    BY <1>13
       DEF ReapChild, AfterReap, KidsAfter, childVars
<1>14. ASSUME NEW c \in Child, ReapAny(c) PROVE ReadySet \subseteq ReadySet'
    BY <1>14
       DEF ReapAny, parentVars, childVars
<1>15. ASSUME NEW c \in Child, InstallHandlers(c) PROVE ReadySet \subseteq ReadySet'
    BY <1>15
       DEF InstallHandlers, Move, parentVars, childVars
<1>16. ASSUME NEW c \in Child, SendReady(c) PROVE ReadySet \subseteq ReadySet'
    BY <1>16
       DEF SendReady, Move, parentVars, childVars
<1>17. ASSUME NEW c \in Child, SendFails(c) PROVE ReadySet \subseteq ReadySet'
    BY <1>17
       DEF SendFails, Exit, parentVars
<1>18. ASSUME NEW c \in Child, Pause(c) PROVE ReadySet \subseteq ReadySet'
    BY <1>18
       DEF Pause, Move, parentVars, childVars
<1>19. ASSUME NEW c \in Child, ArmAlarm(c) PROVE ReadySet \subseteq ReadySet'
    BY <1>19
       DEF ArmAlarm, Move, parentVars, childVars
<1>20. ASSUME NEW c \in Child, RunTest(c) PROVE ReadySet \subseteq ReadySet'
    BY <1>20
       DEF RunTest, parentVars
<1>21. ASSUME NEW c \in Child, FailTest(c) PROVE ReadySet \subseteq ReadySet'
    BY <1>21
       DEF FailTest, AfterTerm, Move, childVars
<1>22. ASSUME NEW c \in Child, ExitFailed(c) PROVE ReadySet \subseteq ReadySet'
    BY <1>22
       DEF ExitFailed, Exit, parentVars
<1>23. ASSUME NEW c \in Child, Hang(c) PROVE ReadySet \subseteq ReadySet'
    BY <1>23
       DEF Hang, Move, parentVars, childVars
<1>24. ASSUME NEW c \in Child, Timeout(c) PROVE ReadySet \subseteq ReadySet'
    BY <1>24
       DEF Timeout, Exit, parentVars
<1>25. ASSUME NEW c \in Child, Finish(c) PROVE ReadySet \subseteq ReadySet'
    BY <1>25
       DEF Finish, Exit, parentVars
<1>26. ASSUME NEW c \in Child, Quit(c) PROVE ReadySet \subseteq ReadySet'
    BY <1>26
       DEF Quit, Exit, parentVars
<1>27. ASSUME NEW c \in Child, Killed(c) PROVE ReadySet \subseteq ReadySet'
    BY <1>27
       DEF Killed, Exit, parentVars, Live
<1>28. CASE UNCHANGED vars
    BY <1>28
       DEF vars, parentVars, childVars
<1>29. QED
    BY <1>1, <1>2, <1>3, <1>4, <1>5, <1>6, <1>7, <1>8, <1>9, <1>10, <1>11, <1>12, <1>13, <1>14, <1>15, <1>16, <1>17, <1>18, <1>19, <1>20, <1>21, <1>22, <1>23, <1>24, <1>25, <1>26, <1>27, <1>28
       DEF Next, ParentStep, ChildStep, Environment

\* The write() of a child adds that child to ReadySet.
LEMMA SendReadyAdds ==
  ASSUME Shape, NEW c \in Child, SendReady(c)
  PROVE  Cardinality(ReadySet') = Cardinality(ReadySet) + 1
<1>1. c \notin ReadySet /\ ReadySet' = ReadySet \cup {c}
  BY DEF SendReady, Move, Shape, ReadySet, Ready
<1>2. IsFiniteSet(ReadySet)
  BY ChildSets DEF ReadySet
<1> QED
  BY <1>1, <1>2, FS_AddElement

\* Initially the pipe is empty.
LEMMA MessagesInit == Init => Messages
<1> SUFFICES ASSUME Init PROVE Messages
  OBVIOUS
<1>1. Cardinality(ReadySet) \in Nat
  BY ChildSets, RunLoopAssumption DEF ReadySet
<1> QED
  BY <1>1 DEF Init, Messages

\* Every step keeps Messages: a write() adds a message and a ready child, a
\* read() moves a message into kids_forked.
LEMMA MessagesStep == Shape /\ Control /\ Messages /\ [Next]_vars => Messages'
<1> SUFFICES ASSUME Shape, Control, Messages, [Next]_vars PROVE Messages'
  OBVIOUS
<1>1. /\ Cardinality(ReadySet) \in Nat
      /\ Cardinality(ReadySet') \in Nat
      /\ Cardinality(ReadySet) <= Cardinality(ReadySet')
  <2>1. /\ ReadySet \in SUBSET Child
        /\ ReadySet' \in SUBSET Child
    BY DEF ReadySet, Child
  <2>2. IsFiniteSet(ReadySet') /\ Cardinality(ReadySet') \in Nat /\ Cardinality(ReadySet) \in Nat
    BY <2>1, ChildSets, RunLoopAssumption
  <2>3. Cardinality(ReadySet) <= Cardinality(ReadySet')
    BY <2>1, <2>2, ReadyGrows, FS_Subset
  <2> QED
    BY <2>2, <2>3
<1>2. CASE \E c \in Child : SendReady(c)
  <2> PICK c \in Child : SendReady(c)
    BY <1>2
  <2>1. msgs' = msgs + 1 /\ kidsForked' = kidsForked /\ pc' = pc
    BY DEF SendReady, parentVars
  <2> QED
    BY <1>1, <2>1, SendReadyAdds DEF Shape, Messages, PreGun
<1>3. CASE ReadMessage
  BY <1>1, <1>3 DEF ReadMessage, Shape, Messages, PreGun
<1>4. CASE ~ReadMessage /\ ~(\E c \in Child : SendReady(c))
  <2>1. msgs' = msgs /\ (PreGun' => PreGun /\ kidsForked' = kidsForked)
    BY <1>4 DEF Next, ParentStep, ChildStep, Environment, vars, parentVars, PreGun,
         SetupTools, OpenPipe, Fork, ForkerReturns, ReadFails, ClosePipe, Gun,
         BeginTools, ReapChild, AfterReap, Report, KillGroup, ReapAny, ExitAfterReap,
         InstallHandlers, SendFails, Pause, ArmAlarm, RunTest, FailTest, AfterTerm,
         ExitFailed, Hang, Timeout, Finish, Quit, OperatorTerm, Killed
  <2> QED
    BY <1>1, <2>1 DEF Shape, Messages
<1> QED
  BY <1>2, <1>3, <1>4
-----------------------------------------------------------------------------

\* The gun is fired and the load point not yet reported.
PostGun == pc \in {"begin", "wait", "report"}

\* Once the gun is fired every child is ready, and unless the group is being
\* killed no child starts before that.
Barrier ==
  /\ PostGun => \A c \in Child : Ready(c)
  /\ Parent \notin deaf => \/ \A c \in Child : ~Started(c)
                          \/ \A c \in Child : Ready(c)

\* Where the parent fires the gun, the pipe has carried RunNum messages.
LEMMA AllReadyAtGun ==
  ASSUME Shape, Control, Messages, pc = "sleep"
  PROVE  \A c \in Child : Ready(c)
<1>1. ReadySet \in SUBSET Child
  BY DEF ReadySet
<1>2. Cardinality(ReadySet) \in 0 .. RunNum
  BY <1>1, ChildSets
<1>3. Cardinality(ReadySet) = RunNum
  BY <1>2, RunLoopAssumption DEF Shape, Control, Messages, PreGun
<1> QED
  BY <1>1, <1>3, ChildSets DEF ReadySet

\* Every step keeps Barrier: only Gun and KillGroup start children.
LEMMA BarrierStep ==
  Shape /\ Control /\ Messages /\ Barrier /\ [Next]_vars => Barrier'
<1> SUFFICES ASSUME Shape, Control, Messages, Barrier, [Next]_vars PROVE Barrier'
  OBVIOUS
<1>1. \A c \in Child : Ready(c) => Ready(c)'
  BY ReadyGrows DEF ReadySet
<1>2. CASE Gun
  BY <1>1, <1>2, AllReadyAtGun DEF Gun, Barrier
<1>3. CASE KillGroup
  BY <1>3 DEF KillGroup, Barrier, PostGun
<1>4. CASE ~Gun /\ ~KillGroup
  <2> USE DEF Next, ParentStep, ChildStep, Environment, vars, parentVars, childVars,
         SetupTools, OpenPipe, Fork, MoreToFork, ForkerReturns, ReadMessage, ReadFails, ClosePipe,
         BeginTools, ReapChild, AfterReap, Report, ReapAny, ExitAfterReap,
         InstallHandlers, SendReady, SendFails, Pause, ArmAlarm, RunTest, FailTest,
         AfterTerm, ExitFailed, Hang, Timeout, Finish, Quit, OperatorTerm, Killed,
         Move, Exit
  <2>1. deaf' = deaf /\ (PostGun' => PostGun)
    BY <1>4 DEF PostGun
  <2>2. \A c \in Child : Started(c)' => Started(c)
    BY <1>4 DEF Shape, Started
  <2> QED
    BY <1>1, <2>1, <2>2 DEF Barrier
<1> QED
  BY <1>2, <1>3, <1>4

-----------------------------------------------------------------------------

\* The children wait() can still return, and those num_children has counted.
UnreapedSet == {c \in Child : Unreaped(c)}
CountedSet == {c \in Child : cpc[c] = "gone" /\ Counted(c)}

\* The two counters of the wait loop and the sets they count.
Accounting ==
  /\ kidsForked <= RunNum
  /\ numChildren <= RunNum
  /\ pc \in {"begin", "wait"} => kidsForked > 0
  /\ pc = "report" => kidsForked = 0
  /\ PostGun => /\ kidsForked = Cardinality(UnreapedSet)
                /\ numChildren = Cardinality(CountedSet)

\* A turn of the wait loop takes one child out of UnreapedSet and adds it to
\* CountedSet if it called exit().
LEMMA ReapChildCounts ==
  ASSUME Shape, NEW c \in Child, ReapChild(c)
  PROVE  /\ Cardinality(UnreapedSet') = Cardinality(UnreapedSet) - 1
         /\ Cardinality(CountedSet') = IF Counted(c) THEN Cardinality(CountedSet) + 1
                                                     ELSE Cardinality(CountedSet)
<1>1. c \in UnreapedSet /\ UnreapedSet' = UnreapedSet \ {c}
  BY DEF ReapChild, childVars, Shape, UnreapedSet, Unreaped
<1>2. /\ c \notin CountedSet
      /\ CountedSet' = IF Counted(c) THEN CountedSet \cup {c} ELSE CountedSet
  BY DEF ReapChild, childVars, Shape, CountedSet, Counted
<1>3. IsFiniteSet(UnreapedSet) /\ IsFiniteSet(CountedSet)
  BY ChildSets DEF UnreapedSet, CountedSet
<1>4. Cardinality(UnreapedSet') = Cardinality(UnreapedSet) - 1
  BY <1>1, <1>3, FS_RemoveElement
<1>5. Cardinality(CountedSet \cup {c}) = Cardinality(CountedSet) + 1
  BY <1>2, <1>3, FS_AddElement
<1> QED
  BY <1>2, <1>4, <1>5

\* Initially the counters are zero.
LEMMA AccountingInit == Init => Accounting
  BY RunLoopAssumption DEF Init, Accounting, PostGun

\* Every step keeps Accounting: the gun starts it with RunNum children, a turn
\* of the wait loop moves both counters, nothing else touches them after that.
LEMMA AccountingStep ==
  Shape /\ Control /\ Messages /\ Barrier /\ Accounting /\ [Next]_vars => Accounting'
<1> SUFFICES ASSUME Shape, Control, Messages, Barrier, Accounting, [Next]_vars
             PROVE  Accounting'
  OBVIOUS
<1>1. CASE Gun
  <2>1. \A c \in Child : Ready(c) /\ cpc[c] # "gone"
    BY <1>1, AllReadyAtGun DEF Gun, Control, PreGun
  <2>2. UnreapedSet' = Child /\ CountedSet' = {}
    BY <1>1, <2>1 DEF Gun, UnreapedSet, CountedSet, Unreaped, Ready
  <2>3. Cardinality(Child) = RunNum /\ Cardinality({}) = 0
    BY RunLoopAssumption, FS_Interval, FS_EmptySet DEF Child
  <2> QED
    BY <1>1, <2>2, <2>3, RunLoopAssumption DEF Gun, Accounting, Control, PreGun, PostGun
<1>2. CASE \E c \in Child : ReapChild(c)
  <2> PICK c \in Child : ReapChild(c)
    BY <1>2
  <2>1. CountedSet' \in SUBSET Child
    BY DEF CountedSet
  <2>2. Cardinality(CountedSet') \in 0 .. RunNum
    BY <2>1, ChildSets
  <2>3. /\ pc = "wait" /\ kidsForked' = kidsForked - 1
        /\ pc' \in {IF kidsForked' = 0 THEN "report" ELSE "wait", "exited"}
        /\ numChildren' = IF Counted(c) THEN numChildren + 1 ELSE numChildren
    BY DEF ReapChild, AfterReap, KidsAfter
  <2>4. kidsForked' = Cardinality(UnreapedSet') /\ numChildren' = Cardinality(CountedSet')
    BY <2>3, ReapChildCounts DEF Accounting, PostGun
  <2> QED
    BY <2>2, <2>3, <2>4, RunLoopAssumption DEF Accounting, Shape, PostGun
<1>3. CASE ReadMessage
  BY <1>3, RunLoopAssumption DEF ReadMessage, Accounting, Shape, PostGun
<1>4. CASE ~Gun /\ ~ReadMessage /\ ~(\E c \in Child : ReapChild(c))
  <2> USE DEF Next, ParentStep, ChildStep, Environment, vars, parentVars, childVars,
         SetupTools, OpenPipe, Fork, MoreToFork, ForkerReturns, ReadFails, ClosePipe,
         BeginTools, Report, KillGroup, ReapAny, ExitAfterReap,
         InstallHandlers, SendReady, SendFails, Pause, ArmAlarm, RunTest, FailTest,
         AfterTerm, ExitFailed, Hang, Timeout, Finish, Quit, OperatorTerm, Killed,
         Move, Exit, Live
  <2>1. /\ kidsForked' = kidsForked /\ numChildren' = numChildren
        /\ PostGun' => PostGun
        /\ pc' \in {"begin", "wait"} => pc \in {"begin", "wait"}
        /\ pc' = "report" => pc = "report"
    BY <1>4 DEF PostGun
  <2>2. ASSUME PostGun' PROVE UnreapedSet' = UnreapedSet /\ CountedSet' = CountedSet
    <3>1. \A c \in Child : Ready(c)
      BY <2>1, <2>2 DEF Barrier
    <3> QED
      BY <1>4, <2>1, <2>2, <3>1
         DEF Shape, PostGun, UnreapedSet, CountedSet, Unreaped, Counted, Ready
  <2> QED
    BY <2>1, <2>2 DEF Accounting
<1> QED
  BY <1>1, <1>2, <1>3, <1>4
-----------------------------------------------------------------------------

\* runloop() returned from a failed read(): before the gun, so nobody has started.
ReadFailed ==
  /\ "read" \in Faults
  /\ ~reported
  /\ kidsForked < RunNum
  /\ \A c \in Child : ~Started(c)

\* What holds at the ends of a load point, and of failed tests.
Final ==
  /\ reported => /\ \A c \in Child : cpc[c] = "gone"
                 /\ numChildren = Cardinality(CountedSet)
  /\ pc = "exited" /\ Parent \in deaf => \A c \in Child : ~Unreaped(c)
  /\ pc = "returned" => (\A c \in Child : ~Unreaped(c)) \/ ReadFailed
  /\ \A c \in Child : cpc[c] = "failing" \/ outcome[c] = "failed"
       => pc \in {"term", "reap", "exited"} /\ ~reported

\* Initially nothing is reported, nothing has failed.
LEMMA FinalInit == Init => Final
<1> SUFFICES ASSUME Init PROVE Final
  OBVIOUS
<1> QED
  BY DEF Init, Final, Unreaped

\* Once a load point is reported nothing of it changes.
LEMMA ReportedStops ==
  ASSUME Shape, Control, Final, [Next]_vars, reported
  PROVE  UNCHANGED <<cpc, outcome, numChildren, reported>>
  BY DEF Final, Control, Next, ParentStep, ChildStep, Environment, vars, parentVars,
         childVars, SetupTools, OpenPipe, Fork, ForkerReturns, ReadMessage, ReadFails, ClosePipe,
         Gun, BeginTools, ReapChild, Report, KillGroup, ReapAny, ExitAfterReap,
         InstallHandlers, SendReady, SendFails, Pause, ArmAlarm, RunTest, FailTest,
         ExitFailed, Hang, Timeout, Finish, Quit, OperatorTerm, Killed,
         Move, Exit, Live

\* Every step keeps Final.
LEMMA FinalStep ==
  Shape /\ Control /\ Barrier /\ Accounting /\ Final /\ [Next]_vars => Final'
<1> SUFFICES ASSUME Shape, Control, Barrier, Accounting, Final, [Next]_vars
             PROVE  Final'
  OBVIOUS
<1>1. CASE reported
  <2>1. UNCHANGED <<cpc, outcome, numChildren, reported>>
    BY <1>1, ReportedStops
  <2>2. CountedSet' = CountedSet
    BY <2>1 DEF CountedSet, Counted
  <2> QED
    BY <1>1, <2>1, <2>2 DEF Final, Unreaped, ReadFailed
<1>2. CASE ~reported
  <2>1. CASE Report
    <3>1. pc = "report" /\ UNCHANGED <<cpc, outcome, numChildren>>
      BY <2>1 DEF Report, childVars
    <3>2. UnreapedSet \in SUBSET Child /\ Cardinality(UnreapedSet) = 0
      BY <3>1 DEF Accounting, PostGun, UnreapedSet
    <3>3. \A c \in Child : ~Unreaped(c)
      BY <3>2, ChildSets, FS_EmptySet DEF UnreapedSet
    <3>4. \A c \in Child : cpc[c] = "gone"
      BY <3>1, <3>3 DEF Barrier, PostGun, Ready, Unreaped
    <3>5. numChildren' = Cardinality(CountedSet')
      BY <3>1 DEF Accounting, PostGun, CountedSet, Counted
    <3> QED
      BY <3>1, <3>4, <3>5 DEF Final, Unreaped
  <2>2. CASE ~Report
    <3> USE DEF Next, ParentStep, ChildStep, Environment, vars, parentVars, childVars,
           SetupTools, OpenPipe, Fork, MoreToFork, ForkerReturns, ReadMessage, ReadFails, ClosePipe,
           Gun, BeginTools, ReapChild, AfterReap, KillGroup, ReapAny, ExitAfterReap,
           AllReaped, InstallHandlers, SendReady, SendFails, Pause, ArmAlarm, RunTest,
           FailTest, AfterTerm, ExitFailed, Hang, Timeout, Finish, Quit, OperatorTerm,
           Killed, Move, Exit, Live
    <3>1. ~reported'
      BY <1>2, <2>2
    <3>2. ASSUME pc' = "exited", Parent \in deaf'
          PROVE  \A c \in Child : ~Unreaped(c)'
      <4>1. CASE ExitAfterReap
        BY <4>1 DEF Unreaped
      <4>2. CASE pc = "exited"
        <5>1. \A c \in Child : ~Unreaped(c)
          BY <2>2, <3>2, <4>2 DEF Final
        <5>2. cpc' = cpc
          BY <2>2, <4>2, <5>1 DEF Unreaped
        <5> QED
          BY <5>1, <5>2 DEF Unreaped
      <4>3. ExitAfterReap \/ pc = "exited"
        BY <2>2, <3>2 DEF Control
      <4> QED
        BY <4>1, <4>2, <4>3
    <3>4. ASSUME pc' = "returned" PROVE (\A c \in Child : ~Unreaped(c)') \/ ReadFailed'
      <4>1. CASE OpenPipe
        BY <4>1, RunLoopAssumption DEF Control, Shape, Unreaped, Child
      <4>2. CASE ReadFails
        BY <3>1, <4>2 DEF Control, PreGun, Started, ReadFailed
      <4>3. CASE pc = "returned" /\ \A c \in Child : ~Unreaped(c)
        <5>1. cpc' = cpc
          BY <2>2, <4>3 DEF Unreaped
        <5> QED
          BY <4>3, <5>1 DEF Unreaped
      <4>4. CASE pc = "returned" /\ ReadFailed
        <5>1. \A c \in Child : ~Started(c)'
          BY <2>2, <4>4 DEF ReadFailed, Shape, Started
        <5>2. kidsForked' = kidsForked
          BY <2>2, <4>4
        <5> QED
          BY <3>1, <4>4, <5>1, <5>2 DEF ReadFailed
      <4>5. OpenPipe \/ ReadFails \/ pc = "returned"
        BY <2>2, <3>4
      <4> QED
        BY <4>1, <4>2, <4>3, <4>4, <4>5 DEF Final
    <3>3. ASSUME NEW c \in Child, cpc[c]' = "failing" \/ outcome[c]' = "failed"
          PROVE  pc' \in {"term", "reap", "exited"}
      BY <1>2, <2>2, <3>3 DEF Final, ReadFailed, Started, Control, Shape, Unreaped, ParentPC
    <3> QED
      BY <3>1, <3>2, <3>3, <3>4 DEF Final
  <2> QED
    BY <2>1, <2>2
<1> QED
  BY <1>1, <1>2

-----------------------------------------------------------------------------

\* Monitoring starts after the gun and stays on only while no more than an
\* eighth of the children have called exit().
Tools ==
  /\ PreGun \/ pc = "begin" => numChildren = 0 /\ ~toolsOn
  /\ toolsOn => ~HaltDue(numChildren)

\* Initially monitoring is off.
LEMMA ToolsInit == Init => Tools
  BY DEF Init, Tools

\* An eighth of a positive number of users is less than all of them.
LEMMA EighthBounds ==
  ASSUME NEW n \in Nat \ {0}
  PROVE  0 <= n \div 8 /\ n \div 8 < n
  OBVIOUS

\* Every step keeps Tools.
LEMMA ToolsStep == Shape /\ Control /\ Tools /\ [Next]_vars => Tools'
<1> SUFFICES ASSUME Shape, Control, Tools, [Next]_vars PROVE Tools'
  OBVIOUS
<1>1. CASE BeginTools
  <2>1. pc = "begin" /\ numChildren' = 0 /\ pc' \in {"wait", "exited"}
    BY <1>1 DEF BeginTools, Tools
  <2>2. ~HaltDue(numChildren)'
    BY <2>1, RunLoopAssumption, EighthBounds DEF HaltDue
  <2> QED
    BY <2>1, <2>2 DEF Tools, PreGun
<1>2. ASSUME NEW c \in Child, ReapChild(c) PROVE Tools'
  <2>1. pc = "wait" /\ pc' \in {"wait", "report", "exited"}
    BY <1>2 DEF ReapChild, AfterReap
  <2>2. CASE outcome[c] = "killed"
    BY <1>2, <2>1, <2>2 DEF ReapChild, Counted, Tools, PreGun, HaltDue
  <2>3. CASE outcome[c] # "killed"
    BY <1>2, <2>1, <2>3 DEF ReapChild, Counted, Tools, PreGun, HaltDue
  <2> QED
    BY <2>2, <2>3
<1>3. CASE UNCHANGED <<numChildren, toolsOn>> /\ ~BeginTools
  <2>1. (PreGun \/ pc = "begin")' => PreGun \/ pc = "begin"
    BY <1>3 DEF PreGun, Next, ParentStep, ChildStep, Environment, vars, parentVars,
           SetupTools, OpenPipe, Fork, ForkerReturns, ReadMessage, ReadFails, ClosePipe, Gun,
           Report, KillGroup, ReapChild, AfterReap, ReapAny, ExitAfterReap,
           InstallHandlers, SendReady, SendFails, Pause, ArmAlarm, RunTest, FailTest,
           AfterTerm, ExitFailed, Hang, Timeout, Finish, Quit, OperatorTerm, Killed
  <2> QED
    BY <1>3, <2>1 DEF Tools, HaltDue
<1>4. \/ BeginTools
      \/ \E c \in Child : ReapChild(c)
      \/ UNCHANGED <<numChildren, toolsOn>>
  BY DEF Next, ParentStep, ChildStep, Environment, vars, parentVars,
         SetupTools, OpenPipe, Fork, ForkerReturns, ReadMessage, ReadFails, ClosePipe, Gun,
         Report, KillGroup, ReapAny, ExitAfterReap,
         InstallHandlers, SendReady, SendFails, Pause, ArmAlarm, RunTest, FailTest,
         ExitFailed, Hang, Timeout, Finish, Quit, OperatorTerm, Killed
<1> QED
  BY <1>1, <1>2, <1>3, <1>4

-----------------------------------------------------------------------------

\* The inductive invariant.
IInv == Shape /\ Control /\ Messages /\ Barrier /\ Accounting /\ Final /\ Tools

\* IInv is an invariant of the load point.
THEOREM Invariance == Spec => []IInv
<1>1. Init => IInv
  <2> SUFFICES ASSUME Init PROVE IInv
    OBVIOUS
  <2>1. Barrier
    BY DEF Init, Barrier, PostGun, Started
  <2> QED
    BY <2>1, ShapeInit, ControlInit, MessagesInit, AccountingInit, FinalInit, ToolsInit
       DEF IInv
<1>2. IInv /\ [Next]_vars => IInv'
  BY ShapeStep, ControlStep, MessagesStep, BarrierStep, AccountingStep, FinalStep,
     ToolsStep DEF IInv
<1> QED
  BY <1>1, <1>2, PTL DEF Spec

\* Every variable keeps its type; in particular no counter of the parent and no
\* number of messages in the pipe ever exceeds the number of users.
THEOREM TypeCorrect == Spec => []TypeOK
<1>1. IInv => TypeOK
  <2> SUFFICES ASSUME IInv PROVE TypeOK
    OBVIOUS
  <2>1. Cardinality(ReadySet) \in 0 .. RunNum
    BY ChildSets DEF ReadySet
  <2>2. msgs \in 0 .. RunNum /\ kidsForked \in 0 .. RunNum /\ numChildren \in 0 .. RunNum
    BY <2>1, RunLoopAssumption DEF IInv, Shape, Messages, Accounting
  <2> QED
    BY <2>2 DEF IInv, Shape, TypeOK
<1> QED
  BY <1>1, Invariance, PTL

\* Unless the run is being killed, no child starts its load before every child
\* has reported ready, whatever fails on the way.
THEOREM StartBarrierHolds == Spec => []StartBarrier
<1>1. IInv => StartBarrier
  BY DEF IInv, Barrier, StartBarrier
<1> QED
  BY <1>1, Invariance, PTL

\* The wait loop waits for exactly the children that are left, so its exit on
\* ECHILD is never taken.
THEOREM WaitAccountingHolds == Spec => []WaitAccounting
<1>1. IInv => WaitAccounting
  BY DEF IInv, Accounting, WaitAccounting, PostGun, UnreapedSet
<1> QED
  BY <1>1, Invariance, PTL

\* A reported load point has reaped all its children, num_children is the number
\* of those that were not killed by a signal, and monitoring is off if none was.
THEOREM ReportIsFinalHolds == Spec => []ReportIsFinal
<1>1. IInv => ReportIsFinal
  <2> SUFFICES ASSUME IInv, reported PROVE ReportIsFinal
    BY DEF ReportIsFinal
  <2>1. /\ \A c \in Child : cpc[c] = "gone"
        /\ numChildren = Cardinality(CountedSet)
    BY DEF IInv, Final
  <2>2. CountedSet = {c \in Child : outcome[c] # "killed"}
    BY <2>1 DEF CountedSet, Counted
  <2>3. numChildren = RunNum => ~toolsOn
    BY RunLoopAssumption, EighthBounds DEF IInv, Tools, HaltDue
  <2> QED
    BY <2>1, <2>2, <2>3 DEF ReportIsFinal
<1> QED
  BY <1>1, Invariance, PTL

\* No load point with a failed test is reported.
THEOREM FailureNeverReportedHolds == Spec => []FailureNeverReported
<1>1. IInv => FailureNeverReported
  BY DEF IInv, Final, FailureNeverReported
<1> QED
  BY <1>1, Invariance, PTL

\* Neither a reported load point nor kill_all_child_processes() leaves a child behind;
\* runloop() returns with children alive only from a failed read(), and none of them
\* begins its load.
THEOREM NoOrphansHolds == Spec => []NoOrphans
<1>1. IInv => NoOrphans
  BY DEF IInv, Final, ReadFailed, NoOrphans, Unreaped
<1> QED
  BY <1>1, Invariance, PTL

-----------------------------------------------------------------------------
(* runloop() implements LoadPoint, for any number of users and any faults  *)
(* but a SIGTERM from outside, provided that the parent's sleep() lets     *)
(* every child get from its write() to its pause().                        *)

\* The state of all users.
UserBar == [c \in Child |-> UserView(cpc[c], outcome[c])]

\* What a child's place and end say about its user.
LEMMA UserViewValues ==
  ASSUME NEW how \in Outcome
  PROVE  /\ \A place \in {"absent", "forked", "armed"} : UserView(place, how) = "away"
         /\ \A place \in {"sent", "paused"} : UserView(place, how) = "ready"
         /\ \A place \in {"started", "working", "hung", "failing"} :
              UserView(place, how) = "working"
         /\ \A place \in {"zombie", "gone"} :
              UserView(place, how) = IF how = "done" THEN "completed" ELSE "dropped"
         /\ UserView("quitting", how) = "dropped"
  BY DEF UserView, Outcome

\* What the parent's place says about the phase.
LEMMA LoadPhaseValues ==
  ASSUME Shape
  PROVE  /\ reported => LoadPhase = "published"
         /\ ~reported /\ pc \in {"begin", "wait", "report"} => LoadPhase = "running"
         /\ ~reported /\ pc \in {"term", "reap", "exited", "returned"}
              => LoadPhase = "aborted"
         /\ ~reported /\ PreGun => LoadPhase = "assembling"
  BY DEF LoadPhase, Shape, ParentPC, PreGun

\* If at most child c moves, at most user c does.
LEMMA OneUserMoves ==
  ASSUME Shape, Shape', NEW c \in Child,
         \A d \in Child \ {c} : cpc'[d] = cpc[d] /\ outcome'[d] = outcome[d]
  PROVE  UserBar' = [UserBar EXCEPT ![c] = UserView(cpc'[c], outcome'[c])]
  BY DEF UserBar

\* The phase depends on pc and reported only.
LEMMA PhaseKept ==
  ASSUME pc' = pc, reported' = reported
  PROVE  LoadPhase' = LoadPhase
  BY DEF LoadPhase

-----------------------------------------------------------------------------
(* What the refinement needs beyond IInv: nobody is late once the gun has  *)
(* been fired, so the SIGTERM that follows a failed test finds every child *)
(* past its pause().                                                       *)

GunFired == pc \in {"begin", "wait", "report", "term", "reap"}

NobodyLate ==
  /\ GunFired => \A c \in Child :
       cpc[c] \notin {"absent", "forked", "armed", "sent", "paused", "quitting"}
  /\ pc = "reap" => Parent \in deaf

\* NobodyLate holds initially and every step keeps it.
LEMMA NobodyLateStep ==
  ASSUME SleepSuffices, "term" \notin Faults, IInv, NobodyLate, [Next]_vars
  PROVE  NobodyLate'
<1> USE DEF NobodyLate, GunFired
<1>1. CASE Gun
  <2>1. \A c \in Child : Ready(c)
    BY <1>1, AllReadyAtGun DEF Gun, IInv
  <2>2. \A c \in Child : cpc[c] # "sent"
    BY <1>1 DEF Gun
  <2> QED
    BY <1>1, <2>1, <2>2 DEF Gun, Ready, IInv, Shape
<1>2. CASE KillGroup
  <2>1. pc = "term" /\ pc' = "reap" /\ Parent \in deaf'
    BY <1>2 DEF KillGroup
  <2>2. \A c \in Child : cpc[c] # "forked" /\ cpc[c] # "paused"
    BY <2>1
  <2>3. \A c \in Child : cpc'[c] = cpc[c]
    BY <1>2, <2>2 DEF KillGroup
  <2> QED
    BY <2>1, <2>3
<1>3. ASSUME NEW c \in Child, FailTest(c) PROVE NobodyLate'
  <2>1. cpc[c] = "working" /\ ~PreGun
    BY <1>3 DEF FailTest, Move, IInv, Control, Started
  <2>2. cpc' = [cpc EXCEPT ![c] = "failing"] /\ deaf' = deaf /\ pc' = AfterTerm
    BY <1>3 DEF FailTest, Move
  <2>3. GunFired' => GunFired
    BY <2>1, <2>2 DEF AfterTerm, PreGun, IInv, Shape, ParentPC
  <2>4. pc' = "reap" => pc = "reap"
    BY <2>2 DEF AfterTerm
  <2> QED
    BY <2>2, <2>3, <2>4 DEF IInv, Shape
<1>4. CASE ~Gun /\ ~KillGroup /\ ~\E c \in Child : FailTest(c)
  <2>1. deaf' = deaf /\ (GunFired' => GunFired) /\ (pc' = "reap" => pc = "reap")
    BY <1>4 DEF Next, ParentStep, ChildStep, Environment, vars, parentVars,
           childVars, SetupTools, OpenPipe, Fork, ForkerReturns, ReadMessage, ReadFails,
           ClosePipe, BeginTools, ReapChild, AfterReap, Report, ReapAny,
           ExitAfterReap, InstallHandlers, SendReady, SendFails, Pause, ArmAlarm,
           RunTest, ExitFailed, Hang, Timeout, Finish, Quit, OperatorTerm, Killed
  <2>2. ASSUME GunFired, NEW c \in Child
        PROVE  \/ cpc'[c] = cpc[c]
               \/ cpc'[c] \in {"working", "hung", "zombie", "gone"}
    <3>1. /\ cpc[c] \notin {"absent", "forked", "armed", "sent", "paused", "quitting"}
          /\ pc # "fork"
          /\ cpc \in [Child -> ChildPC]
      BY <2>2 DEF IInv, Shape
    <3> QED
      BY <1>4, <2>2, <3>1 DEF Next, ParentStep, ChildStep, Environment, vars,
           parentVars, childVars, SetupTools, OpenPipe, Fork, ForkerReturns,
           ReadMessage, ReadFails, ClosePipe, BeginTools, ReapChild, Report, ReapAny,
           ExitAfterReap, InstallHandlers, SendReady, SendFails, Pause, ArmAlarm,
           RunTest, ExitFailed, Hang, Timeout, Finish, Quit, OperatorTerm, Killed,
           Move, Exit
  <2> QED
    BY <2>1, <2>2
<1> QED
  BY <1>1, <1>2, <1>3, <1>4
-----------------------------------------------------------------------------
(* Every step of the load point is one of LoadPoint's or changes nothing   *)
(* that LoadPoint can see.                                                 *)

LPStep == [LP!Next]_(LP!vars)

\* A step of child c that leaves the parent alone and moves the child's user in
\* a way LoadPoint allows.
LEMMA UserStep ==
  ASSUME IInv, Shape', NEW c \in Child,
         pc' = pc, reported' = reported, cpc[c] # "gone",
         \A d \in Child \ {c} : cpc'[d] = cpc[d] /\ outcome'[d] = outcome[d],
         \/ UserView(cpc'[c], outcome'[c]) = UserView(cpc[c], outcome[c])
         \/ /\ UserView(cpc[c], outcome[c]) = "away"
            /\ UserView(cpc'[c], outcome'[c]) = "ready"
         \/ /\ UserView(cpc[c], outcome[c]) = "working"
            /\ UserView(cpc'[c], outcome'[c]) = "completed"
         \/ /\ UserView(cpc[c], outcome[c]) \in {"away", "ready", "working"}
            /\ UserView(cpc'[c], outcome'[c]) = "dropped"
  PROVE  LPStep
<1>1. LoadPhase' = LoadPhase
  BY PhaseKept
<1>2. UserBar' = [UserBar EXCEPT ![c] = UserView(cpc'[c], outcome'[c])]
  BY OneUserMoves DEF IInv
<1>3. UserBar[c] = UserView(cpc[c], outcome[c])
  BY DEF UserBar
<1>4. LoadPhase # "published"
  BY LoadPhaseValues DEF IInv, Final, LoadPhase
<1>5. CASE UserView(cpc'[c], outcome'[c]) = UserView(cpc[c], outcome[c])
  <2>1. UserBar' = UserBar
    BY <1>2, <1>3, <1>5 DEF UserBar
  <2> QED
    BY <1>1, <2>1 DEF LPStep, LP!vars, UserBar
<1>6. CASE /\ UserView(cpc[c], outcome[c]) = "away"
           /\ UserView(cpc'[c], outcome'[c]) = "ready"
  <2>1. LP!Arrive(c)
    BY <1>1, <1>2, <1>3, <1>4, <1>6 DEF LP!Arrive, UserBar
  <2> QED
    BY <2>1 DEF LPStep, LP!Next
<1>7. CASE /\ UserView(cpc[c], outcome[c]) = "working"
           /\ UserView(cpc'[c], outcome'[c]) = "completed"
  <2>1. LP!Leave(c)
    BY <1>1, <1>2, <1>3, <1>4, <1>7 DEF LP!Leave, UserBar
  <2> QED
    BY <2>1 DEF LPStep, LP!Next
<1>8. CASE /\ UserView(cpc[c], outcome[c]) \in {"away", "ready", "working"}
           /\ UserView(cpc'[c], outcome'[c]) = "dropped"
  <2>1. LP!Leave(c)
    BY <1>1, <1>2, <1>3, <1>4, <1>8 DEF LP!Leave, UserBar
  <2> QED
    BY <2>1 DEF LPStep, LP!Next
<1> QED
  BY <1>5, <1>6, <1>7, <1>8

\* A child's own steps, its death by a signal, and the parent's wait().
LEMMA ChildMoves ==
  ASSUME IInv, Shape', NEW c \in Child,
         \/ InstallHandlers(c) \/ SendReady(c) \/ SendFails(c) \/ Pause(c)
         \/ ArmAlarm(c) \/ RunTest(c) \/ ExitFailed(c) \/ Hang(c)
         \/ Timeout(c) \/ Finish(c) \/ Quit(c) \/ Killed(c) \/ ReapAny(c)
  PROVE  LPStep
<1>1. /\ cpc \in [Child -> ChildPC] /\ outcome \in [Child -> Outcome]
      /\ cpc' \in [Child -> ChildPC] /\ outcome' \in [Child -> Outcome]
  BY DEF IInv, Shape
<1>2. outcome[c] \in Outcome /\ outcome'[c] \in Outcome
  BY <1>1
<1> DEFINE Before == UserView(cpc[c], outcome[c])
           After == UserView(cpc'[c], outcome'[c])
<1>3. /\ pc' = pc /\ reported' = reported /\ cpc[c] # "gone"
      /\ \A d \in Child \ {c} : cpc'[d] = cpc[d] /\ outcome'[d] = outcome[d]
  BY <1>1 DEF InstallHandlers, SendReady, SendFails, Pause, ArmAlarm, RunTest,
       ExitFailed, Hang, Timeout, Finish, Quit, Killed, ReapAny, Move, Exit,
       Live, parentVars, childVars
<1>4. CASE InstallHandlers(c) \/ Pause(c) \/ ArmAlarm(c) \/ RunTest(c) \/ Hang(c)
  <2>1. After = Before
    BY <1>1, <1>2, <1>4, UserViewValues
       DEF InstallHandlers, Pause, ArmAlarm, RunTest, Hang, Move, childVars
  <2> QED
    BY <1>3, <2>1, UserStep
<1>5. CASE SendReady(c)
  <2>1. Before = "away" /\ After = "ready"
    BY <1>1, <1>2, <1>5, UserViewValues DEF SendReady, Move, childVars
  <2> QED
    BY <1>3, <2>1, UserStep
<1>6. CASE SendFails(c) \/ ExitFailed(c) \/ Timeout(c) \/ Killed(c)
  <2>1. /\ cpc[c] \in ChildPC \ {"absent", "zombie", "gone"} /\ cpc'[c] = "zombie"
        /\ outcome'[c] \in {"nowrite", "failed", "timeout", "killed"}
    BY <1>1, <1>6 DEF SendFails, ExitFailed, Timeout, Killed, Exit, Live
  <2>2. After = "dropped"
    BY <1>2, <2>1, UserViewValues
  <2>3. Before \in {"away", "ready", "working", "dropped"}
    BY <1>2, <2>1, UserViewValues DEF ChildPC
  <2> QED
    BY <1>3, <2>2, <2>3, UserStep
<1>7. CASE Finish(c)
  <2>1. Before = "working" /\ After = "completed"
    BY <1>1, <1>2, <1>7, UserViewValues DEF Finish, Exit
  <2> QED
    BY <1>3, <2>1, UserStep
<1>8. CASE Quit(c)
  <2>1. After = Before
    BY <1>1, <1>2, <1>8, UserViewValues DEF Quit, Exit
  <2> QED
    BY <1>3, <2>1, UserStep
<1>9. CASE ReapAny(c)
  <2>1. After = Before
    BY <1>1, <1>2, <1>9, UserViewValues DEF ReapAny, childVars
  <2> QED
    BY <1>3, <2>1, UserStep
<1> QED
  BY <1>4, <1>5, <1>6, <1>7, <1>8, <1>9

\* A step that changes no user and keeps the phase or aborts the load point.
LEMMA PhaseStep ==
  ASSUME UserBar' = UserBar,
         \/ LoadPhase' = LoadPhase
         \/ LoadPhase \in {"assembling", "running"} /\ LoadPhase' = "aborted"
  PROVE  LPStep
<1>1. CASE LoadPhase' = LoadPhase
  BY <1>1 DEF LPStep, LP!vars, UserBar
<1>2. CASE LoadPhase \in {"assembling", "running"} /\ LoadPhase' = "aborted"
  <2>1. LP!Abort
    BY <1>2 DEF LP!Abort, UserBar
  <2> QED
    BY <2>1 DEF LPStep, LP!Next
<1> QED
  BY <1>1, <1>2

\* A test that fails keeps its user working; the SIGTERM may abort the run.
LEMMA FailMoves ==
  ASSUME IInv, Shape', NEW c \in Child, FailTest(c)
  PROVE  LPStep
<1>1. /\ cpc[c] = "working" /\ cpc' = [cpc EXCEPT ![c] = "failing"]
      /\ outcome' = outcome /\ pc' = AfterTerm /\ reported' = reported
  BY DEF FailTest, Move, childVars
<1>2. \A d \in Child : UserView(cpc'[d], outcome'[d]) = UserView(cpc[d], outcome[d])
  <2> TAKE d \in Child
  <2>1. CASE d = c
    BY <1>1, <2>1, UserViewValues DEF IInv, Shape
  <2>2. CASE d # c
    BY <1>1, <2>2 DEF IInv, Shape
  <2> QED
    BY <2>1, <2>2
<1>3. UserBar' = UserBar
  BY <1>2 DEF UserBar
<1>4. ~reported
  BY <1>1 DEF IInv, Final
<1>5. CASE pc' = pc
  BY <1>1, <1>3, <1>5, PhaseKept, PhaseStep
<1>6. CASE pc' = "term"
  <2>1. LoadPhase' = "aborted"
    BY <1>1, <1>4, <1>6, LoadPhaseValues DEF LoadPhase
  <2>2. LoadPhase \in {"assembling", "running", "aborted"}
    BY <1>4 DEF LoadPhase
  <2> QED
    BY <1>3, <2>1, <2>2, PhaseStep
<1> QED
  BY <1>1, <1>5, <1>6 DEF AfterTerm

\* The gun starts everybody who waits for it, and nobody is late.
LEMMA GunStarts ==
  ASSUME SleepSuffices, IInv, IInv', NobodyLate', Gun
  PROVE  LPStep
<1>1. /\ pc = "sleep" /\ pc' = "begin" /\ ~reported /\ ~reported'
      /\ outcome' = outcome
      /\ \A c \in Child : cpc'[c] = IF cpc[c] = "paused" THEN "started" ELSE cpc[c]
      /\ \A c \in Child : cpc[c] # "sent"
  BY DEF Gun, childVars, IInv, Control
<1>2. LoadPhase = "assembling" /\ LoadPhase' = "running"
  BY <1>1 DEF LoadPhase
<1>3. ASSUME NEW c \in Child
      PROVE  /\ UserView(cpc[c], outcome[c]) # "away"
             /\ UserView(cpc'[c], outcome'[c]) =
                  IF UserView(cpc[c], outcome[c]) = "ready"
                    THEN "working" ELSE UserView(cpc[c], outcome[c])
  <2>1. outcome[c] \in Outcome /\ cpc[c] \in ChildPC
    BY DEF IInv, Shape
  <2>2. cpc[c] \notin {"absent", "forked", "armed", "sent", "quitting"}
    BY <1>1, AllReadyAtGun DEF IInv, Gun, Ready
  <2> QED
    BY <1>1, <2>1, <2>2, UserViewValues DEF ChildPC
<1>4. LP!Start
  BY <1>2, <1>3 DEF LP!Start
<1> QED
  BY <1>4 DEF LPStep, LP!Next

\* The report is written when every user has completed or dropped out.
LEMMA ReportPublishes ==
  ASSUME IInv, IInv', Report
  PROVE  LPStep
<1>1. /\ pc = "report" /\ ~reported /\ reported'
      /\ cpc' = cpc /\ outcome' = outcome
  BY DEF Report, childVars, IInv, Control
<1>2. LoadPhase = "running" /\ LoadPhase' = "published"
  BY <1>1 DEF LoadPhase
<1>3. \A c \in Child : cpc[c] = "gone" /\ outcome[c] \in Outcome
  BY <1>1 DEF IInv, Final, Shape
<1>4. \A c \in Child : UserView(cpc[c], outcome[c]) \in {"completed", "dropped"}
  BY <1>3, UserViewValues
<1>5. LP!Publish
  BY <1>1, <1>2, <1>4 DEF LP!Publish
<1> QED
  BY <1>5 DEF LPStep, LP!Next

\* A turn of the wait loop moves no user; a failed tool aborts the run.
LEMMA ReapMoves ==
  ASSUME IInv, NEW c \in Child, ReapChild(c)
  PROVE  LPStep
<1>1. /\ cpc[c] = "zombie" /\ cpc' = [cpc EXCEPT ![c] = "gone"]
      /\ outcome' = outcome /\ reported' = reported
      /\ pc = "wait" /\ pc' \in {"wait", "report", "exited"}
  BY DEF ReapChild, AfterReap, childVars
<1>2. \A d \in Child : UserView(cpc'[d], outcome'[d]) = UserView(cpc[d], outcome[d])
  BY <1>1, UserViewValues DEF IInv, Shape
<1>3. UserBar' = UserBar
  BY <1>2 DEF UserBar
<1>4. ~reported
  BY <1>1 DEF IInv, Control
<1> QED
  BY <1>1, <1>3, <1>4, PhaseStep DEF LoadPhase

\* The parent's other steps move no user.
LEMMA ParentMoves ==
  ASSUME IInv, NobodyLate,
         \/ SetupTools \/ OpenPipe \/ Fork \/ ForkerReturns \/ ReadMessage \/ ReadFails
         \/ ClosePipe \/ BeginTools \/ KillGroup \/ ExitAfterReap
  PROVE  LPStep
<1>1. reported' = reported /\ outcome' = outcome
  BY DEF SetupTools, OpenPipe, Fork, ForkerReturns, ReadMessage, ReadFails, ClosePipe,
         BeginTools, KillGroup, ExitAfterReap, childVars
<1>2. CASE Fork
  <2>1. cnt \in Child /\ cpc[cnt] = "absent" /\ cpc' = [cpc EXCEPT ![cnt] = "forked"]
    BY <1>2, RunLoopAssumption DEF Fork, MoreToFork, IInv, Shape, Control, Child
  <2>2. \A d \in Child : UserView(cpc'[d], outcome'[d]) = UserView(cpc[d], outcome[d])
    BY <1>1, <2>1, UserViewValues DEF IInv, Shape
  <2>3. UserBar' = UserBar
    BY <2>2 DEF UserBar
  <2> QED
    BY <1>1, <1>2, <2>3, PhaseKept, PhaseStep DEF Fork
<1>3. CASE KillGroup
  <2>1. \A c \in Child : cpc'[c] = cpc[c]
    BY <1>3 DEF KillGroup, NobodyLate, GunFired
  <2>2. UserBar' = UserBar
    BY <1>1, <2>1 DEF UserBar
  <2>3. LoadPhase' = LoadPhase
    BY <1>1, <1>3 DEF KillGroup, LoadPhase
  <2> QED
    BY <2>2, <2>3, PhaseStep
<1>4. CASE SetupTools \/ OpenPipe \/ ReadFails \/ BeginTools
  <2>1. /\ cpc' = cpc /\ pc \in {"setup", "pipe", "read", "begin"}
        /\ pc' \in {"pipe", "fork", "wait", "exited", "returned"}
        /\ pc \in {"setup", "pipe", "read"} => pc' # "wait"
        /\ pc = "begin" => pc' \notin {"pipe", "fork"}
    BY <1>4 DEF SetupTools, OpenPipe, ReadFails, BeginTools
  <2>2. UserBar' = UserBar
    BY <1>1, <2>1 DEF UserBar
  <2>3. ~reported
    BY <2>1 DEF IInv, Control
  <2> QED
    BY <1>1, <2>1, <2>2, <2>3, PhaseStep DEF LoadPhase
<1>5. CASE ForkerReturns \/ ReadMessage \/ ClosePipe \/ ExitAfterReap
  <2>1. /\ cpc' = cpc
        /\ \/ pc \in {"fork", "read", "sleep"} /\ pc' \in {"fork", "read", "sleep"}
           \/ pc = "reap" /\ pc' = "exited"
    BY <1>5 DEF ForkerReturns, ReadMessage, ClosePipe, ExitAfterReap
  <2>2. UserBar' = UserBar
    BY <1>1, <2>1 DEF UserBar
  <2>3. LoadPhase' = LoadPhase
    BY <1>1, <2>1 DEF LoadPhase
  <2> QED
    BY <2>2, <2>3, PhaseStep
<1> QED
  BY <1>2, <1>3, <1>4, <1>5

\* runloop() implements LoadPoint: when nobody outside sends SIGTERM and a child
\* always reaches pause() during the parent's sleep(), users start together,
\* and the result is published once all have completed or dropped out.
THEOREM Refinement ==
  ASSUME SleepSuffices, "term" \notin Faults
  PROVE  Spec => ImplementsLoadPoint
<1>1. Init => LP!Init
  <2> SUFFICES ASSUME Init PROVE LP!Init
    OBVIOUS
  <2>1. \A c \in Child : UserView(cpc[c], outcome[c]) = "away"
    BY UserViewValues DEF Init, Outcome
  <2>2. LoadPhase = "assembling"
    BY DEF Init, LoadPhase
  <2> QED
    BY <2>1, <2>2 DEF LP!Init
<1>2. Init => NobodyLate
  BY DEF Init, NobodyLate, GunFired
<1>3. IInv /\ NobodyLate /\ [Next]_vars => NobodyLate'
  BY NobodyLateStep
<1>4. IInv /\ IInv' /\ NobodyLate /\ NobodyLate' /\ [Next]_vars => [LP!Next]_(LP!vars)
  <2> SUFFICES ASSUME IInv, IInv', NobodyLate, NobodyLate', [Next]_vars PROVE LPStep
    BY DEF LPStep
  <2>1. Shape'
    BY DEF IInv
  <2>2. CASE Gun
    BY <2>2, GunStarts
  <2>3. CASE Report
    BY <2>3, ReportPublishes
  <2>4. CASE \E c \in Child : ReapChild(c)
    BY <2>4, ReapMoves
  <2>5. CASE \E c \in Child : FailTest(c)
    BY <2>1, <2>5, FailMoves
  <2>6. CASE \/ SetupTools \/ OpenPipe \/ Fork \/ ForkerReturns \/ ReadMessage \/ ReadFails
             \/ ClosePipe \/ BeginTools \/ KillGroup \/ ExitAfterReap
    BY <2>6, ParentMoves
  <2>7. ASSUME NEW c \in Child,
               \/ InstallHandlers(c) \/ SendReady(c) \/ SendFails(c) \/ Pause(c)
               \/ ArmAlarm(c) \/ RunTest(c) \/ ExitFailed(c) \/ Hang(c)
               \/ Timeout(c) \/ Finish(c) \/ Quit(c) \/ Killed(c) \/ ReapAny(c)
        PROVE  LPStep
    BY <2>1, <2>7, ChildMoves
  <2>8. CASE UNCHANGED vars
    <3>1. UserBar' = UserBar /\ LoadPhase' = LoadPhase
      BY <2>8 DEF vars, parentVars, childVars, UserBar, LoadPhase
    <3> QED
      BY <3>1, PhaseStep
  <2>9. ~OperatorTerm
    BY DEF OperatorTerm
  <2> QED
    BY <2>2, <2>3, <2>4, <2>5, <2>6, <2>7, <2>8, <2>9
       DEF Next, ParentStep, ChildStep, Environment
<1> QED
  BY <1>1, <1>2, <1>3, <1>4, Invariance, PTL DEF Spec, ImplementsLoadPoint, LP!Spec
-----------------------------------------------------------------------------
(* How a load point can end, and where it can stop.  Until the gun is      *)
(* fired the messages sent are exactly those read or still in the pipe, so *)
(* a parent that reads an empty pipe misses a child.                       *)

\* The children that have not died without their message, and those that wait
\* for the gun.
Answered == {c \in Child : Ready(c) /\ outcome[c] # "nowrite"}
Waiting == {c \in Child : cpc[c] \in {"sent", "paused"}}

Answers ==
  PreGun => /\ msgs + kidsForked <= Cardinality(Answered)
            /\ Cardinality(Waiting) <= msgs + kidsForked

\* Initially nobody has answered and nobody waits.
LEMMA AnswersInit == Init => Answers
<1> SUFFICES ASSUME Init PROVE Answers
  OBVIOUS
<1>1. Waiting = {}
  BY DEF Init, Waiting
<1>2. Cardinality(Answered) \in Nat
  BY ChildSets, RunLoopAssumption DEF Answered
<1> QED
  BY <1>1, <1>2, FS_EmptySet DEF Init, Answers

\* Before the gun no step but a write() adds a child to Waiting, and no step
\* takes one out of Answered.
LEMMA AnswersKept ==
  ASSUME Shape, Control, [Next]_vars, PreGun', \A c \in Child : ~SendReady(c)
  PROVE  Answered \subseteq Answered' /\ Waiting' \subseteq Waiting
<1>1. PreGun /\ ~Gun /\ ~KillGroup
  BY DEF Next, ParentStep, ChildStep, Environment, vars, parentVars, PreGun,
       SetupTools, OpenPipe, Fork, ForkerReturns, ClosePipe, Gun, BeginTools,
       ReadMessage, ReadFails, ReapChild, AfterReap, Report, KillGroup, ReapAny, ExitAfterReap,
       InstallHandlers, SendFails, Pause, ArmAlarm, RunTest, FailTest, AfterTerm,
       ExitFailed, Hang, Timeout, Finish, Quit, OperatorTerm, Killed
<1>2. ASSUME NEW c \in Child
      PROVE  /\ c \in Answered => c \in Answered'
             /\ c \in Waiting' => c \in Waiting
  <2>1. /\ cpc[c] # "gone" /\ ~Started(c) /\ cpc[c] \in ChildPC
        /\ cpc[c] \in {"zombie", "gone"} \/ outcome[c] = "none"
        /\ cpc[c] = "absent" <=> c >= cnt
        /\ cpc \in [Child -> ChildPC] /\ outcome \in [Child -> Outcome]
    BY <1>1 DEF Shape, Control
  <2>2. CASE UNCHANGED <<cpc, outcome>>
    BY <2>2 DEF Answered, Waiting, Ready
  <2>3. CASE Fork
    BY <2>1, <2>3, RunLoopAssumption DEF Fork, MoreToFork, childVars, Answered, Waiting,
         Ready, Shape, Child
  <2>4. ASSUME NEW d \in Child, ChildStep(d) \/ Killed(d) \/ ReapChild(d) \/ ReapAny(d)
        PROVE  /\ c \in Answered => c \in Answered'
               /\ c \in Waiting' => c \in Waiting
    BY <1>1, <2>1, <2>4 DEF ChildStep, InstallHandlers, SendFails, Pause, ArmAlarm,
         RunTest, FailTest, ExitFailed, Hang, Timeout, Finish, Quit, Killed, ReapChild,
         ReapAny, Move, Exit, Live, Started, PreGun, ChildPC, childVars, Answered,
         Waiting, Ready
  <2> QED
    BY <1>1, <2>2, <2>3, <2>4 DEF Next, ParentStep, Environment, vars, childVars,
         SetupTools, OpenPipe, ForkerReturns, ClosePipe, BeginTools, ReadMessage, ReadFails,
         Report, ExitAfterReap, OperatorTerm
<1> QED
  BY <1>2 DEF Answered, Waiting

\* Every step keeps Answers.
LEMMA AnswersStep == Shape /\ Control /\ Answers /\ [Next]_vars => Answers'
<1> SUFFICES ASSUME Shape, Control, Answers, [Next]_vars, PreGun'
             PROVE  /\ msgs' + kidsForked' <= Cardinality(Answered')
                    /\ Cardinality(Waiting') <= msgs' + kidsForked'
  BY DEF Answers
<1>1. /\ IsFiniteSet(Answered) /\ IsFiniteSet(Waiting)
      /\ IsFiniteSet(Answered') /\ IsFiniteSet(Waiting')
      /\ Cardinality(Answered) \in Nat /\ Cardinality(Waiting) \in Nat
      /\ Cardinality(Answered') \in Nat /\ Cardinality(Waiting') \in Nat
  <2>1. Answered \in SUBSET Child /\ Waiting \in SUBSET Child
    BY DEF Answered, Waiting
  <2>2. Answered' \in SUBSET Child /\ Waiting' \in SUBSET Child
    BY DEF Answered, Waiting, Child
  <2> QED
    BY <2>1, <2>2, ChildSets, FS_CardinalityType
<1>2. CASE \E c \in Child : SendReady(c)
  <2> PICK c \in Child : SendReady(c)
    BY <1>2
  <2>1. msgs' = msgs + 1 /\ kidsForked' = kidsForked /\ PreGun
    BY DEF SendReady, parentVars, PreGun
  <2>2. /\ c \notin Answered /\ Answered' = Answered \cup {c}
        /\ c \notin Waiting /\ Waiting' = Waiting \cup {c}
    BY DEF SendReady, Move, Shape, Control, childVars, Answered, Waiting, Ready
  <2>3. /\ Cardinality(Answered') = Cardinality(Answered) + 1
        /\ Cardinality(Waiting') = Cardinality(Waiting) + 1
    BY <1>1, <2>2, FS_AddElement
  <2> QED
    BY <1>1, <2>1, <2>3 DEF Answers, Shape
<1>3. CASE \A c \in Child : ~SendReady(c)
  <2>1. /\ Cardinality(Answered) <= Cardinality(Answered')
        /\ Cardinality(Waiting') <= Cardinality(Waiting)
    BY <1>1, <1>3, AnswersKept, FS_Subset
  <2>2. PreGun /\ msgs' + kidsForked' = msgs + kidsForked
    BY <1>3 DEF Next, ParentStep, ChildStep, Environment, vars, parentVars, PreGun,
         SetupTools, OpenPipe, Fork, ForkerReturns, ClosePipe, Gun, BeginTools,
         ReadMessage, ReadFails, ReapChild, AfterReap, Report, KillGroup, ReapAny, ExitAfterReap,
         InstallHandlers, SendFails, Pause, ArmAlarm, RunTest, FailTest, AfterTerm,
         ExitFailed, Hang, Timeout, Finish, Quit, OperatorTerm, Killed, Shape
  <2> QED
    BY <1>1, <2>1, <2>2 DEF Answers, Shape
<1> QED
  BY <1>2, <1>3

-----------------------------------------------------------------------------

\* Which event of the environment explains an outcome, and which outcomes the
\* parent's place admits.
Ends ==
  /\ pc = "reap" => Parent \in deaf
  /\ PreGun => \A c \in Child :
       /\ cpc[c] # "quitting"
       /\ cpc[c] = "zombie" => outcome[c] \in {"nowrite", "killed"}
  /\ PostGun \/ reported => \A c \in Child : outcome[c] \notin {"nowrite", "quit"}
  /\ reported => \A c \in Child : outcome[c] # "none"
  /\ \A c \in Child :
       /\ cpc[c] \in {"zombie", "gone"} => outcome[c] # "none"
       /\ outcome[c] = "done" => left[c] = 0
       /\ outcome[c] = "nowrite" => "write" \in Faults
       /\ outcome[c] = "killed" => "kill" \in Faults
       /\ cpc[c] = "hung" \/ outcome[c] = "timeout" => "hang" \in Faults
  /\ pc \in {"read", "sleep"} /\ cnt <= RunNum => "fork" \in Faults
  /\ SleepSuffices /\ PostGun => \A c \in Child : cpc[c] \notin {"sent", "paused"}

\* Initially no child has ended.
LEMMA EndsInit == Init => Ends
<1> SUFFICES ASSUME Init PROVE Ends
  OBVIOUS
<1> QED
  BY DEF Init, Ends, PreGun, PostGun

\* When the gun is fired nobody has died without a message.
LEMMA AllAnswered ==
  ASSUME Shape, Control, Answers, pc = "sleep"
  PROVE  \A c \in Child : outcome[c] # "nowrite"
<1>1. Answered \in SUBSET Child
  BY DEF Answered
<1>2. Cardinality(Answered) \in 0 .. RunNum
  BY <1>1, ChildSets
<1>3. Cardinality(Answered) = RunNum
  BY <1>2, RunLoopAssumption DEF Shape, Control, Answers, PreGun
<1> QED
  BY <1>1, <1>3, ChildSets DEF Answered

\* A step of one child, or its death, keeps what Ends says of that child.
LEMMA EndsChild ==
  ASSUME IInv, Answers, Ends, NEW c \in Child, ChildStep(c) \/ Killed(c)
  PROVE  Ends'
<1>1. /\ cpc \in [Child -> ChildPC] /\ outcome \in [Child -> Outcome]
      /\ left \in [Child -> 0 .. Jobs]
      /\ cpc[c] \notin {"absent", "zombie", "gone"} /\ outcome[c] = "none"
  BY DEF IInv, Shape, Control, ChildStep, InstallHandlers, SendReady, SendFails, Pause,
       ArmAlarm, RunTest, FailTest, ExitFailed, Hang, Timeout, Finish, Quit, Killed,
       Move, Exit, Live
<1>2. /\ deaf' = deaf /\ cnt' = cnt /\ reported' = reported /\ ~reported
      /\ pc' = pc \/ (pc' = "term" /\ pc # "reap")
  <2>1. ~reported
    BY <1>1 DEF IInv, Final
  <2>2. CASE FailTest(c)
    BY <2>1, <2>2 DEF FailTest, AfterTerm, Ends
  <2>3. CASE ~FailTest(c)
    BY <2>1, <2>3 DEF ChildStep, InstallHandlers, SendReady, SendFails, Pause,
         ArmAlarm, RunTest, ExitFailed, Hang, Timeout, Finish, Quit,
         Killed, parentVars, childVars
  <2> QED
    BY <2>2, <2>3
<1>3. \A d \in Child \ {c} :
        cpc'[d] = cpc[d] /\ outcome'[d] = outcome[d] /\ left'[d] = left[d]
  BY <1>1 DEF ChildStep, InstallHandlers, SendReady, SendFails, Pause,
       ArmAlarm, RunTest, FailTest, ExitFailed, Hang, Timeout, Finish, Quit, Killed,
       Move, Exit, childVars
<1>4. /\ cpc'[c] \in {"zombie", "gone"} => outcome'[c] # "none"
      /\ outcome'[c] = "done" => left'[c] = 0
      /\ outcome'[c] = "nowrite" => "write" \in Faults
      /\ outcome'[c] = "killed" => "kill" \in Faults
      /\ cpc'[c] = "hung" \/ outcome'[c] = "timeout" => "hang" \in Faults
  BY <1>1 DEF Ends, ChildStep, InstallHandlers, SendReady, SendFails, Pause,
       ArmAlarm, RunTest, FailTest, ExitFailed, Hang, Timeout, Finish, Quit, Killed,
       Move, Exit, childVars
<1>5. ASSUME PreGun'
      PROVE  /\ cpc'[c] # "quitting"
             /\ cpc'[c] = "zombie" => outcome'[c] \in {"nowrite", "killed"}
  <2>1. PreGun /\ ~Started(c) /\ cpc[c] # "quitting"
    BY <1>2, <1>5 DEF PreGun, IInv, Control, Ends
  <2> QED
    BY <1>1, <2>1 DEF Started, ChildStep, InstallHandlers, SendReady, SendFails, Pause,
       ArmAlarm, RunTest, FailTest, ExitFailed, Hang, Timeout, Finish, Quit, Killed,
       Move, Exit, childVars
<1>6. ASSUME PostGun'
      PROVE  /\ outcome'[c] \notin {"nowrite", "quit"}
             /\ SleepSuffices => cpc'[c] \notin {"sent", "paused"}
  <2>1. PostGun /\ Ready(c)
    BY <1>2, <1>6 DEF PostGun, IInv, Barrier
  <2>2. cpc[c] \notin {"absent", "forked", "armed", "quitting"}
    BY <2>1 DEF Ready
  <2>3. SleepSuffices => cpc[c] \notin {"sent", "paused"}
    BY <2>1 DEF Ends
  <2> QED
    BY <1>1, <2>2, <2>3 DEF ChildStep, InstallHandlers, SendReady, SendFails, Pause,
       ArmAlarm, RunTest, FailTest, ExitFailed, Hang, Timeout, Finish, Quit, Killed,
       Move, Exit, childVars
<1> QED
  BY <1>2, <1>3, <1>4, <1>5, <1>6 DEF Ends, PreGun, PostGun

\* Every step keeps Ends.
LEMMA EndsStep == IInv /\ IInv' /\ Answers /\ Ends /\ [Next]_vars => Ends'
<1> SUFFICES ASSUME IInv, IInv', Answers, Ends, [Next]_vars PROVE Ends'
  OBVIOUS
<1>1. CASE \E c \in Child : ChildStep(c) \/ Killed(c)
  BY <1>1, EndsChild
<1>2. CASE Fork
  BY <1>2 DEF Fork, MoreToFork, childVars, Ends, IInv, Shape, PreGun, PostGun
<1>3. CASE Gun
  <2>1. /\ pc = "sleep" /\ pc' = "begin" /\ UNCHANGED <<outcome, left, deaf, reported>>
        /\ \A c \in Child : cpc'[c] = IF cpc[c] = "paused" THEN "started" ELSE cpc[c]
        /\ SleepSuffices => \A c \in Child : cpc[c] # "sent"
    BY <1>3 DEF Gun, childVars
  <2>2. \A c \in Child : outcome[c] \notin {"nowrite", "quit"}
    BY <2>1, AllAnswered DEF IInv, Ends, PreGun, Control
  <2> QED
    BY <2>1, <2>2 DEF Ends, PreGun, PostGun, IInv, Control
<1>4. CASE KillGroup
  BY <1>4 DEF KillGroup, childVars, Ends, IInv, Shape, PreGun, PostGun, Control
<1>5. CASE \E c \in Child : ReapChild(c) \/ ReapAny(c)
  BY <1>5 DEF ReapChild, AfterReap, ReapAny, parentVars, childVars, Ends, IInv, Shape,
       PreGun, PostGun, Control
<1>6. CASE Report
  BY <1>6 DEF Report, childVars, Ends, IInv, Final, Shape, PreGun, PostGun, Control
<1>7. CASE \/ SetupTools \/ OpenPipe \/ ForkerReturns \/ ReadMessage \/ ReadFails \/ ClosePipe
           \/ BeginTools \/ ExitAfterReap \/ OperatorTerm
  BY <1>7, RunLoopAssumption DEF SetupTools, OpenPipe, ForkerReturns, MoreToFork,
       ReadMessage, ReadFails, ClosePipe, BeginTools, ExitAfterReap, OperatorTerm, AfterTerm,
       childVars, Ends, IInv, Shape, PreGun, PostGun, Control
<1>8. CASE UNCHANGED vars
  BY <1>8 DEF vars, parentVars, childVars, Ends, PreGun, PostGun
<1> QED
  BY <1>1, <1>2, <1>3, <1>4, <1>5, <1>6, <1>7, <1>8 DEF Next, ParentStep, Environment

\* Answers and Ends are invariants of the load point.
LEMMA EndsInvariance == Spec => [](IInv /\ Answers /\ Ends)
<1>1. IInv /\ IInv' /\ Answers /\ Ends /\ [Next]_vars => Answers' /\ Ends'
  BY AnswersStep, EndsStep DEF IInv
<1> QED
  BY <1>1, AnswersInit, EndsInit, Invariance, PTL DEF Spec

\* Nobody can go on only when the load point is over, when the parent reads the
\* pipe for a child that was not forked or died without its message, or when it
\* waits for a child that sleeps in pause().
THEOREM StuckForAReasonHolds == Spec => []StuckForAReason
<1>1. IInv /\ Answers /\ Ends => StuckForAReason
  <2> SUFFICES ASSUME IInv, Answers, Ends, Stuck, pc \notin {"returned", "exited"}
               PROVE  \/ /\ pc = "read"
                         /\ \E c \in Child : \/ cpc[c] = "absent"
                                            \/ outcome[c] \in {"nowrite", "killed"}
                      \/ /\ pc \in {"wait", "reap"}
                         /\ \E c \in Child : cpc[c] = "paused"
    BY DEF StuckForAReason
  <2>1. \A c \in Child : cpc[c] \in {"absent", "paused", "zombie", "gone"}
    BY DEF Stuck, ChildCanStep
  <2>2. pc \in {"read", "wait", "reap"}
    BY <2>1 DEF Stuck, ParentCanStep, IInv, Shape, ParentPC
  <2>3. CASE pc = "read"
    <3>1. msgs = 0 /\ kidsForked # RunNum /\ kidsForked <= RunNum
      BY <2>3, RunLoopAssumption
         DEF Stuck, ParentCanStep, AllMessagesRead, IInv, Shape, Control, PreGun
    <3>2. Waiting \in SUBSET Child
      BY DEF Waiting
    <3>3. Cardinality(Waiting) \in 0 .. RunNum /\ Cardinality(Waiting) # RunNum
      BY <2>3, <3>1, <3>2, ChildSets, RunLoopAssumption
         DEF Answers, PreGun, IInv, Shape
    <3>4. Cardinality(Child) = RunNum
      BY RunLoopAssumption, FS_Interval DEF Child
    <3>5. PICK c \in Child : c \notin Waiting
      BY <3>2, <3>3, <3>4
    <3>6. cpc[c] = "absent" \/ cpc[c] = "zombie"
      BY <2>1, <2>3, <3>5 DEF Waiting, IInv, Control, PreGun
    <3> QED
      BY <2>3, <3>6 DEF Ends, PreGun
  <2>4. CASE pc = "wait"
    <3>1. UnreapedSet \in SUBSET Child /\ Cardinality(UnreapedSet) # 0
      BY <2>4 DEF IInv, Accounting, PostGun, UnreapedSet, Shape
    <3>2. PICK c \in Child : Unreaped(c)
      BY <3>1, FS_EmptySet DEF UnreapedSet
    <3>3. cpc[c] # "zombie"
      BY <2>4 DEF Stuck, ParentCanStep
    <3> QED
      BY <2>1, <2>4, <3>2, <3>3 DEF Unreaped
  <2>5. CASE pc = "reap"
    <3>1. PICK c \in Child : Unreaped(c) /\ cpc[c] # "zombie"
      BY <2>5 DEF Stuck, ParentCanStep, AllReaped
    <3> QED
      BY <2>1, <2>5, <3>1 DEF Unreaped
  <2> QED
    BY <2>2, <2>3, <2>4, <2>5
<1> QED
  BY <1>1, EndsInvariance, PTL

\* The environment events without which a load point cannot stop half-way: fork(),
\* read() and write() work and nobody outside kills a process.
Undisturbed ==
  SleepSuffices /\ Faults \cap {"fork", "read", "write", "kill", "term"} = {}

\* Whoever outlives the parent can go on by itself.
LeftBehindCanStep ==
  pc \in {"returned", "exited"} =>
    \A c \in Child : cpc[c] \notin {"forked", "armed", "sent", "paused", "quitting"}

LEMMA LeftBehindStep ==
  ASSUME Undisturbed, IInv, NobodyLate, LeftBehindCanStep, [Next]_vars
  PROVE  LeftBehindCanStep'
<1> SUFFICES ASSUME pc' \in {"returned", "exited"}, NEW c \in Child
             PROVE  cpc'[c] \notin {"forked", "armed", "sent", "paused", "quitting"}
  BY DEF LeftBehindCanStep
<1>1. /\ cpc \in [Child -> ChildPC]
      /\ cpc[c] = "absent" <=> c >= cnt
      /\ c \in Nat \ {0}
  BY RunLoopAssumption DEF IInv, Shape, Control, Child
<1>2. CASE pc \in {"setup", "pipe"}
  <2>1. cpc[c] = "absent" /\ cpc' = cpc
    BY <1>1, <1>2
       DEF IInv, Control, Next, ParentStep, ChildStep, Environment, vars, parentVars,
           SetupTools, OpenPipe, Fork, ForkerReturns, ReadMessage, ReadFails, ClosePipe, Gun,
           BeginTools, ReapChild, Report, KillGroup, ReapAny, ExitAfterReap,
           InstallHandlers, SendReady, SendFails, Pause, ArmAlarm, RunTest, FailTest,
           AfterTerm, ExitFailed, Hang, Timeout, Finish, Quit, OperatorTerm, Killed
  <2> QED
    BY <2>1
<1>3. CASE pc \in {"fork", "read", "sleep"}
  BY <1>3 DEF Undisturbed, Next, ParentStep, ChildStep, Environment, vars, parentVars,
           SetupTools, OpenPipe, Fork, ForkerReturns, ReadMessage, ReadFails, ClosePipe, Gun,
           BeginTools, ReapChild, Report, KillGroup, ReapAny, ExitAfterReap,
           InstallHandlers, SendReady, SendFails, Pause, ArmAlarm, RunTest, FailTest,
           AfterTerm, ExitFailed, Hang, Timeout, Finish, Quit, OperatorTerm, Killed
<1>4. CASE pc \in {"begin", "wait", "report", "term", "reap", "returned", "exited"}
  <2>1. cpc[c] \notin {"forked", "armed", "sent", "paused", "quitting"}
    BY <1>4 DEF NobodyLate, GunFired, LeftBehindCanStep
  <2>2. CASE cpc' = cpc
    BY <2>1, <2>2
  <2>3. ASSUME NEW d \in Child, ChildStep(d) \/ Killed(d) \/ ReapChild(d) \/ ReapAny(d)
        PROVE  cpc'[c] \notin {"forked", "armed", "sent", "paused", "quitting"}
    <3>1. CASE c # d
      BY <1>1, <2>1, <2>3, <3>1 DEF ChildStep, InstallHandlers, SendReady, SendFails,
           Pause, ArmAlarm, RunTest, FailTest, ExitFailed, Hang, Timeout, Finish, Quit,
           Killed, ReapChild, ReapAny, Move, Exit
    <3>2. CASE c = d
      BY <1>1, <2>1, <2>3, <3>2 DEF ChildStep, InstallHandlers, SendReady, SendFails,
           Pause, ArmAlarm, RunTest, FailTest, ExitFailed, Hang, Timeout, Finish, Quit,
           Killed, ReapChild, ReapAny, Move, Exit
    <3> QED
      BY <3>1, <3>2
  <2> QED
    BY <1>4, <2>2, <2>3 DEF Next, ParentStep, Environment, vars, SetupTools, OpenPipe,
         Fork, ForkerReturns, ReadMessage, ReadFails, ClosePipe, Gun, BeginTools, Report, KillGroup,
         ExitAfterReap, OperatorTerm
<1> QED
  BY <1>2, <1>3, <1>4 DEF IInv, Shape, ParentPC

\* An undisturbed load point never stops half-way: when nobody can go on, it is
\* over and every child has ended.  Tests may fail and hang, pipe() and the tools
\* may fail.
THEOREM UndisturbedNeverStuck ==
  ASSUME Undisturbed
  PROVE  Spec => [](Stuck => /\ pc \in {"returned", "exited"}
                            /\ \A c \in Child : cpc[c] \in {"absent", "zombie", "gone"})
<1>1. "term" \notin Faults /\ SleepSuffices
  BY DEF Undisturbed
<1>2. Init => NobodyLate /\ LeftBehindCanStep
  BY DEF Init, NobodyLate, GunFired, LeftBehindCanStep
<1>3. IInv /\ NobodyLate /\ LeftBehindCanStep /\ [Next]_vars
        => NobodyLate' /\ LeftBehindCanStep'
  BY <1>1, NobodyLateStep, LeftBehindStep
<1>4. /\ StuckForAReason /\ IInv /\ Ends /\ NobodyLate /\ LeftBehindCanStep
      => (Stuck => /\ pc \in {"returned", "exited"}
                   /\ \A c \in Child : cpc[c] \in {"absent", "zombie", "gone"})
  <2> SUFFICES ASSUME StuckForAReason, IInv, Ends, NobodyLate, LeftBehindCanStep, Stuck
               PROVE  /\ pc \in {"returned", "exited"}
                      /\ \A c \in Child : cpc[c] \in {"absent", "zombie", "gone"}
    OBVIOUS
  <2>1. ASSUME pc = "read", NEW c \in Child, cpc[c] = "absent" PROVE FALSE
    <3>1. c >= cnt /\ c <= RunNum /\ cnt \in Nat /\ c \in Nat
      BY <2>1, RunLoopAssumption DEF IInv, Shape, Control, Child
    <3>2. cnt <= RunNum
      BY <3>1, RunLoopAssumption
    <3> QED
      BY <2>1, <3>2 DEF Ends, Undisturbed
  <2>2. ASSUME NEW c \in Child, outcome[c] \in {"nowrite", "killed"} PROVE FALSE
    BY <2>2 DEF Ends, Undisturbed
  <2>3. ASSUME pc \in {"wait", "reap"}, NEW c \in Child, cpc[c] = "paused" PROVE FALSE
    BY <2>3 DEF NobodyLate, GunFired
  <2>4. pc \in {"returned", "exited"}
    BY <2>1, <2>2, <2>3 DEF StuckForAReason
  <2>5. \A c \in Child : cpc[c] \in {"absent", "paused", "zombie", "gone"}
    BY DEF Stuck, ChildCanStep
  <2> QED
    BY <2>4, <2>5 DEF LeftBehindCanStep
<1> QED
  BY <1>2, <1>3, <1>4, Invariance, EndsInvariance, StuckForAReasonHolds, PTL DEF Spec

\* What ReportedLoadComplete leaves open: in a reported load point every child has
\* made all its runs, or hung until its alarm, or was killed from outside.
THEOREM ReportedOutcomes ==
  Spec => [](reported => \A c \in Child :
               \/ outcome[c] = "done" /\ left[c] = 0
               \/ outcome[c] = "timeout" /\ "hang" \in Faults
               \/ outcome[c] = "killed" /\ "kill" \in Faults)
<1>1. IInv /\ Ends =>
        (reported => \A c \in Child :
           \/ outcome[c] = "done" /\ left[c] = 0
           \/ outcome[c] = "timeout" /\ "hang" \in Faults
           \/ outcome[c] = "killed" /\ "kill" \in Faults)
  <2> SUFFICES ASSUME IInv, Ends, reported, NEW c \in Child
               PROVE  \/ outcome[c] = "done" /\ left[c] = 0
                      \/ outcome[c] = "timeout" /\ "hang" \in Faults
                      \/ outcome[c] = "killed" /\ "kill" \in Faults
    OBVIOUS
  <2>1. outcome[c] \in Outcome \ {"none", "nowrite", "quit", "failed"}
    BY DEF IInv, Shape, Final, Ends
  <2> QED
    BY <2>1 DEF Outcome, Ends
<1> QED
  BY <1>1, EndsInvariance, PTL

\* A load point whose tests do not hang and whose children nobody kills is reported
\* complete.
THEOREM ReportedLoadCompleteHolds ==
  ASSUME Faults \cap {"hang", "kill"} = {}
  PROVE  Spec => []ReportedLoadComplete
<1>1. IInv /\ Ends => ReportedLoadComplete
  BY DEF IInv, Shape, Final, Ends, ReportedLoadComplete, Outcome
<1> QED
  BY <1>1, EndsInvariance, PTL

\* The gun is lost on nobody when sleep(SLEEP) lets every child reach its pause(),
\* whatever else fails.
THEOREM GunHeardHolds ==
  ASSUME SleepSuffices
  PROVE  Spec => []GunHeard
<1>1. Ends => GunHeard
  BY DEF Ends, GunHeard, PostGun
<1> QED
  BY <1>1, EndsInvariance, PTL

-----------------------------------------------------------------------------
(* A load point is finite: nothing in it goes back or is done twice, so    *)
(* whatever fails it makes a bounded number of steps.                      *)

\* The steps ahead of a place of the parent and of a child, tests not counted.
ParentSteps ==
  [setup |-> 10, pipe |-> 9, fork |-> 8, read |-> 7, sleep |-> 6, begin |-> 5,
   wait |-> 4, report |-> 3, term |-> 2, reap |-> 1, returned |-> 0, exited |-> 0]

ChildSteps ==
  [absent |-> 9, forked |-> 8, armed |-> 7, sent |-> 6, paused |-> 5, started |-> 4,
   working |-> 3, hung |-> 2, failing |-> 2, quitting |-> 2, zombie |-> 1, gone |-> 0]

\* What the parent may still do, messages to read included, and what child c may.
ReadsLeft == IF PreGun THEN RunNum - kidsForked ELSE 0
ParentLeft == ParentSteps[pc] + ReadsLeft
ChildLeft(c) == ChildSteps[cpc[c]] + left[c]

\* Both are natural numbers with a bound.
LEMMA LeftIsNat ==
  ASSUME IInv
  PROVE  /\ ParentSteps[pc] \in 0 .. 10
         /\ ReadsLeft \in 0 .. RunNum
         /\ ParentLeft \in 0 .. 10 + RunNum
         /\ \A c \in Child : ChildLeft(c) \in 0 .. 9 + Jobs
<1>1. ParentSteps[pc] \in 0 .. 10
  BY DEF ParentSteps, IInv, Shape, ParentPC
<1>2. ReadsLeft \in 0 .. RunNum
  BY RunLoopAssumption DEF IInv, Shape, Control, ReadsLeft
<1>3. ParentLeft \in 0 .. 10 + RunNum
  BY <1>1, <1>2, RunLoopAssumption DEF ParentLeft
<1>4. ASSUME NEW c \in Child PROVE ChildLeft(c) \in 0 .. 9 + Jobs
  <2>1. cpc[c] \in ChildPC /\ left[c] \in 0 .. Jobs
    BY DEF IInv, Shape
  <2>2. ChildSteps[cpc[c]] \in 0 .. 9
    BY <2>1 DEF ChildSteps, ChildPC
  <2> QED
    BY <2>1, <2>2, RunLoopAssumption DEF ChildLeft
<1> QED
  BY <1>1, <1>2, <1>3, <1>4

\* And so they are after a step.
LEMMA LeftIsNatNext ==
  ASSUME IInv'
  PROVE  /\ ParentSteps[pc'] \in 0 .. 10
         /\ ReadsLeft' \in 0 .. RunNum
         /\ \A c \in Child : ChildLeft(c)' \in 0 .. 9 + Jobs
<1>1. ParentSteps[pc'] \in 0 .. 10
  BY DEF ParentSteps, IInv, Shape, ParentPC
<1>2. ReadsLeft' \in 0 .. RunNum
  BY RunLoopAssumption DEF IInv, Shape, Control, ReadsLeft
<1>3. ASSUME NEW c \in Child PROVE ChildLeft(c)' \in 0 .. 9 + Jobs
  <2>1. cpc'[c] \in ChildPC /\ left'[c] \in 0 .. Jobs
    BY DEF IInv, Shape
  <2>2. ChildSteps[cpc'[c]] \in 0 .. 9
    BY <2>1 DEF ChildSteps, ChildPC
  <2> QED
    BY <2>1, <2>2, RunLoopAssumption DEF ChildLeft
<1> QED
  BY <1>1, <1>2, <1>3

\* A step that takes the parent forward and no child back, or a child forward and
\* neither the parent nor another child back.
ParentDescends ==
  /\ ParentLeft' < ParentLeft
  /\ \A d \in Child : ChildLeft(d)' <= ChildLeft(d)

ChildDescends(c) ==
  /\ ChildLeft(c)' < ChildLeft(c)
  /\ ParentLeft' <= ParentLeft
  /\ \A d \in Child : ChildLeft(d)' <= ChildLeft(d)

\* Steps of the parent other than wait() take it forward.
LEMMA ParentGoesOn ==
  ASSUME IInv, IInv', Ends,
         \/ SetupTools \/ OpenPipe \/ ForkerReturns \/ ReadMessage \/ ReadFails \/ ClosePipe
         \/ Gun \/ BeginTools \/ Report \/ KillGroup \/ ExitAfterReap \/ OperatorTerm
  PROVE  ParentDescends
<1>1. ASSUME NEW d \in Child PROVE ChildLeft(d)' <= ChildLeft(d)
  <2>1. left' = left /\ cpc[d] \in ChildPC /\ left[d] \in Nat
    BY RunLoopAssumption DEF SetupTools, OpenPipe, ForkerReturns, ReadMessage, ReadFails, ClosePipe,
         Gun, BeginTools, Report, KillGroup, ExitAfterReap, OperatorTerm, childVars,
         IInv, Shape
  <2>2. \/ cpc'[d] = cpc[d]
        \/ cpc[d] = "paused" /\ cpc'[d] = "started"
        \/ cpc[d] = "forked" /\ cpc'[d] = "quitting"
    BY <2>1 DEF SetupTools, OpenPipe, ForkerReturns, ReadMessage, ReadFails, ClosePipe,
         Gun, BeginTools, Report, KillGroup, ExitAfterReap, OperatorTerm
  <2>3. ChildSteps[cpc'[d]] <= ChildSteps[cpc[d]] /\ ChildSteps[cpc[d]] \in Nat
        /\ ChildSteps[cpc'[d]] \in Nat
    BY <2>1, <2>2 DEF ChildSteps, ChildPC
  <2> QED
    BY <2>1, <2>3 DEF ChildLeft
<1>2. kidsForked \in Nat /\ (PreGun => kidsForked <= RunNum) /\ pc \in ParentPC
  BY DEF IInv, Shape, Control
<1>3. CASE ReadMessage
  <2>1. /\ pc' = pc /\ PreGun /\ PreGun' /\ kidsForked' = kidsForked + 1
    BY <1>3 DEF ReadMessage, PreGun
  <2>2. ReadsLeft' = RunNum - kidsForked' /\ ReadsLeft = RunNum - kidsForked
    BY <2>1 DEF ReadsLeft
  <2> QED
    BY <1>1, <1>2, <2>1, <2>2, LeftIsNat, RunLoopAssumption DEF ParentLeft, ParentDescends
<1>4. CASE ~ReadMessage
  <2>1. kidsForked' = kidsForked /\ (PreGun' => PreGun)
    BY <1>4 DEF SetupTools, OpenPipe, ForkerReturns, ReadFails, ClosePipe, Gun, BeginTools,
         Report, KillGroup, ExitAfterReap, OperatorTerm, AfterTerm, PreGun
  <2>2. ReadsLeft' <= ReadsLeft
    BY <1>2, <2>1, RunLoopAssumption DEF ReadsLeft
  <2>3. pc = "reap" => Parent \in deaf
    BY DEF Ends
  <2>4. ParentSteps[pc'] < ParentSteps[pc]
    BY <1>2, <1>4, <2>3 DEF SetupTools, OpenPipe, ForkerReturns, ReadFails, ClosePipe, Gun,
         BeginTools, Report, KillGroup, ExitAfterReap, OperatorTerm, AfterTerm,
         ParentSteps, ParentPC
  <2>5. ParentSteps[pc'] \in Nat /\ ReadsLeft' \in Nat
    BY LeftIsNatNext, RunLoopAssumption
  <2> QED
    BY <1>1, <2>2, <2>4, <2>5, LeftIsNat DEF ParentLeft, ParentDescends
<1> QED
  BY <1>3, <1>4

\* A child's own step, its creation, its death and its reaping take it forward.
LEMMA ChildGoesOn ==
  ASSUME IInv, IInv', Ends, NEW c \in Child,
         \/ ChildStep(c) \/ Killed(c) \/ ReapChild(c) \/ ReapAny(c)
         \/ Fork /\ c = cnt
  PROVE  ChildDescends(c)
<1>1. /\ cpc \in [Child -> ChildPC] /\ left \in [Child -> 0 .. Jobs]
      /\ cpc' \in [Child -> ChildPC] /\ left' \in [Child -> 0 .. Jobs]
      /\ Fork /\ c = cnt => cpc[c] = "absent"
  <2>1. cpc \in [Child -> ChildPC] /\ left \in [Child -> 0 .. Jobs]
    BY DEF IInv, Shape
  <2>2. cpc' \in [Child -> ChildPC] /\ left' \in [Child -> 0 .. Jobs]
    BY DEF IInv, Shape
  <2>3. Fork /\ c = cnt => cpc[c] = "absent"
    <3>1. Control
      BY DEF IInv
    <3> QED
      BY <3>1, RunLoopAssumption DEF Control, Fork, Child
  <2> QED
    BY <2>1, <2>2, <2>3
<1>2. \A d \in Child \ {c} : cpc'[d] = cpc[d] /\ left'[d] = left[d]
  BY <1>1 DEF ChildStep, InstallHandlers, SendReady, SendFails, Pause, ArmAlarm, RunTest,
       FailTest, ExitFailed, Hang, Timeout, Finish, Quit, Killed, ReapChild, ReapAny,
       Fork, Move, Exit, childVars
<1>3. ChildLeft(c)' < ChildLeft(c)
  <2>1. CASE RunTest(c)
    <3>1. cpc' = cpc /\ left'[c] = left[c] - 1 /\ left[c] \in Nat /\ cpc[c] \in ChildPC
      BY <1>1, <2>1, RunLoopAssumption DEF RunTest
    <3>2. ChildSteps[cpc[c]] \in Nat
      BY <3>1 DEF ChildSteps, ChildPC
    <3> QED
      BY <3>1, <3>2 DEF ChildLeft
  <2>2. CASE ~RunTest(c)
    <3>1. left'[c] = left[c] /\ left[c] \in Nat /\ cpc[c] \in ChildPC
      BY <1>1, <2>2, RunLoopAssumption DEF ChildStep, InstallHandlers, SendReady, SendFails,
           Pause, ArmAlarm, FailTest, ExitFailed, Hang, Timeout, Finish, Quit, Killed,
           ReapChild, ReapAny, Fork, childVars
    <3>2. ChildSteps[cpc'[c]] < ChildSteps[cpc[c]]
      BY <1>1, <2>2, <3>1 DEF ChildStep, InstallHandlers, SendReady, SendFails,
           Pause, ArmAlarm, FailTest, ExitFailed, Hang, Timeout, Finish, Quit, Killed,
           Live, ReapChild, ReapAny, Fork, Move, Exit, ChildSteps, ChildPC
    <3>3. ChildSteps[cpc[c]] \in Nat /\ ChildSteps[cpc'[c]] \in Nat
      BY <1>1 DEF ChildSteps, ChildPC
    <3> QED
      BY <3>1, <3>2, <3>3 DEF ChildLeft
  <2> QED
    BY <2>1, <2>2
<1>4. \A d \in Child : ChildLeft(d)' <= ChildLeft(d)
  <2> TAKE d \in Child
  <2>1. CASE d = c
    <3>1. ChildLeft(c)' \in Nat /\ ChildLeft(c) \in Nat
      BY LeftIsNat, LeftIsNatNext, RunLoopAssumption
    <3> QED
      BY <1>3, <2>1, <3>1
  <2>2. CASE d # c
    BY <1>2, <2>2, LeftIsNat, RunLoopAssumption DEF ChildLeft
  <2> QED
    BY <2>1, <2>2
<1>5. ParentLeft' <= ParentLeft
  <2>1. pc \in ParentPC /\ (pc = "reap" => Parent \in deaf)
    BY DEF IInv, Shape, Ends
  <2>2. /\ PreGun' => PreGun /\ kidsForked' = kidsForked
    BY <2>1 DEF PreGun, ChildStep, InstallHandlers, SendReady, SendFails, Pause, ArmAlarm,
         RunTest, FailTest, AfterTerm, ExitFailed, Hang, Timeout, Finish, Quit, Killed,
         ReapChild, AfterReap, ReapAny, Fork, parentVars
  <2>3. ReadsLeft' <= ReadsLeft
    BY <2>2, LeftIsNat, RunLoopAssumption DEF ReadsLeft
  <2>4. ParentSteps[pc'] <= ParentSteps[pc]
    <3>1. \/ pc' = pc
          \/ pc = "wait" /\ pc' \in {"report", "exited"}
          \/ pc' = "term" /\ ~PreGun /\ pc \notin {"reap", "returned", "exited"}
      BY <2>1 DEF IInv, Control, Started, ChildStep, InstallHandlers, SendReady, SendFails,
           Pause, ArmAlarm, RunTest, FailTest, AfterTerm, Move, ExitFailed, Hang, Timeout,
           Finish, Quit, Killed, ReapChild, AfterReap, ReapAny, Fork, parentVars
    <3> QED
      BY <2>1, <3>1 DEF ParentSteps, ParentPC
  <2>5. ParentSteps[pc'] \in Nat /\ ReadsLeft' \in Nat
    BY LeftIsNatNext, RunLoopAssumption
  <2> QED
    BY <2>3, <2>4, <2>5, LeftIsNat DEF ParentLeft
<1> QED
  BY <1>3, <1>4, <1>5 DEF ChildDescends

\* What is still ahead, as a finite set: the numbered steps of the parent and of
\* each child.
StepsOfAll == ({Parent} \X (1 .. 10 + RunNum)) \cup (Child \X (1 .. 9 + Jobs))
StepsLeft(p) == IF p = Parent THEN ParentLeft ELSE ChildLeft(p)
Ahead == {s \in StepsOfAll : s[2] <= StepsLeft(s[1])}

StepBound == 10 + RunNum + RunNum * (9 + Jobs)

\* There are no more steps than StepBound.
LEMMA StepsOfAllFinite ==
  IsFiniteSet(StepsOfAll) /\ Cardinality(StepsOfAll) <= StepBound
<1> DEFINE A == {Parent} \X (1 .. 10 + RunNum)
           B == Child \X (1 .. 9 + Jobs)
<1>1. IsFiniteSet({Parent}) /\ Cardinality({Parent}) = 1
  BY FS_Singleton
<1>2. IsFiniteSet(Child) /\ Cardinality(Child) = RunNum
  BY RunLoopAssumption, FS_Interval DEF Child
<1>3. /\ IsFiniteSet(1 .. 10 + RunNum) /\ Cardinality(1 .. 10 + RunNum) = 10 + RunNum
      /\ IsFiniteSet(1 .. 9 + Jobs) /\ Cardinality(1 .. 9 + Jobs) = 9 + Jobs
  BY RunLoopAssumption, FS_Interval
<1>4. IsFiniteSet(A) /\ Cardinality(A) = 10 + RunNum
  <2>1. /\ IsFiniteSet(A)
        /\ Cardinality(A) = Cardinality({Parent}) * Cardinality(1 .. 10 + RunNum)
    BY <1>1, <1>3, FS_Product
  <2> QED
    BY <1>1, <1>3, <2>1, RunLoopAssumption
<1>5. IsFiniteSet(B) /\ Cardinality(B) = RunNum * (9 + Jobs)
  BY <1>2, <1>3, FS_Product
<1>6. /\ IsFiniteSet(A \cup B)
      /\ Cardinality(A \cup B) = Cardinality(A) + Cardinality(B) - Cardinality(A \cap B)
  BY <1>4, <1>5, FS_Union
<1>7. Cardinality(A \cap B) \in Nat
  BY <1>4, FS_Intersection, FS_CardinalityType
<1>8. RunNum * (9 + Jobs) \in Nat
  BY RunLoopAssumption
<1> HIDE DEF A, B
<1>9. Cardinality(A \cup B) <= StepBound
  BY <1>4, <1>5, <1>6, <1>7, <1>8, RunLoopAssumption DEF StepBound
<1> QED
  BY <1>6, <1>9 DEF A, B, StepsOfAll

\* A step takes something out of Ahead and adds nothing.
LEMMA AheadShrinks ==
  ASSUME IInv, IInv', NEW p \in Child \cup {Parent},
         StepsLeft(p)' < StepsLeft(p),
         \A q \in Child \cup {Parent} : StepsLeft(q)' <= StepsLeft(q)
  PROVE  /\ IsFiniteSet(Ahead)
         /\ Cardinality(Ahead') < Cardinality(Ahead)
<1>1. \A q \in Child \cup {Parent} : StepsLeft(q) \in Nat /\ StepsLeft(q)' \in Nat
  BY LeftIsNat, LeftIsNatNext, RunLoopAssumption DEF StepsLeft, ParentLeft
<1>2. IsFiniteSet(Ahead) /\ IsFiniteSet(Ahead')
  BY StepsOfAllFinite, FS_Subset DEF Ahead
<1>3. ASSUME NEW s \in StepsOfAll, s[2] <= StepsLeft(s[1])'
      PROVE  s[2] <= StepsLeft(s[1])
  <2>1. s[1] \in Child \cup {Parent} /\ s[2] \in Nat
    BY RunLoopAssumption DEF StepsOfAll
  <2>2. StepsLeft(s[1])' <= StepsLeft(s[1])
    BY <2>1
  <2> QED
    BY <1>1, <1>3, <2>1, <2>2
<1>4. Ahead' \subseteq Ahead
  BY <1>3 DEF Ahead
<1> DEFINE s == <<p, StepsLeft(p)>>
<1>5. s \in StepsOfAll
  <2>1. CASE p = Parent
    <3>1. StepsLeft(p) \in 1 .. 10 + RunNum
      BY <1>1, <2>1, LeftIsNat, RunLoopAssumption DEF StepsLeft
    <3> QED
      BY <2>1, <3>1 DEF StepsOfAll
  <2>2. CASE p # Parent
    <3>1. p \in Child /\ StepsLeft(p) \in 1 .. 9 + Jobs
      BY <1>1, <2>2, LeftIsNat, RunLoopAssumption DEF StepsLeft
    <3> QED
      BY <2>2, <3>1 DEF StepsOfAll
  <2> QED
    BY <2>1, <2>2
<1>6. s[1] = p /\ s[2] = StepsLeft(p)
  OBVIOUS
<1>7. s \in Ahead /\ s \notin Ahead'
  BY <1>1, <1>5, <1>6 DEF Ahead
<1>8. Cardinality(Ahead') <= Cardinality(Ahead) /\ Cardinality(Ahead') # Cardinality(Ahead)
  BY <1>2, <1>4, <1>7, FS_Subset
<1>9. Cardinality(Ahead) \in Nat /\ Cardinality(Ahead') \in Nat
  BY <1>2, FS_CardinalityType
<1> QED
  BY <1>2, <1>8, <1>9

\* A load point of any size ends or stops: every step of it, whatever fails, takes
\* away one of at most StepBound steps.
THEOREM LoadPointIsFinite ==
  Spec => /\ [](Cardinality(Ahead) \in 0 .. StepBound)
          /\ [][Cardinality(Ahead') < Cardinality(Ahead)]_vars
<1>1. Cardinality(Ahead) \in 0 .. StepBound
  <2>1. IsFiniteSet(Ahead) /\ Cardinality(Ahead) <= Cardinality(StepsOfAll)
    BY StepsOfAllFinite, FS_Subset DEF Ahead
  <2>2. Cardinality(Ahead) \in Nat /\ Cardinality(StepsOfAll) \in Nat
    BY <2>1, StepsOfAllFinite, FS_CardinalityType
  <2>3. StepBound \in Nat
    BY RunLoopAssumption DEF StepBound
  <2> QED
    BY <2>1, <2>2, <2>3, StepsOfAllFinite
<1>2. IInv /\ IInv' /\ Ends /\ Next => Cardinality(Ahead') < Cardinality(Ahead)
  <2> SUFFICES ASSUME IInv, IInv', Ends, Next
               PROVE  Cardinality(Ahead') < Cardinality(Ahead)
    OBVIOUS
  <2>1. Parent \notin Child
    BY DEF Parent, Child
  <2>2. ASSUME ParentDescends PROVE Cardinality(Ahead') < Cardinality(Ahead)
    <3>1. StepsLeft(Parent)' < StepsLeft(Parent)
      BY <2>2 DEF ParentDescends, StepsLeft
    <3>2. \A q \in Child \cup {Parent} : StepsLeft(q)' <= StepsLeft(q)
      BY <2>1, <2>2, LeftIsNat, LeftIsNatNext, RunLoopAssumption
         DEF ParentDescends, StepsLeft, ParentLeft
    <3> QED
      BY <3>1, <3>2, AheadShrinks
  <2>3. ASSUME NEW c \in Child, ChildDescends(c)
        PROVE  Cardinality(Ahead') < Cardinality(Ahead)
    <3>1. StepsLeft(c)' < StepsLeft(c)
      BY <2>1, <2>3 DEF ChildDescends, StepsLeft
    <3>2. \A q \in Child \cup {Parent} : StepsLeft(q)' <= StepsLeft(q)
      BY <2>1, <2>3 DEF ChildDescends, StepsLeft
    <3> QED
      BY <3>1, <3>2, AheadShrinks
  <2>4. CASE Fork
    <3>1. cnt \in Child
      BY <2>4, RunLoopAssumption DEF Fork, MoreToFork, IInv, Shape, Child
    <3> QED
      BY <2>3, <2>4, <3>1, ChildGoesOn
  <2>5. CASE \E c \in Child : ChildStep(c) \/ Killed(c) \/ ReapChild(c) \/ ReapAny(c)
    BY <2>3, <2>5, ChildGoesOn
  <2>6. CASE \/ SetupTools \/ OpenPipe \/ ForkerReturns \/ ReadMessage \/ ReadFails \/ ClosePipe
             \/ Gun \/ BeginTools \/ Report \/ KillGroup \/ ExitAfterReap
             \/ OperatorTerm
    BY <2>2, <2>6, ParentGoesOn
  <2> QED
    BY <2>4, <2>5, <2>6 DEF Next, ParentStep, Environment
<1> QED
  BY <1>1, <1>2, EndsInvariance, PTL DEF Spec
=============================================================================
