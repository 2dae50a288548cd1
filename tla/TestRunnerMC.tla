---------------------------- MODULE TestRunnerMC ----------------------------
(* Instances of TestRunner for TLC.  Two users, with large process numbers,  *)
(* run a test each, of those that share something or wait; a single user     *)
(* runs every test followed by every other, or only asynchronous ones.       *)
EXTENDS TestRunner, AioPool
CONSTANTS u1, u2

Pids == u1 :> 99999 @@ u2 :> 100000
SamePids == u1 :> 500 @@ u2 :> 100500   \* the same last five digits
Sharing == {"disk_rr", "disk_src", "shared_memory", "fork_test"}
EveryTest == [s \in BOOLEAN |-> IF s THEN DOMAIN Program ELSE Sharing]
SearchTests == [s \in BOOLEAN |-> {"disk_src"}]
BlockTests == [s \in BOOLEAN |-> {"disk_cp", "disk_dio_cp", "disk_dio_wrt", "sync_disk_update"}]
Bounds == [s \in BOOLEAN |-> IF s THEN 2 ELSE 1]

allVars == <<vars, aioVars>>
AnyInit == Init /\ AioInit
AnyNext ==
  \/ Next /\ aioPc = "idle" /\ ~inited /\ aioFaults = 0 /\ UNCHANGED aioVars
  \/ AioNext /\ single /\ (\A u \in User : begun[u] = 0) /\ UNCHANGED vars
AnySpec == AnyInit /\ [][AnyNext]_allVars
AnyFairSpec ==
  /\ AnySpec /\ WF_aioVars(AioStep)
  /\ \A u \in User : WF_vars(Runs(u)) /\ WF_vars(KidExits(u))
=============================================================================
