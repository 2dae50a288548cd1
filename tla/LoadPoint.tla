------------------------------ MODULE LoadPoint ------------------------------
(***************************************************************************)
(* What one load point of the multiuser benchmark promises, without pipes, *)
(* signals or process table: simulated users assemble, they all start      *)
(* together, each completes its load or drops out, and the result is       *)
(* published only when nobody works any more.  A load point may also be    *)
(* aborted, and then nothing is published.                                 *)
(***************************************************************************)
CONSTANT User

VARIABLES
  phase,   \* "assembling", "running", "published" or "aborted"
  user     \* state of each user

vars == <<phase, user>>

Phase == {"assembling", "running", "published", "aborted"}
UserState == {"away", "ready", "working", "completed", "dropped"}

TypeOK ==
  /\ phase \in Phase
  /\ user \in [User -> UserState]

Init ==
  /\ phase = "assembling"
  /\ user = [u \in User |-> "away"]

Arrive(u) ==
  /\ phase # "published"
  /\ user[u] = "away"
  /\ user' = [user EXCEPT ![u] = "ready"]
  /\ UNCHANGED phase

\* Nobody starts before everybody is there, and everybody starts at once.
Start ==
  /\ phase = "assembling"
  /\ \A u \in User : user[u] # "away"
  /\ user' = [u \in User |-> IF user[u] = "ready" THEN "working" ELSE user[u]]
  /\ phase' = "running"

Leave(u) ==
  /\ phase # "published"
  /\ \/ /\ user[u] = "working"
        /\ user' = [user EXCEPT ![u] = "completed"]
     \/ /\ user[u] \in {"away", "ready", "working"}
        /\ user' = [user EXCEPT ![u] = "dropped"]
  /\ UNCHANGED phase

Publish ==
  /\ phase = "running"
  /\ \A u \in User : user[u] \in {"completed", "dropped"}
  /\ phase' = "published"
  /\ UNCHANGED user

Abort ==
  /\ phase \in {"assembling", "running"}
  /\ phase' = "aborted"
  /\ UNCHANGED user

Next ==
  \/ \E u \in User : Arrive(u) \/ Leave(u)
  \/ Start \/ Publish \/ Abort

Spec == Init /\ [][Next]_vars
=============================================================================
