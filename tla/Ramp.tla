-------------------------------- MODULE Ramp --------------------------------
(***************************************************************************)
(* What a multiuser benchmark promises: it measures in rounds; a round     *)
(* starts at the smallest number of users, every further measurement is    *)
(* made with more users than the one before and never with more than the   *)
(* largest number; a round may end, and the benchmark be given up, at any  *)
(* time.                                                                   *)
(***************************************************************************)
EXTENDS Naturals

VARIABLES
  phase,     \* "idle" between rounds, "measuring", "over"
  users,     \* users of the present measurement, 0 between rounds
  smallest,  \* of the settings
  largest

vars == <<phase, users, smallest, largest>>

Init ==
  /\ phase = "idle"
  /\ users = 0
  /\ smallest \in Nat
  /\ largest \in Nat

StartRound ==
  /\ phase = "idle"
  /\ phase' = "measuring"
  /\ users' = smallest
  /\ UNCHANGED <<smallest, largest>>

MoreUsers ==
  /\ phase = "measuring"
  /\ users < users' /\ users' <= largest
  /\ UNCHANGED <<phase, smallest, largest>>

EndRound ==
  /\ phase = "measuring"
  /\ phase' = "idle"
  /\ users' = 0
  /\ UNCHANGED <<smallest, largest>>

End ==
  /\ phase # "over"
  /\ phase' = "over"
  /\ users' = 0
  /\ UNCHANGED <<smallest, largest>>

Next == StartRound \/ MoreUsers \/ EndRound \/ End

Spec == Init /\ [][Next]_vars
=============================================================================
