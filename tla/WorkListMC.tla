----------------------------- MODULE WorkListMC -----------------------------
(* An instance of WorkList for TLC; the bounds are in the cfg. *)
EXTENDS WorkList
=============================================================================
