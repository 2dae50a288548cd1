------------------------------ MODULE RunLoopMC ------------------------------
(* Instances of RunLoop for TLC: which environment events each run allows. *)
EXTENDS RunLoop

\* Everything the environment can do to a load point.
EveryFault == FaultKind

\* Failing and hanging tests, failing commands, a pipe that cannot be opened or read:
\* the load point still ends.
SurvivableFaults == {"pipe", "read", "test", "hang", "tool"}
=============================================================================
