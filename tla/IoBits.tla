------------------------------- MODULE IoBits -------------------------------
(***************************************************************************)
(* tlibio.h: the bits of an i/o method.  A mask is the set of its bits.    *)
(***************************************************************************)
SYNC == 0
ASYNC == 1
SLISTIO == 2
ALISTIO == 3
SYNCV == 4
SYNCP == 5
ACTIVE == 13
RECALL == 14
SIGPAUSE == 15
SIGACTIVE == 16
CBSUSPEND == 17
SIGSUSPEND == 18
RANDOM == 21
USE_SIGNAL == 22

\* The sets of types for Linux.
IoTypes   == {SYNC, SYNCV}
WaitTypes == {SIGPAUSE, SIGACTIVE}
=============================================================================
