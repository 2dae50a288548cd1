---------------------------- MODULE NamesApartMC ----------------------------
(* The instances of TestRunnerMC in which names are told apart.              *)
EXTENDS TestRunnerMC, NamesApart
=============================================================================
