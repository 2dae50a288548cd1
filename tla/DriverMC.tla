------------------------------ MODULE DriverMC ------------------------------
(* Settings for TLC: command lines and configuration files that lead main()  *)
(* into each kind of ramp.  Infinite bounds the ramps without a last user.   *)
EXTENDS SingleUser
CONSTANT Infinite
O == INSTANCE Options

Config == <<<<"FILESIZE", 1>>, <<"DISKDIR", "d1">>, <<"DISKDIR", "d2">>, <<"JOBS", 1>>>>
Pool == <<<<"ENDUSERS", 3>>, <<"DISKDIR", "d1">>, <<"DISKDIR", "d2">>, <<"JOBS", 1>>, <<"BRIEF", 1>>>>
Off == <<<<"CROSSOVER", 1>>, <<"DISKDIR", "OFF">>, <<"DISKDIR", "d2">>, <<"JOBS", 1>>, <<"FILESIZE", 1>>>>

CommandLines == {
  <<<<<<"s", 2>>, <<"e", 3>>, <<"r", 3>>>>, Config, 0, 0>>,
  <<<<<<"x", 0>>>>, Config, 0, 0>>,
  <<<<<<"q", 0>>, <<"e", 3>>>>, Config, 0, 0>>,
  <<<<<<"e", 3>>, <<"g", 0>>>>, Config, 0, 0>>,
  <<<<<<"b", 0>>, <<"r", 2>>, <<"t", 0>>>>, Pool, 1, 5>>,
  <<<<<<"i", 2>>, <<"m", 0>>, <<"o", 0>>>>, Pool, 0, 4>>,
  <<<<<<"e", 12>>, <<"g", 0>>, <<"x", 0>>>>, Config, 0, 0>>,
  <<<<<<"e", 12>>>>, Config, 0, 0>>,
  <<<<<<"o", 0>>, <<"r", 2>>>>, Config, 0, 0>>,
  <<<<<<"s", 4>>>>, Off, 0, 0>> }

MCInputs ==
  {s \in {O!Settings(c[1], c[2], c[3], c[4]) : c \in CommandLines} : s.accepted}
=============================================================================
