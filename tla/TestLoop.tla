------------------------------- MODULE TestLoop -------------------------------
(***************************************************************************)
(* The standard options of an LTP test (parse_opts.c): how many copies of  *)
(* it run, whether they wait for SIGUSR1, and how often each goes through  *)
(* its loop: a number of times, for a time, or for ever.  One copy is      *)
(* followed; the others are as it is.  The hooks for stack, break and      *)
(* barriers are in Helpers.                                                *)
(***************************************************************************)
EXTENDS Integers, Sequences

CONSTANTS
  Commands,   \* command lines: sequences of <<letter, argument>>
  Envs,       \* environments: functions from names of variables to numbers
  ClockRange, \* the clock counts microseconds in an int, from -ClockRange to ClockRange - 1
  Starts,     \* what the clock may show at the start
  MaxPasses,  \* bound: passes through the loop
  Horizon     \* bound: microseconds that are followed
ASSUME LoopAssumption ==
  /\ ClockRange \in Nat \ {0} /\ MaxPasses \in Nat /\ Horizon \in Nat
  /\ Starts \subseteq -ClockRange .. ClockRange - 1
  /\ Commands \subseteq Seq({"i", "I", "P", "c", "p", "f"} \X Int)
  /\ \A e \in Envs : \A name \in DOMAIN e : e[name] \in Int

VARIABLES
  std,       \* the STD_ variables
  command,   \* what they are made of
  optind,    \* options that getopt() has returned
  copies,    \* processes after the forks
  now,       \* microseconds since the start
  start,     \* what the clock showed at the start
  loop,      \* the static variables of usc_test_looping()
  passes,    \* the counter of the test
  phase      \* "parse", "setup", "handler", "pausing", "loop", "delay", "done" or "killed"
loopVars == <<std, command, optind, copies, now, start, loop, passes, phase>>

\* The clock, as an int that wraps round.
Wrapped(t) == ((t + ClockRange) % (2 * ClockRange)) - ClockRange
get_current_time(t) == Wrapped(start + t)

LoopInit ==
  /\ command \in [line : Commands, env : Envs] /\ optind = 0
  /\ std = [count |-> 1, infinite |-> FALSE, duration |-> 0, delay |-> 0, copies |-> 1,
            pause |-> FALSE, functional |-> TRUE]
  /\ copies = 1 /\ now = 0 /\ start \in Starts /\ passes = 0 /\ phase = "parse"
  /\ loop = [first |-> TRUE, stop |-> 0, end |-> 0]

-----------------------------------------------------------------------------
(* parse_opts().                                                           *)

\* An option of the command line; its letter is remembered.
Option(opt, s) ==
  CASE opt[1] = "i" -> [s EXCEPT !.count = opt[2], !.infinite = @ \/ opt[2] = 0]
    [] opt[1] = "I" -> [s EXCEPT !.duration = opt[2], !.infinite = @ \/ opt[2] = 0]
    [] opt[1] = "P" -> [s EXCEPT !.delay = opt[2]]
    [] opt[1] = "c" -> [s EXCEPT !.copies = opt[2]]
    [] opt[1] = "p" -> [s EXCEPT !.pause = TRUE]
    [] opt[1] = "f" -> [s EXCEPT !.functional = FALSE]

\* A variable of the environment counts when its option was not given: this one for -i
\* says 0 without a change of the count, those for times may not be negative.
Asked(name, letter) ==
  /\ name \in DOMAIN command.env
  /\ \A i \in DOMAIN command.line : command.line[i][1] # letter
FromEnv(s) ==
  LET val(name) == command.env[name]
      s1 == IF ~Asked("ITERATION", "i") THEN s
            ELSE IF val("ITERATION") = 0 THEN [s EXCEPT !.infinite = TRUE]
            ELSE [s EXCEPT !.count = val("ITERATION")]
      s2 == IF Asked("NO_FUNC_CHECK", "") THEN [s1 EXCEPT !.functional = FALSE] ELSE s1
      s3 == IF Asked("DURATION", "I") /\ val("DURATION") >= 0
              THEN [s2 EXCEPT !.duration = val("DURATION"), !.infinite = @ \/ val("DURATION") = 0]
              ELSE s2
      s4 == IF Asked("DELAY", "P") /\ val("DELAY") >= 0 THEN [s3 EXCEPT !.delay = val("DELAY")] ELSE s3
  IN  IF Asked("COPIES", "c") THEN [s4 EXCEPT !.copies = val("COPIES")] ELSE s4

ParseOption ==
  /\ phase = "parse" /\ optind < Len(command.line)
  /\ optind' = optind + 1
  /\ std' = Option(command.line[optind + 1], std)
  /\ UNCHANGED <<command, copies, now, start, loop, passes, phase>>
ParseEnv ==
  /\ phase = "parse" /\ optind = Len(command.line)
  /\ std' = FromEnv(std) /\ phase' = "setup"
  /\ UNCHANGED <<command, optind, copies, now, start, loop, passes>>

-----------------------------------------------------------------------------
(* usc_global_setup_hook(): forks that fail are not repeated.              *)

ToLoop(paused) == IF paused THEN "handler" ELSE "loop"

usc_global_setup_hook ==
  /\ phase = "setup"
  /\ copies' \in 1 .. (IF std.copies > 1 THEN std.copies ELSE 1)
  /\ phase' = ToLoop(std.pause)
  /\ UNCHANGED <<std, command, optind, now, start, loop, passes>>

\* The handler is set; then the process waits.  It waits for ever after a signal that
\* came between the two.
Pause ==
  /\ phase = "handler" /\ phase' = "pausing"
  /\ UNCHANGED <<std, command, optind, copies, now, start, loop, passes>>
SIGUSR1 ==
  /\ phase \in {"setup", "pausing"}
  /\ phase' = IF phase = "pausing" THEN "loop" ELSE "killed"
  /\ UNCHANGED <<std, command, optind, copies, now, start, loop, passes>>

-----------------------------------------------------------------------------
(* usc_test_looping().                                                     *)

Tick ==
  /\ phase \in {"loop", "delay"} /\ now < Horizon
  /\ now' = now + 1
  /\ UNCHANGED <<std, command, optind, copies, start, loop, passes, phase>>

\* All that is asked for is to be met.
KeepGoing_OneEnough(stop) ==
  IF std.duration # 0 THEN get_current_time(now) < stop
  ELSE std.infinite \/ (std.count # 0 /\ passes < std.count)
KeepGoing(stop) ==
  \/ std.infinite
  \/ std.count # 0 /\ passes < std.count
  \/ std.duration # 0 /\ get_current_time(now) < stop

\* One more pass, which is the test's own, or the end.
Turn(stop) ==
  IF KeepGoing(stop) THEN /\ passes' = passes + 1 /\ phase' = "loop"
  ELSE /\ phase' = "done" /\ UNCHANGED passes

usc_test_looping ==
  /\ phase = "loop" /\ passes < MaxPasses
  /\ IF loop.first
       THEN LET stop == IF std.duration # 0 THEN Wrapped(get_current_time(now) + std.duration) ELSE 0
            IN  /\ loop' = [loop EXCEPT !.first = FALSE, !.stop = stop]
                /\ Turn(stop)
     ELSE IF std.delay # 0
       THEN /\ loop' = [loop EXCEPT !.end = Wrapped(get_current_time(now) + std.delay)]
            /\ phase' = "delay" /\ UNCHANGED passes
     ELSE Turn(loop.stop) /\ UNCHANGED loop
  /\ UNCHANGED <<std, command, optind, copies, now, start>>

DelayEnds ==
  /\ phase = "delay" /\ get_current_time(now) >= loop.end
  /\ Turn(loop.stop)
  /\ UNCHANGED <<std, command, optind, copies, now, start, loop>>

LoopNext ==
  \/ ParseOption \/ ParseEnv \/ usc_global_setup_hook
  \/ Pause \/ SIGUSR1 \/ Tick \/ usc_test_looping \/ DelayEnds

-----------------------------------------------------------------------------
(* Properties.                                                             *)

Opts == DOMAIN command.line
HasOption(letter) == \E i \in Opts : command.line[i][1] = letter
LastOption(letter) ==
  CHOOSE i \in Opts : /\ command.line[i][1] = letter
                      /\ \A j \in Opts : j > i => command.line[j][1] # letter
\* What was asked for, the command line before the environment.
Given(letter, name, default) ==
  IF HasOption(letter) THEN command.line[LastOption(letter)][2]
  ELSE IF name \in DOMAIN command.env THEN command.env[name] ELSE default

\* A test that is asked for a number of passes makes that number; one that is asked for a
\* time as well goes on until that has passed, as long as its clock does not wrap round;
\* one that is asked for 0 of either never ends; there are never more copies than asked.
\* (parse_opts(), usc_global_setup_hook(), usc_test_looping().)
LoopsAsAsked ==
  LET n == Given("i", "ITERATION", 1)
      d == Given("I", "DURATION", -1)
      c == Given("c", "COPIES", 1)
      wraps == start + now + (IF d > 0 THEN d ELSE 0) >= ClockRange \/ start + d < -ClockRange
  IN  /\ phase = "done" =>
           /\ n # 0 /\ d # 0 /\ passes >= n
           /\ d < 0 => passes = (IF n > 0 THEN n ELSE 0) \/ (HasOption("I") /\ wraps)
           /\ d > 0 /\ ~wraps => now >= d
      /\ copies > 1 => copies <= c
=============================================================================
