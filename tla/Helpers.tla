------------------------------- MODULE Helpers -------------------------------
(***************************************************************************)
(* Helpers that stand between the programs and the system: signals         *)
(* (tst_sig.c, driver.c), locks (file_lock.c), clocks (driver.c,           *)
(* times_ms.c), the files of the directory searches (disk_funcs.c) and the *)
(* hooks of a test's loop (parse_opts.c).                                  *)
(***************************************************************************)
EXTENDS Integers, Sequences, SequencesExt, FiniteSets, FiniteSetsExt

-----------------------------------------------------------------------------
(* Signals, by the names that the code has for them on Linux.              *)

SignalName ==
  <<"HUP", "INT", "QUIT", "ILL", "TRAP", "ABRT", "BUS", "FPE", "KILL", "USR1", "SEGV", "USR2",
    "PIPE", "ALRM", "TERM", "STKFLT", "CHLD", "CONT", "STOP", "TSTP", "TTIN", "TTOU", "URG",
    "XCPU", "XFSZ", "VTALRM", "PROF", "WINCH", "IO", "PWR", "SYS">>

\* tst_sig() counts from 1 and stops before 31: a signal that has a handler afterwards.  A
\* program that forks leaves SIGCLD as it is, and so does one that runs in many copies.
Expected == {"KILL", "STOP", "CONT"}
tst_sig(fork, STD_COPIES) ==
  {SignalName[sig] : sig \in 1 .. 30} \ (Expected \cup IF fork \/ STD_COPIES > 1 THEN {"CHLD"} ELSE {})

\* What a handler does: signals it ignores from then on, whether it cleans up the work
\* files, tells the parent to end (when a child of its own is waited for, if there is one),
\* breaks the test of the library, or ends the process.
Nothing == [ignore |-> {}, cleanup |-> FALSE, tell |-> {}, broken |-> FALSE, exit |-> FALSE]
child_sighandler(sig) ==
  CASE sig \in {"TERM", "QUIT", "SEGV"} -> [Nothing EXCEPT !.ignore = {sig}, !.cleanup = TRUE]
    [] sig \in {"FPE", "HUP"}           -> [Nothing EXCEPT !.ignore = {sig}, !.tell = {"TERM"}, !.exit = TRUE]
    [] sig = "ALRM"                     -> [Nothing EXCEPT !.exit = TRUE]
    [] OTHER                            -> Nothing
parent_sighandler(sig) == Nothing
def_handler(sig, T_cleanup) == [Nothing EXCEPT !.cleanup = T_cleanup, !.broken = TRUE, !.exit = TRUE]

\* A signal to a process whose handled signals have that handler; SIGCHLD, SIGURG,
\* SIGWINCH and SIGCONT are nothing to a process without one.
Delivered(handled, handler, ignored, sig) ==
  IF sig \in ignored \ {"KILL", "STOP"} THEN Nothing
  ELSE IF sig \in handled THEN handler[sig]
  ELSE [Nothing EXCEPT !.exit = sig \notin {"CHLD", "URG", "WINCH", "CONT", "STOP"}]
\* A sequence of signals, up to the one that ends the process.
AfterSignals(handled, handler, sigs) ==
  FoldLeft(LAMBDA p, sig :
             IF p.ended THEN p
             ELSE LET d == Delivered(handled, handler, p.ignored, sig)
                  IN  [ignored |-> p.ignored \cup d.ignore, cleaned |-> p.cleaned \/ d.cleanup,
                       told |-> p.told \cup d.tell, ended |-> d.exit],
           [ignored |-> {}, cleaned |-> FALSE, told |-> {}, ended |-> FALSE], sigs)

-----------------------------------------------------------------------------
(* file_lock() and record_lock(): what is asked of fcntl(), and how its      *)
(* answers are taken.  A call that is to wait takes the first one.           *)

Flags == {"LOCK_NB", "LOCK_UN", "LOCK_EX", "LOCK_SH"}
LockType(flags) ==
  CASE "LOCK_UN" \in flags -> "F_UNLCK"
    [] "LOCK_UN" \notin flags /\ "LOCK_EX" \in flags -> "F_WRLCK"
    [] flags \cap {"LOCK_UN", "LOCK_EX"} = {} /\ "LOCK_SH" \in flags -> "F_RDLCK"
    [] OTHER -> "EINVAL"
Okay == {"EACCES", "EINTR", "EFSEXCLWR"}

\* answers are the ones that fcntl() gives one after the other; a call that none of them
\* ends goes on.
Looping == 1
Locked(flags, start, len, answers) ==
  LET retried == {i \in DOMAIN answers : "LOCK_NB" \in flags /\ answers[i] \in Okay}
      final   == (DOMAIN answers) \ retried
      first   == Min(final)
  IN  IF LockType(flags) = "EINVAL" THEN [ret |-> -1, calls |-> 0, type |-> "EINVAL", range |-> <<>>]
      ELSE [type |-> LockType(flags), range |-> <<start, len>>,
            ret   |-> IF final = {} THEN Looping ELSE IF answers[first] = "ok" THEN 0 ELSE -1,
            calls |-> IF final = {} THEN Len(answers) ELSE first]
record_lock(flags, start, len, answers) == Locked(flags, start, len, answers)
\* The whole file: from 0, and a length of 0 is all.
file_lock(flags, answers) == Locked(flags, 0, 0, answers)

-----------------------------------------------------------------------------
(* Clocks.  times() counts ticks in a word that wraps round.               *)

InWord(x, word) == ((x + word \div 2) % word) - word \div 2
timestamp(ticks, word) == InWord(ticks, word)

\* Milliseconds since start_time; no tick is multiplied if it is one of them.
timedelta(ticks, start_time, hz, word) ==
  LET passed == InWord(timestamp(ticks, word) - start_time, word)
      scaled == InWord(passed * 1000, word)
  IN  IF hz = 1000 THEN passed
      ELSE IF scaled >= 0 THEN scaled \div hz ELSE -((-scaled) \div hz)

\* rtmsec(): milliseconds since the last reset.  An epoch of 0 is none.
rtmsec(epoch, reset, now, hertz) ==
  IF epoch = 0 \/ reset THEN [epoch |-> now, retval |-> 0]
  ELSE [epoch |-> epoch, retval |-> (1000 * (now - epoch)) \div hertz]

\* The time of the children that were waited for, of the kind that is asked for.
child_uticks(times) == times.cutime
child_sticks(times) == times.cstime

-----------------------------------------------------------------------------
(* create_fakeh(): the archive is looked for in two places and unpacked in   *)
(* every directory that does not have the files.                             *)

\* fails are the directories where tar makes nothing.
create_fakeh(dirs, fakeh, places, cwd, fails) ==
  LET missing == {i \in DOMAIN dirs : dirs[i] \notin fakeh}
      stuck   == {i \in missing : dirs[i] \in fails}
      done    == IF stuck = {} THEN missing ELSE {i \in missing : i < Min(stuck)}
  IN  IF ~cwd \/ (dirs # <<>> /\ places \cap {"cwd/data", "/usr/local/share/reaim"} = {})
        THEN [ret |-> -1, fakeh |-> fakeh]
      ELSE [ret |-> IF stuck = {} THEN 0 ELSE -1, fakeh |-> fakeh \cup {dirs[i] : i \in done}]

-----------------------------------------------------------------------------

\* reduce_list(): the number of one of the entries that are not 0, by a random number; a
\* list of zeroes ends the program.
reduce_list(wlist, random) ==
  LET rlist == SelectSeq([i \in DOMAIN wlist |-> i], LAMBDA i : wlist[i] # 0)
  IN  IF rlist = <<>> THEN "exit" ELSE rlist[(random % Len(rlist)) + 1]

\* The hooks of parse_opts(): a variable that is no number turns a barrier on, and leaves
\* the others off.
Barriers == {"TP_BARRIER", "LP_BARRIER"}
HookNames ==
  Barriers \cup {"TP_SHMEM", "LP_SHMEM", "LD_SHMEM", "TP_SBRK", "LP_SBRK", "LP_RECFUN", "LD_RECFUN"}
Hooks(env) ==
  [name \in HookNames |->
     IF name \notin DOMAIN env THEN 0
     ELSE IF env[name] >= 0 THEN env[name]
     ELSE IF name \in Barriers THEN 1 ELSE 0]
=============================================================================
