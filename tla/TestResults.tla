----------------------------- MODULE TestResults -----------------------------
(***************************************************************************)
(* tst_res.c: a test reports its cases one after the other or several at   *)
(* once; the lines that are printed depend on the output mode, and in the  *)
(* condensed modes equal results that follow each other are held back and  *)
(* printed as one line.  A result may name a file whose contents go with   *)
(* its line.  All state is that of one process and sits in one record.     *)
(***************************************************************************)
EXTENDS Integers, Sequences

CONSTANTS
  Total,     \* TST_TOTAL, the cases of the test
  Reports,   \* the calls a test makes, see Report
  MaxReports \* bound: calls before tst_exit()
Modes == {"VERBOSE", "CONDENSE", "NOPASS", "DISCARD"}
Types == {"TPASS", "TFAIL", "TBROK", "TRETR", "TCONF", "TWARN", "TINFO"}
Failing == {"TFAIL", "TBROK", "TWARN"}   \* what NOPASS prints
NoFile == "none"
Files == {"readable", "unreadable", "missing", NoFile}
Calls == {"res", "brk", "loop"}          \* tst_res(), tst_brk(), tst_brkloop()

ASSUME ResultsAssumption ==
  /\ Total \in Nat \ {0} /\ MaxReports \in Nat
  /\ Reports \subseteq [call : Calls, type : Types, file : Files, mesg : {r.mesg : r \in Reports},
                        wrapped : BOOLEAN, range : Int, start : Int, total : Int, func : BOOLEAN]

VARIABLES
  tst,     \* the static variables and the output, see ResultsInit
  given,   \* history: what was reported for each case: its result and its file
  env,     \* the environment variable TOUTPUT
  reports  \* calls made; MaxReports + 1 after tst_exit()
resultVars == <<tst, given, env, reports>>

ResultsInit ==
  /\ tst = [count |-> 0, range |-> 1, mode |-> "VERBOSE", opened |-> FALSE,
            file |-> NoFile, expand |-> TRUE, exitval |-> {},
            buffered |-> FALSE, last |-> [num |-> 0, type |-> "TPASS", mesg |-> <<"none", 0>>],
            lines |-> <<>>, crashed |-> FALSE]
  /\ given = <<>>
  /\ env \in Modes
  /\ reports = 0

-----------------------------------------------------------------------------
(* The functions of tst_res.c, from a state to a state.                    *)

\* A message and how often its conversions were expanded.  vsprintf() is to see a
\* message once only: its result may hold further % signs.
Text(s, m) == <<m[1], IF s.expand THEN m[2] + 1 ELSE m[2]>>
EXPAND_VAR_ARGS(s) == [s EXCEPT !.expand = FALSE]

\* cat_file(): when the file cannot be opened it warns through tst_print(), which
\* finds File still set and comes back here, and so on until the stack is full.
cat_file(s) == IF s.file = "unreadable" THEN [s EXCEPT !.crashed = TRUE] ELSE s

\* What is printed, and when nothing is.
Line(s, num, range, type, mesg) ==
  [num |-> num, range |-> IF s.mode = "VERBOSE" \/ range < 1 THEN 1 ELSE range,
   type |-> type, mesg |-> mesg, file |-> s.file]
Silent(s, type) == s.mode = "DISCARD" \/ (s.mode = "NOPASS" /\ type \notin Failing)

\* A silent result leaves File for whatever comes next.  Before the first tst_res() there
\* is no stream to print to.
tst_print(s, num, range, type, mesg) ==
  LET seen == [s EXCEPT !.exitval = @ \cup {type}]
      line == Line(s, num, range, type, mesg)
  IN  IF Silent(s, type) THEN seen
      ELSE IF ~s.opened THEN [seen EXCEPT !.crashed = TRUE]
      ELSE [cat_file([seen EXCEPT !.lines = Append(@, line)]) EXCEPT !.file = NoFile]

Warn(s) == tst_print(s, 0, 1, "TWARN", <<"warning", 1>>)

\* The last result, printed for the cases up to the present one.
Released(s, num) ==
  IF s.buffered
    THEN [tst_print([s EXCEPT !.file = NoFile], s.last.num, num - s.last.num, s.last.type, s.last.mesg)
            EXCEPT !.file = s.file]
    ELSE s

\* A result like the last one is left to the line of that; otherwise that line is printed.
tst_condense(s, num, type, mesg) ==
  LET same  == s.last.type = type /\ s.last.mesg = mesg /\ s.file = NoFile
      ready == Released(s, num)
  IN  IF s.buffered /\ same THEN s
      ELSE IF ready.file # NoFile
        THEN [tst_print(ready, num, s.range, type, mesg) EXCEPT !.buffered = FALSE]
        ELSE [ready EXCEPT !.buffered = TRUE,
                           !.last = [num |-> num, type |-> type, mesg |-> mesg]]

tst_flush_LastOnly(s) ==
  IF s.buffered /\ s.mode \in {"CONDENSE", "NOPASS"}
    THEN [tst_print(s, s.last.num, s.count - s.last.num, s.last.type, s.last.mesg)
            EXCEPT !.buffered = FALSE]
    ELSE s
tst_flush(s) ==
  IF s.buffered /\ s.mode \in {"CONDENSE", "NOPASS"}
    THEN [tst_print(s, s.last.num, s.count - s.last.num + 1, s.last.type, s.last.mesg)
            EXCEPT !.buffered = FALSE]
    ELSE s

\* One line for each case of the range, in the mode that prints every line; the file goes
\* with the first.
PrintEach(s, type, mesg) ==
  LET first == tst_print(s, s.count + 1, s.range, type, mesg)
      more  == [i \in 1 .. s.range - 1 |-> Line(first, s.count + 1 + i, s.range, type, mesg)]
  IN  [first EXCEPT !.lines = @ \o more]

Informs(type) == type \in {"TWARN", "TINFO"}

\* check_env() looks at the environment at the first result only.
Ready(s, type) ==
  [EXPAND_VAR_ARGS(s) EXCEPT !.exitval = @ \cup {type}, !.opened = TRUE,
                             !.mode = IF s.opened THEN @ ELSE env]
PositiveRange(s) == IF s.range <= 0 THEN Warn([s EXCEPT !.range = 1]) ELSE s
SetFile(s, fname) == IF fname \in {"missing", NoFile} THEN s ELSE [s EXCEPT !.file = fname]

\* Results that are not a case of their own are numbered 0 and cannot have a range.
Inform(s, type, mesg) ==
  tst_print(IF s.range > 1 THEN Warn(s) ELSE s, 0, 1, type, mesg)
ReportCase(s, type, mesg) ==
  LET told == CASE s.mode = "DISCARD" -> s
                [] s.mode \in {"NOPASS", "CONDENSE"} -> tst_condense(s, s.count + 1, type, mesg)
                [] OTHER -> PrintEach(s, type, mesg)
  IN  [told EXCEPT !.count = @ + s.range]

tst_res(s, type, fname, arg) ==
  LET mesg == Text(s, arg)
      r    == SetFile(PositiveRange(Ready(s, type)), fname)
      told == IF Informs(type) THEN Inform(r, type, mesg) ELSE ReportCase(r, type, mesg)
  IN  [told EXCEPT !.range = 1, !.expand = TRUE]

\* tst_brk() and tst_brkloop() up to the last case of the test or of a loop in it.
Breaks == {"TFAIL", "TBROK", "TCONF", "TRETR"}
TypeOfBreak(type) == IF type \in Breaks THEN type ELSE "TBROK"
TypeOfRest(type)  == IF type \in {"TCONF", "TRETR"} THEN type ELSE "TBROK"
BreakUpTo(s, end, type, fname, arg) ==
  LET mesg  == Text(s, arg)
      e     == EXPAND_VAR_ARGS(s)
      valid == IF type \in Breaks THEN e ELSE Warn(e)
      first == IF valid.count < end THEN tst_res(valid, TypeOfBreak(type), fname, mesg) ELSE valid
      rest  == [first EXCEPT !.range = end - first.count]
  IN  IF rest.range > 0 THEN tst_res(rest, TypeOfRest(TypeOfBreak(type)), NoFile, <<"remaining", 0>>)
      ELSE [rest EXCEPT !.range = 1, !.expand = TRUE]

tst_brk(s, type, fname, arg) == BreakUpTo(s, Total, type, fname, arg)

\* Tst_lpstart and Tst_lptotal are set by the test.
tst_brkloop(s, start, total, type, fname, arg) ==
  IF start < 0 \/ total < 0
    THEN [Warn(EXPAND_VAR_ARGS(s)) EXCEPT !.expand = TRUE]
    ELSE BreakUpTo(s, start + total, type, fname, arg)

\* tst_resm(), tst_brkm() and tst_brkloopm() expand the message before they hand it on.
Call(s, r) ==
  LET m == IF r.wrapped THEN Text(s, <<r.mesg, 0>>) ELSE <<r.mesg, 0>>
      w == [(IF r.wrapped THEN EXPAND_VAR_ARGS(s) ELSE s) EXCEPT !.range = r.range]
      fname == IF r.wrapped THEN NoFile ELSE r.file
  IN  CASE r.call = "res"  -> tst_res(w, r.type, fname, m)
        [] r.call = "brk"  -> tst_brk(w, r.type, fname, m)
        [] r.call = "loop" -> tst_brkloop(w, r.start, r.total, r.type, fname, m)

-----------------------------------------------------------------------------
(* The test.                                                               *)

Ended == reports > MaxReports

\* What a call is to say of each case, by the manual of its parameters: a break has its own
\* type for the cases of its range and another one for the rest.
Case(type, mesg, file) == [type |-> type, mesg |-> <<mesg, 1>>, file |-> file]
Own(r) == IF r.range > 0 THEN r.range ELSE 1
Cases(r) ==
  LET file == IF r.wrapped \/ r.file = "missing" THEN NoFile ELSE r.file
      type == IF r.call = "res" THEN r.type ELSE TypeOfBreak(r.type)
      end  == IF r.call = "brk" THEN Total ELSE r.start + r.total
      left == end - Len(given)
      none == IF r.call = "res" THEN Informs(r.type)
              ELSE left <= 0 \/ (r.call = "loop" /\ (r.start < 0 \/ r.total < 0))
      own  == [i \in 1 .. Own(r) |-> Case(type, r.mesg, IF i = 1 THEN file ELSE NoFile)]
      rest == [i \in 1 .. (IF r.call = "res" THEN 0 ELSE left - Own(r)) |->
                 Case(TypeOfRest(type), "remaining", NoFile)]
  IN  IF none THEN <<>> ELSE own \o rest

\* A break with a cleanup function ends the test.
Report ==
  /\ reports < MaxReports /\ ~tst.crashed
  /\ \E r \in Reports :
       LET s == Call(tst, r)
           exits == r.call = "brk" /\ r.func /\ ~s.crashed
       IN  /\ tst' = IF exits THEN tst_flush(s) ELSE s
           /\ reports' = IF exits THEN MaxReports + 1 ELSE reports + 1
           /\ given' = given \o Cases(r)
  /\ UNCHANGED env

tst_exit ==
  /\ ~Ended /\ ~tst.crashed
  /\ tst' = tst_flush(tst)
  /\ reports' = MaxReports + 1
  /\ UNCHANGED <<given, env>>

ResultsNext == Report \/ tst_exit

-----------------------------------------------------------------------------
(* Properties.                                                             *)

Covers(line, n) == line.num <= n /\ n < line.num + line.range
LinesOf(n) == {i \in DOMAIN tst.lines : Covers(tst.lines[i], n)}
Shown(type) ==
  CASE env = "DISCARD" -> FALSE [] env = "NOPASS" -> type \in Failing [] OTHER -> TRUE

\* When the test has ended, each of its cases is covered by exactly one line, of its own
\* type and message, if the mode shows it, and by none otherwise; with its line comes the
\* file named for it, where every result is shown.  The types of all results are in the
\* exit value.  (A process dies before its end of a file that it cannot read,
\* tst_res.c:820, and of a break that is refused before any result, tst_res.c:601.)
EachCaseReported ==
  Ended =>
    /\ tst.count = Len(given)
    /\ {given[n].type : n \in DOMAIN given} \subseteq tst.exitval
    /\ \A n \in DOMAIN given :
         IF Shown(given[n].type)
           THEN \E i \in LinesOf(n) :
                  LET line == tst.lines[i] IN
                  /\ LinesOf(n) = {i}
                  /\ line.type = given[n].type /\ line.mesg = given[n].mesg
                  /\ env # "NOPASS" /\ given[n].file # NoFile => line.file = given[n].file
           ELSE LinesOf(n) = {}
=============================================================================
