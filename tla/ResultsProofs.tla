---------------------------- MODULE ResultsProofs ----------------------------
(***************************************************************************)
(* Proofs about the test results of libltp, for any calls with any fields, *)
(* any number of them and any number of cases.  The lines printed tell of  *)
(* all cases before a last group of them, which is held back: the group of *)
(* alike cases that tst_condense() remembers (Tidy, with Told and HeldBack *)
(* for the two).  A function is shown to keep this (Sound) for the cases   *)
(* it adds, from the print of one line up to a whole call.                 *)
(***************************************************************************)
EXTENDS TestResults, SequenceTheorems, TLAPS

(* Messages, lines, cases and the state, with the range of each field.     *)
Said == {r.mesg : r \in Reports} \cup {"warning", "remaining", "none"}
Messages == Said \X Nat
LineKind == [num : Nat, range : Nat \ {0}, type : Types, mesg : Messages, file : Files]
CaseKind == [type : Types, mesg : Messages, file : Files]
Kept == [count : Nat, range : Int, mode : Modes, opened : BOOLEAN, file : Files, expand : BOOLEAN,
         exitval : SUBSET Types, buffered : BOOLEAN,
         last : [num : Nat, type : Types, mesg : Messages],
         lines : Seq(LineKind), crashed : BOOLEAN]

\* Case n has its one line among these, if the mode shows it, and none otherwise.
OneLine(lines, case, n) ==
  IF Shown(case.type)
    THEN \E i \in DOMAIN lines :
           /\ Covers(lines[i], n) /\ \A j \in DOMAIN lines : Covers(lines[j], n) => j = i
           /\ lines[i].type = case.type /\ lines[i].mesg = case.mesg
           /\ env # "NOPASS" /\ case.file # NoFile => lines[i].file = case.file
    ELSE \A i \in DOMAIN lines : ~Covers(lines[i], n)

\* The lines tell of the first k cases and of no other.
Told(lines, cases, k) ==
  /\ \A i \in DOMAIN lines : lines[i].num + lines[i].range <= k + 1
  /\ \A n \in 1 .. k : OneLine(lines, cases[n], n)

\* A result is held back: it is that of every case since.
HeldBack(s, cases) ==
  s.buffered =>
    /\ s.mode \in {"CONDENSE", "NOPASS"} /\ s.last.num \in 1 .. s.count
    /\ \A n \in s.last.num .. s.count :
         /\ cases[n].type = s.last.type /\ cases[n].mesg = s.last.mesg
         /\ env # "NOPASS" => cases[n].file = NoFile
\* Lines and the result that is held back tell of all cases.
Tidy(s, cases) ==
  /\ s.count = Len(cases)
  /\ \A n \in DOMAIN cases : cases[n].type \in s.exitval
  /\ IF s.opened THEN s.mode = env ELSE s.mode = "VERBOSE" /\ s.count = 0
  /\ HeldBack(s, cases)
  /\ Told(s.lines, cases, IF s.buffered THEN s.last.num - 1 ELSE s.count)

\* Told and held back while the test runs, all told when it has ended.
ResultsInv ==
  /\ env \in Modes /\ reports \in Nat /\ tst \in Kept /\ given \in Seq(CaseKind)
  /\ ~tst.crashed /\ ~Ended => Tidy(tst, given) /\ tst.expand
  /\ Ended => /\ tst.count = Len(given) /\ \A n \in DOMAIN given : given[n].type \in tst.exitval
              /\ Told(tst.lines, given, Len(given))

-----------------------------------------------------------------------------
(* Lines and the cases they tell of.                                       *)

\* The fields of a line.
LEMMA LineFields ==
  ASSUME NEW lines \in Seq(LineKind), NEW i \in DOMAIN lines
  PROVE  lines[i].num \in Nat /\ lines[i].range \in Nat /\ lines[i].range > 0 /\ lines[i] \in LineKind
<1>1. lines[i] \in LineKind
  OBVIOUS
<1>2. lines[i].num \in Nat /\ lines[i].range \in Nat \ {0}
  BY <1>1 DEF LineKind
<1> QED
  BY <1>1, <1>2

\* Results are added one after the other.
LEMMA OneByOne ==
  ASSUME NEW a \in Seq(CaseKind), NEW b \in Seq(CaseKind), NEW c \in Seq(CaseKind)
  PROVE  (a \o b) \o c = a \o (b \o c)
BY ConcatAssociative

\* Later cases leave the earlier ones as they were.
LEMMA ToldMore ==
  ASSUME NEW lines, NEW old \in Seq(CaseKind), NEW new \in Seq(CaseKind), NEW k \in 0 .. Len(old),
         Told(lines, old, k)
  PROVE  Told(lines, old \o new, k)
<1>1. \A n \in 1 .. k : (old \o new)[n] = old[n]
  OBVIOUS
<1> QED
  BY <1>1 DEF Told

\* A line with another number than that of a case leaves the case as it was.
LEMMA OtherLine ==
  ASSUME NEW lines \in Seq(LineKind), NEW line \in LineKind, NEW case, NEW n \in Nat,
         ~Covers(line, n), OneLine(lines, case, n)
  PROVE  OneLine(Append(lines, line), case, n)
<1> DEFINE more == Append(lines, line)
<1>1. /\ DOMAIN more = 1 .. Len(lines) + 1 /\ DOMAIN lines = 1 .. Len(lines) /\ Len(lines) \in Nat
      /\ more[Len(lines) + 1] = line /\ \A i \in 1 .. Len(lines) : more[i] = lines[i]
  OBVIOUS
<1>2. DOMAIN lines \subseteq DOMAIN more /\ \A i \in DOMAIN more : i \in DOMAIN lines \/ more[i] = line
  BY <1>1
<1>3. \A i \in DOMAIN lines : more[i] = lines[i]
  BY <1>1
<1> HIDE DEF more
<1>4. CASE Shown(case.type)
  <2>1. PICK i \in DOMAIN lines :
           /\ Covers(lines[i], n) /\ \A j \in DOMAIN lines : Covers(lines[j], n) => j = i
           /\ lines[i].type = case.type /\ lines[i].mesg = case.mesg
           /\ env # "NOPASS" /\ case.file # NoFile => lines[i].file = case.file
    BY <1>4 DEF OneLine
  <2>2. \A j \in DOMAIN more : Covers(more[j], n) => j = i
    BY <1>2, <1>3, <2>1
  <2> QED
    BY <1>2, <1>3, <1>4, <2>1, <2>2 DEF OneLine, more
<1>5. CASE ~Shown(case.type)
  BY <1>2, <1>3, <1>5 DEF OneLine, more
<1> QED
  BY <1>4, <1>5

\* A line that is about no case.
LEMMA ToldZero ==
  ASSUME NEW lines \in Seq(LineKind), NEW line \in LineKind, line.num = 0, line.range = 1,
         NEW cases, NEW k \in Nat, Told(lines, cases, k)
  PROVE  Told(Append(lines, line), cases, k)
<1>1. \A n \in 1 .. k : ~Covers(line, n)
  BY DEF Covers
<1>2. \A n \in 1 .. k : OneLine(Append(lines, line), cases[n], n)
  BY <1>1, OtherLine DEF Told
<1>3. \A i \in DOMAIN Append(lines, line) : Append(lines, line)[i].num + Append(lines, line)[i].range <= k + 1
  <2> TAKE i \in DOMAIN Append(lines, line)
  <2>1. CASE i \in DOMAIN lines
    BY <2>1 DEF Told
  <2>2. CASE i \notin DOMAIN lines
    <3>1. Append(lines, line)[i] = line
      BY <2>2
    <3> QED
      BY <3>1
  <2> QED
    BY <2>1, <2>2
<1> QED
  BY <1>2, <1>3 DEF Told

\* The line of the next m cases.
LEMMA ToldLine ==
  ASSUME NEW lines \in Seq(LineKind), NEW line \in LineKind, NEW cases, NEW k \in Nat, NEW m \in Nat,
         m > 0, Told(lines, cases, k), line.num = k + 1, line.range = m,
         \A n \in k + 1 .. k + m :
            /\ Shown(cases[n].type) /\ line.type = cases[n].type /\ line.mesg = cases[n].mesg
            /\ env # "NOPASS" /\ cases[n].file # NoFile => line.file = cases[n].file
  PROVE  Told(Append(lines, line), cases, k + m)
<1> DEFINE more == Append(lines, line)
           last == Len(lines) + 1
<1>1. /\ DOMAIN more = 1 .. last /\ DOMAIN lines = 1 .. Len(lines) /\ Len(lines) \in Nat
      /\ more[last] = line /\ \A i \in 1 .. Len(lines) : more[i] = lines[i]
  OBVIOUS
<1>2. /\ last \in DOMAIN more /\ more[last] = line
      /\ \A i \in DOMAIN more : i = last \/ (i \in DOMAIN lines /\ more[i] = lines[i])
  BY <1>1
<1>3. \A i \in DOMAIN lines : lines[i].num + lines[i].range <= k + 1 /\ lines[i].num \in Nat /\ lines[i].range \in Nat
  BY LineFields DEF Told
<1>4. \A n \in 1 .. k : OneLine(more, cases[n], n)
  <2>1. \A n \in 1 .. k : n \in Nat /\ ~Covers(line, n) /\ OneLine(lines, cases[n], n)
    BY DEF Covers, Told
  <2> QED
    BY <2>1, OtherLine
<1> HIDE DEF more, last
<1>5. ASSUME NEW n \in k + 1 .. k + m PROVE OneLine(more, cases[n], n)
  <2>1. Covers(more[last], n)
    BY <1>2 DEF Covers
  <2>2. \A j \in DOMAIN more : Covers(more[j], n) => j = last
    BY <1>2, <1>3 DEF Covers
  <2> QED
    BY <1>2, <2>1, <2>2 DEF OneLine
<1>6. \A i \in DOMAIN more : more[i].num + more[i].range <= k + m + 1
  BY <1>2, <1>3
<1>7. \A n \in 1 .. k + m : n \in 1 .. k \/ n \in k + 1 .. k + m
  OBVIOUS
<1> QED
  BY <1>4, <1>5, <1>6, <1>7 DEF Told, more

\* Cases of which nothing is to be seen.
LEMMA ToldNothing ==
  ASSUME NEW lines \in Seq(LineKind), NEW cases, NEW k \in Nat, NEW m \in Nat,
         Told(lines, cases, k), \A n \in k + 1 .. k + m : ~Shown(cases[n].type)
  PROVE  Told(lines, cases, k + m)
<1>1. \A i \in DOMAIN lines : lines[i].num + lines[i].range <= k + 1 /\ lines[i].num \in Nat /\ lines[i].range \in Nat
  BY LineFields DEF Told
<1>2. \A i \in DOMAIN lines : lines[i].num + lines[i].range <= k + m + 1
  BY <1>1
<1>3. ASSUME NEW n \in k + 1 .. k + m PROVE OneLine(lines, cases[n], n)
  <2>1. \A i \in DOMAIN lines : ~Covers(lines[i], n)
    BY <1>1 DEF Covers
  <2> QED
    BY <2>1 DEF OneLine
<1>4. \A n \in 1 .. k + m : n \in 1 .. k \/ n \in k + 1 .. k + m
  OBVIOUS
<1> QED
  BY <1>2, <1>3, <1>4 DEF Told

\* A line for each of the next m cases.
LEMMA ToldEach ==
  ASSUME NEW lines \in Seq(LineKind), NEW each \in Seq(LineKind), NEW cases, NEW k \in Nat,
         Told(lines, cases, k),
         \A i \in DOMAIN each :
            /\ each[i].num = k + i /\ each[i].range = 1
            /\ Shown(cases[k + i].type) /\ each[i].type = cases[k + i].type /\ each[i].mesg = cases[k + i].mesg
            /\ cases[k + i].file # NoFile => each[i].file = cases[k + i].file
  PROVE  Told(lines \o each, cases, k + Len(each))
<1> DEFINE more == lines \o each
           l == Len(lines)
           m == Len(each)
<1>1. /\ DOMAIN more = 1 .. l + m /\ DOMAIN lines = 1 .. l /\ DOMAIN each = 1 .. m /\ l \in Nat /\ m \in Nat
      /\ \A i \in 1 .. l : more[i] = lines[i]
      /\ \A i \in l + 1 .. l + m : more[i] = each[i - l]
  OBVIOUS
<1> HIDE DEF more, l, m
<1>2. \A i \in 1 .. l : more[i].num + more[i].range <= k + 1 /\ more[i].num \in Nat /\ more[i].range \in Nat
  <2>1. \A i \in DOMAIN lines : lines[i].num + lines[i].range <= k + 1 /\ lines[i].num \in Nat /\ lines[i].range \in Nat
    BY LineFields DEF Told
  <2> QED
    BY <1>1, <2>1
<1>3. \A i \in l + 1 .. l + m : i - l \in DOMAIN each /\ more[i].num = k + (i - l) /\ more[i].range = 1
  <2> TAKE i \in l + 1 .. l + m
  <2>1. i - l \in DOMAIN each /\ more[i] = each[i - l]
    BY <1>1
  <2>2. each[i - l].num = k + (i - l) /\ each[i - l].range = 1
    BY <2>1
  <2> QED
    BY <2>1, <2>2
<1>4. \A i \in DOMAIN more : i \in 1 .. l \/ i \in l + 1 .. l + m
  BY <1>1
<1>5. \A i \in DOMAIN more : more[i].num + more[i].range <= k + m + 1
  BY <1>1, <1>2, <1>3, <1>4
<1>6. ASSUME NEW n \in 1 .. k PROVE OneLine(more, cases[n], n)
  <2>1. OneLine(lines, cases[n], n)
    BY DEF Told
  <2>2. \A i \in l + 1 .. l + m : ~Covers(more[i], n)
    BY <1>1, <1>3 DEF Covers
  <2>3. CASE Shown(cases[n].type)
    <3>1. PICK i \in DOMAIN lines :
             /\ Covers(lines[i], n) /\ \A j \in DOMAIN lines : Covers(lines[j], n) => j = i
             /\ lines[i].type = cases[n].type /\ lines[i].mesg = cases[n].mesg
             /\ env # "NOPASS" /\ cases[n].file # NoFile => lines[i].file = cases[n].file
      BY <2>1, <2>3 DEF OneLine
    <3>2. i \in DOMAIN more /\ more[i] = lines[i]
      BY <1>1
    <3>3. \A j \in DOMAIN more : Covers(more[j], n) => j = i
      BY <1>1, <1>4, <2>2, <3>1
    <3> QED
      BY <2>3, <3>1, <3>2, <3>3 DEF OneLine
  <2>4. CASE ~Shown(cases[n].type)
    BY <1>1, <1>4, <2>1, <2>2, <2>4 DEF OneLine
  <2> QED
    BY <2>3, <2>4
<1>7. ASSUME NEW n \in k + 1 .. k + m PROVE OneLine(more, cases[n], n)
  <2>1. n - k \in DOMAIN each /\ l + (n - k) \in l + 1 .. l + m /\ l + (n - k) \in DOMAIN more
        /\ k + (n - k) = n /\ n \in Nat
    BY <1>1
  <2>2. more[l + (n - k)] = each[n - k]
    <3>1. (l + (n - k)) - l = n - k
      BY <1>1
    <3> QED
      BY <1>1, <2>1, <3>1
  <2>3. Covers(more[l + (n - k)], n)
    BY <2>1, <2>2 DEF Covers
  <2>4. \A j \in DOMAIN more : Covers(more[j], n) => j = l + (n - k)
    <3> SUFFICES ASSUME NEW j \in DOMAIN more, Covers(more[j], n) PROVE j = l + (n - k)
      OBVIOUS
    <3>1. CASE j \in 1 .. l
      BY <1>2, <3>1 DEF Covers
    <3>2. CASE j \in l + 1 .. l + m
      <4>1. more[j].num = k + (j - l) /\ more[j].range = 1
        BY <1>3, <3>2
      <4>2. k + (j - l) <= n /\ n < k + (j - l) + 1
        BY <4>1 DEF Covers
      <4>3. j \in Int /\ l \in Int /\ k \in Int /\ n \in Int
        BY <1>1, <2>1
      <4>4. \A a, b, c, d \in Int : a + (b - c) <= d /\ d < a + (b - c) + 1 => b = c + (d - a)
        OBVIOUS
      <4> QED
        BY <4>2, <4>3, <4>4
    <3> QED
      BY <1>4, <3>1, <3>2
  <2>5. /\ Shown(cases[n].type) /\ each[n - k].type = cases[n].type /\ each[n - k].mesg = cases[n].mesg
        /\ cases[n].file # NoFile => each[n - k].file = cases[n].file
    BY <2>1
  <2> QED
    BY <2>1, <2>2, <2>3, <2>4, <2>5 DEF OneLine
<1>8. \A n \in 1 .. k + m : n \in 1 .. k \/ n \in k + 1 .. k + m
  BY <1>1
<1> QED
  BY <1>5, <1>6, <1>7, <1>8 DEF Told, more, m

-----------------------------------------------------------------------------
(* What the functions do to the state.                                     *)

\* s and t are the same but for what is printed.
Same(s, t) ==
  /\ t.count = s.count /\ t.range = s.range /\ t.mode = s.mode /\ t.opened = s.opened
  /\ t.expand = s.expand /\ t.buffered = s.buffered /\ t.last = s.last

\* t is s after a line was printed, or kept silent.
Printed(s, t, num, range, type, mesg) ==
  /\ t \in Kept /\ Same(s, t) /\ t.exitval = s.exitval \cup {type}
  /\ s.crashed => t.crashed
  /\ Silent(s, type) => t.lines = s.lines
  /\ ~Silent(s, type) /\ s.opened => t.lines = Append(s.lines, Line(s, num, range, type, mesg))
  /\ ~Silent(s, type) /\ ~s.opened => t.crashed
  /\ Line(s, num, range, type, mesg) \in LineKind

\* tst_print() prints one line, keeps silent, or crashes.
LEMMA PrintIs ==
  ASSUME NEW s \in Kept, NEW num \in Nat, NEW range \in Int, NEW type \in Types, NEW mesg \in Messages
  PROVE  Printed(s, tst_print(s, num, range, type, mesg), num, range, type, mesg)
<1> DEFINE t == tst_print(s, num, range, type, mesg)
           seen == [s EXCEPT !.exitval = s.exitval \cup {type}]
           line == Line(s, num, range, type, mesg)
           more == [seen EXCEPT !.lines = Append(seen.lines, line)]
<1>1. line \in LineKind
  <2>1. (IF s.mode = "VERBOSE" \/ range < 1 THEN 1 ELSE range) \in Nat \ {0}
    <3>1. range < 1 \/ range \in Nat \ {0}
      OBVIOUS
    <3>2. 1 \in Nat \ {0}
      OBVIOUS
    <3> QED
      BY <3>1, <3>2
  <2>2. s.file \in Files
    BY DEF Kept
  <2> QED
    BY <2>1, <2>2 DEF Line, LineKind
<1> HIDE DEF line
<1>2. /\ seen \in Kept /\ Same(s, seen) /\ seen.exitval = s.exitval \cup {type}
      /\ seen.lines = s.lines /\ seen.file = s.file /\ seen.crashed = s.crashed
  BY DEF Kept, Same
<1> HIDE DEF seen
<1>3. /\ more \in Kept /\ Same(s, more) /\ more.exitval = s.exitval \cup {type}
      /\ more.lines = Append(s.lines, line) /\ more.file = s.file /\ more.crashed = s.crashed
  <2>1. Append(seen.lines, line) \in Seq(LineKind)
    <3>1. seen.lines \in Seq(LineKind)
      BY <1>2 DEF Kept
    <3> QED
      BY <1>1, <3>1
  <2> QED
    BY <1>2, <2>1 DEF Kept, Same
<1> HIDE DEF more
<1>4. t = IF Silent(s, type) THEN seen ELSE IF ~s.opened THEN [seen EXCEPT !.crashed = TRUE]
          ELSE [cat_file(more) EXCEPT !.file = NoFile]
  BY DEF tst_print, seen, more, line
<1> SUFFICES Printed(s, t, num, range, type, mesg)
  OBVIOUS
<1> HIDE DEF t
<1>5. CASE Silent(s, type)
  BY <1>1, <1>2, <1>4, <1>5 DEF line, Printed
<1>6. CASE ~Silent(s, type) /\ ~s.opened
  <2>1. t = [seen EXCEPT !.crashed = TRUE]
    BY <1>4, <1>6
  <2>2. t \in Kept /\ Same(s, t) /\ t.exitval = s.exitval \cup {type} /\ t.crashed
    BY <1>2, <2>1 DEF Kept, Same
  <2> QED
    BY <1>1, <1>6, <2>2 DEF line, Printed
<1>7. CASE ~Silent(s, type) /\ s.opened
  <2> DEFINE shown == cat_file(more)
  <2>1. /\ shown \in Kept /\ Same(s, shown) /\ shown.exitval = s.exitval \cup {type}
        /\ shown.lines = Append(s.lines, line) /\ (s.crashed => shown.crashed)
    <3>1. CASE more.file = "unreadable"
      <4>1. shown = [more EXCEPT !.crashed = TRUE]
        BY <3>1 DEF cat_file
      <4> HIDE DEF shown
      <4> QED
        BY <1>3, <4>1 DEF Kept, Same
    <3>2. CASE more.file # "unreadable"
      <4>1. shown = more
        BY <3>2 DEF cat_file
      <4> HIDE DEF shown
      <4> QED
        BY <1>3, <4>1
    <3> QED
      BY <3>1, <3>2
  <2> HIDE DEF shown
  <2>2. t = [shown EXCEPT !.file = NoFile]
    BY <1>4, <1>7 DEF shown
  <2>3. NoFile \in Files
    BY DEF Files
  <2>4. /\ t \in Kept /\ Same(s, t) /\ t.exitval = s.exitval \cup {type}
        /\ t.lines = Append(s.lines, line) /\ (s.crashed => t.crashed)
    BY <2>1, <2>2, <2>3 DEF Kept, Same
  <2> QED
    BY <1>1, <1>7, <2>4 DEF line, Printed
<1> QED
  BY <1>5, <1>6, <1>7

\* The kinds of the fields.
LEMMA KeptIs ==
  ASSUME NEW s \in Kept
  PROVE  /\ s.count \in Nat /\ s.range \in Int /\ s.mode \in Modes /\ s.opened \in BOOLEAN /\ s.file \in Files
         /\ s.expand \in BOOLEAN /\ s.exitval \subseteq Types /\ s.buffered \in BOOLEAN
         /\ s.last.num \in Nat /\ s.last.type \in Types /\ s.last.mesg \in Messages
         /\ s.lines \in Seq(LineKind) /\ s.crashed \in BOOLEAN
BY DEF Kept

\* A state that tells of these cases, or a crash.
Sound(s, cases) == s \in Kept /\ (~s.crashed => Tidy(s, cases))
\* How many cases the lines tell of.
Done(s) == IF s.buffered THEN s.last.num - 1 ELSE s.count

\* The lines tell of no more cases than there are.
LEMMA DoneIs ==
  ASSUME NEW s \in Kept, NEW cases, HeldBack(s, cases)
  PROVE  Done(s) \in 0 .. s.count
<1>1. s.count \in Nat /\ (s.buffered => s.last.num \in 1 .. s.count)
  BY KeptIs DEF HeldBack
<1> QED
  BY <1>1 DEF Done

\* What only prints more lines leaves the rest tidy.
LEMMA TidyIfTold ==
  ASSUME NEW s, NEW t, NEW cases, Tidy(s, cases), Same(s, t), s.exitval \subseteq t.exitval,
         Told(t.lines, cases, Done(s))
  PROVE  Tidy(t, cases)
<1>1. HeldBack(t, cases)
  BY DEF Tidy, HeldBack, Same
<1> QED
  BY <1>1 DEF Tidy, Same, Done

\* A line about no case.
LEMMA AsideSound ==
  ASSUME NEW s, NEW cases, Sound(s, cases), NEW type \in Types, NEW mesg \in Messages,
         NEW t, t = tst_print(s, 0, 1, type, mesg)
  PROVE  Sound(t, cases) /\ (s.crashed => t.crashed) /\ Same(s, t) /\ t.exitval = s.exitval \cup {type}
<1>1. s \in Kept /\ (~s.crashed => Tidy(s, cases))
  BY DEF Sound
<1>2. /\ t \in Kept /\ Same(s, t) /\ t.exitval = s.exitval \cup {type} /\ (s.crashed => t.crashed)
      /\ Silent(s, type) => t.lines = s.lines
      /\ ~Silent(s, type) /\ s.opened => t.lines = Append(s.lines, Line(s, 0, 1, type, mesg))
      /\ ~Silent(s, type) /\ ~s.opened => t.crashed
      /\ Line(s, 0, 1, type, mesg) \in LineKind
  <2>1. 0 \in Nat /\ 1 \in Int /\ type \in Types
    OBVIOUS
  <2>2. Printed(s, t, 0, 1, type, mesg)
    BY <1>1, <2>1, PrintIs
  <2> QED
    BY <2>2 DEF Printed
<1>3. ASSUME ~t.crashed PROVE Tidy(t, cases)
  <2>1. Tidy(s, cases) /\ Told(s.lines, cases, Done(s)) /\ Done(s) \in Nat
    BY <1>1, <1>2, <1>3, DoneIs DEF Tidy, Done
  <2>2. CASE Silent(s, type)
    BY <1>2, <2>1, <2>2, TidyIfTold
  <2>3. CASE ~Silent(s, type)
    <3>1. t.lines = Append(s.lines, Line(s, 0, 1, type, mesg))
      BY <1>2, <1>3, <2>3
    <3>2. Line(s, 0, 1, type, mesg).num = 0 /\ Line(s, 0, 1, type, mesg).range = 1
      BY DEF Line
    <3>3. s.lines \in Seq(LineKind)
      BY <1>1, KeptIs
    <3>4. Told(t.lines, cases, Done(s))
      BY <1>2, <2>1, <3>1, <3>2, <3>3, ToldZero
    <3> QED
      BY <1>2, <2>1, <3>4, TidyIfTold
  <2> QED
    BY <2>2, <2>3
<1> QED
  BY <1>2, <1>3 DEF Sound

\* What a mode shows is what it does not keep silent.
LEMMA ShownIs ==
  ASSUME NEW s, s.mode = env, env \in Modes, NEW type
  PROVE  Shown(type) <=> ~Silent(s, type)
BY DEF Shown, Silent, Modes

\* A line about the next cases, which are all alike.
LEMMA LineTold ==
  ASSUME NEW s \in Kept, s.opened, s.mode = env, env \in Modes, NEW cases, NEW k \in Nat, Told(s.lines, cases, k),
         NEW range \in Nat, range > 0, NEW m \in Nat, m = IF s.mode = "VERBOSE" THEN 1 ELSE range,
         NEW type \in Types, NEW mesg \in Messages,
         \A n \in k + 1 .. k + m :
            /\ cases[n].type = type /\ cases[n].mesg = mesg
            /\ env # "NOPASS" /\ cases[n].file # NoFile => s.file = cases[n].file
  PROVE  Told(tst_print(s, k + 1, range, type, mesg).lines, cases, k + m)
<1> DEFINE t == tst_print(s, k + 1, range, type, mesg)
           line == Line(s, k + 1, range, type, mesg)
<1>1. k + 1 \in Nat /\ range \in Int
  OBVIOUS
<1>a. m > 0 /\ m = IF s.mode = "VERBOSE" \/ range < 1 THEN 1 ELSE range
  OBVIOUS
<1>2. /\ Silent(s, type) => t.lines = s.lines
      /\ ~Silent(s, type) => t.lines = Append(s.lines, line)
      /\ line \in LineKind
  <2>1. Printed(s, t, k + 1, range, type, mesg)
    BY <1>1, PrintIs
  <2> HIDE DEF t, line
  <2> QED
    BY <2>1 DEF Printed, line
<1>3. line.num = k + 1 /\ line.range = m /\ line.type = type /\ line.mesg = mesg /\ line.file = s.file
  BY <1>a DEF Line
<1>4. s.lines \in Seq(LineKind)
  BY KeptIs
<1> HIDE DEF t, line
<1>5. CASE Silent(s, type)
  <2>1. \A n \in k + 1 .. k + m : ~Shown(cases[n].type)
    BY <1>5, ShownIs
  <2> QED
    BY <1>2, <1>4, <1>5, <2>1, ToldNothing DEF t
<1>6. CASE ~Silent(s, type)
  <2>1. \A n \in k + 1 .. k + m :
           /\ Shown(cases[n].type) /\ line.type = cases[n].type /\ line.mesg = cases[n].mesg
           /\ env # "NOPASS" /\ cases[n].file # NoFile => line.file = cases[n].file
    BY <1>3, <1>6, ShownIs
  <2>2. Told(Append(s.lines, line), cases, k + m)
    BY <1>a, <1>2, <1>3, <1>4, <2>1, ToldLine
  <2> QED
    BY <1>2, <1>6, <2>2 DEF t
<1> QED
  BY <1>5, <1>6

\* The cases that a result is given for: alike but for the file, which goes with the first.
Alike(new, type, mesg, file) ==
  /\ new \in Seq(CaseKind) /\ Len(new) > 0
  /\ \A i \in DOMAIN new : new[i].type = type /\ new[i].mesg = mesg /\ (i # 1 => new[i].file = NoFile)
  /\ new[1].file \in {file, NoFile}

\* The last cases of a sequence.
LEMMA NewCases ==
  ASSUME NEW old \in Seq(CaseKind), NEW new, NEW type, NEW mesg, NEW file, Alike(new, type, mesg, file)
  PROVE  LET cases == old \o new
             k == Len(old)
             m == Len(new)
         IN  /\ cases \in Seq(CaseKind) /\ Len(cases) = k + m /\ m \in Nat /\ m > 0 /\ k \in Nat
             /\ \A n \in 1 .. k : cases[n] = old[n]
             /\ \A n \in k + 1 .. k + m :
                  cases[n].type = type /\ cases[n].mesg = mesg /\ (n # k + 1 => cases[n].file = NoFile)
             /\ cases[k + 1].file \in {file, NoFile}
<1> DEFINE cases == old \o new
           k == Len(old)
           m == Len(new)
<1>1. new \in Seq(CaseKind) /\ m > 0 /\ m \in Nat /\ k \in Nat /\ DOMAIN new = 1 .. m
  BY DEF Alike
<1>2. /\ cases \in Seq(CaseKind) /\ Len(cases) = k + m
      /\ \A n \in 1 .. k : cases[n] = old[n]
      /\ \A n \in k + 1 .. k + m : cases[n] = new[n - k]
  BY <1>1
<1> HIDE DEF cases, k, m
<1>3. \A n \in k + 1 .. k + m : n - k \in DOMAIN new /\ (n # k + 1 => n - k # 1)
  BY <1>1
<1>4. k + 1 \in k + 1 .. k + m /\ (k + 1) - k = 1
  BY <1>1
<1>5. cases[k + 1] = new[1]
  BY <1>2, <1>4
<1>6. \A n \in k + 1 .. k + m :
        cases[n].type = type /\ cases[n].mesg = mesg /\ (n # k + 1 => cases[n].file = NoFile)
  BY <1>2, <1>3 DEF Alike
<1> QED
  BY <1>1, <1>2, <1>5, <1>6 DEF Alike, cases, k, m

\* The line of the results held back.
LEMMA HeldTold ==
  ASSUME NEW s \in Kept, NEW cases, Tidy(s, cases), s.buffered, env \in Modes,
         NEW s2 \in Kept, s2.mode = s.mode, s2.opened = s.opened, s2.lines = s.lines
  PROVE  LET t == tst_print(s2, s.last.num, s.count - s.last.num + 1, s.last.type, s.last.mesg)
         IN  Told(t.lines, cases, s.count)
<1> DEFINE k == s.last.num - 1
           range == s.count - s.last.num + 1
<1>1. /\ s.mode \in {"CONDENSE", "NOPASS"} /\ s.last.num \in 1 .. s.count /\ s.count \in Nat
      /\ \A n \in s.last.num .. s.count :
           /\ cases[n].type = s.last.type /\ cases[n].mesg = s.last.mesg
           /\ env # "NOPASS" => cases[n].file = NoFile
      /\ Told(s.lines, cases, k)
  BY KeptIs DEF Tidy, HeldBack
<1>2. s.opened /\ s.mode = env
  BY <1>1 DEF Tidy
<1>3. k \in Nat /\ range \in Nat /\ range > 0 /\ k + 1 = s.last.num /\ k + range = s.count
  BY <1>1
<1>4. s.last.type \in Types /\ s.last.mesg \in Messages
  BY KeptIs
<1>5. range = IF s2.mode = "VERBOSE" THEN 1 ELSE range
  BY <1>1
<1>6. \A n \in k + 1 .. k + range :
         /\ cases[n].type = s.last.type /\ cases[n].mesg = s.last.mesg
         /\ env # "NOPASS" /\ cases[n].file # NoFile => s2.file = cases[n].file
  BY <1>1, <1>3
<1> HIDE DEF k, range
<1>7. Told(tst_print(s2, k + 1, range, s.last.type, s.last.mesg).lines, cases, k + range)
  BY <1>1, <1>2, <1>3, <1>4, <1>5, <1>6, LineTold
<1> QED
  BY <1>3, <1>7 DEF range

\* tst_flush() leaves no result untold.
LEMMA FlushTold ==
  ASSUME NEW s \in Kept, NEW cases, Tidy(s, cases), env \in Modes
  PROVE  LET t == tst_flush(s) IN
         /\ t \in Kept /\ t.count = s.count /\ s.exitval \subseteq t.exitval
         /\ Told(t.lines, cases, s.count)
<1>1. CASE s.buffered
  <2> DEFINE p == tst_print(s, s.last.num, s.count - s.last.num + 1, s.last.type, s.last.mesg)
  <2>1. /\ s.mode \in {"CONDENSE", "NOPASS"} /\ s.last.num \in Nat /\ s.count - s.last.num + 1 \in Int
        /\ s.last.type \in Types /\ s.last.mesg \in Messages
    BY <1>1, KeptIs DEF Tidy, HeldBack
  <2>2. Printed(s, p, s.last.num, s.count - s.last.num + 1, s.last.type, s.last.mesg)
    BY <2>1, PrintIs
  <2>3. Told(p.lines, cases, s.count)
    BY <1>1, HeldTold
  <2>4. tst_flush(s) = [p EXCEPT !.buffered = FALSE]
    BY <1>1, <2>1 DEF tst_flush
  <2> HIDE DEF p
  <2> QED
    BY <2>2, <2>3, <2>4 DEF Printed, Same, Kept
<1>2. CASE ~s.buffered
  BY <1>2 DEF tst_flush, Tidy
<1> QED
  BY <1>1, <1>2

\* A case is reported: r is how, in the mode of s.
Reports1(s, r, old, new) ==
  /\ r \in Kept /\ (s.crashed => r.crashed) /\ r.opened /\ r.mode = s.mode /\ r.count = s.count
  /\ s.exitval \subseteq r.exitval
  /\ HeldBack([r EXCEPT !.count = s.count + Len(new)], old \o new)
  /\ Told(r.lines, old \o new, IF r.buffered THEN r.last.num - 1 ELSE s.count + Len(new))

\* Every line is printed.
LEMMA EachTold ==
  ASSUME NEW s \in Kept, NEW old \in Seq(CaseKind), Tidy(s, old), env \in Modes, s.opened, s.mode = "VERBOSE",
         NEW type \in Types, NEW mesg \in Messages, NEW new, Alike(new, type, mesg, s.file), Len(new) = s.range
  PROVE  Reports1(s, PrintEach(s, type, mesg), old, new)
<1> DEFINE first == tst_print(s, s.count + 1, s.range, type, mesg)
           more == [i \in 1 .. s.range - 1 |-> Line(first, s.count + 1 + i, s.range, type, mesg)]
           cases == old \o new
           k == s.count
           m == Len(new)
<1>1. /\ s.mode = env /\ ~s.buffered /\ k = Len(old) /\ k \in Nat /\ k + 1 \in Nat /\ s.range \in Int
      /\ Told(s.lines, old, k)
  BY KeptIs DEF Tidy, HeldBack
<1>2. /\ cases \in Seq(CaseKind) /\ m \in Nat /\ m > 0
      /\ \A n \in k + 1 .. k + m :
           cases[n].type = type /\ cases[n].mesg = mesg /\ (n # k + 1 => cases[n].file = NoFile)
      /\ cases[k + 1].file \in {s.file, NoFile}
  BY <1>1, NewCases
<1>3. Told(s.lines, cases, k)
  <2>1. new \in Seq(CaseKind) /\ k \in 0 .. Len(old)
    BY <1>1 DEF Alike
  <2> QED
    BY <1>1, <2>1, ToldMore
<1>4. Printed(s, first, k + 1, s.range, type, mesg)
  BY <1>1, PrintIs
<1> HIDE DEF cases, m, k
<1>5. Told(first.lines, cases, k + 1)
  <2>1. \A n \in k + 1 .. k + 1 :
          /\ cases[n].type = type /\ cases[n].mesg = mesg
          /\ env # "NOPASS" /\ cases[n].file # NoFile => s.file = cases[n].file
    BY <1>1, <1>2
  <2>2. s.range \in Nat /\ s.range > 0 /\ 1 \in Nat /\ 1 = IF s.mode = "VERBOSE" THEN 1 ELSE s.range
    BY <1>2 DEF m
  <2>3. first = tst_print(s, k + 1, s.range, type, mesg)
    BY DEF k
  <2> HIDE DEF first
  <2> QED
    BY <1>1, <1>3, <2>1, <2>2, <2>3, LineTold
<1>6. first \in Kept /\ Same(s, first) /\ s.exitval \subseteq first.exitval /\ (s.crashed => first.crashed)
  BY <1>4 DEF Printed
<1> HIDE DEF first
<1>7. first.mode = "VERBOSE" /\ first.file \in Files /\ first.lines \in Seq(LineKind)
  BY <1>6, KeptIs DEF Same
<1>8. /\ more \in Seq(LineKind) /\ Len(more) = m - 1
      /\ \A i \in DOMAIN more : /\ more[i].num = k + 1 + i /\ more[i].range = 1
                                /\ more[i].type = type /\ more[i].mesg = mesg
  <2>1. \A i \in 1 .. s.range - 1 : k + 1 + i \in Nat /\ 1 \in Nat \ {0}
    BY <1>1
  <2>2. \A i \in 1 .. s.range - 1 : Line(first, k + 1 + i, s.range, type, mesg) \in LineKind
    BY <1>7, <2>1 DEF Line, LineKind
  <2>3. s.range - 1 \in Nat /\ s.range = m
    BY <1>2 DEF m
  <2>4. more = [i \in 1 .. s.range - 1 |-> Line(first, k + 1 + i, s.range, type, mesg)]
    BY DEF k
  <2> HIDE DEF more
  <2>5. more \in Seq(LineKind) /\ Len(more) = s.range - 1 /\ DOMAIN more = 1 .. s.range - 1
    BY <2>2, <2>3, <2>4
  <2>6. \A i \in 1 .. s.range - 1 : more[i] = Line(first, k + 1 + i, s.range, type, mesg)
    BY <2>4
  <2> QED
    BY <1>7, <2>3, <2>5, <2>6 DEF Line
<1> HIDE DEF more
<1>9. Told(first.lines \o more, cases, k + 1 + Len(more))
  <2>1. \A t : Shown(t)
    BY <1>1 DEF Shown
  <2>2. \A i \in DOMAIN more : k + 1 + i \in k + 1 .. k + m /\ k + 1 + i # k + 1
    BY <1>1, <1>2, <1>8
  <2>3. \A i \in DOMAIN more :
            /\ more[i].num = k + 1 + i /\ more[i].range = 1
            /\ Shown(cases[k + 1 + i].type) /\ more[i].type = cases[k + 1 + i].type
            /\ more[i].mesg = cases[k + 1 + i].mesg
            /\ cases[k + 1 + i].file # NoFile => more[i].file = cases[k + 1 + i].file
    BY <1>2, <1>8, <2>1, <2>2
  <2> DEFINE next == k + 1
  <2>4. next \in Nat /\ Told(first.lines, cases, next)
    BY <1>1, <1>5
  <2>5. \A i \in DOMAIN more :
            /\ more[i].num = next + i /\ more[i].range = 1
            /\ Shown(cases[next + i].type) /\ more[i].type = cases[next + i].type
            /\ more[i].mesg = cases[next + i].mesg
            /\ cases[next + i].file # NoFile => more[i].file = cases[next + i].file
    BY <2>3
  <2> HIDE DEF next
  <2>6. Told(first.lines \o more, cases, next + Len(more))
    BY <1>7, <1>8, <2>4, <2>5, ToldEach
  <2> QED
    BY <2>6 DEF next
<1> DEFINE r == PrintEach(s, type, mesg)
<1>10. r = [first EXCEPT !.lines = first.lines \o more]
  BY DEF PrintEach, first, more, k
<1> HIDE DEF r
<1>11. first.lines \o more \in Seq(LineKind)
  BY <1>7, <1>8
<1>12. /\ r \in Kept /\ Same(s, r) /\ s.exitval \subseteq r.exitval /\ (s.crashed => r.crashed)
       /\ r.lines = first.lines \o more
  BY <1>6, <1>10, <1>11 DEF Same, Kept
<1>13. k + 1 + Len(more) = s.count + Len(new)
  BY <1>1, <1>2, <1>8 DEF k, m
<1>14. ~r.buffered /\ ~[r EXCEPT !.count = s.count + Len(new)].buffered
  BY <1>1, <1>12 DEF Same, Kept
<1>15. Reports1(s, r, old, new)
  BY <1>1, <1>9, <1>12, <1>13, <1>14 DEF Reports1, HeldBack, Same, cases
<1> QED
  BY <1>15 DEF r

\* Results that are alike are held back.
LEMMA CondenseTold ==
  ASSUME NEW s \in Kept, NEW old \in Seq(CaseKind), Tidy(s, old), env \in Modes, s.opened,
         s.mode \in {"CONDENSE", "NOPASS"}, NEW type \in Types, NEW mesg \in Messages,
         NEW new, Alike(new, type, mesg, s.file), Len(new) = s.range
  PROVE  Reports1(s, tst_condense(s, s.count + 1, type, mesg), old, new)
<1> DEFINE same == s.last.type = type /\ s.last.mesg = mesg /\ s.file = NoFile
           bare == [s EXCEPT !.file = NoFile]
           p == tst_print(bare, s.last.num, (s.count + 1) - s.last.num, s.last.type, s.last.mesg)
           ready == Released(s, s.count + 1)
           r == tst_condense(s, s.count + 1, type, mesg)
           cases == old \o new
           k == s.count
           m == Len(new)
<1>1. /\ s.mode = env /\ k = Len(old) /\ k \in Nat /\ Told(s.lines, old, Done(s)) /\ Done(s) \in 0 .. k
      /\ HeldBack(s, old) /\ s.file \in Files /\ s.buffered \in BOOLEAN
  BY KeptIs, DoneIs DEF Tidy, Done
<1>2. /\ cases \in Seq(CaseKind) /\ m \in Nat /\ m > 0
      /\ \A n \in 1 .. k : cases[n] = old[n]
      /\ \A n \in k + 1 .. k + m :
           cases[n].type = type /\ cases[n].mesg = mesg /\ (n # k + 1 => cases[n].file = NoFile)
      /\ cases[k + 1].file \in {s.file, NoFile}
  BY <1>1, NewCases
<1>3. new \in Seq(CaseKind)
  BY DEF Alike
<1>4. \A n \in 1 .. k + m : n \in 1 .. k \/ n \in k + 1 .. k + m
  BY <1>1, <1>2
<1>5. r = IF s.buffered /\ same THEN s
          ELSE IF ready.file # NoFile
            THEN [tst_print(ready, k + 1, s.range, type, mesg) EXCEPT !.buffered = FALSE]
            ELSE [ready EXCEPT !.buffered = TRUE, !.last = [num |-> k + 1, type |-> type, mesg |-> mesg]]
  BY DEF tst_condense
<1> HIDE DEF r, cases, k, m
<1>6. CASE s.buffered /\ same
  <2>1. r = s /\ Done(s) = s.last.num - 1
    BY <1>5, <1>6 DEF Done
  <2>2. Told(r.lines, cases, s.last.num - 1)
    BY <1>1, <1>3, <2>1, ToldMore DEF cases, k
  <2>3. \A n \in s.last.num .. k + m :
          /\ cases[n].type = s.last.type /\ cases[n].mesg = s.last.mesg
          /\ env # "NOPASS" => cases[n].file = NoFile
    <3> TAKE n \in s.last.num .. k + m
    <3>1. s.last.num \in 1 .. k
      BY <1>1, <1>6 DEF HeldBack, k
    <3>2. n \in s.last.num .. k \/ n \in k + 1 .. k + m
      BY <1>1, <1>2, <3>1
    <3>3. CASE n \in s.last.num .. k
      <4>1. n \in 1 .. k
        BY <1>1, <3>1, <3>3
      <4>2. cases[n] = old[n]
        BY <1>2, <4>1
      <4> QED
        BY <1>1, <1>6, <3>3, <4>2 DEF HeldBack, k
    <3>4. CASE n \in k + 1 .. k + m
      BY <1>2, <1>6, <3>4
    <3> QED
      BY <3>2, <3>3, <3>4
  <2> DEFINE s2 == [r EXCEPT !.count = s.count + Len(new)]
  <2>4. s2.buffered = s.buffered /\ s2.mode = s.mode /\ s2.last = s.last /\ s2.count = k + m
    BY <2>1 DEF Kept, k, m
  <2>5. s.last.num \in 1 .. k + m
    BY <1>1, <1>2, <1>6 DEF HeldBack, k
  <2> HIDE DEF s2
  <2>6. HeldBack(s2, cases)
    BY <1>6, <2>3, <2>4, <2>5 DEF HeldBack
  <2> QED
    BY <1>6, <2>1, <2>2, <2>6 DEF Reports1, cases, s2, r
<1>7. CASE ~(s.buffered /\ same)
  <2>1. /\ ready \in Kept /\ ready.count = s.count /\ ready.mode = s.mode /\ ready.opened = s.opened
        /\ ready.file = s.file /\ s.exitval \subseteq ready.exitval /\ (s.crashed => ready.crashed)
        /\ Told(ready.lines, old, k)
    <3>1. CASE ~s.buffered
      BY <1>1, <3>1 DEF Done, k, Released
    <3>2. CASE s.buffered
      <4>6. ready = [p EXCEPT !.file = s.file]
        BY <3>2 DEF Released
      <4>1. /\ bare \in Kept /\ bare.count = s.count /\ bare.mode = s.mode /\ bare.opened = s.opened
            /\ bare.exitval = s.exitval /\ bare.lines = s.lines /\ (s.crashed => bare.crashed)
        <5>1. NoFile \in Files
          BY DEF Files
        <5> QED
          BY <5>1 DEF Kept
      <4> HIDE DEF bare
      <4>2. s.last.num \in Nat /\ (s.count + 1) - s.last.num \in Int /\ s.last.type \in Types /\ s.last.mesg \in Messages
        BY KeptIs
      <4>3. Printed(bare, p, s.last.num, (s.count + 1) - s.last.num, s.last.type, s.last.mesg)
        BY <4>1, <4>2, PrintIs
      <4>4. (s.count + 1) - s.last.num = s.count - s.last.num + 1
        BY <1>1, <4>2 DEF k
      <4>5. Told(p.lines, old, s.count)
        BY <3>2, <4>1, <4>4, HeldTold
      <4> HIDE DEF p
      <4> HIDE DEF ready
      <4>7. /\ p \in Kept /\ p.count = s.count /\ p.mode = s.mode /\ p.opened = s.opened
            /\ s.exitval \subseteq p.exitval /\ (s.crashed => p.crashed)
        BY <4>1, <4>3 DEF Printed, Same
      <4> QED
        BY <1>1, <4>5, <4>6, <4>7 DEF Kept, k
    <3> QED
      BY <3>1, <3>2
  <2> HIDE DEF ready
  <2>2. Told(ready.lines, cases, k)
    BY <1>1, <1>3, <2>1, ToldMore DEF cases
  <2>3. CASE ready.file # NoFile
    <3> DEFINE q == tst_print(ready, k + 1, s.range, type, mesg)
    <3>1. s.range \in Nat /\ s.range > 0 /\ s.range = m /\ k + 1 \in Nat /\ s.range \in Int
      BY <1>1, <1>2 DEF m
    <3>2. Printed(ready, q, k + 1, s.range, type, mesg)
      BY <2>1, <3>1, PrintIs
    <3>3. m = IF ready.mode = "VERBOSE" THEN 1 ELSE s.range
      BY <2>1, <3>1
    <3>4. \A n \in k + 1 .. k + m :
            /\ cases[n].type = type /\ cases[n].mesg = mesg
            /\ env # "NOPASS" /\ cases[n].file # NoFile => ready.file = cases[n].file
      BY <1>2, <2>1
    <3>5. ready \in Kept /\ ready.opened /\ ready.mode = env
      BY <1>1, <2>1
    <3>6. Told(q.lines, cases, k + m)
      BY <1>1, <1>2, <2>2, <3>1, <3>3, <3>4, <3>5, LineTold
    <3> HIDE DEF q
    <3>7. r = [q EXCEPT !.buffered = FALSE]
      BY <1>5, <1>7, <2>3 DEF q
    <3>8. /\ q \in Kept /\ q.count = s.count /\ q.mode = s.mode /\ q.opened
          /\ s.exitval \subseteq q.exitval /\ (s.crashed => q.crashed)
      BY <2>1, <3>2 DEF Printed, Same
    <3>9. /\ r \in Kept /\ r.count = s.count /\ r.mode = s.mode /\ r.opened /\ ~r.buffered
          /\ s.exitval \subseteq r.exitval /\ (s.crashed => r.crashed) /\ r.lines = q.lines
      BY <3>7, <3>8 DEF Kept
    <3>10. ~[r EXCEPT !.count = s.count + Len(new)].buffered
      BY <3>9 DEF Kept
    <3>11. Reports1(s, r, old, new)
      BY <3>6, <3>9, <3>10 DEF Reports1, HeldBack, cases, k, m
    <3> QED
      BY <3>11 DEF r
  <2>4. CASE ready.file = NoFile
    <3> DEFINE last == [num |-> k + 1, type |-> type, mesg |-> mesg]
    <3>1. r = [ready EXCEPT !.buffered = TRUE, !.last = last]
      BY <1>5, <1>7, <2>4
    <3>2. last \in [num : Nat, type : Types, mesg : Messages]
      BY <1>1
    <3>a. last.num = k + 1 /\ last.type = type /\ last.mesg = mesg
      OBVIOUS
    <3> HIDE DEF last
    <3>3. /\ r \in Kept /\ r.count = s.count /\ r.mode = s.mode /\ r.opened /\ r.buffered /\ r.last = last
          /\ s.exitval \subseteq r.exitval /\ (s.crashed => r.crashed) /\ r.lines = ready.lines
      BY <2>1, <3>1, <3>2 DEF Kept
    <3>4. \A n \in k + 1 .. k + m :
            cases[n].type = type /\ cases[n].mesg = mesg /\ cases[n].file = NoFile
      BY <1>2, <2>1, <2>4
    <3> DEFINE s2 == [r EXCEPT !.count = s.count + Len(new)]
    <3>5. s2.buffered /\ s2.mode = s.mode /\ s2.last = last /\ s2.count = k + m
      BY <3>3 DEF Kept, k, m
    <3>6. k + 1 \in 1 .. k + m /\ (k + 1) - 1 = k
      BY <1>1, <1>2
    <3> HIDE DEF s2
    <3>7. HeldBack(s2, cases)
      BY <3>a, <3>4, <3>5, <3>6 DEF HeldBack
    <3>8. Told(r.lines, cases, r.last.num - 1)
      BY <2>2, <3>a, <3>3, <3>6
    <3>9. Reports1(s, r, old, new)
      BY <3>3, <3>7, <3>8 DEF Reports1, cases, s2
    <3> QED
      BY <3>9 DEF r
  <2> QED
    BY <2>3, <2>4
<1> QED
  BY <1>6, <1>7

\* r comes of s by printing and holding back.
KeptFrom(s, r) ==
  /\ r \in Kept /\ (s.crashed => r.crashed) /\ r.opened = s.opened /\ r.mode = s.mode /\ r.count = s.count
  /\ s.exitval \subseteq r.exitval

\* PrintEach keeps all but lines and exit value.
LEMMA EachKept ==
  ASSUME NEW s \in Kept, NEW type \in Types, NEW mesg \in Messages
  PROVE  KeptFrom(s, PrintEach(s, type, mesg))
<1> DEFINE first == tst_print(s, s.count + 1, s.range, type, mesg)
           more == [i \in 1 .. s.range - 1 |-> Line(first, s.count + 1 + i, s.range, type, mesg)]
<1>1. s.count \in Nat /\ s.count + 1 \in Nat /\ s.range \in Int
  BY KeptIs
<1>2. Printed(s, first, s.count + 1, s.range, type, mesg)
  BY <1>1, PrintIs
<1> HIDE DEF first
<1>3. first \in Kept /\ Same(s, first) /\ s.exitval \subseteq first.exitval /\ (s.crashed => first.crashed)
  BY <1>2 DEF Printed
<1>4. first.file \in Files /\ first.lines \in Seq(LineKind)
  BY <1>3, KeptIs
<1>5. \A i \in 1 .. s.range - 1 : Line(first, s.count + 1 + i, s.range, type, mesg) \in LineKind
  <2> TAKE i \in 1 .. s.range - 1
  <2>1. s.count + 1 + i \in Nat /\ s.range \in Nat \ {0} /\ 1 \in Nat \ {0}
    BY <1>1
  <2> QED
    BY <1>4, <2>1 DEF Line, LineKind
<1>6. more \in Seq(LineKind)
  <2>1. CASE s.range > 0
    <3>1. s.range - 1 \in Nat
      BY <1>1, <2>1
    <3> QED
      BY <1>5, <3>1
  <2>2. CASE ~(s.range > 0)
    <3>1. 1 .. s.range - 1 = 1 .. 0 /\ 0 \in Nat
      BY <1>1, <2>2
    <3>2. more = [i \in 1 .. 0 |-> Line(first, s.count + 1 + i, s.range, type, mesg)]
      BY <3>1
    <3>3. \A i \in 1 .. 0 : Line(first, s.count + 1 + i, s.range, type, mesg) \in LineKind
      OBVIOUS
    <3> HIDE DEF more
    <3> QED
      BY <3>1, <3>2, <3>3
  <2> QED
    BY <2>1, <2>2
<1> HIDE DEF more
<1>7. first.lines \o more \in Seq(LineKind)
  BY <1>4, <1>6
<1> DEFINE r == PrintEach(s, type, mesg)
<1>8. r = [first EXCEPT !.lines = first.lines \o more]
  BY DEF PrintEach, first, more
<1> HIDE DEF r
<1>9. KeptFrom(s, r)
  BY <1>3, <1>7, <1>8 DEF KeptFrom, Same, Kept
<1> QED
  BY <1>9 DEF r

\* tst_condense() prints and holds back.
LEMMA CondenseKept ==
  ASSUME NEW s \in Kept, NEW type \in Types, NEW mesg \in Messages
  PROVE  KeptFrom(s, tst_condense(s, s.count + 1, type, mesg))
<1> DEFINE bare == [s EXCEPT !.file = NoFile]
           p == tst_print(bare, s.last.num, (s.count + 1) - s.last.num, s.last.type, s.last.mesg)
           ready == Released(s, s.count + 1)
           r == tst_condense(s, s.count + 1, type, mesg)
           q == tst_print(ready, s.count + 1, s.range, type, mesg)
           last == [num |-> s.count + 1, type |-> type, mesg |-> mesg]
<1>1. s.count \in Nat /\ s.count + 1 \in Nat /\ s.range \in Int /\ s.file \in Files /\ NoFile \in Files
  BY KeptIs DEF Files
<1>2. r = s \/ r = [q EXCEPT !.buffered = FALSE] \/ r = [ready EXCEPT !.buffered = TRUE, !.last = last]
  BY DEF tst_condense
<1> HIDE DEF r
<1>3. KeptFrom(s, ready) /\ ready.range \in Int
  <2>1. CASE ~s.buffered
    BY <2>1, <1>1 DEF Released, KeptFrom
  <2>2. CASE s.buffered
    <3>1. ready = [p EXCEPT !.file = s.file]
      BY <2>2 DEF Released
    <3>2. /\ bare \in Kept /\ bare.count = s.count /\ bare.mode = s.mode /\ bare.opened = s.opened
          /\ bare.exitval = s.exitval /\ bare.lines = s.lines /\ (s.crashed => bare.crashed)
      BY <1>1 DEF Kept
    <3> HIDE DEF bare
    <3>3. s.last.num \in Nat /\ (s.count + 1) - s.last.num \in Int /\ s.last.type \in Types /\ s.last.mesg \in Messages
      BY KeptIs
    <3>4. Printed(bare, p, s.last.num, (s.count + 1) - s.last.num, s.last.type, s.last.mesg)
      BY <3>2, <3>3, PrintIs
    <3> HIDE DEF p, ready
    <3>5. KeptFrom(s, p)
      BY <3>2, <3>4 DEF Printed, Same, KeptFrom
    <3> QED
      BY <1>1, <3>1, <3>5 DEF KeptFrom, Kept
  <2> QED
    BY <2>1, <2>2
<1> HIDE DEF ready
<1>4. Printed(ready, q, s.count + 1, s.range, type, mesg)
  BY <1>1, <1>3, PrintIs DEF KeptFrom
<1> HIDE DEF q
<1>5. KeptFrom(s, q)
  BY <1>3, <1>4 DEF Printed, Same, KeptFrom
<1>6. CASE r = s
  BY <1>6 DEF KeptFrom, r
<1>7. CASE r = [q EXCEPT !.buffered = FALSE]
  <2>1. KeptFrom(s, r)
    BY <1>5, <1>7 DEF KeptFrom, Kept
  <2> QED
    BY <2>1 DEF r
<1>8. CASE r = [ready EXCEPT !.buffered = TRUE, !.last = last]
  <2>1. last \in [num : Nat, type : Types, mesg : Messages]
    BY <1>1
  <2> HIDE DEF last
  <2>2. KeptFrom(s, r)
    BY <1>3, <1>8, <2>1 DEF KeptFrom, Kept
  <2> QED
    BY <2>2 DEF r
<1> QED
  BY <1>2, <1>6, <1>7, <1>8

\* A result that is a case, or several.
LEMMA CaseSound ==
  ASSUME NEW s, NEW old \in Seq(CaseKind), Sound(s, old), env \in Modes, s.opened,
         NEW type \in Types, type \in s.exitval, NEW mesg \in Messages,
         NEW new, Alike(new, type, mesg, s.file), Len(new) = s.range
  PROVE  LET r == ReportCase(s, type, mesg)
         IN  Sound(r, old \o new) /\ (s.crashed => r.crashed) /\ r.opened
<1> DEFINE told == CASE s.mode = "DISCARD" -> s
                     [] s.mode \in {"NOPASS", "CONDENSE"} -> tst_condense(s, s.count + 1, type, mesg)
                     [] OTHER -> PrintEach(s, type, mesg)
           r == ReportCase(s, type, mesg)
           cases == old \o new
           k == Len(old)
           m == Len(new)
<1>1. /\ s \in Kept /\ s.mode \in Modes /\ s.count \in Nat
      /\ cases \in Seq(CaseKind) /\ Len(cases) = k + m /\ m \in Nat /\ m > 0 /\ k \in Nat
      /\ \A n \in 1 .. k : cases[n] = old[n]
      /\ \A n \in k + 1 .. k + m : cases[n].type = type
      /\ new \in Seq(CaseKind)
  <2>1. s \in Kept /\ s.mode \in Modes /\ s.count \in Nat
    BY KeptIs DEF Sound
  <2>2. /\ cases \in Seq(CaseKind) /\ Len(cases) = k + m /\ m \in Nat /\ m > 0 /\ k \in Nat
        /\ \A n \in 1 .. k : cases[n] = old[n]
        /\ \A n \in k + 1 .. k + m : cases[n].type = type
    BY NewCases
  <2>3. new \in Seq(CaseKind)
    BY DEF Alike
  <2> QED
    BY <2>1, <2>2, <2>3
<1>2. r = [told EXCEPT !.count = told.count + s.range]
  BY DEF ReportCase
<1>3. KeptFrom(s, told)
  <2>1. CASE s.mode = "DISCARD"
    BY <1>1, <2>1 DEF KeptFrom
  <2>2. CASE s.mode \in {"NOPASS", "CONDENSE"}
    BY <1>1, <2>2, CondenseKept
  <2>3. CASE s.mode = "VERBOSE"
    BY <1>1, <2>3, EachKept
  <2> QED
    BY <1>1, <2>1, <2>2, <2>3 DEF Modes
<1>4. ASSUME ~s.crashed PROVE Reports1(s, told, old, new)
  <2>1. Tidy(s, old)
    BY <1>4 DEF Sound
  <2>2. CASE s.mode = "DISCARD"
    <3>1. told = s /\ ~s.buffered /\ s.mode = env /\ k = s.count /\ Told(s.lines, old, k)
      BY <2>1, <2>2 DEF Tidy, HeldBack
    <3>2. \A n \in k + 1 .. k + m : ~Shown(cases[n].type)
      BY <2>2, <3>1 DEF Shown
    <3>3. Told(s.lines, cases, k)
      <4>1. k \in 0 .. Len(old)
        BY <1>1
      <4> QED
        BY <1>1, <3>1, <4>1, ToldMore
    <3>4. s.lines \in Seq(LineKind)
      BY <1>1, KeptIs
    <3> HIDE DEF cases, k, m
    <3>5. Told(s.lines, cases, k + m)
      BY <1>1, <3>2, <3>3, <3>4, ToldNothing
    <3>6. ~[s EXCEPT !.count = s.count + Len(new)].buffered
      BY <1>1, <3>1 DEF Kept
    <3> QED
      BY <1>1, <1>3, <3>1, <3>5, <3>6 DEF Reports1, HeldBack, cases, k, m, KeptFrom
  <2>3. CASE s.mode \in {"NOPASS", "CONDENSE"}
    <3>1. told = tst_condense(s, s.count + 1, type, mesg)
      BY <2>3
    <3> HIDE DEF told
    <3> QED
      BY <1>1, <2>1, <2>3, <3>1, CondenseTold
  <2>4. CASE s.mode = "VERBOSE"
    <3>1. told = PrintEach(s, type, mesg)
      BY <2>4
    <3> HIDE DEF told
    <3> QED
      BY <1>1, <2>1, <2>4, <3>1, EachTold
  <2> QED
    BY <1>1, <2>2, <2>3, <2>4 DEF Modes
<1> HIDE DEF told, r
<1>5. /\ told \in Kept /\ told.count = s.count /\ told.mode = s.mode /\ told.opened
      /\ s.exitval \subseteq told.exitval /\ (s.crashed => told.crashed)
  BY <1>3 DEF KeptFrom
<1>6. /\ r \in Kept /\ r.count = s.count + m /\ r.mode = s.mode /\ r.opened /\ r.exitval = told.exitval
      /\ r.crashed = told.crashed /\ r.buffered = told.buffered /\ r.last = told.last /\ r.lines = told.lines
  <2>1. s.count + s.range \in Nat
    BY <1>1
  <2> QED
    BY <1>2, <1>5, <2>1 DEF Kept
<1>7. ASSUME ~r.crashed PROVE Tidy(r, cases)
  <2>1. ~s.crashed /\ Tidy(s, old)
    BY <1>5, <1>6, <1>7 DEF Sound
  <2>2. s.count = k /\ s.mode = env /\ (\A n \in DOMAIN old : old[n].type \in s.exitval)
    BY <2>1 DEF Tidy
  <2>3. /\ HeldBack([told EXCEPT !.count = s.count + m], cases)
        /\ Told(told.lines, cases, IF told.buffered THEN told.last.num - 1 ELSE s.count + m)
    BY <1>4, <2>1 DEF Reports1
  <2>4. r = [told EXCEPT !.count = s.count + m]
    BY <1>2, <1>5
  <2>5. \A n \in DOMAIN cases : cases[n].type \in r.exitval
    <3>1. \A n \in DOMAIN cases : n \in 1 .. k \/ n \in k + 1 .. k + m
      BY <1>1
    <3>2. DOMAIN old = 1 .. k
      OBVIOUS
    <3> HIDE DEF cases, k, m
    <3> QED
      BY <1>1, <1>5, <1>6, <2>2, <3>1, <3>2
  <2> QED
    BY <1>1, <1>6, <2>2, <2>3, <2>4, <2>5 DEF Tidy
<1> QED
  BY <1>5, <1>6, <1>7 DEF Sound, r

\* The state is readied for a result: the mode is known from now on.
LEMMA ReadySound ==
  ASSUME NEW s, NEW cases, Sound(s, cases), env \in Modes, NEW type \in Types
  PROVE  LET r == Ready(s, type)
         IN  /\ Sound(r, cases) /\ (s.crashed => r.crashed) /\ r.opened /\ type \in r.exitval
             /\ r.range = s.range
<1> DEFINE r == Ready(s, type)
           expanded == [s EXCEPT !.expand = FALSE]
<1>1. s \in Kept
  BY DEF Sound
<1>2. /\ expanded \in Kept /\ expanded.exitval = s.exitval /\ expanded.opened = s.opened /\ expanded.mode = s.mode
      /\ expanded.count = s.count /\ expanded.buffered = s.buffered /\ expanded.last = s.last
      /\ expanded.lines = s.lines /\ expanded.crashed = s.crashed /\ expanded.range = s.range
  BY <1>1 DEF Kept
<1>3. r = [expanded EXCEPT !.exitval = expanded.exitval \cup {type}, !.opened = TRUE,
                           !.mode = IF s.opened THEN expanded.mode ELSE env]
  BY DEF Ready, EXPAND_VAR_ARGS
<1> HIDE DEF r, expanded
<1>4. /\ r \in Kept /\ r.exitval = s.exitval \cup {type} /\ r.opened
      /\ r.mode = IF s.opened THEN s.mode ELSE env
      /\ r.count = s.count /\ r.buffered = s.buffered /\ r.last = s.last
      /\ r.lines = s.lines /\ r.crashed = s.crashed /\ r.range = s.range
  BY <1>2, <1>3 DEF Kept
<1>5. ASSUME ~s.crashed PROVE Tidy(r, cases)
  <2>1. Tidy(s, cases)
    BY <1>5 DEF Sound
  <2>2. ~s.opened => ~s.buffered
    BY <2>1 DEF Tidy, HeldBack
  <2>3. HeldBack(r, cases)
    BY <1>4, <2>1, <2>2 DEF Tidy, HeldBack
  <2> QED
    BY <1>4, <2>1, <2>3 DEF Tidy
<1> QED
  BY <1>4, <1>5 DEF Sound, r

\* Fields that no result depends on may change.
LEMMA FieldSound ==
  ASSUME NEW s, NEW cases, Sound(s, cases), NEW t \in Kept, t.count = s.count, t.exitval = s.exitval,
         t.opened = s.opened, t.mode = s.mode, t.buffered = s.buffered, t.last = s.last, t.lines = s.lines,
         t.crashed = s.crashed
  PROVE  Sound(t, cases)
<1>1. ASSUME ~t.crashed PROVE Tidy(t, cases)
  <2>1. Tidy(s, cases)
    BY <1>1 DEF Sound
  <2>2. HeldBack(t, cases)
    BY <2>1 DEF Tidy, HeldBack
  <2> QED
    BY <2>1, <2>2 DEF Tidy
<1> QED
  BY <1>1 DEF Sound

\* A warning has a type and a message.
LEMMA WarnKinds == "TWARN" \in Types /\ <<"warning", 1>> \in Messages
<1>1. "TWARN" \in Types
  BY DEF Types
<1>2. "warning" \in Said
  BY DEF Said
<1>3. 1 \in Nat
  OBVIOUS
<1> QED
  BY <1>1, <1>2, <1>3 DEF Messages

\* A range below 1 is made 1.
LEMMA PositiveSound ==
  ASSUME NEW s, NEW cases, Sound(s, cases)
  PROVE  LET r == PositiveRange(s)
         IN  /\ Sound(r, cases) /\ (s.crashed => r.crashed) /\ r.opened = s.opened /\ s.exitval \subseteq r.exitval
             /\ r.range = IF s.range > 0 THEN s.range ELSE 1
             /\ r.expand = s.expand
<1>1. s \in Kept /\ s.range \in Int
  BY KeptIs DEF Sound
<1>2. CASE s.range <= 0
  <2> DEFINE one == [s EXCEPT !.range = 1]
  <2>1. /\ one \in Kept /\ one.range = 1 /\ one.opened = s.opened /\ one.crashed = s.crashed /\ one.expand = s.expand
        /\ one.count = s.count /\ one.exitval = s.exitval /\ one.mode = s.mode /\ one.buffered = s.buffered
        /\ one.last = s.last /\ one.lines = s.lines
    BY <1>1 DEF Kept
  <2>2. PositiveRange(s) = Warn(one)
    BY <1>2 DEF PositiveRange
  <2> HIDE DEF one
  <2>3. Sound(one, cases)
    BY <2>1, FieldSound
  <2>4. "TWARN" \in Types /\ <<"warning", 1>> \in Messages
    BY WarnKinds
  <2>5. /\ Sound(Warn(one), cases) /\ (one.crashed => Warn(one).crashed) /\ Same(one, Warn(one))
        /\ one.exitval \subseteq Warn(one).exitval
    BY <2>3, <2>4, AsideSound DEF Warn
  <2> QED
    BY <1>1, <1>2, <2>1, <2>2, <2>5 DEF Same
<1>3. CASE s.range > 0
  <2>1. PositiveRange(s) = s
    BY <1>1, <1>3 DEF PositiveRange
  <2> QED
    BY <1>1, <1>3, <2>1
<1> QED
  BY <1>1, <1>2, <1>3

\* Range and expansion are reset after a result.
LEMMA ResetSound ==
  ASSUME NEW s, NEW cases, Sound(s, cases), NEW t, t = [s EXCEPT !.range = 1, !.expand = TRUE]
  PROVE  Sound(t, cases) /\ t.opened = s.opened /\ t.crashed = s.crashed /\ t.range = 1 /\ t.expand = TRUE
<1>1. s \in Kept
  BY DEF Sound
<1>2. /\ t \in Kept /\ t.count = s.count /\ t.exitval = s.exitval /\ t.opened = s.opened
      /\ t.mode = s.mode /\ t.buffered = s.buffered /\ t.last = s.last /\ t.lines = s.lines
      /\ t.crashed = s.crashed /\ t.range = 1 /\ t.expand = TRUE
  <2> DEFINE one == [s EXCEPT !.range = 1]
  <2>1. one \in Kept
    BY <1>1 DEF Kept
  <2>2. t = [one EXCEPT !.expand = TRUE]
    BY <1>1 DEF Kept
  <2>3. [one EXCEPT !.expand = TRUE] \in Kept
    <3> HIDE DEF one
    <3> QED
      BY <2>1 DEF Kept
  <2>4. t \in Kept
    BY <2>2, <2>3
  <2> QED
    BY <1>1, <2>4 DEF Kept
<1> QED
  BY <1>2, FieldSound

\* The file of a result is remembered, or there is none.
LEMMA SetFileSound ==
  ASSUME NEW s, NEW cases, Sound(s, cases), NEW fname \in Files
  PROVE  LET r == SetFile(s, fname)
         IN  /\ Sound(r, cases) /\ r.crashed = s.crashed /\ r.opened = s.opened /\ s.exitval \subseteq r.exitval
             /\ r.range = s.range /\ (fname \notin {"missing", NoFile} => r.file = fname)
<1>1. s \in Kept
  BY DEF Sound
<1>2. CASE fname \in {"missing", NoFile}
  <2>1. SetFile(s, fname) = s
    BY <1>2 DEF SetFile
  <2> QED
    BY <1>2, <2>1
<1>3. CASE fname \notin {"missing", NoFile}
  <2> DEFINE t == [s EXCEPT !.file = fname]
  <2>1. SetFile(s, fname) = t
    BY <1>3 DEF SetFile
  <2>2. /\ t \in Kept /\ t.range = s.range /\ t.opened = s.opened /\ t.crashed = s.crashed /\ t.file = fname
        /\ t.count = s.count /\ t.exitval = s.exitval /\ t.mode = s.mode /\ t.buffered = s.buffered
        /\ t.last = s.last /\ t.lines = s.lines
    BY <1>1 DEF Kept
  <2> HIDE DEF t
  <2>3. Sound(t, cases)
    BY <2>2, FieldSound
  <2> QED
    BY <2>1, <2>2, <2>3
<1> QED
  BY <1>2, <1>3

\* Information and warnings leave the cases as they were.
LEMMA InformSound ==
  ASSUME NEW s, NEW cases, Sound(s, cases), NEW type \in Types, NEW mesg \in Messages
  PROVE  LET r == Inform(s, type, mesg)
         IN  Sound(r, cases) /\ (s.crashed => r.crashed) /\ r.opened = s.opened
<1> DEFINE w == IF s.range > 1 THEN Warn(s) ELSE s
           t == tst_print(w, 0, 1, type, mesg)
<1>1. "TWARN" \in Types /\ <<"warning", 1>> \in Messages
  BY WarnKinds
<1>2. Sound(Warn(s), cases) /\ (s.crashed => Warn(s).crashed) /\ Same(s, Warn(s))
  BY <1>1, AsideSound DEF Warn
<1>3. Sound(w, cases) /\ (s.crashed => w.crashed) /\ w.opened = s.opened
  BY <1>2 DEF Same
<1> HIDE DEF w
<1>4. Sound(t, cases) /\ (w.crashed => t.crashed) /\ Same(w, t)
  BY <1>3, AsideSound
<1>5. Inform(s, type, mesg) = t
  BY DEF Inform, w
<1> HIDE DEF t
<1> QED
  BY <1>3, <1>4, <1>5 DEF Same

\* The cases of one result, with the file for the first.
Like(k, type, mesg, file) ==
  [i \in 1 .. k |-> [type |-> type, mesg |-> mesg, file |-> IF i = 1 THEN file ELSE NoFile]]

\* The file that is printed, and the range of a break, as the functions correct them.
FileOf(fname) == IF fname = "missing" THEN NoFile ELSE fname
OwnOf(range) == IF range > 0 THEN range ELSE 1

\* They are cases, as many as asked for.
LEMMA LikeIs ==
  ASSUME NEW k \in Nat, NEW type \in Types, NEW mesg \in Messages, NEW file \in Files
  PROVE  /\ Like(k, type, mesg, file) \in Seq(CaseKind) /\ Len(Like(k, type, mesg, file)) = k
         /\ k > 0 => Alike(Like(k, type, mesg, file), type, mesg, file)
<1> DEFINE like == Like(k, type, mesg, file)
<1>1. \A i \in 1 .. k : [type |-> type, mesg |-> mesg, file |-> IF i = 1 THEN file ELSE NoFile] \in CaseKind
  BY DEF CaseKind, Files
<1>2. like \in Seq(CaseKind) /\ Len(like) = k /\ DOMAIN like = 1 .. k
  BY <1>1 DEF Like
<1>3. \A i \in 1 .. k : like[i] = [type |-> type, mesg |-> mesg, file |-> IF i = 1 THEN file ELSE NoFile]
  BY DEF Like
<1> HIDE DEF like
<1>4. k > 0 => Alike(like, type, mesg, file)
  <2>1. k > 0 => 1 \in 1 .. k
    OBVIOUS
  <2> QED
    BY <1>2, <1>3, <2>1 DEF Alike
<1> QED
  BY <1>2, <1>4 DEF like

\* tst_res() reports its cases.
LEMMA ResSound ==
  ASSUME NEW s, NEW old \in Seq(CaseKind), Sound(s, old), env \in Modes, NEW type \in Types, NEW fname \in Files,
         NEW arg \in Messages,
         NEW new, new = IF Informs(type) THEN <<>> ELSE Like(OwnOf(s.range), type, Text(s, arg), FileOf(fname))
  PROVE  LET t == tst_res(s, type, fname, arg)
         IN  /\ Sound(t, old \o new) /\ (s.crashed => t.crashed) /\ t.expand = TRUE /\ t.range = 1 /\ t.opened
             /\ s.range \in Int /\ new \in Seq(CaseKind)
<1> DEFINE mesg == Text(s, arg)
           ready == Ready(s, type)
           positive == PositiveRange(ready)
           r == SetFile(positive, fname)
           told == IF Informs(type) THEN Inform(r, type, mesg) ELSE ReportCase(r, type, mesg)
           t == tst_res(s, type, fname, arg)
<1>1. s \in Kept /\ s.range \in Int /\ s.expand \in BOOLEAN
  BY KeptIs DEF Sound
<1>2. mesg \in Messages
  <2>1. arg[1] \in Said /\ arg[2] \in Nat /\ arg[2] + 1 \in Nat
    BY DEF Messages
  <2> QED
    BY <2>1 DEF Text, Messages
<1>3. t = [told EXCEPT !.range = 1, !.expand = TRUE]
  BY DEF tst_res
<1> HIDE DEF t, mesg
<1>4. /\ Sound(ready, old) /\ (s.crashed => ready.crashed) /\ ready.opened /\ type \in ready.exitval
      /\ ready.range = s.range
  BY ReadySound
<1> HIDE DEF ready
<1>5. /\ Sound(positive, old) /\ (s.crashed => positive.crashed) /\ positive.opened /\ type \in positive.exitval
      /\ positive.range = OwnOf(s.range)
  BY <1>4, PositiveSound DEF OwnOf
<1> HIDE DEF positive
<1>6. /\ Sound(r, old) /\ (s.crashed => r.crashed) /\ r.opened /\ type \in r.exitval
      /\ r.range = OwnOf(s.range) /\ (fname \notin {"missing", NoFile} => r.file = fname)
  BY <1>5, SetFileSound
<1> HIDE DEF r
<1>7. Sound(told, old \o new) /\ (s.crashed => told.crashed) /\ told.opened /\ new \in Seq(CaseKind)
  <2>1. CASE Informs(type)
    <3>1. new = <<>> /\ new \in Seq(CaseKind) /\ old \o new = old
      BY <2>1, ConcatEmptySeq
    <3>2. told = Inform(r, type, mesg)
      BY <2>1
    <3> HIDE DEF told
    <3> QED
      BY <1>2, <1>6, <3>1, <3>2, InformSound
  <2>2. CASE ~Informs(type)
    <3> DEFINE k == OwnOf(s.range)
    <3>1. k \in Nat /\ k > 0 /\ FileOf(fname) \in Files /\ (FileOf(fname) # NoFile => r.file = FileOf(fname))
      BY <1>1, <1>6 DEF OwnOf, FileOf, Files
    <3>2. new = Like(k, type, mesg, FileOf(fname))
      BY <2>2 DEF mesg
    <3> HIDE DEF k
    <3>3. new \in Seq(CaseKind) /\ Len(new) = k /\ Alike(new, type, mesg, FileOf(fname))
      BY <1>2, <3>1, <3>2, LikeIs
    <3>4. Alike(new, type, mesg, r.file)
      BY <3>1, <3>3 DEF Alike
    <3>5. Len(new) = r.range
      BY <1>6, <3>3 DEF k
    <3>6. told = ReportCase(r, type, mesg)
      BY <2>2
    <3> HIDE DEF told
    <3> QED
      BY <1>2, <1>6, <3>3, <3>4, <3>5, <3>6, CaseSound
  <2> QED
    BY <2>1, <2>2
<1> HIDE DEF told
<1>8. /\ Sound(t, old \o new) /\ t.opened = told.opened /\ t.crashed = told.crashed
      /\ t.range = 1 /\ t.expand = TRUE
  BY <1>3, <1>7, ResetSound
<1> QED
  BY <1>1, <1>7, <1>8 DEF t

\* What is sound for some cases is so for the same ones, and for any after a crash.
LEMMA SoundIf ==
  ASSUME NEW s, NEW c1, NEW c2, Sound(s, c1), ~s.crashed => c1 = c2
  PROVE  Sound(s, c2)
BY DEF Sound

\* No cases.
LEMMA LikeNone ==
  ASSUME NEW k \in Int, k <= 0, NEW type, NEW mesg, NEW file
  PROVE  Like(k, type, mesg, file) = <<>>
<1>1. 1 .. k = {} /\ 1 .. 0 = {}
  OBVIOUS
<1>2. Like(k, type, mesg, file) = [i \in {} |-> [type |-> type, mesg |-> mesg, file |-> IF i = 1 THEN file ELSE NoFile]]
  BY <1>1 DEF Like
<1> QED
  BY <1>1, <1>2

\* A message whose conversions were expanded stays as it is.
LEMMA TextIs ==
  ASSUME NEW s \in Kept, NEW m \in Messages
  PROVE  /\ Text(s, m) \in Messages
         /\ s.expand = FALSE => Text(s, m) = m
         /\ s.expand = TRUE => Text(s, m) = <<m[1], m[2] + 1>>
<1>1. m = <<m[1], m[2]>> /\ m[1] \in Said /\ m[2] \in Nat /\ m[2] + 1 \in Nat
  BY DEF Messages
<1> QED
  BY <1>1 DEF Text, Messages

\* A break is never information.
LEMMA BreakKinds ==
  ASSUME NEW type \in Types
  PROVE  /\ TypeOfBreak(type) \in Types /\ ~Informs(TypeOfBreak(type))
         /\ TypeOfRest(type) \in Types /\ ~Informs(TypeOfRest(TypeOfBreak(type)))
         /\ TypeOfRest(TypeOfBreak(type)) \in Types
BY DEF TypeOfBreak, TypeOfRest, Breaks, Types, Informs

\* What a break says of the cases up to the last one.
BreakCases(old, end, range, type, mesg, file) ==
  IF end - Len(old) <= 0 THEN <<>>
  ELSE Like(OwnOf(range), TypeOfBreak(type), mesg, file)
         \o Like((end - Len(old)) - OwnOf(range), TypeOfRest(TypeOfBreak(type)), <<"remaining", 1>>, NoFile)

\* tst_brk() tells of the cases of the break, then of the remaining ones.
LEMMA BreakSound ==
  ASSUME NEW s, NEW old \in Seq(CaseKind), Sound(s, old), env \in Modes, NEW end \in Int, NEW type \in Types,
         NEW fname \in Files, NEW arg \in Messages
  PROVE  LET t == BreakUpTo(s, end, type, fname, arg)
             new == BreakCases(old, end, s.range, type, Text(s, arg), FileOf(fname))
         IN  Sound(t, old \o new) /\ (s.crashed => t.crashed) /\ t.expand = TRUE /\ new \in Seq(CaseKind)
<1> DEFINE mesg == Text(s, arg)
           e == EXPAND_VAR_ARGS(s)
           valid == IF type \in Breaks THEN e ELSE Warn(e)
           one == TypeOfBreak(type)
           two == TypeOfRest(TypeOfBreak(type))
           first == IF valid.count < end THEN tst_res(valid, one, fname, mesg) ELSE valid
           rest == [first EXCEPT !.range = end - first.count]
           t == BreakUpTo(s, end, type, fname, arg)
           own == Like(OwnOf(s.range), one, mesg, FileOf(fname))
           left == end - Len(old)
           others == Like(left - OwnOf(s.range), two, <<"remaining", 1>>, NoFile)
           new == BreakCases(old, end, s.range, type, mesg, FileOf(fname))
<1>1. s \in Kept /\ s.range \in Int /\ Len(old) \in Nat /\ left \in Int /\ s.count \in Nat /\ mesg \in Messages
  <2>1. s \in Kept
    BY DEF Sound
  <2>2. s.range \in Int /\ s.count \in Nat
    BY <2>1, KeptIs
  <2>3. mesg \in Messages
    BY <2>1, TextIs
  <2>4. Len(old) \in Nat /\ left \in Int
    OBVIOUS
  <2> QED
    BY <2>1, <2>2, <2>3, <2>4
<1>2. one \in Types /\ two \in Types /\ ~Informs(one) /\ ~Informs(two)
  BY BreakKinds
<1>3. OwnOf(s.range) \in Nat /\ OwnOf(s.range) > 0 /\ FileOf(fname) \in Files /\ NoFile \in Files
  BY <1>1 DEF OwnOf, FileOf, Files
<1>4. <<"remaining", 1>> \in Messages /\ <<"remaining", 0>> \in Messages
  <2>1. "remaining" \in Said /\ 0 \in Nat /\ 1 \in Nat
    BY DEF Said
  <2> QED
    BY <2>1 DEF Messages
<1>5. new = IF left <= 0 THEN <<>> ELSE own \o others
  BY DEF BreakCases
<1>6. t = IF rest.range > 0 THEN tst_res(rest, two, NoFile, <<"remaining", 0>>)
          ELSE [rest EXCEPT !.range = 1, !.expand = TRUE]
  BY DEF BreakUpTo
<1> HIDE DEF t, new, mesg, one, two
<1>7. own \in Seq(CaseKind) /\ Len(own) = OwnOf(s.range)
  BY <1>1, <1>2, <1>3, LikeIs
<1>8. others \in Seq(CaseKind) /\ (left - OwnOf(s.range) <= 0 => others = <<>>)
  <2>1. left - OwnOf(s.range) \in Int
    BY <1>1, <1>3
  <2>2. CASE left - OwnOf(s.range) <= 0
    <3>1. others = <<>>
      BY <2>1, <2>2, LikeNone
    <3>2. <<>> \in Seq(CaseKind)
      OBVIOUS
    <3> HIDE DEF others
    <3> QED
      BY <3>1, <3>2
  <2>3. CASE ~(left - OwnOf(s.range) <= 0)
    <3>1. left - OwnOf(s.range) \in Nat
      BY <2>1, <2>3
    <3>2. others \in Seq(CaseKind)
      BY <1>2, <1>3, <1>4, <3>1, LikeIs
    <3> QED
      BY <2>3, <3>2
  <2> QED
    BY <2>2, <2>3
<1>9. new \in Seq(CaseKind)
  BY <1>5, <1>7, <1>8
<1>10. Sound(e, old) /\ e.crashed = s.crashed /\ e.expand = FALSE /\ e.range = s.range /\ e.count = s.count
  <2>1. /\ e \in Kept /\ e.count = s.count /\ e.exitval = s.exitval /\ e.opened = s.opened
        /\ e.mode = s.mode /\ e.buffered = s.buffered /\ e.last = s.last /\ e.lines = s.lines
        /\ e.crashed = s.crashed /\ e.range = s.range /\ e.expand = FALSE
    BY <1>1 DEF Kept, EXPAND_VAR_ARGS
  <2> HIDE DEF e
  <2> QED
    BY <2>1, FieldSound
<1> HIDE DEF e
<1>11. /\ Sound(valid, old) /\ (s.crashed => valid.crashed) /\ valid.expand = FALSE /\ valid.range = s.range
       /\ valid.count = s.count
  <2>1. Sound(Warn(e), old) /\ (e.crashed => Warn(e).crashed) /\ Same(e, Warn(e))
    BY <1>10, WarnKinds, AsideSound DEF Warn
  <2> QED
    BY <1>10, <2>1 DEF Same
<1> HIDE DEF valid, own, others
<1>12. valid.count < end \/ ~(valid.count < end)
  OBVIOUS
<1>13. CASE valid.count < end
  <2>1. Text(valid, mesg) = mesg /\ valid \in Kept
    BY <1>1, <1>11, TextIs DEF Sound
  <2>2. own = IF Informs(one) THEN <<>> ELSE Like(OwnOf(valid.range), one, Text(valid, mesg), FileOf(fname))
    BY <1>2, <1>11, <2>1 DEF own
  <2>3. first = tst_res(valid, one, fname, mesg)
    BY <1>13
  <2>4. Sound(first, old \o own) /\ (valid.crashed => first.crashed) /\ first.expand = TRUE
    <3>1. /\ Sound(tst_res(valid, one, fname, mesg), old \o own)
          /\ (valid.crashed => tst_res(valid, one, fname, mesg).crashed)
          /\ tst_res(valid, one, fname, mesg).expand = TRUE
      BY <1>1, <1>2, <1>11, <2>2, ResSound
    <3> QED
      BY <2>3, <3>1
  <2> HIDE DEF first
  <2>5. first \in Kept /\ first.count \in Nat /\ end - first.count \in Int
    BY <2>4, KeptIs DEF Sound
  <2>6. ~first.crashed => first.count = Len(old) + OwnOf(s.range) /\ left > 0
    <3> SUFFICES ASSUME ~first.crashed PROVE first.count = Len(old) + OwnOf(s.range) /\ left > 0
      OBVIOUS
    <3>1. first.count = Len(old \o own) /\ valid.count = Len(old)
      BY <1>11, <2>4 DEF Sound, Tidy
    <3>2. Len(old \o own) = Len(old) + OwnOf(s.range)
      BY <1>7
    <3> QED
      BY <1>1, <1>13, <3>1, <3>2
  <2>7. /\ Sound(rest, old \o own) /\ rest.crashed = first.crashed /\ rest.expand = TRUE
        /\ rest.range = end - first.count /\ rest \in Kept
    <3>1. /\ rest \in Kept /\ rest.count = first.count /\ rest.exitval = first.exitval /\ rest.opened = first.opened
          /\ rest.mode = first.mode /\ rest.buffered = first.buffered /\ rest.last = first.last
          /\ rest.lines = first.lines /\ rest.crashed = first.crashed /\ rest.range = end - first.count
          /\ rest.expand = TRUE
      BY <2>4, <2>5 DEF Kept
    <3> HIDE DEF rest
    <3> QED
      BY <2>4, <3>1, FieldSound
  <2> HIDE DEF rest
  <2>8. old \o own \in Seq(CaseKind)
    BY <1>7
  <2>9. CASE rest.range > 0
    <3> DEFINE new2 == Like(OwnOf(rest.range), two, Text(rest, <<"remaining", 0>>), FileOf(NoFile))
    <3>1. new2 = IF Informs(two) THEN <<>> ELSE Like(OwnOf(rest.range), two, Text(rest, <<"remaining", 0>>), FileOf(NoFile))
      BY <1>2
    <3>2. t = tst_res(rest, two, NoFile, <<"remaining", 0>>)
      BY <1>6, <2>9
    <3>3. Text(rest, <<"remaining", 0>>) = <<"remaining", 1>> /\ FileOf(NoFile) = NoFile /\ OwnOf(rest.range) = rest.range
      <4>1. Text(rest, <<"remaining", 0>>) = <<"remaining", 0 + 1>>
        BY <1>4, <2>7, TextIs
      <4>2. FileOf(NoFile) = NoFile /\ OwnOf(rest.range) = rest.range
        BY <2>9 DEF FileOf, OwnOf
      <4> QED
        BY <4>1, <4>2
    <3>4. ~first.crashed => new2 = others
      <4>1. ~first.crashed => end - first.count = left - OwnOf(s.range)
        BY <1>1, <1>3, <2>6
      <4> QED
        BY <2>7, <3>3, <4>1 DEF others
    <3> HIDE DEF new2
    <3>5. Sound(t, (old \o own) \o new2) /\ (rest.crashed => t.crashed) /\ t.expand = TRUE /\ new2 \in Seq(CaseKind)
      <4>1. /\ Sound(tst_res(rest, two, NoFile, <<"remaining", 0>>), (old \o own) \o new2)
            /\ (rest.crashed => tst_res(rest, two, NoFile, <<"remaining", 0>>).crashed)
            /\ tst_res(rest, two, NoFile, <<"remaining", 0>>).expand = TRUE /\ new2 \in Seq(CaseKind)
        BY <1>2, <1>3, <1>4, <2>7, <2>8, <3>1, ResSound
      <4> QED
        BY <3>2, <4>1
    <3>6. ~t.crashed => (old \o own) \o new2 = old \o new
      <4>1. (old \o own) \o others = old \o (own \o others)
        BY <1>7, <1>8, OneByOne
      <4>2. ~t.crashed => ~first.crashed /\ left > 0
        BY <2>6, <2>7, <3>5
      <4>3. left > 0 => new = own \o others
        BY <1>1, <1>5
      <4> QED
        BY <3>4, <4>1, <4>2, <4>3
    <3>7. Sound(t, old \o new)
      BY <3>5, <3>6, SoundIf
    <3> QED
      BY <1>9, <1>11, <2>4, <2>7, <3>5, <3>7 DEF t, new, mesg
  <2>10. CASE ~(rest.range > 0)
    <3>1. t = [rest EXCEPT !.range = 1, !.expand = TRUE]
      BY <1>6, <2>10
    <3>2. Sound(t, old \o own) /\ t.crashed = rest.crashed /\ t.expand = TRUE
      BY <2>7, <3>1, ResetSound
    <3>3. ~t.crashed => old \o own = old \o new
      <4> SUFFICES ASSUME ~t.crashed PROVE old \o own = old \o new
        OBVIOUS
      <4>1. left > 0 /\ left - OwnOf(s.range) <= 0
        BY <1>1, <1>3, <2>6, <2>7, <2>10, <3>2
      <4>2. others = <<>> /\ own \o <<>> = own
        BY <1>7, <1>8, <4>1, ConcatEmptySeq
      <4>3. ~(left <= 0)
        BY <1>1, <4>1
      <4> QED
        BY <1>5, <4>2, <4>3
    <3>4. Sound(t, old \o new)
      BY <3>2, <3>3, SoundIf
    <3> QED
      BY <1>9, <1>11, <2>4, <2>7, <3>2, <3>4 DEF t, new, mesg
  <2> QED
    BY <2>9, <2>10
<1>14. CASE ~(valid.count < end)
  <2>1. first = valid
    BY <1>14
  <2> HIDE DEF first
  <2>2. valid \in Kept /\ valid.count \in Nat /\ end - valid.count \in Int
    BY <1>11, KeptIs DEF Sound
  <2>3. /\ Sound(rest, old) /\ rest.crashed = valid.crashed /\ rest.range = end - valid.count
    <3>1. /\ rest \in Kept /\ rest.count = valid.count /\ rest.exitval = valid.exitval /\ rest.opened = valid.opened
          /\ rest.mode = valid.mode /\ rest.buffered = valid.buffered /\ rest.last = valid.last
          /\ rest.lines = valid.lines /\ rest.crashed = valid.crashed /\ rest.range = end - valid.count
      BY <2>1, <2>2 DEF Kept
    <3> HIDE DEF rest
    <3> QED
      BY <1>11, <3>1, FieldSound
  <2> HIDE DEF rest
  <2>4. t = [rest EXCEPT !.range = 1, !.expand = TRUE]
    BY <1>6, <1>14, <2>2, <2>3
  <2>5. Sound(t, old) /\ t.crashed = rest.crashed /\ t.expand = TRUE
    BY <2>3, <2>4, ResetSound
  <2>6. ~t.crashed => old = old \o new
    <3> SUFFICES ASSUME ~t.crashed PROVE old = old \o new
      OBVIOUS
    <3>1. valid.count = Len(old)
      BY <1>11, <2>3, <2>5 DEF Sound, Tidy
    <3>2. left <= 0
      BY <1>1, <1>14, <3>1
    <3>3. new = <<>> /\ old \o <<>> = old
      BY <1>5, <3>2, ConcatEmptySeq
    <3> QED
      BY <3>3
  <2>7. Sound(t, old \o new)
    BY <2>5, <2>6, SoundIf
  <2> QED
    BY <1>9, <1>11, <2>3, <2>5, <2>7 DEF t, new, mesg
<1> QED
  BY <1>13, <1>14

\* What a call reports, whichever it is, is what it is to say.
LEMMA CallSound ==
  ASSUME Sound(tst, given), tst.expand = TRUE, given \in Seq(CaseKind), env \in Modes, NEW r \in Reports
  PROVE  LET s == Call(tst, r)
         IN  Sound(s, given \o Cases(r)) /\ s.expand = TRUE /\ Cases(r) \in Seq(CaseKind)
<1> DEFINE m == IF r.wrapped THEN Text(tst, <<r.mesg, 0>>) ELSE <<r.mesg, 0>>
           x == IF r.wrapped THEN EXPAND_VAR_ARGS(tst) ELSE tst
           w == [x EXCEPT !.range = r.range]
           fname == IF r.wrapped THEN NoFile ELSE r.file
           s == Call(tst, r)
           new == Cases(r)
           mesg == <<r.mesg, 1>>
           file == IF r.wrapped \/ r.file = "missing" THEN NoFile ELSE r.file
           type == IF r.call = "res" THEN r.type ELSE TypeOfBreak(r.type)
           end == IF r.call = "brk" THEN Total ELSE r.start + r.total
           left == end - Len(given)
           own == Like(OwnOf(r.range), type, mesg, file)
           rest == Like(IF r.call = "res" THEN 0 ELSE left - OwnOf(r.range), TypeOfRest(type), <<"remaining", 1>>, NoFile)
<1>1. /\ r.call \in Calls /\ r.type \in Types /\ r.file \in Files /\ r.wrapped \in BOOLEAN /\ r.range \in Int
      /\ r.start \in Int /\ r.total \in Int /\ Total \in Int /\ r.mesg \in Said
  <2>1. r \in [call : Calls, type : Types, file : Files, mesg : {q.mesg : q \in Reports}, wrapped : BOOLEAN,
              range : Int, start : Int, total : Int, func : BOOLEAN]
    BY ResultsAssumption
  <2>2. r.mesg \in {q.mesg : q \in Reports} /\ Total \in Int
    BY ResultsAssumption
  <2> QED
    BY <2>1, <2>2 DEF Said
<1>2. /\ s = CASE r.call = "res" -> tst_res(w, r.type, fname, m)
               [] r.call = "brk" -> tst_brk(w, r.type, fname, m)
               [] r.call = "loop" -> tst_brkloop(w, r.start, r.total, r.type, fname, m)
  BY DEF Call
<1>3. new = IF (IF r.call = "res" THEN Informs(r.type)
                ELSE left <= 0 \/ (r.call = "loop" /\ (r.start < 0 \/ r.total < 0)))
            THEN <<>> ELSE own \o rest
  BY DEF Cases, Like, Case, Own, OwnOf
<1> HIDE DEF s, new
<1>4. tst \in Kept /\ <<r.mesg, 0>> \in Messages /\ mesg \in Messages
  <2>1. 0 \in Nat /\ 1 \in Nat
    OBVIOUS
  <2> QED
    BY <1>1, <2>1 DEF Sound, Messages
<1>5. m \in Messages /\ (r.wrapped => m = mesg) /\ (~r.wrapped => m = <<r.mesg, 0>>)
  <2>1. Text(tst, <<r.mesg, 0>>) = <<r.mesg, 0 + 1>>
    BY <1>4, TextIs
  <2> QED
    BY <1>4, <2>1
<1>6. Sound(w, given) /\ w.range = r.range /\ (r.wrapped => w.expand = FALSE) /\ (~r.wrapped => w.expand = TRUE)
  <2>1. /\ x \in Kept /\ x.count = tst.count /\ x.exitval = tst.exitval /\ x.opened = tst.opened
        /\ x.mode = tst.mode /\ x.buffered = tst.buffered /\ x.last = tst.last /\ x.lines = tst.lines
        /\ x.crashed = tst.crashed
        /\ (r.wrapped => x.expand = FALSE) /\ (~r.wrapped => x.expand = TRUE)
    <3>1. CASE r.wrapped
      <4>1. x = [tst EXCEPT !.expand = FALSE]
        BY <3>1 DEF EXPAND_VAR_ARGS
      <4> HIDE DEF x
      <4> QED
        BY <1>4, <3>1, <4>1 DEF Kept
    <3>2. CASE ~r.wrapped
      <4>1. x = tst
        BY <3>2
      <4> HIDE DEF x
      <4> QED
        BY <1>4, <3>2, <4>1
    <3> QED
      BY <3>1, <3>2
  <2> HIDE DEF x
  <2>2. /\ w \in Kept /\ w.count = x.count /\ w.exitval = x.exitval /\ w.opened = x.opened
        /\ w.mode = x.mode /\ w.buffered = x.buffered /\ w.last = x.last /\ w.lines = x.lines
        /\ w.crashed = x.crashed /\ w.range = r.range /\ w.expand = x.expand
    BY <1>1, <2>1 DEF Kept
  <2> HIDE DEF w
  <2>3. Sound(w, given)
    BY <2>1, <2>2, FieldSound
  <2> QED
    BY <2>1, <2>2, <2>3
<1>7. Text(w, m) = mesg
  <2>1. w \in Kept
    BY <1>6 DEF Sound
  <2>2. CASE r.wrapped
    BY <1>5, <1>6, <2>1, <2>2, TextIs
  <2>3. CASE ~r.wrapped
    <3>1. Text(w, m) = <<m[1], m[2] + 1>> /\ m = <<r.mesg, 0>>
      BY <1>5, <1>6, <2>1, <2>3, TextIs
    <3> HIDE DEF m
    <3>2. m[1] = r.mesg /\ m[2] + 1 = 1
      BY <3>1
    <3> QED
      BY <3>1, <3>2
  <2> QED
    BY <2>2, <2>3
<1>8. fname \in Files /\ FileOf(fname) = file
  BY <1>1 DEF FileOf, Files, NoFile
<1> HIDE DEF m, w, fname, mesg, file
<1>9. Len(given) \in Nat /\ left \in Int
  BY <1>1
<1>10. given \o <<>> = given /\ <<>> \in Seq(CaseKind)
  BY ConcatEmptySeq
<1>11. CASE r.call = "res"
  <2> DEFINE told == IF Informs(r.type) THEN <<>> ELSE Like(OwnOf(w.range), r.type, Text(w, m), FileOf(fname))
  <2>1. s = tst_res(w, r.type, fname, m)
    BY <1>2, <1>11
  <2>2. Sound(s, given \o told) /\ s.expand = TRUE /\ told \in Seq(CaseKind)
    BY <1>1, <1>5, <1>6, <1>8, <2>1, ResSound
  <2>3. new = told
    <3>1. CASE Informs(r.type)
      BY <1>3, <1>11, <3>1
    <3>2. CASE ~Informs(r.type)
      <4>1. rest = <<>>
        <5>1. 0 \in Int /\ 0 <= 0
          OBVIOUS
        <5>2. Like(0, TypeOfRest(type), <<"remaining", 1>>, NoFile) = <<>>
          BY <5>1, LikeNone
        <5> QED
          BY <1>11, <5>2
      <4>2. own = told
        BY <1>6, <1>7, <1>8, <1>11, <3>2
      <4> HIDE DEF own, rest, told
      <4>3. own \o rest = own
        BY <2>2, <4>1, <4>2, ConcatEmptySeq
      <4> QED
        BY <1>3, <1>11, <3>2, <4>2, <4>3
    <3> QED
      BY <3>1, <3>2
  <2> HIDE DEF told
  <2> QED
    BY <2>2, <2>3 DEF s, new
<1>12. CASE r.call \in {"brk", "loop"} /\ ~(r.call = "loop" /\ (r.start < 0 \/ r.total < 0))
  <2> DEFINE told == BreakCases(given, end, w.range, r.type, Text(w, m), FileOf(fname))
  <2>1. s = BreakUpTo(w, end, r.type, fname, m)
    <3>1. CASE r.call = "brk"
      BY <1>2, <3>1 DEF tst_brk
    <3>2. CASE r.call = "loop"
      BY <1>2, <1>12, <3>2 DEF tst_brkloop
    <3> QED
      BY <1>12, <3>1, <3>2
  <2>2. end \in Int
    BY <1>1
  <2>3. new = told
    BY <1>3, <1>6, <1>7, <1>8, <1>12 DEF BreakCases
  <2> HIDE DEF told, end
  <2>4. Sound(s, given \o told) /\ s.expand = TRUE /\ told \in Seq(CaseKind)
    BY <1>1, <1>5, <1>6, <1>8, <2>1, <2>2, BreakSound DEF told
  <2> QED
    BY <2>3, <2>4 DEF s, new
<1>13. CASE r.call = "loop" /\ (r.start < 0 \/ r.total < 0)
  <2> DEFINE e == EXPAND_VAR_ARGS(w)
             v == Warn(e)
  <2>1. s = [v EXCEPT !.expand = TRUE]
    BY <1>2, <1>13 DEF tst_brkloop
  <2>2. new = <<>>
    BY <1>3, <1>13
  <2>3. Sound(e, given)
    <3>1. w \in Kept
      BY <1>6 DEF Sound
    <3>2. /\ e \in Kept /\ e.count = w.count /\ e.exitval = w.exitval /\ e.opened = w.opened
          /\ e.mode = w.mode /\ e.buffered = w.buffered /\ e.last = w.last /\ e.lines = w.lines
          /\ e.crashed = w.crashed
      BY <3>1 DEF Kept, EXPAND_VAR_ARGS
    <3> HIDE DEF e
    <3> QED
      BY <1>6, <3>2, FieldSound
  <2> HIDE DEF e
  <2>4. Sound(v, given)
    BY <2>3, WarnKinds, AsideSound DEF Warn
  <2> HIDE DEF v
  <2>5. /\ s \in Kept /\ s.count = v.count /\ s.exitval = v.exitval /\ s.opened = v.opened
        /\ s.mode = v.mode /\ s.buffered = v.buffered /\ s.last = v.last /\ s.lines = v.lines
        /\ s.crashed = v.crashed /\ s.expand = TRUE
    BY <2>1, <2>4 DEF Sound, Kept
  <2>6. Sound(s, given)
    BY <2>4, <2>5, FieldSound
  <2> QED
    BY <1>10, <2>2, <2>5, <2>6 DEF s, new
<1> QED
  BY <1>1, <1>11, <1>12, <1>13 DEF Calls

\* Before the first call.
LEMMA ResultsInvInit == ResultsInit => ResultsInv
<1> SUFFICES ASSUME ResultsInit PROVE ResultsInv
  OBVIOUS
<1>1. /\ tst.count = 0 /\ tst.mode = "VERBOSE" /\ tst.opened = FALSE /\ tst.buffered = FALSE /\ tst.lines = <<>>
      /\ tst.expand = TRUE /\ given = <<>> /\ env \in Modes /\ reports = 0 /\ tst.crashed = FALSE
  BY DEF ResultsInit
<1>2. tst \in Kept
  <2>1. <<"none", 0>> \in Messages
    <3>1. "none" \in Said /\ 0 \in Nat
      BY DEF Said
    <3> QED
      BY <3>1 DEF Messages
  <2>2. [num |-> 0, type |-> "TPASS", mesg |-> <<"none", 0>>] \in [num : Nat, type : Types, mesg : Messages]
    BY <2>1 DEF Types
  <2>3. <<>> \in Seq(LineKind) /\ "VERBOSE" \in Modes /\ NoFile \in Files /\ {} \in SUBSET Types
    BY DEF Modes, Files
  <2> QED
    BY <2>2, <2>3 DEF ResultsInit, Kept
<1>3. ~Ended
  BY <1>1, ResultsAssumption DEF Ended
<1>4. Tidy(tst, given)
  <2>1. given \in Seq(CaseKind) /\ Len(given) = 0 /\ DOMAIN given = {} /\ DOMAIN tst.lines = {} /\ 1 .. 0 = {}
    BY <1>1
  <2> QED
    BY <1>1, <2>1 DEF Tidy, HeldBack, Told
<1> QED
  BY <1>1, <1>2, <1>3, <1>4 DEF ResultsInv

\* Every call of a test keeps the invariant of the results.
LEMMA ResultsInvStep == ResultsInv /\ [ResultsNext]_resultVars => ResultsInv'
<1> SUFFICES ASSUME ResultsInv, [ResultsNext]_resultVars PROVE ResultsInv'
  OBVIOUS
<1>1. /\ env \in Modes /\ reports \in Nat /\ tst \in Kept /\ given \in Seq(CaseKind) /\ MaxReports \in Nat
  BY ResultsAssumption DEF ResultsInv
<1>2. env' = env
  BY DEF ResultsNext, Report, tst_exit, resultVars
<1> DEFINE End(s, cases) == /\ s.count = Len(cases) /\ \A n \in DOMAIN cases : cases[n].type \in s.exitval
                            /\ Told(s.lines, cases, Len(cases))
<1>3. SUFFICES /\ reports' \in Nat /\ tst' \in Kept /\ given' \in Seq(CaseKind)
               /\ ~tst'.crashed /\ ~Ended' => Tidy(tst', given') /\ tst'.expand
               /\ Ended' => End(tst', given')
  BY <1>1, <1>2 DEF ResultsInv, Tidy, HeldBack, Told, OneLine, Shown
<1>4. ASSUME NEW s \in Kept, NEW cases \in Seq(CaseKind), Tidy(s, cases)
      PROVE  tst_flush(s) \in Kept /\ End(tst_flush(s), cases)
  BY <1>1, <1>4, FlushTold DEF Tidy
<1> HIDE DEF End
<1>5. CASE UNCHANGED resultVars
  BY <1>1, <1>5 DEF resultVars, ResultsInv, Ended, End
<1>6. CASE tst_exit
  <2>1. /\ ~Ended /\ ~tst.crashed /\ tst' = tst_flush(tst) /\ reports' = MaxReports + 1 /\ given' = given
    BY <1>6 DEF tst_exit
  <2>2. Tidy(tst, given)
    BY <2>1 DEF ResultsInv
  <2>3. Ended' /\ reports' \in Nat
    BY <1>1, <2>1 DEF Ended
  <2> QED
    BY <1>1, <1>4, <2>1, <2>2, <2>3
<1>7. CASE Report
  <2>1. reports < MaxReports /\ ~tst.crashed
    BY <1>7 DEF Report
  <2>2. PICK r \in Reports :
          LET s == Call(tst, r)
              exits == r.call = "brk" /\ r.func /\ ~s.crashed
          IN  /\ tst' = IF exits THEN tst_flush(s) ELSE s
              /\ reports' = IF exits THEN MaxReports + 1 ELSE reports + 1
              /\ given' = given \o Cases(r)
    BY <1>7 DEF Report
  <2> DEFINE s == Call(tst, r)
             exits == r.call = "brk" /\ r.func /\ ~s.crashed
  <2>3. ~Ended
    BY <1>1, <2>1 DEF Ended
  <2>4. Sound(tst, given) /\ tst.expand = TRUE
    <3>1. Tidy(tst, given) /\ tst.expand /\ tst.expand \in BOOLEAN
      BY <1>1, <2>1, <2>3, KeptIs DEF ResultsInv
    <3> QED
      BY <1>1, <3>1 DEF Sound
  <2>5. Sound(s, given \o Cases(r)) /\ s.expand = TRUE /\ Cases(r) \in Seq(CaseKind)
    BY <1>1, <2>4, CallSound
  <2>6. given' \in Seq(CaseKind) /\ Sound(s, given')
    BY <1>1, <2>2, <2>5
  <2>7. CASE exits
    <3>1. tst' = tst_flush(s) /\ reports' = MaxReports + 1 /\ ~s.crashed
      BY <2>2, <2>7
    <3> HIDE DEF s
    <3>2. s \in Kept /\ Tidy(s, given')
      BY <2>6, <3>1 DEF Sound
    <3>3. Ended' /\ reports' \in Nat
      BY <1>1, <3>1 DEF Ended
    <3> QED
      BY <1>4, <2>6, <3>1, <3>2, <3>3
  <2>8. CASE ~exits
    <3>1. tst' = s /\ reports' = reports + 1
      BY <2>2, <2>8
    <3> HIDE DEF s
    <3>2. ~Ended' /\ reports' \in Nat
      BY <1>1, <2>1, <3>1 DEF Ended
    <3> QED
      BY <2>5, <2>6, <3>1, <3>2 DEF Sound
  <2> QED
    BY <2>7, <2>8
<1> QED
  BY <1>5, <1>6, <1>7 DEF ResultsNext

\* The invariant of the results.
THEOREM ResultsInvariance == ResultsInit /\ [][ResultsNext]_resultVars => []ResultsInv
BY ResultsInvInit, ResultsInvStep, PTL

\* At the end the lines tell of all cases.
LEMMA EachIfTold == ResultsInv => EachCaseReported
<1> SUFFICES ASSUME ResultsInv, Ended PROVE EachCaseReported
  BY DEF EachCaseReported
<1>1. /\ tst.count = Len(given) /\ (\A n \in DOMAIN given : given[n].type \in tst.exitval)
      /\ Told(tst.lines, given, Len(given)) /\ given \in Seq(CaseKind)
  BY DEF ResultsInv
<1>2. DOMAIN given = 1 .. Len(given)
  BY <1>1
<1>3. ASSUME NEW n \in DOMAIN given
      PROVE  IF Shown(given[n].type)
               THEN \E i \in LinesOf(n) :
                      LET line == tst.lines[i] IN
                      /\ LinesOf(n) = {i}
                      /\ line.type = given[n].type /\ line.mesg = given[n].mesg
                      /\ env # "NOPASS" /\ given[n].file # NoFile => line.file = given[n].file
               ELSE LinesOf(n) = {}
  <2>1. OneLine(tst.lines, given[n], n)
    BY <1>1, <1>2 DEF Told
  <2>2. CASE Shown(given[n].type)
    <3>1. PICK i \in DOMAIN tst.lines :
            /\ Covers(tst.lines[i], n) /\ \A j \in DOMAIN tst.lines : Covers(tst.lines[j], n) => j = i
            /\ tst.lines[i].type = given[n].type /\ tst.lines[i].mesg = given[n].mesg
            /\ env # "NOPASS" /\ given[n].file # NoFile => tst.lines[i].file = given[n].file
      BY <2>1, <2>2 DEF OneLine
    <3>2. LinesOf(n) = {i}
      BY <3>1 DEF LinesOf
    <3> QED
      BY <2>2, <3>1, <3>2
  <2>3. CASE ~Shown(given[n].type)
    BY <2>1, <2>3 DEF OneLine, LinesOf
  <2> QED
    BY <2>2, <2>3
<1> QED
  BY <1>1, <1>3 DEF EachCaseReported

\* When a test ends, each of its cases has been told once, whatever it reports and in whatever
\* mode. (tst_res(), tst_condense(), tst_print(), tst_flush(), tst_brk(), tst_brkloop().)
THEOREM EachCaseReportedHolds == ResultsInit /\ [][ResultsNext]_resultVars => []EachCaseReported
BY ResultsInvariance, EachIfTold, PTL
=============================================================================
