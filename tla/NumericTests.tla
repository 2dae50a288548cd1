---------------------------- MODULE NumericTests ----------------------------
(***************************************************************************)
(* The tests of num_fcns.c that call the mathematical library and the      *)
(* string functions, and jmp_test() of creat_clo.c.                        *)
(*                                                                         *)
(* Floating point numbers are whole numbers of a small unit; where only    *)
(* the range of a number counts, it is an interval of them.                *)
(***************************************************************************)
EXTENDS Kernels

CONSTANTS
  Unit,     \* the number 1
  Places    \* a number is halved as often as this before it is 0
ASSUME NumericAssumption == {Unit, Places} \subseteq Nat \ {0, 1}

Size(i) == IF i < 0 THEN -i ELSE i
\* Rounded to 0, as the halves of small numbers are.
Ratio(a, b) == IF a < 0 THEN -((-a) \div b) ELSE a \div b

-----------------------------------------------------------------------------
(* num_fcns_c(): vals[], 0 and 1 and the smallest number, then averages of  *)
(* two each.  All of these are powers of two.                              *)

\* 2^-e is e, and None is 0.  Half of 2^-a - 2^-b is 2^-(b+1) when b is a + 1, and else
\* about half of the larger one: the other is much smaller.
None == Places + 1
Half(e) == IF e >= Places THEN None ELSE e + 1
Average(a, b) == Half(IF b = a + 1 \/ b < a THEN b ELSE a)
\* A value of 0 starts over: two more values are stored without a look at the end.
vals(numvals) ==
  LET fill[n \in Nat] ==
        LET v == fill[n - 1]
            next == Average(v[Len(v) - 1], v[Len(v)])
        IN  IF n = 0 THEN <<None, 0, Places>>
            ELSE IF Len(v) >= numvals THEN v
            ELSE IF next = None THEN v \o <<None, 0, Places>> ELSE Append(v, next)
  IN  fill[numvals]
next_value(values, count) == values[(count % Len(values)) + 1]

-----------------------------------------------------------------------------
(* newton_raphson()                                                        *)

\* Of the sine and the cosine of an angle, in the field.
f(s, c)       == Times(1000, Times(s, c))
f_prime(s, c) == Minus(Times(1000, Times(c, c)), Times(1000, Times(s, s)))

\* step leads from one guess to the next; near are the pairs with a distance below 1E-12.
\* One zero for each start.
ZeroFound(step, near, p0, tries) ==
  LET loop[i \in 1 .. tries] ==
        LET before == IF i = 1 THEN [p0 |-> p0, found |-> FALSE] ELSE loop[i - 1]
            p      == step[before.p0]
        IN  IF before.found THEN before
            ELSE [p0 |-> p, found |-> <<p, before.p0>> \in near]
  IN  tries >= 1 /\ loop[tries].found
newton_raphson(step, near, starts, MAXTRIES) ==
  IF \A i \in DOMAIN starts : ZeroFound(step, near, starts[i], MAXTRIES - 1) THEN 0 ELSE -1

-----------------------------------------------------------------------------
(* series_1(): terms are added until one changes nothing.                  *)

\* d0 in units; i counts 1, 3, 5, ...
NextTerm(term, d0, i) == -Ratio(Ratio(term * d0, Unit) * d0, Unit * (i + 1) * (i + 2))
RECURSIVE SineFrom(_, _, _, _)
SineFrom(sine, term, d0, i) ==
  IF term = 0 THEN sine ELSE SineFrom(sine + term, NextTerm(term, d0, i), d0, i + 2)
sine(d0) == SineFrom(0, d0, d0, 1)
\* sin() is to be within a ten-thousandth.
series_1(d0, sin) == IF Size(sine(d0) - sin) * 10000 > Unit THEN -1 ELSE 0

-----------------------------------------------------------------------------
(* num_rtns_1() and trig_rtns(): calls one inside the other, in intervals.  *)

Between(lo, hi) == [lo |-> lo, hi |-> hi]
ARG == Between(-10 * Unit, 10 * Unit)
Shifted(a, by) == Between(a.lo + by, a.hi + by)
Aside == 10 * Unit + Unit \div 10000     \* 10.0001
POS == Shifted(ARG, Aside)
NEG == Shifted(ARG, -Aside)
Far == Between(-100 * Unit, 100 * Unit)      \* for numbers whose size does not matter

\* Where a function is defined, and where its result lies.
Defined(fn, a) ==
  CASE fn \in {"log", "log10", "pow"} -> a.lo > 0
    [] fn = "sqrt"                    -> a.lo >= 0
    [] fn \in {"asin", "acos"}        -> -Unit <= a.lo /\ a.hi <= Unit
    [] fn = "fmod"                    -> 0 \notin a.lo .. a.hi   \* the divisor
    [] OTHER                          -> TRUE
Result(fn, a) ==
  CASE fn \in {"sin", "cos"}   -> Between(-Unit, Unit)
    [] fn \in {"exp", "cosh", "pow", "sqrt"} -> Between(1, Far.hi)
    [] fn \in {"asin", "atan"} -> Between(-2 * Unit, 2 * Unit)
    [] OTHER                   -> Far
\* The last function of the list is called first.
Nested(fns, a) ==
  FoldLeft(LAMBDA r, fn : [ok |-> r.ok /\ Defined(fn, r.a), a |-> Result(fn, r.a)],
           [ok |-> TRUE, a |-> a], Reverse(fns))

\* Each ARG, POS and NEG takes a value of its own from vals10[].
num_rtns_1 ==
  << <<<<"floor", "exp">>, ARG>>, <<<<"ceil", "log10">>, POS>>, <<<<"modf", "log">>, POS>>,
     <<<<"frexp">>, NEG>>, <<<<"ldexp">>, ARG>>, <<<<"fmod">>, POS>>, <<<<"sqrt", "pow">>, POS>> >>
trig_rtns ==
  << <<<<"acos", "cos", "asin", "sin">>, ARG>>, <<<<"tanh", "atan", "tan">>, ARG>>,
     <<<<"sinh">>, ARG>>, <<<<"atan2", "cosh">>, ARG>> >>
AllDefined(calls) == \A i \in DOMAIN calls : Nested(calls[i][1], calls[i][2]).ok

-----------------------------------------------------------------------------
(* string_rtns_1()                                                         *)

\* The length of the buffer after strcat() of the whole of catbuf, or strncat() of part
\* of it, while there is more room than catbuf needs.
RECURSIVE Filled(_, _, _, _)
Filled(strlen, buffer, catbuf, part) ==
  IF buffer - strlen > catbuf THEN Filled(strlen + part, buffer, catbuf, part) ELSE strlen
strcat_loop(buffer, catbuf)  == Filled(catbuf, buffer, catbuf, catbuf)
strncat_loop(buffer, catbuf) == Filled(catbuf, buffer, catbuf, IF catbuf < 10 THEN catbuf ELSE 10)

\* A thousandth of the counter goes through text, which keeps six digits, and back, where
\* what is after the point is cut.  Then it grows.
SixDigits(n) ==
  LET cut == IF n < 1000000 THEN 1 ELSE IF n < 10000000 THEN 10 ELSE 100
      lo  == (n \div cut) * cut
  IN  {m \in {lo, lo + cut} : 2 * Size(m - n) <= cut}
ThroughText(n) == IF n = 0 THEN {0} ELSE SixDigits(n) \cup {m - 1 : m \in SixDigits(n)}
Turns(itemp1s, n, bumps) ==
  FoldLeft(LAMBDA s, i : UNION {{t + bumps : t \in ThroughText(x)} : x \in s}, itemp1s, [i \in 1 .. n |-> i])
string_rtns_1(n, bumps) == {IF t >= 0 THEN 0 ELSE 1 : t \in Turns({0}, n, bumps)}

-----------------------------------------------------------------------------
(* creat_clo.c: setjmp() returns 0, and 1 when dummy_function() jumps back   *)
(* from the last of its stack frames.                                      *)

dummy_function[count \in Nat] == IF count = 0 THEN 1 ELSE dummy_function[count - 1]
jmp_test(i32) ==
  LET loop[i \in 0 .. i32] ==
        IF i = 0 THEN 0 ELSE IF loop[i - 1] = 0 /\ dummy_function[10] = 1 THEN 0 ELSE -1
  IN  loop[i32]
=============================================================================
