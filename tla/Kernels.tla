-------------------------------- MODULE Kernels --------------------------------
(***************************************************************************)
(* The compute kernels: loops of additions, multiplications, divisions and *)
(* calls, a solver for linear equations, block moves, and the generators   *)
(* of random numbers.                                                      *)
(*                                                                         *)
(* Integers wrap round at a width; floating point numbers are taken for    *)
(* elements of a finite field, where operations are exact: a result that   *)
(* needs more than the laws of a field is not shown here.                  *)
(***************************************************************************)
EXTENDS Integers, Sequences, SequencesExt, FiniteSets

CONSTANTS
  Word,    \* integers are numbers modulo Word
  Prime    \* the field is that of the numbers modulo Prime
ASSUME KernelAssumption ==
  /\ Word \in Nat \ {0}
  /\ Prime \in Nat \ {0, 1} /\ \A k \in 2 .. Prime - 1 : Prime % k # 0

Field == 0 .. Prime - 1
Plus(a, b)    == (a + b) % Prime
Minus(a, b)   == (a - b) % Prime
Times(a, b)   == (a * b) % Prime
Inverted(a)   == CHOOSE b \in Field : Times(a, b) = 1
Over(a, b)    == Times(a, Inverted(b))
PlusInt(a, b) == (a + b) % Word
TimesInt(a, b) == (a * b) % Word
\* A quotient is only taken of numbers that are not negative here.
OverInt(a, b) == a \div b

-----------------------------------------------------------------------------
(* add.c, mul.c, div.c: one turn of a loop is twelve assignments var op= var *)
(* between the result d and the copies d1 and d2 of the arguments.         *)

\* v, for d, d1 and d2, after the assignments.
Turned(v, assignments, op(_, _)) ==
  FoldLeft(LAMBDA w, a : [w EXCEPT ![a[1]] = op(w[a[1]], w[a[2]])], v, assignments)
Looped(v, assignments, op(_, _), loop_cnt) ==
  FoldLeft(LAMBDA w, n : Turned(w, assignments, op), v, [n \in 1 .. loop_cnt |-> n])
Start(d, d1, d2) == [d |-> d, d1 |-> d1, d2 |-> d2]

Additions == <<
  <<"d", "d1">>, <<"d1", "d2">>, <<"d1", "d2">>, <<"d2", "d">>, <<"d2", "d">>, <<"d", "d1">>,
  <<"d", "d1">>, <<"d1", "d2">>, <<"d1", "d2">>, <<"d2", "d">>, <<"d2", "d">>, <<"d", "d1">> >>
add_double(x, y, n) == Looped(Start(0, x, y), Additions, Plus, n)
add_float(x, y, n)  == Looped(Start(0, x, y), Additions, Plus, n)
add_long(x, y, n)   == Looped(Start(0, x, y), Additions, PlusInt, n)
add_int(x, y, n)    == Looped(Start(0, x, y), Additions, PlusInt, n)
add_short(x, y, n)  == Looped(Start(0, x, y), Additions, PlusInt, n)

\* The floating point multiplications go as the additions do.
mul_double(x, y, n) == Looped(Start(1, x, y), Additions, Times, n)
mul_float(x, y, n)  == Looped(Start(1, x, y), Additions, Times, n)
Multiplications == <<
  <<"d", "d1">>, <<"d1", "d2">>, <<"d1", "d2">>, <<"d2", "d1">>, <<"d2", "d1">>, <<"d", "d2">>,
  <<"d", "d1">>, <<"d1", "d2">>, <<"d1", "d2">>, <<"d2", "d1">>, <<"d2", "d1">>, <<"d", "d2">> >>
mul_long(d, x, y, n)  == Looped(Start(d, x, y), Multiplications, TimesInt, n)
mul_int(d, x, y, n)   == Looped(Start(d, x, y), Multiplications, TimesInt, n)
mul_short(d, x, y, n) == Looped(Start(d, x, y), Multiplications, TimesInt, n)

Divisions == <<
  <<"d", "d1">>, <<"d2", "d">>, <<"d1", "d2">>, <<"d2", "d1">>, <<"d", "d2">>, <<"d2", "d">>,
  <<"d", "d1">>, <<"d2", "d">>, <<"d1", "d2">>, <<"d2", "d1">>, <<"d", "d2">>, <<"d2", "d">> >>
div_double(x, y, n) == Looped(Start(1, x, y), Divisions, Over, n)
div_float(x, y, n)  == Looped(Start(1, x, y), Divisions, Over, n)
IntDivisions == <<
  <<"d", "d1">>, <<"d", "d2">>, <<"d1", "d2">>, <<"d2", "d1">>, <<"d", "d1">>, <<"d", "d2">>,
  <<"d1", "d2">>, <<"d2", "d1">>, <<"d", "d1">>, <<"d", "d2">>, <<"d1", "d2">>, <<"d2", "d1">> >>
div_long(d, x, y, n)  == Looped(Start(d, x, y), IntDivisions, OverInt, n)
div_int(d, x, y, n)   == Looped(Start(d, x, y), IntDivisions, OverInt, n)
div_short(d, x, y, n) == Looped(Start(d, x, y), IntDivisions, OverInt, n)

-----------------------------------------------------------------------------
(* fun.c: outer turns, inner turns and calls in one of these; what is added *)
(* to the count by the calls of the turn n.                                *)

Called(outer, inner, calls, added(_)) ==
  LET count[n \in 0 .. outer] ==
        IF n = 0 THEN 0 ELSE count[n - 1] + inner * calls * added(n - 1)
  IN  count[outer]
fcal0(p_i1)    == p_i1
fcal1(n)       == n
fcal2(n, i)    == n + i      \* addresses, cut to ints
fcal15(i8, i15) == i8 + i15  \* addresses as well
fun_cal(outer, i1, fcount)        == fcount + Called(outer, 32, 16, LAMBDA n : fcal0(i1))
fun_cal1(outer, fcount)           == fcount + Called(outer, 32, 16, fcal1)
fun_cal2(outer, an, ai, fcount)   == fcount + Called(outer, 32, 16, LAMBDA n : fcal2(an, ai))
fun_cal15(outer, ai, fcount)      == fcount + Called(outer, 512, 1, LAMBDA n : fcal15(ai, ai))

-----------------------------------------------------------------------------
(* num_fcns.c: array_rtns() solves linear equations by elimination.  A row  *)
(* of the array has the coefficients of an equation and its right side.    *)

Scaled(row, t)      == [k \in DOMAIN row |-> Over(row[k], t)]
Less(row, t, other) == [k \in DOMAIN row |-> Minus(row[k], Times(t, other[k]))]

\* Step 1 for row i: a 1 on the diagonal and zeros below.  Rows are not exchanged.
Lower(a, i) ==
  LET row == Scaled(a[i], a[i][i]) IN
  [j \in DOMAIN a |-> IF j = i THEN row ELSE IF j > i THEN Less(a[j], a[j][i], row) ELSE a[j]]
\* Step 2 for row i: zeros above.
Upper(a, i) ==
  [j \in DOMAIN a |-> IF j < i THEN Less(a[j], a[j][i], a[i]) ELSE a[j]]

Singular == <<>>
LowerAll(a) ==
  FoldLeft(LAMBDA b, i : IF b = Singular \/ b[i][i] = 0 THEN Singular ELSE Lower(b, i),
           a, [i \in DOMAIN a |-> i])
UpperAll(a, last) == FoldLeft(LAMBDA b, i : Upper(b, i), a, Reverse([i \in 1 .. last |-> i]))
Solution(a) == [i \in DOMAIN a |-> Last(a[i])]

\* The results, or <<>> for an array that is said to be singular.
solve_array(a) ==
  LET b == LowerAll(a) IN
  IF b = Singular THEN <<>> ELSE Solution(UpperAll(b, Len(a)))

Dot(row, b) == FoldLeft(LAMBDA t, j : Plus(t, Times(row[j], b[j])), 0, [j \in DOMAIN b |-> j])
test(a, b) == \A i \in DOMAIN a : Last(a[i]) = Dot(a[i], b)

\* array_rtns() for one of its arrays: the results are tested against the original.
array_rtns(a) ==
  LET results == solve_array(a) IN IF results = <<>> \/ ~test(a, results) THEN -1 ELSE 0

\* matrix_rtns(): a vector through a 4 x 4 matrix, row by row.
matrix_rtns(v1, v2) == [i \in DOMAIN v2 |-> Dot(v2[i], v1)]

-----------------------------------------------------------------------------
(* num_fcns.c, ram.c: blocks that are moved at all offsets of a word.      *)

\* The bytes that a turn touches, counted from the start of its buffers.
Touched(n, table, double) ==
  LET size == table[(n % Len(table)) + 1]
      off1 == n % double
      off2 == (n \div double) % double
  IN  {off1, off2, off1 + size - 1, off2 + size - 1}
mem_rtns_2(n, op_size, double) == Touched(n, op_size, double)
ram_copy(n, sizes, double)     == Touched(n, sizes, double)

\* sort_rtns_1(): the table is sorted, every tenth of twice as many keys is looked up.
sort_rtns_1(size, step) ==
  Cardinality({i \in 0 .. 2 * size - 1 : i % step = 0 /\ i \notin 0 .. size - 1})

-----------------------------------------------------------------------------
(* rand.c, and what disk_src.c does with its numbers.                      *)

\* One of the two generators: the next seed, and bits of it.
MULT == 1103515245
INCR == 12345
NextSeed(seed) == (seed * (MULT % Word) + INCR) % Word
aim_rand(seed, low)  == NextSeed(seed) \div low
aim_rand2(seed2, low) == NextSeed(seed2) \div low

\* scramble(): in every pass each entry changes places with one at random.
Swap(list, i, j) == [list EXCEPT ![i] = list[j], ![j] = list[i]]
Pass(list, draws) ==
  FoldLeft(LAMBDA l, i : Swap(l, i, (draws[i] % Len(l)) + 1), list, [i \in DOMAIN list |-> i])
scramble(list, passes) == FoldLeft(Pass, list, passes)
=============================================================================
