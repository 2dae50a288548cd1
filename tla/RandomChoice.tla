---------------------------- MODULE RandomChoice ----------------------------
(***************************************************************************)
(* Random choices of libltp (random_range.c, lio_random_methods() of       *)
(* tlibio.c) as functions of what lrand48() draws, and the ranges that a   *)
(* tester gives as text.                                                   *)
(***************************************************************************)
EXTENDS IoBits, Integers, Sequences, FiniteSets

CONSTANT LrandMax   \* the largest number that lrand48() draws, 2^31 - 1
ASSUME LrandAssumption == LrandMax \in Nat \ {0}

-----------------------------------------------------------------------------
(* parse_ranges(): a range is its fields between colons.  A field is blank, *)
(* a number, or neither.                                                   *)

Blank     == [kind |-> "blank", n |-> 0]
Number(n) == [kind |-> "number", n |-> n]
Junk      == [kind |-> "junk", n |-> 0]

ValueOf(f, default) == IF f.kind = "number" THEN f.n ELSE default

\* "num" is short for "num:num"; a third colon makes the last field junk.
ParseRange(r, def) ==
  LET min == ValueOf(r[1], def.min) IN
  [min  |-> min,
   max  |-> IF Len(r) = 1 THEN min ELSE ValueOf(r[2], def.max),
   mult |-> IF Len(r) = 3 THEN ValueOf(r[3], def.mult) ELSE def.mult]

\* strtok() does not see empty ranges: those that are only one blank field.
parse_ranges(text, def) ==
  LET ranges == SelectSeq(text, LAMBDA r : r # <<Blank>>)
      bad    == \E i \in DOMAIN ranges :
                  Len(ranges[i]) > 3 \/ \E j \in DOMAIN ranges[i] : ranges[i][j] = Junk
  IN  IF bad THEN [n |-> -1, ranges |-> <<>>]
      ELSE [n |-> Len(ranges), ranges |-> [i \in DOMAIN ranges |-> ParseRange(ranges[i], def)]]

-----------------------------------------------------------------------------
(* random_range(), random_rangel(), random_rangell(): the result is a      *)
(* number, or a failure that is told apart by errp only.                   *)

\* The remainder of C has the sign of the dividend.
CRem(a, m) == IF a >= 0 THEN a % m ELSE -((-a) % m)
CDiv(a, m) == (a - CRem(a, m)) \div m

Swapped(a, b) == IF b < a THEN <<b, a>> ELSE <<a, b>>
\* Both ends moved to a multiple of mult: inwards, when they are not negative.
ToMultiples_MaxUp(a, b, mult) ==
  LET s == Swapped(a, b) IN
  <<IF CRem(s[1], mult) = 0 THEN s[1] ELSE s[1] + mult - CRem(s[1], mult),
    IF CRem(s[2], mult) = 0 THEN s[2] ELSE s[2] + mult - CRem(s[2], mult)>>
ToMultiples(a, b, mult) ==
  LET s == Swapped(a, b) IN
  <<IF CRem(s[1], mult) = 0 THEN s[1] ELSE s[1] + mult - CRem(s[1], mult),
    s[2] - CRem(s[2], mult)>>

RangeFails(a, b, mult) == mult < 1 \/ ToMultiples(a, b, mult)[1] > ToMultiples(a, b, mult)[2]
Pick(min, max, mult, draw) == min + CRem(draw, CDiv(max - min, mult) + 1) * mult

random_range(a, b, mult, draw) ==
  LET m == ToMultiples(a, b, mult) IN Pick(m[1], m[2], mult, draw)

\* The same text over long.
random_rangel(a, b, mult, draw) == random_range(a, b, mult, draw)

\* divider(): halves a large interval, up or down by the next bit of the draw, until
\* the draw itself can be added.  It calls itself with one half; the arguments of the n-th
\* call, which stay as they are when there is no further one.
Bit(n, i) == (n \div 2^i) % 2 = 1
HalfWay(call)   == (call.max - call.min) \div 2
Middle(call) == call.min + HalfWay(call)
NextCall(call, draw) ==
  IF HalfWay(call) <= LrandMax THEN call
  ELSE IF Bit(draw, call.cnt) THEN [call EXCEPT !.min = Middle(call), !.cnt = @ + 1]
                              ELSE [call EXCEPT !.max = Middle(call), !.cnt = @ + 1]
DividerCalls(min, max, draw) ==
  LET call[n \in Nat] ==
        IF n = 0 THEN [min |-> min, max |-> max, cnt |-> 0] ELSE NextCall(call[n - 1], draw)
  IN  call

divider(min, max, draw) ==
  LET last == DividerCalls(min, max, draw)[33]
  IN  IF last.cnt > 32 THEN -1
      ELSE IF last.max - last.min > LrandMax /\ Bit(draw, last.cnt) THEN Middle(last) + draw
      ELSE last.min + draw

random_rangell(a, b, mult, draw) ==
  LET m == ToMultiples(a, b, mult)
  IN  IF m[2] <= LrandMax THEN Pick(m[1], m[2], mult, draw)
      ELSE Pick(m[1], m[2], mult, divider(m[1], m[2], draw))

-----------------------------------------------------------------------------
(* random_bit() and what tlibio.c makes of it.                             *)

\* The bit'th bit of the mask from below, or none of an empty mask.
random_bit(mask, draw) ==
  LET bit == random_range(1, Cardinality(mask), 1, draw)
  IN  IF mask = {} THEN {}
      ELSE {CHOOSE p \in mask : Cardinality({q \in mask : q <= p}) = bit}

\* One io type and one wait method out of those given.
lio_random_methods(mask, draw1, draw2) ==
  (mask \ (IoTypes \cup WaitTypes \cup {RANDOM}))
    \cup random_bit(mask \cap IoTypes, draw1) \cup random_bit(mask \cap WaitTypes, draw2)

-----------------------------------------------------------------------------
(* lio_write_buffer() and lio_read_buffer() as they are compiled for Linux: *)
(* the system call they make, and what they return after it.               *)

Method(mask, draw1, draw2) ==
  IF RANDOM \in mask THEN lio_random_methods(mask, draw1, draw2) ELSE mask

\* Asynchronous and list i/o have no code here, yet come before the vector.
SystemCall(mask) ==
  IF SYNC \in mask \/ mask \cap IoTypes = {} THEN "plain"
  ELSE IF mask \cap {ASYNC, SLISTIO, ALISTIO} # {} THEN "none"
  ELSE IF SYNCV \in mask THEN "vector" ELSE "unknown"

\* Bytes moved is -1 when the call fails; a short transfer is not a failure.
BytesMoved(mask, moved, errno) ==
  LET call == SystemCall(mask)
  IN  CASE call \in {"plain", "vector"} -> IF moved = -1 THEN -errno ELSE moved
        [] call = "none"    -> 0
        [] call = "unknown" -> -1
lio_write_buffer(mask, moved, errno) == BytesMoved(mask, moved, errno)
lio_read_buffer(mask, moved, errno)  == BytesMoved(mask, moved, errno)

\* lio_parse_io_arg1() and lio_parse_io_arg2(): the bits of a letter and of a list of
\* words, or -1, here {-1}, when a word is not known.  (Arg2 also takes numbers.)
Letter ==
  [s |-> {SYNC}, p |-> {ASYNC, SIGACTIVE}, b |-> {ASYNC, SIGPAUSE}, a |-> {ASYNC, RECALL},
   r |-> {RANDOM} \cup IoTypes \cup WaitTypes, R |-> {RANDOM} \cup IoTypes \cup WaitTypes,
   l |-> {SLISTIO, RECALL}, L |-> {ALISTIO, RECALL}, X |-> {ALISTIO, SIGPAUSE},
   v |-> {SYNCV}, P |-> {SYNCP}]
lio_parse_io_arg1(letter) == IF letter \in DOMAIN Letter THEN Letter[letter] ELSE {-1}

WordBits ==
  [sync |-> {SYNC}, async |-> {ASYNC}, slistio |-> {SLISTIO}, alistio |-> {ALISTIO},
   syncv |-> {SYNCV}, syncp |-> {SYNCP}, active |-> {ACTIVE}, recall |-> {RECALL},
   sigactive |-> {SIGACTIVE}, sigpause |-> {SIGPAUSE}, random |-> {RANDOM},
   randomall |-> {RANDOM} \cup IoTypes \cup WaitTypes]
lio_parse_io_arg2(words) ==
  IF \E i \in DOMAIN words : words[i] \notin DOMAIN WordBits THEN {-1}
  ELSE UNION {WordBits[words[i]] : i \in DOMAIN words}

\* stride_bounds(): the bytes that a strided request touches.
stride_bounds(offset, stride0, nstrides, bytes) ==
  LET stride == IF stride0 = 0 THEN bytes ELSE stride0
      nbytes == (IF stride < 0 THEN -stride ELSE stride) * (nstrides - 1) + bytes
      max    == IF stride < 0 THEN offset + bytes - 1 ELSE offset + nbytes - 1
  IN  IF nstrides < 0 \/ bytes < 0 THEN [n |-> -1, min |-> 0, max |-> 0]
      ELSE [n |-> nbytes, min |-> max - nbytes + 1, max |-> max]
=============================================================================
