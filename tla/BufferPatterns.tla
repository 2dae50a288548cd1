--------------------------- MODULE BufferPatterns ---------------------------
(***************************************************************************)
(* How libltp fills buffers with data that it can recognise later          *)
(* (pattern.c, databin.c, dataascii.c, and datapid.c on a Cray).           *)
(* Buffers and patterns are sequences of bytes; positions in the checks    *)
(* are those of the code, from 0.                                          *)
(***************************************************************************)
EXTENDS Integers, Sequences

Byte == 0 .. 255

\* memcpy() of the first n bytes of from to the end of what buf has so far.
Copied(buf, from, n) == buf \o SubSeq(from, 1, n)
AtMost(n, limit) == IF n < limit THEN n ELSE limit

\* pattern_fill(): the end of the pattern from the shift on, its beginning, and then
\* what is there already over and over, twice as much each time.
Shift(pat, shift) == IF pat = <<>> THEN shift ELSE shift % Len(pat)
FirstTurn_NoShift(pat, shift, size) == Copied(<<>>, pat, AtMost(Len(pat), size))
FirstTurn(pat, shift, size) ==
  LET s    == Shift(pat, shift)
      tail == Copied(<<>>, SubSeq(pat, s + 1, Len(pat)), AtMost(Len(pat) - s, size))
  IN  IF s > 0 THEN Copied(tail, pat, AtMost(s, size - Len(tail))) ELSE tail

\* What is there after each turn of the loop.  A turn adds a byte at least until nothing is
\* left, so that there are no more turns than bytes (with an empty pattern, which is not
\* one of the inputs here, the code never comes to an end).
OneMoreTurn(filled, size) == Copied(filled, filled, AtMost(Len(filled), size - Len(filled)))
Doubled(buf, size) ==
  LET filled[n \in Nat] == IF n = 0 THEN buf ELSE OneMoreTurn(filled[n - 1], size)
  IN  filled

pattern_fill(pat, shift, size) == Doubled(FirstTurn(pat, shift, size), size)[size]

\* pattern_check(): the same pieces compared; the buffer with itself once it has been
\* found to start with one turn of the pattern.  What has been compared after each turn.
OneMoreCompared(ncmp, size) == ncmp + AtMost(ncmp, size - ncmp)
Compared(first, size) ==
  LET ncmp[n \in Nat] == IF n = 0 THEN first ELSE OneMoreCompared(ncmp[n - 1], size)
  IN  ncmp
Repeats(buf, first) ==
  LET ncmp == Compared(first, Len(buf))
  IN  \A n \in 0 .. Len(buf) : 
        SubSeq(buf, 1, ncmp[n + 1] - ncmp[n]) = SubSeq(buf, ncmp[n] + 1, ncmp[n + 1])

pattern_check(buf, pat, shift) ==
  LET turn == FirstTurn(pat, shift, Len(buf))
  IN  IF SubSeq(buf, 1, Len(turn)) = turn /\ Repeats(buf, Len(turn)) THEN 0 ELSE -1

-----------------------------------------------------------------------------

\* databingen() and databinchk(): a constant byte, or for "C" the position in the file.
\* Random bytes ("r") are taken for good whatever they are.
BinByte(mode, pos) ==
  CASE mode = "c" -> 240
    [] mode = "C" -> pos % 8
    [] mode = "o" -> 255
    [] mode = "z" -> 0
    [] OTHER      -> 85
databingen(mode, size, offset, random) ==
  IF mode = "r" THEN [i \in 1 .. size |-> 64 + (random[i] % 64)]
  ELSE [i \in 1 .. size |-> BinByte(mode, offset + i - 1)]

\* The file position of the first of the bytes that differ, or -1.
FirstDifference(buf, expected, offset) ==
  IF buf = expected THEN -1
  ELSE LET bad == {i \in 1 .. Len(buf) : buf[i] # expected[i]}
       IN  offset + (CHOOSE i \in bad : \A j \in bad : i <= j) - 1

databinchk(mode, buf, offset) ==
  IF mode = "r" THEN -1
  ELSE FirstDifference(buf, [i \in 1 .. Len(buf) |-> BinByte(mode, offset + i - 1)], offset)

\* dataasciigen() and dataasciichk(): a list of characters over and over, beginning
\* with the one that the position in the file comes to.  The size of the built-in list
\* is that of its array: the 0 at its end is one of its characters.
BuiltIn == [i \in 1 .. 53 |-> i] \o <<0>>
CharList(list) == IF list = <<>> THEN BuiltIn ELSE list
AsciiByte(list, pos) == CharList(list)[(pos % Len(CharList(list))) + 1]
dataasciigen(list, size, offset) == [i \in 1 .. size |-> AsciiByte(list, offset + i - 1)]
dataasciichk(list, buf, offset) ==
  FirstDifference(buf, [i \in 1 .. Len(buf) |-> AsciiByte(list, offset + i - 1)], offset)

-----------------------------------------------------------------------------

\* datapidgen() and datapidchk(): words of eight bytes, with the number of the process,
\* the position of the word in the file, and the number again.
NBPW == 8
PidWord(pid, woff) ==
  LET p == <<(pid \div 256) % 256, pid % 256>>
  IN  p \o <<0, (woff \div 65536) % 256, (woff \div 256) % 256, woff % 256>> \o p

\* The end of a word, full words, and the beginning of one.
PidHead(size, offset) == IF offset % NBPW = 0 THEN 0 ELSE AtMost(NBPW - (offset % NBPW), size)
PidFull(size, offset) == NBPW * ((size - PidHead(size, offset)) \div NBPW)
datapidgen(pid, size, offset) ==
  LET cnt  == offset % NBPW
      boff == PidHead(size, offset)
      woff == offset + boff
      full == PidFull(size, offset)
  IN  SubSeq(PidWord(pid, offset - cnt), cnt + 1, cnt + boff)
        \o [i \in 1 .. full |-> PidWord(pid, woff + NBPW * ((i - 1) \div NBPW))[((i - 1) % NBPW) + 1]]
        \o SubSeq(PidWord(pid, woff + full), 1, size - boff - full)

\* Where the first difference is; in a full word, where that word begins.
datapidchk(pid, buf, offset) ==
  LET at   == FirstDifference(buf, datapidgen(pid, Len(buf), offset), offset)
      full == offset + PidHead(Len(buf), offset)
  IN  IF at # -1 /\ full <= at /\ at < full + PidFull(Len(buf), offset) THEN at - (at % NBPW) ELSE at

\* On all other machines: no data, and a check that finds the first byte to be wrong.
datapidgen_other == -1
datapidchk_other == 0
=============================================================================
