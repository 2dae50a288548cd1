----------------------------- MODULE TextInputs -----------------------------
(***************************************************************************)
(* How libltp reads the text that a tester gives: tokens                   *)
(* (string_to_tokens.c), sizes (str_to_bytes.c), flags of open()           *)
(* (open_flags.c) and commands to be found in PATH (search_path.c).  Text  *)
(* is what the code cuts it into: tokens, words, directories.              *)
(***************************************************************************)
EXTENDS Integers, Sequences, FiniteSets

CONSTANTS
  Kilo,       \* K_MULT, 1024
  LongSize,   \* sizeof(long)
  Block,      \* B_MULT
  IntMax,     \* largest int; that of long and long long is never reached
  Mantissa    \* numbers up to this one are exact in a float; up to twice that are used
ASSUME TextAssumption ==
  {Kilo, LongSize, Block, IntMax, Mantissa} \subseteq Nat \ {0}

-----------------------------------------------------------------------------
(* string_to_tokens(): tokens without the empty ones, which strtok() skips. *)

NotEmpty(words) == SelectSeq(words, LAMBDA w : w # "")
FirstOf(s, n) == SubSeq(s, 1, IF n < Len(s) THEN n ELSE Len(s))

\* The array holds size pointers.  A null pointer follows the last token, also when
\* that is already the end of the array.
string_to_tokens_OneLess(words, size) ==
  LET tokens == NotEmpty(words) IN
  IF size <= 1 THEN [n |-> -1, array |-> <<>>, nullAt |-> 0]
  ELSE [n |-> Len(FirstOf(tokens, size - 1)), array |-> FirstOf(tokens, size - 1),
        nullAt |-> Len(FirstOf(tokens, size - 1)) + 1]
string_to_tokens(words, size) ==
  LET tokens == NotEmpty(words) IN
  IF size <= 1 THEN [n |-> -1, array |-> <<>>, nullAt |-> 0]
  ELSE [n |-> Len(FirstOf(tokens, size)), array |-> FirstOf(tokens, size),
        nullAt |-> Len(FirstOf(tokens, size)) + 1]

-----------------------------------------------------------------------------
(* str_to_bytes(), str_to_lbytes(), str_to_llbytes(): a number and perhaps  *)
(* one letter.  Results are sets: what is not defined may be any number.    *)

Multiplier ==
  [b |-> Block, k |-> Kilo, K |-> Kilo * LongSize, m |-> Kilo * Kilo,
   M |-> Kilo * Kilo * LongSize, g |-> Kilo * Kilo * Kilo, G |-> Kilo * Kilo * Kilo * LongSize]

\* A float has one bit less than a number above Mantissa needs: an odd one is rounded,
\* to the side where the last bit of the float is 0.
Float(n) ==
  IF n <= Mantissa \/ n % 2 = 0 THEN n ELSE IF n % 4 = 1 THEN n - 1 ELSE n + 1
AnyInt == -1 - IntMax .. IntMax

\* sscanf() gives how many of number, letter and junk it has found, -1 for no text at
\* all: the letter has then no value, and none of the results is excluded.
Bytes(nconv, num, letter) ==
  CASE nconv \in {0, 3} -> {-1}
    [] nconv = 1        -> {num}
    [] nconv = 2        -> IF letter \in DOMAIN Multiplier THEN {num * Multiplier[letter]} ELSE {-1}
    [] nconv = -1       -> AnyInt

\* A product too large for an int has no defined conversion.
str_to_bytes(nconv, num, letter) ==
  LET bytes == Bytes(nconv, Float(num), letter)
  IN  IF bytes \subseteq AnyInt THEN bytes ELSE AnyInt
str_to_lbytes(nconv, num, letter)  == Bytes(nconv, Float(num), letter)
str_to_llbytes(nconv, num, letter) == Bytes(nconv, num, letter)

-----------------------------------------------------------------------------
(* open_flags.c.  Flags are sets of bits; O_SYNC is two, one of which is    *)
(* O_DSYNC, and O_RDONLY is none at all.                                    *)

OpenFlags == <<
  <<"O_RDONLY", {}>>, <<"O_WRONLY", {0}>>, <<"O_RDWR", {1}>>, <<"O_SYNC", {2, 3}>>,
  <<"O_CREAT", {4}>>, <<"O_NONBLOCK", {5}>>, <<"O_DSYNC", {2}>>, <<"O_RSYNC", {2, 3}>>,
  <<"O_NDELAY", {5}>> >>
FlagNames == {OpenFlags[i][1] : i \in DOMAIN OpenFlags}
FlagBits(name) == OpenFlags[CHOOSE i \in DOMAIN OpenFlags : OpenFlags[i][1] = name][2]

\* -1 is {-1}: at the first name that is not known.
parse_open_flags(names) ==
  IF \E i \in DOMAIN names : names[i] \notin FlagNames THEN {-1}
  ELSE UNION {FlagBits(names[i]) : i \in DOMAIN names}

\* Entry after entry of the table takes its bits away; the first is for neither
\* O_WRONLY nor O_RDWR.
RECURSIVE SymbolsFrom(_, _)
SymbolsFrom(ind, bits) ==
  IF ind > Len(OpenFlags) THEN [names |-> <<>>, left |-> bits]
  ELSE IF OpenFlags[ind][2] \subseteq bits
    THEN LET rest == SymbolsFrom(ind + 1, bits \ OpenFlags[ind][2])
         IN  [rest EXCEPT !.names = <<OpenFlags[ind][1]>> \o @]
    ELSE SymbolsFrom(ind + 1, bits)

openflags2symbols(bits, mode) ==
  LET known == SymbolsFrom(2, bits)
  IN  (IF bits \cap {0, 1} = {} THEN <<"O_RDONLY">> ELSE <<>>) \o known.names
        \o (IF known.left # {} /\ mode = 1 THEN <<"UNKNOWN">> ELSE <<>>)

-----------------------------------------------------------------------------
(* search_path() for a command without a slash.  A directory of PATH is a   *)
(* name, "" between two colons; found are those where the command is, and   *)
(* long those whose path would be too long.                                 *)

\* Directory after directory.  After an empty first one the search stays where it is.
RECURSIVE SearchFrom(_, _, _, _, _)
SearchFrom(i, path, found, long, toolong) ==
  LET next == IF i = 1 /\ path[1] = "" /\ Len(path) > 1 THEN 1 ELSE i + 1
  IN  IF i > Len(path) THEN [ret |-> 1, dir |-> "", toolong |-> toolong]
      ELSE IF path[i] \in found \ long THEN [ret |-> 0, dir |-> path[i], toolong |-> toolong]
      ELSE IF next = i THEN [ret |-> 2, dir |-> "", toolong |-> toolong]   \* no return
      ELSE SearchFrom(next, path, found, long,
                      IF path[i] \in long THEN toolong + 1 ELSE toolong)
search_path(path, found, long) == SearchFrom(1, path, found, long, 0)

\* One with a slash is looked for as it is.
search_path_slash(exists, fits) == IF exists /\ fits THEN 0 ELSE -1
=============================================================================
