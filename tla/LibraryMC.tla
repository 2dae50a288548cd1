------------------------------ MODULE LibraryMC ------------------------------
(***************************************************************************)
(* The libraries for TLC.  part says what a behaviour is about: one of the *)
(* six components that keep a state, or a function that is called once,   *)
(* with input.                                                             *)
(***************************************************************************)
EXTENDS TestResults, TmpDir, WriteLog, Forks, TestLoop,
        AsyncIo, RandomChoice, BufferPatterns, TextInputs, Reports, NumericTests, Helpers

VARIABLES part, input
libraryVars == <<resultVars, tmpVars, logVars, forkVars, loopVars, asyncVars>>

-----------------------------------------------------------------------------
(* What the components are given.                                          *)

Call0 == [call |-> "res", type |-> "TPASS", file |-> NoFile, mesg |-> "m", range |-> 1,
          wrapped |-> TRUE, start |-> 0, total |-> 0, func |-> FALSE]
MCReports == {
  Call0, [Call0 EXCEPT !.range = 2], [Call0 EXCEPT !.type = "TFAIL", !.wrapped = FALSE],
  [Call0 EXCEPT !.mesg = "other", !.wrapped = FALSE, !.range = 0],
  [Call0 EXCEPT !.file = "readable", !.wrapped = FALSE],
  [Call0 EXCEPT !.file = "unreadable", !.type = "TFAIL", !.wrapped = FALSE],
  [Call0 EXCEPT !.file = "missing", !.type = "TINFO", !.wrapped = FALSE, !.range = 2],
  [Call0 EXCEPT !.type = "TINFO"],
  [Call0 EXCEPT !.call = "brk", !.type = "TFAIL", !.func = TRUE],
  [Call0 EXCEPT !.call = "brk", !.type = "TPASS", !.wrapped = FALSE],
  [Call0 EXCEPT !.call = "brk", !.type = "TCONF"],
  [Call0 EXCEPT !.call = "brk", !.type = "TFAIL", !.range = 2],
  [Call0 EXCEPT !.call = "loop", !.type = "TRETR", !.start = 1, !.total = 2],
  [Call0 EXCEPT !.call = "loop", !.type = "TFAIL", !.start = -1, !.total = 2] }

MCObject ==
  [a |-> Object("dir", "file", FALSE), b |-> Object("dir", "file", TRUE),
   d |-> Object("dir", "directory", FALSE), e |-> Object("d", "file", TRUE),
   f |-> Object("d", "directory", FALSE), g |-> Object("f", "file", FALSE),
   u |-> Object("dir", "unreadable", FALSE), v |-> Object("u", "directory", FALSE), w |-> Object("v", "file", FALSE)]
MCContents ==
  {C \in SUBSET DOMAIN MCObject : \A o \in C : MCObject[o].parent \in C \cup {"dir"}}

MCCommands ==
  { <<>>, <<<<"i", 3>>>>, <<<<"i", 2>>, <<"P", 2>>>>, <<<<"I", 3>>>>,
    <<<<"I", 2>>, <<"i", 2>>, <<"P", 1>>>>, <<<<"i", 0>>>>, <<<<"c", 3>>, <<"p", 0>>>>,
    <<<<"f", 0>>, <<"i", -1>>>>, <<<<"I", 0>>>>, <<<<"I", -2>>, <<"i", 1>>>> }
MCEnvs ==
  { <<>>, [ITERATION |-> 2], [ITERATION |-> 0, NO_FUNC_CHECK |-> 1], [DURATION |-> 2],
    [DURATION |-> -2, DELAY |-> 1], [COPIES |-> 2, DELAY |-> -1] }
MCStarts == {-8, 0, 5}

\* No record, all of them, and fewer than the log has.
MCNrecs == {-1, 0, 2}

Ask(system, fds, masks) ==
  [system : {system}, op : {"write", "read"}, fd : fds, sig : BOOLEAN, mask : masks]
MCRequests ==
  Ask("CRAY", {"file"},
      { {SYNCV}, {ASYNC}, {ASYNC, USE_SIGNAL}, {ASYNC, ACTIVE}, {ASYNC, SIGACTIVE}, {SLISTIO, SIGACTIVE},
        {ALISTIO, SIGPAUSE}, {RANDOM, SYNC, ASYNC, SLISTIO, ALISTIO, ACTIVE, RECALL, SIGPAUSE, SIGACTIVE} })
  \cup
  Ask("sgi", {"file", "fifo", "bad"},
      { {ASYNC, RECALL}, {SYNCP}, {SYNCP, ASYNC, USE_SIGNAL}, {SYNCV, ASYNC, CBSUSPEND, SIGSUSPEND},
        {SYNCV, ALISTIO, SIGSUSPEND}, {SYNCV, SLISTIO, USE_SIGNAL}, {SYNCV, ASYNC, ACTIVE},
        {RANDOM, SYNC, ASYNC, SLISTIO, ALISTIO, SYNCV, SYNCP, ACTIVE, RECALL, SIGPAUSE, SIGACTIVE} })

-----------------------------------------------------------------------------
(* Inputs of functions, and what they are to return.                       *)

Ends == {0, 1, 4, 5, 7, 9, 20, 33}
RangeInputs == [range : Ends \X Ends, mult : 1 .. 3, draw : 0 .. LrandMax]
Multiples(r, mult) == {x \in 0 .. 33 : x % mult = 0 /\ \E i, j \in 1 .. 2 : r[i] <= x /\ x <= r[j]}
RangeRight(in) ==
  LET a == in.range[1]   b == in.range[2]
      all == Multiples(in.range, in.mult)
  IN  /\ RangeFails(a, b, in.mult) <=> all = {}
      /\ all # {} =>
           /\ random_range(a, b, in.mult, in.draw) \in all
           /\ random_rangel(a, b, in.mult, in.draw) \in all
           /\ random_rangell(a, b, in.mult, in.draw) \in all
           /\ Cardinality(all) <= LrandMax + 1 =>
                {random_range(a, b, in.mult, d) : d \in 0 .. LrandMax} = all

TextRanges == {<<Blank>>, <<Number(3)>>, <<Number(3), Blank>>, <<Blank, Number(5), Number(2)>>,
               <<Junk, Number(1)>>, <<Number(1), Number(2), Number(3), Number(4)>>}
RangesInputs == [ranges : {<<r>> : r \in TextRanges} \cup (TextRanges \X TextRanges)]
Default == [min |-> 1, max |-> 9, mult |-> 1]
RangesRight(in) ==
  LET r == parse_ranges(in.ranges, Default)
      t == SelectSeq(in.ranges, LAMBDA x : x # <<Blank>>)
  IN  r.n # -1 =>
        /\ Len(t) = r.n
        /\ \A i \in DOMAIN t : t[i] \in {<<Number(3)>>, <<Number(3), Blank>>, <<Blank, Number(5), Number(2)>>}
        /\ \A i \in DOMAIN t : r.ranges[i].min <= r.ranges[i].max /\ r.ranges[i].mult >= 1

MaskInputs == [mask : SUBSET {SYNC, ASYNC, SYNCV, SIGPAUSE, SIGACTIVE, RANDOM},
               drawn : {0, 1, LrandMax} \X {0, LrandMax}, moved : {-1, 3}]
MaskRight(in) ==
  LET m == Method(in.mask, in.drawn[1], in.drawn[2])
      r == lio_write_buffer(m, in.moved, 22)
  IN  /\ RANDOM \in in.mask =>
           /\ m \subseteq in.mask /\ RANDOM \notin m
           /\ \A types \in {IoTypes, WaitTypes} :
                Cardinality(m \cap types) = IF in.mask \cap types = {} THEN 0 ELSE 1
      /\ ASYNC \notin m => r = IF in.moved = -1 THEN -22 ELSE in.moved
      /\ lio_read_buffer(m, in.moved, 22) = r

WordInputs == [words : {<<w>> : w \in DOMAIN WordBits} \cup ((DOMAIN WordBits) \X {"sync", "random", "no"})]
WordRight(in) ==
  LET bits == lio_parse_io_arg2(in.words) IN
  /\ bits = {-1} <=> "no" \in {in.words[i] : i \in DOMAIN in.words}
  /\ \A l \in DOMAIN Letter : lio_parse_io_arg1(l) # {-1}
  /\ bits # {-1} => \A i \in DOMAIN in.words : WordBits[in.words[i]] \subseteq bits

StrideInputs == [stride : -4 .. 4, nstrides : 1 .. 3, size : 1 .. 3]
StrideRight(in) ==
  LET s    == IF in.stride = 0 THEN in.size ELSE in.stride
      r    == stride_bounds(20, in.stride, in.nstrides, in.size)
      hits == {20 + k * s + i : k \in 0 .. in.nstrides - 1, i \in 0 .. in.size - 1}
  IN  /\ r.min \in hits /\ r.max \in hits
      /\ \A h \in hits : r.min <= h /\ h <= r.max
      /\ r.n = r.max - r.min + 1

PatternInputs == [pat : UNION {[1 .. n -> {1, 2}] : n \in 1 .. 3}, shift : 0 .. 4, len : 0 .. 8]
PatternRight(in) ==
  LET buf == pattern_fill(in.pat, in.shift, in.len) IN
  /\ buf = [i \in 1 .. in.len |-> in.pat[((i - 1 + in.shift) % Len(in.pat)) + 1]]
  /\ pattern_check(buf, in.pat, in.shift) = 0
  /\ \A i \in 1 .. in.len : pattern_check([buf EXCEPT ![i] = 3], in.pat, in.shift) = -1

BinInputs == [bin : {"c", "C", "o", "z", "a", "r"}, offset : {0, 5, 54}, length : 1 .. 4]
BinRight(in) ==
  LET random == [i \in 1 .. in.length |-> 70 + i]
      list   == IF in.bin = "c" THEN <<>> ELSE <<7, 8, 9>>
      buf    == databingen(in.bin, in.length, in.offset, random)
      text   == dataasciigen(list, in.length, in.offset)
  IN  /\ databinchk(in.bin, buf, in.offset) = -1
      /\ dataasciichk(list, text, in.offset) = -1
      /\ \A i \in 1 .. in.length :
           /\ in.bin # "r" => databinchk(in.bin, [buf EXCEPT ![i] = 300], in.offset) = in.offset + i - 1
           /\ dataasciichk(list, [text EXCEPT ![i] = 300], in.offset) = in.offset + i - 1

TokenInputs == [tokens : UNION {[1 .. n -> {"", "x", "y"}] : n \in 0 .. 4}, slots : 0 .. 4]
TokensRight(in) ==
  LET r == string_to_tokens(in.tokens, in.slots) IN
  IF in.slots <= 1 THEN r.n = -1
  ELSE /\ r.array = FirstOf(NotEmpty(in.tokens), in.slots)
       /\ r.n = Len(r.array) /\ r.nullAt = r.n + 1

SizeInputs == [nconv : {-1, 0, 1, 2, 3}, num : 0 .. 40, letter : {"b", "k", "K", "m", "q"}]
SizeRight(in) ==
  LET exact == Bytes(in.nconv, in.num, in.letter) IN
  /\ str_to_llbytes(in.nconv, in.num, in.letter) = exact
  /\ in.num <= Mantissa =>
       /\ str_to_lbytes(in.nconv, in.num, in.letter) = exact
       /\ str_to_bytes(in.nconv, in.num, in.letter) = (IF exact \subseteq AnyInt THEN exact ELSE AnyInt)

FlagInputs == [flags : UNION {[1 .. n -> FlagNames] : n \in 0 .. 2}]
FlagsRight(in) ==
  LET bits == parse_open_flags(in.flags) IN
  /\ parse_open_flags(openflags2symbols(bits, 0)) = bits
  /\ parse_open_flags(in.flags \o <<"O_NONE">>) = {-1}
  /\ {0, 1} \subseteq bits \/ openflags2symbols(bits \cup {9}, 1) = openflags2symbols(bits, 0) \o <<"UNKNOWN">>

PathInputs == [path : UNION {[1 .. n -> {"", "d", "e"}] : n \in 1 .. 3},
               found : SUBSET {"", "d", "e"}, long : {{}, {"d"}}]
PathRight(in) ==
  LET r == search_path(in.path, in.found, in.long)
      hits == {i \in DOMAIN in.path : in.path[i] \in in.found \ in.long}
  IN  in.path[1] # "" =>
        /\ r.ret = IF hits = {} THEN 1 ELSE 0
        /\ hits # {} => r.dir = in.path[CHOOSE i \in hits : \A j \in hits : i <= j]

-----------------------------------------------------------------------------

IntInputs == [int : 0 .. Word - 1, turns : 0 .. 2]
IntsRight(in) ==
  /\ \A add \in {add_long(in.int, (-in.int) % Word, in.turns), add_int(in.int, (-in.int) % Word, in.turns),
                 add_short(in.int, (-in.int) % Word, in.turns)} :
       add = Start(0, in.int, (-in.int) % Word)
  /\ \A r \in {mul_long(in.int, 1, 1, in.turns), mul_int(in.int, 1, 1, in.turns), mul_short(in.int, 1, 1, in.turns),
               div_long(in.int, 1, 1, in.turns), div_int(in.int, 1, 1, in.turns), div_short(in.int, 1, 1, in.turns)} :
       r = Start(in.int, 1, 1)

FieldInputs == [elements : (1 .. Prime - 1) \X (1 .. Prime - 1)]
Power(x, n) == FoldLeft(LAMBDA p, i : Times(p, x), 1, [i \in 1 .. n |-> i])
FieldRight(in) ==
  LET x == in.elements[1]   y == in.elements[2] IN
  /\ add_double(x, (-x) % Prime, 2) = Start(0, x, (-x) % Prime)
  /\ add_float(x, (-x) % Prime, 2) = Start(0, x, (-x) % Prime)
  /\ Times(x, y) = 1 =>
       \A r \in {mul_double(x, y, 2), mul_float(x, y, 2), div_double(x, y, 2), div_float(x, y, 2)} :
         r = Start(1, x, y)
  /\ mul_double(x, y, 1).d = Power(Times(x, y), 8)

ArrayInputs ==
  [array : [1 .. 2 -> [1 .. 3 -> Field]]
           \cup {[i \in 1 .. 3 |-> a[i] \o <<i>>] : a \in [1 .. 3 -> [1 .. 3 -> 0 .. 1]]}]
Kernel(a, k) ==
  {v \in [1 .. k -> Field] : \A i \in 1 .. k : Dot(SubSeq(a[i], 1, k), v) = 0}
ArrayRight(in) ==
  LET a == in.array
      n == Len(a)
  IN  /\ solve_array(a) = <<>> <=> \E k \in 1 .. n : Cardinality(Kernel(a, k)) > 1
      /\ array_rtns(a) = IF solve_array(a) = <<>> THEN -1 ELSE 0
      /\ solve_array(a) # <<>> => matrix_rtns(solve_array(a), [i \in 1 .. n |-> SubSeq(a[i], 1, n)]) = [i \in 1 .. n |-> Last(a[i])]

OpSizes == <<1, 3, 5, 7, 9, 11, 33, 65, 129, 1024, 1025, 1023, 8192, 4096, 4095>>
CopySizes == <<1, 2, 3, 4, 5, 6, 7, 63, 127, 1500, 2048, 32768, 65536, 512>>
TurnInputs == [turn : 0 .. 99]
TurnsRight(in) ==
  /\ mem_rtns_2(in.turn, OpSizes, 8) \subseteq 0 .. 8192 + 8 - 1
  /\ ram_copy(in.turn, CopySizes, 8) \subseteq 0 .. 65536 + 8 - 1

\* Every one makes 512 calls in each of its 1000 turns, as many as it is registered for.
CallInputs == [calls : 0 .. 20]
CallsRight(in) ==
  LET all == 512 * in.calls IN
  /\ fun_cal(in.calls, 1, 0) = all
  /\ 2 * fun_cal1(in.calls, 0) = all * (in.calls - 1)
  /\ fun_cal2(in.calls, 1, 1, 0) = 2 * all
  /\ fun_cal15(in.calls, 1, 0) = 2 * all
  /\ sort_rtns_1(10 * in.calls, 10) = in.calls

DrawInputs == [draws : [1 .. 2 -> [1 .. 3 -> 0 .. 3]]]
DrawsRight(in) == {scramble(<<"a", "b", "c">>, in.draws)[i] : i \in 1 .. 3} = {"a", "b", "c"}

\* Every seed comes up again and again, whatever it is started with.
SeedInputs == [word : {Word}]
SeedRight(in) ==
  LET seed[n \in Nat] == IF n = 0 THEN 1 ELSE NextSeed(seed[n - 1]) IN
  /\ {seed[n] : n \in 0 .. Word - 1} = 0 .. Word - 1
  /\ {aim_rand(s, 4) : s \in 0 .. Word - 1} = 0 .. (Word \div 4) - 1
  /\ \A s \in 0 .. Word - 1 : aim_rand2(s, 4) = aim_rand(s, 4)

-----------------------------------------------------------------------------
(* The tests as they are registered, and those of numbers and strings.     *)

\* These do not perform what their results are multiplied by: a loop that counts down
\* before it looks ends one turn early, the sorts advance by five, and the factor of
\* ram_copy was counted elsewhere.
Miscounted == {"ram_copy", "sort_rtns_1"} \cup Names(Tail(pipe_test_c))
TestInputs == [test : {"row"}, item : Range(global_list(source_files))]
ListInputs == [list : {SubSeq(workfile_alltests, 1, 36), SubSeq(workfile_alltests, 37, 63), Hits(1, <<"sieve", "no_such_test", "add_int">>), Hits(0, <<"sieve">>)}]
TestRight(in) ==
  LET it == in.item IN
  /\ Cardinality(Named(global_list(source_files), it.name)) = 1 /\ it.hits = 0
  /\ it.factor # WAITING_FOR_DISK_COUNT => (it.factor # Performed(it.name, it.loops) <=> it.name \in Miscounted)
  /\ it.name \in Names(Tail(pipe_test_c)) => Performed(it.name, it.loops) = it.factor - 1
ListRight(in) ==
  LET lines == in.list
      read  == read_workfile(global_list(source_files), lines)
      last(name) == {lines[i].hits : i \in {i \in DOMAIN lines :
                       lines[i].name = name /\ \A j \in DOMAIN lines : lines[j].name = name => j <= i}}
  IN  /\ read.exit <=> "no_such_test" \in Names(lines)
      /\ ~read.exit =>
           /\ read.total_work = Len(lines)
           /\ read.total_hits = FoldSet(LAMBDA i, sum : sum + lines[i].hits, 0, DOMAIN lines)
           /\ \A i \in DOMAIN read.list :
                read.list[i].hits \in (IF last(read.list[i].name) = {} THEN {0} ELSE last(read.list[i].name))

\* The files of a session: its repeats, beside the file that an earlier session has left.
MCPoints == {<<>>, <<[users |-> 1, jpm |-> 5]>>, <<[users |-> 1, jpm |-> 3], [users |-> 2, jpm |-> 4]>>,
             <<[users |-> 2, jpm |-> 6], [users |-> 3, jpm |-> 2]>>}
SessionInputs ==
  [runs : UNION {[1 .. n -> MCPoints] : n \in 1 .. 3}, prefix : {"reaim", "multiuser"}, brief : BOOLEAN,
   old : {<<>>, <<"old">>}]
SessionRight(in) ==
  LET dir0 == IF in.old = <<>> THEN <<>> ELSE logfile :> in.old
      dir  == MultiUserSession(dir0, in.prefix, in.brief, in.runs)
      last == Len(in.runs)
      of(file, n) == Lines(dir, <<file[1], file[2], IF n = last THEN 0 ELSE n>>)
      csv  == Prefixed(in.prefix, "csv")
  IN  /\ of(csv, last) = <<"header">> \o in.runs[last]
      /\ \A n \in 1 .. last :
           /\ of(logfile, n) = (IF n = 1 THEN in.old ELSE <<>>) \o in.runs[n]
           /\ n < last => of(csv, n) = IF in.prefix = "multiuser" THEN <<"header">> \o in.runs[n] ELSE <<>>
           /\ of(stpmdata, n) = IF in.brief THEN <<"header">> \o in.runs[n] ELSE <<>>
           /\ of(maxjobs, n) = IF in.brief THEN <<Peak(in.runs[n])>> ELSE <<>>
           /\ of(stphdata, n) = IF in.brief THEN <<"table">> \o in.runs[n] \o <<Peak(in.runs[n]), "end of table">> ELSE <<>>
      /\ Lines(dir, Prefixed(in.prefix, "log")) = <<"header">>

MCItems ==
  LET list == global_list(source_files)
      item(name, hits, trouble) ==
        [hits |-> hits, trouble |-> trouble, count |-> 4, delta |-> 2000]
          @@ list[CHOOSE i \in DOMAIN list : list[i].name = name]
  IN  {<<item("sieve", 1, FALSE), item("disk_rr", hits, TRUE), item(name, 1, FALSE)>> :
         hits \in {0, 1}, name \in {"sync_disk_rw", "disk_cp", "add_int"}}
SingleInputs == [items : UNION {[1 .. n -> MCItems] : n \in 1 .. 2}, single : BOOLEAN]
SingleRight(in) ==
  LET dir  == SingleUserSession(<<>>, in.single, 10, in.items)
      last == Len(in.items)
      ops(item) == 2 * (CASE item.name = "sieve" -> 5 [] item.name = "sync_disk_rw" -> 5
                          [] item.name = "disk_cp" -> 10 [] OTHER -> 5000 * OPS_PER_LOOP)
      line(item, n) == [testnum |-> n, name |-> item.name, count |-> 4, ops |-> ops(item)]
  IN  \A n \in 1 .. last :
        LET k     == IF n = last THEN 0 ELSE n
            lines == <<line(in.items[n][1], 1), line(in.items[n][3], 2)>>
        IN  /\ Lines(dir, <<"singleuser", "ss", k>>) = <<"header">> \o lines \o <<"finish">>
            /\ Lines(dir, <<"stp_sdata", "html", k>>) =
                 IF in.single THEN <<"table">> \o lines \o <<"end of table">> ELSE <<>>

\* The variance is that of all pairs of times.
TimesInputs == [times : UNION {[1 .. n -> {0, 1, 2, 10}] : n \in 1 .. 4}]
TimesRight(in) ==
  LET t == in.times
      pairs == {p \in (DOMAIN t) \X (DOMAIN t) : p[1] < p[2]}
      spread == FoldSet(LAMBDA p, s : s + (t[p[1]] - t[p[2]]) * (t[p[1]] - t[p[2]]), 0, pairs)
  IN  /\ spread = Spread(t) /\ jti(t) \in -99 .. 100
      /\ jti(t) = 100 <=> \A i, j \in DOMAIN t : t[i] = t[j]
      /\ Len(t) <= 2 => jti(t) >= 0
      /\ jti(t) < 0 => Spread(t) > SumOf(t) * SumOf(t) /\ Spread(t) < 4 * SumOf(t) * SumOf(t)

ValueInputs == [numvals : 3 .. Places + 3]
ValueRight(in) ==
  /\ Len(vals(in.numvals)) = in.numvals
  /\ \A i \in 2 .. in.numvals : vals(in.numvals)[i] # None
  /\ \A n \in 0 .. 5 : next_value(vals(in.numvals), n) = next_value(vals(in.numvals), n + in.numvals)

GuessInputs == [step : [0 .. 2 -> 0 .. 2], tries : 1 .. 4,
                near : {{}, {<<0, 0>>}, {<<1, 2>>}, {<<1, 1>>, <<2, 0>>}}]
GuessRight(in) ==
  LET guess[k \in Nat] == IF k = 0 THEN 0 ELSE in.step[guess[k - 1]] IN
  newton_raphson(in.step, in.near, <<0>>, in.tries) = 0
    <=> \E k \in 1 .. in.tries - 1 : <<guess[k], guess[k - 1]>> \in in.near

CircleInputs == [circle : {p \in Field \X Field : Plus(Times(p[1], p[1]), Times(p[2], p[2])) = 1}]
CircleRight(in) ==
  LET s == in.circle[1]   c == in.circle[2] IN
  Plus(Times(f_prime(s, c), f_prime(s, c)), Times(4, Times(f(s, c), f(s, c)))) = Times(1000, 1000)

\* The sine of the first values of vals[], in ten-thousandths.
SineTable == { <<0, 0>>, <<1, 1>>, <<1250, 1247>>, <<2500, 2474>>, <<5000, 4794>>, <<10000, 8415>> }
SineInputs == [sine : SineTable]
SineRight(in) ==
  /\ series_1(in.sine[1], in.sine[2]) = 0
  /\ series_1(in.sine[1], in.sine[2] + 3) = -1 /\ series_1(in.sine[1], in.sine[2] - 3) = -1

StringInputs == [strings : 0 .. 3, bumps : {0, 1, 1200}]
StringRight(in) ==
  /\ AllDefined(num_rtns_1) /\ AllDefined(trig_rtns)
  /\ \A catbuf \in {8, 10, 17, 18, 31} : {strcat_loop(1024, catbuf), strncat_loop(1024, catbuf)} \subseteq 1024 - catbuf .. 1023
  /\ string_rtns_1(in.strings, in.bumps) = {0}
  /\ jmp_test(in.strings) = 0

PidInputs == [pid : {258, 65540}, at : {0, 3, 8, 261}, size : 1 .. 20]
PidRight(in) ==
  LET buf  == datapidgen(in.pid, in.size, in.at)
      word == in.at + PidHead(in.size, in.at) .. in.at + PidHead(in.size, in.at) + PidFull(in.size, in.at) - 1
  IN  /\ \A i \in 1 .. in.size :
           LET pos == in.at + i - 1 IN
           /\ buf[i] = PidWord(in.pid, pos - (pos % NBPW))[(pos % NBPW) + 1]
           /\ datapidchk(in.pid, [buf EXCEPT ![i] = 300], in.at) =
                IF pos \in word THEN pos - (pos % NBPW) ELSE pos
      /\ Len(buf) = in.size /\ datapidchk(in.pid, buf, in.at) = -1

-----------------------------------------------------------------------------
(* Helpers.                                                                *)

\* A child that is told to end by SIGTERM or SIGSEGV removes the work files and goes on.
Ending == {"HUP", "ALRM", "KILL", "SYS"}
SentInputs ==
  [sent : UNION {[1 .. n -> {"TERM", "HUP", "ALRM", "SEGV", "CHLD", "INT", "KILL", "SYS"}] : n \in 1 .. 3}]
SentRight(in) ==
  LET child  == AfterSignals(tst_sig(TRUE, 1), [s \in tst_sig(TRUE, 1) |-> child_sighandler(s)], in.sent)
      other  == AfterSignals(tst_sig(FALSE, 1), [s \in tst_sig(FALSE, 1) |-> def_handler(s, TRUE)], in.sent)
      ended  == {i \in DOMAIN in.sent : in.sent[i] \in Ending}
      before == {i \in DOMAIN in.sent : \A j \in ended : i < j}
  IN  /\ child.ended <=> ended # {}
      /\ child.told # {} <=> ended # {} /\ in.sent[Min(ended)] = "HUP"
      /\ child.cleaned <=> \E i \in before : in.sent[i] \in {"TERM", "SEGV"}
      /\ other.ended /\ (other.cleaned <=> in.sent[1] \notin {"KILL", "SYS"})
      /\ parent_sighandler(in.sent[1]) = Nothing

\* One that is not to wait goes on for as long as the lock is held, and one that is to wait
\* gives up when a signal interrupts it: the other way round than the comment says.
LockInputs ==
  [lock : SUBSET Flags, answers : UNION {[1 .. n -> {"ok", "EACCES", "EINTR", "EBADF"}] : n \in 1 .. 3}]
LockRight(in) ==
  LET r == file_lock(in.lock, in.answers)
      nb == "LOCK_NB" \in in.lock
  IN  IF in.lock \subseteq {"LOCK_NB"} THEN r.ret = -1 /\ r.calls = 0
      ELSE /\ r.ret = 0 => in.answers[r.calls] = "ok"
           /\ r.ret = -1 /\ nb => in.answers[r.calls] = "EBADF"
           /\ r.ret = Looping <=> nb /\ Range(in.answers) \subseteq Okay
           /\ ~nb => r.calls = 1
           /\ \A i \in 1 .. r.calls - 1 : in.answers[i] \in Okay
           /\ record_lock(in.lock, 7, 2, in.answers) = [r EXCEPT !.range = <<7, 2>>]

\* As long as a thousand times the ticks fit in a word, whether times() wraps round or not.
TwentyBits == 1048576
ClockInputs == [begun : {0, 7, TwentyBits \div 2 - 3}, passed : {0, 1, 99, 523, 524, 600}, hz : {100, 250, 1000, 1024}]
ClockRight(in) ==
  LET ms == (1000 * in.passed) \div in.hz
      kids == [cutime |-> in.begun, cstime |-> in.passed]
  IN  /\ in.hz = 1000 \/ in.passed <= 524 =>
           timedelta(in.begun + in.passed, timestamp(in.begun, TwentyBits), in.hz, TwentyBits) = ms
      /\ LET reset == rtmsec(3, TRUE, in.begun, in.hz)
         IN  rtmsec(reset.epoch, FALSE, in.begun + in.passed, in.hz).retval = IF in.begun = 0 THEN 0 ELSE ms
      /\ <<child_uticks(kids), child_sticks(kids)>> = <<in.begun, in.passed>>

FakehInputs ==
  [have : SUBSET {"a", "b", "c"}, places : SUBSET {"cwd/data", "/usr/local/share/reaim"},
   fails : SUBSET {"a", "b", "c"}, cwd : BOOLEAN]
FakehRight(in) ==
  LET dirs   == <<"a", "b", "c">>
      first  == create_fakeh(dirs, in.have, in.places, in.cwd, in.fails)
      second == create_fakeh(dirs, first.fakeh, in.places, in.cwd, {})
  IN  /\ first.ret = 0 => first.fakeh = Range(dirs)
      /\ in.have \subseteq first.fakeh /\ first.fakeh \cap in.fails \subseteq in.have
      /\ in.cwd /\ in.places # {} => second = [ret |-> 0, fakeh |-> Range(dirs)]
      /\ first.ret = 0 <=> in.cwd /\ in.places # {} /\ in.fails \subseteq in.have

ReduceInputs == [wlist : [1 .. 3 -> 0 .. 2]]
ReduceRight(in) ==
  LET left == {i \in 1 .. 3 : in.wlist[i] # 0} IN
  {reduce_list(in.wlist, n) : n \in 0 .. 5} = IF left = {} THEN {"exit"} ELSE left

HookInputs == [hooks : UNION {[names -> {-1, 0, 2}] : names \in SUBSET {"TP_BARRIER", "LP_SBRK"}}]
HookRight(in) ==
  \A name \in HookNames :
    /\ Hooks(in.hooks)[name] >= 0
    /\ name \notin Barriers /\ Hooks(in.hooks)[name] # 0 => in.hooks[name] = Hooks(in.hooks)[name]

-----------------------------------------------------------------------------

NoInput == [none |-> 0]
Inputs ==
  UNION {RangeInputs, RangesInputs, MaskInputs, WordInputs, StrideInputs, PatternInputs, BinInputs,
         TokenInputs, SizeInputs, FlagInputs, PathInputs, IntInputs, FieldInputs, ArrayInputs,
         TurnInputs, CallInputs, DrawInputs, SeedInputs, TestInputs, ListInputs, ValueInputs,
         GuessInputs, CircleInputs, SineInputs, StringInputs, PidInputs,
         SessionInputs, SingleInputs, TimesInputs, SentInputs, LockInputs, ClockInputs,
         FakehInputs, ReduceInputs, HookInputs}

Parts == {"results", "tmpdir", "log", "forks", "loop", "async", "function"}
LibraryInit ==
  /\ part \in Parts
  /\ ResultsInit /\ (part = "results" \/ env = "VERBOSE")
  /\ TmpInit /\ (part = "tmpdir" \/ (testdir = "unset" /\ ~relative))
  /\ WlogInit
  /\ ForkInit /\ (part = "forks" \/ (mode = 0 /\ ncopies = 1))
  /\ LoopInit /\ (part = "loop" \/ (command = [line |-> <<>>, env |-> <<>>] /\ start = 0))
  /\ AsyncInit /\ (part = "async" \/ request = [system |-> "sgi", op |-> "read", fd |-> "bad", sig |-> FALSE, mask |-> {SYNCP}])
  /\ input \in IF part = "function" THEN Inputs ELSE {NoInput}

LibraryNext ==
  /\ UNCHANGED <<part, input>>
  /\ \/ part = "results" /\ ResultsNext /\ UNCHANGED <<tmpVars, logVars, forkVars, loopVars, asyncVars>>
     \/ part = "tmpdir" /\ TmpNext /\ UNCHANGED <<resultVars, logVars, forkVars, loopVars, asyncVars>>
     \/ part = "log" /\ WlogNext /\ UNCHANGED <<resultVars, tmpVars, forkVars, loopVars, asyncVars>>
     \/ part = "forks" /\ ForkNext /\ UNCHANGED <<resultVars, tmpVars, logVars, loopVars, asyncVars>>
     \/ part = "loop" /\ LoopNext /\ UNCHANGED <<resultVars, tmpVars, logVars, forkVars, asyncVars>>
     \/ part = "async" /\ AsyncNext /\ UNCHANGED <<resultVars, tmpVars, logVars, forkVars, loopVars>>

LibrarySpec == LibraryInit /\ [][LibraryNext]_<<part, input, libraryVars>>

\* Random choices are within what was asked for, all of it can come up, and the names
\* of methods, flags, sizes, tokens and directories mean what they say; what a buffer is
\* filled with passes its check, and a byte that is changed does not.  The loops of add.c,
\* mul.c and div.c are stable for exact reciprocals, as their comments say; array_rtns()
\* solves every system none of whose leading minors is 0; block moves stay in their
\* buffers; the calls are as many as are counted; and the generator of random numbers has
\* no cycle that leaves out a seed.  A workfile leaves each test with the hits of its last
\* line, and every test but those named performs the operations its result is multiplied
\* by; the table of numbers is filled to its end without starting over, and no test of
\* num_fcns.c leaves the domain of a function, its buffer or the right answer.  The files
\* of a repeat have its load points and tests and no others, but for the file of an earlier
\* session and the rates that are lost with their prefix; a child ends by few signals;
\* clocks tell the time that has passed; and create_fakeh() can be called again.
FunctionsRight ==
  LET is(field) == field \in DOMAIN input IN
  /\ is("range")   => RangeRight(input)
  /\ is("ranges")  => RangesRight(input)
  /\ is("mask")    => MaskRight(input)
  /\ is("words")   => WordRight(input)
  /\ is("stride")  => StrideRight(input)
  /\ is("pat")     => PatternRight(input)
  /\ is("bin")     => BinRight(input)
  /\ is("tokens")  => TokensRight(input)
  /\ is("nconv")   => SizeRight(input)
  /\ is("flags")   => FlagsRight(input)
  /\ is("path")    => PathRight(input)
  /\ is("int")      => IntsRight(input)
  /\ is("elements") => FieldRight(input)
  /\ is("array")    => ArrayRight(input)
  /\ is("turn")     => TurnsRight(input)
  /\ is("calls")    => CallsRight(input)
  /\ is("draws")    => DrawsRight(input)
  /\ is("word")     => SeedRight(input)
  /\ is("test")     => TestRight(input)
  /\ is("list")     => ListRight(input)
  /\ is("runs")     => SessionRight(input)
  /\ is("items")    => SingleRight(input)
  /\ is("times")    => TimesRight(input)
  /\ is("numvals")  => ValueRight(input)
  /\ is("step")     => GuessRight(input)
  /\ is("circle")   => CircleRight(input)
  /\ is("sine")     => SineRight(input)
  /\ is("strings")  => StringRight(input)
  /\ is("pid")      => PidRight(input)
  /\ is("sent")     => SentRight(input)
  /\ is("lock")     => LockRight(input)
  /\ is("begun")    => ClockRight(input)
  /\ is("have")     => FakehRight(input)
  /\ is("wlist")    => ReduceRight(input)
  /\ is("hooks")    => HookRight(input)

=============================================================================
