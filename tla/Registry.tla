------------------------------ MODULE Registry ------------------------------
(***************************************************************************)
(* The tests as main() knows them: what the functions of files.h register, *)
(* what a workfile asks for, and how many operations a run of a test makes *)
(* of those that its result is multiplied by.                              *)
(***************************************************************************)
EXTENDS Kernels

\* The loops that a test is registered with, and the factor of its result.  A test in a
\* directory has no number of loops; what a disk test moves, singleuser() puts in place of
\* its factor.
Row(name, loops, factor) == [name |-> name, loops |-> loops, factor |-> factor]
Rows(names, loops, factor) == [i \in DOMAIN names |-> Row(names[i], loops, factor)]
DISKS == 0
WAITING_FOR_DISK_COUNT == -99
OPS_PER_LOOP == 12

ram_c == <<Row("ram_copy", 100, 25020)>>
add_c ==
  << Row("add_double", 1500000, 1500 * OPS_PER_LOOP), Row("add_float", 1000000, 1000 * OPS_PER_LOOP),
     Row("add_long", 5000000, 5000 * OPS_PER_LOOP), Row("add_int", 5000000, 5000 * OPS_PER_LOOP),
     Row("add_short", 2000000, 2000 * OPS_PER_LOOP) >>
LINK_LOOP == 9
THE_LINK_MAX == 8
creat_clo_c ==
  << Row("creat_clo", DISKS, 1000), Row("page_test", 100, 1700), Row("brk_test", 1000, 17000),
     Row("jmp_test", 1000, 1000), Row("signal_test", 1000, 1000), Row("exec_test", 5, 5),
     Row("fork_test", 100, 100), Row("link_test", DISKS, LINK_LOOP * (THE_LINK_MAX - 1)) >>
div_c ==
  Rows(<<"div_double", "div_float">>, 250000, 250 * OPS_PER_LOOP)
    \o Rows(<<"div_long", "div_int", "div_short">>, 75000, 75 * OPS_PER_LOOP)
\* With socketpair().
pipe_test_c ==
  << Row("shared_memory", DISKS, 100), Row("tcp_test", 90, 90) >>
    \o Rows(<<"udp_test", "stream_pipe", "dgram_pipe", "pipe_cpy", "fifo_test">>, 100, 100)
mul_c ==
  Rows(<<"mul_double", "mul_float">>, 1000000, 1000 * OPS_PER_LOOP)
    \o Rows(<<"mul_long", "mul_int">>, 20000, 20 * OPS_PER_LOOP)
    \o <<Row("mul_short", 25000, 25 * OPS_PER_LOOP)>>
num_fcns_c ==
  << Row("num_rtns_1", 100, 100), Row("new_raph", 200, 200), Row("trig_rtns", 100, 10000),
     Row("matrix_rtns", 100, 100), Row("array_rtns", 20, 20), Row("string_rtns", 100, 100),
     Row("mem_rtns_1", 100, 30000), Row("mem_rtns_2", 100, 100), Row("sort_rtns_1", 10, 10),
     Row("misc_rtns_1", 10, 10), Row("dir_rtns_1", 100, 10000) >>
    \o Rows(<<"shell_rtns_1", "shell_rtns_2", "shell_rtns_3">>, 9, 1)
    \o <<Row("series_1", 100, 100)>>
int_fcns_c == <<Row("sieve", 5, 5)>>
disk1_c ==
  Rows(<<"disk_rr", "disk_rw", "disk_rd", "disk_wrt", "disk_cp", "sync_disk_rw", "sync_disk_wrt",
         "sync_disk_cp", "sync_disk_update", "disk_dio_rr", "disk_dio_rw", "disk_dio_rd",
         "disk_dio_wrt", "disk_dio_cp", "disk_brr", "disk_brw", "disk_brd", "disk_bwrt",
         "disk_bcp">>, DISKS, WAITING_FOR_DISK_COUNT)
disk_src_c == <<Row("disk_src", DISKS, 75)>>
\* The loops of these are constants.
fun_c == Rows(<<"fun_cal", "fun_cal1", "fun_cal2", "fun_cal15">>, 1000, 512000)

funcal_c == <<>>

source_files ==
  <<ram_c, add_c, creat_clo_c, div_c, pipe_test_c, mul_c, num_fcns_c, int_fcns_c, disk1_c,
    disk_src_c, fun_c, funcal_c>>

-----------------------------------------------------------------------------
(* The list of tests, and the lines of a workfile.                         *)

\* Every one goes to the end of the list.
register_test(row) == row @@ [hits |-> 0]
global_list(files) ==
  LET rows == FlattenSeq(files) IN [i \in DOMAIN rows |-> register_test(rows[i])]

\* The first item of that name gets the hits of the line.
Named(list, s) == {i \in DOMAIN list : list[i].name = s}
check_name(list, s, hits) ==
  LET i == CHOOSE i \in Named(list, s) : \A j \in Named(list, s) : i <= j IN
  IF Named(list, s) = {} THEN list ELSE [list EXCEPT ![i].hits = hits]

\* The first test that is not registered ends the program.
ReadTest(read, line) ==
  IF read.exit \/ Named(read.list, line.name) = {} THEN [read EXCEPT !.exit = TRUE]
  ELSE [list |-> check_name(read.list, line.name, line.hits), exit |-> FALSE,
        total_hits |-> read.total_hits + line.hits, total_work |-> read.total_work + 1]
read_workfile(list, lines) ==
  LET read[n \in 0 .. Len(lines)] ==
        IF n = 0 THEN [list |-> list, total_hits |-> 0, total_work |-> 0, exit |-> FALSE]
        ELSE ReadTest(read[n - 1], lines[n])
  IN  read[Len(lines)]

Hits(h, names) == [i \in DOMAIN names |-> [name |-> names[i], hits |-> h]]
workfile_alltests ==
  Hits(30, <<"add_double", "add_float", "add_long", "add_int", "add_short">>)
  \o Hits(10, <<"creat_clo", "array_rtns", "brk_test", "dgram_pipe", "dir_rtns_1", "div_double",
                "div_float", "div_long", "div_int", "div_short">>)
  \o Hits(20, <<"exec_test">>)
  \o Hits(10, <<"fork_test", "jmp_test", "link_test", "matrix_rtns", "mem_rtns_1", "mem_rtns_2",
                "misc_rtns_1">>)
  \o Hits(20, <<"mul_double", "mul_float", "mul_long", "mul_int", "mul_short">>)
  \o Hits(10, <<"new_raph", "num_rtns_1", "page_test", "pipe_cpy", "ram_copy", "series_1",
                "shared_memory">>)
  \o Hits(20, <<"shell_rtns_1">>) \o Hits(10, <<"signal_test">>) \o Hits(30, <<"sieve">>)
  \o Hits(20, <<"string_rtns">>) \o Hits(10, <<"fifo_test", "sort_rtns_1", "stream_pipe">>)
  \o Hits(30, <<"string_rtns">>)
  \o Hits(10, <<"tcp_test", "trig_rtns", "udp_test", "shell_rtns_2", "shell_rtns_3">>)
  \o Hits(20, <<"disk_rr", "disk_rw", "disk_rd", "disk_wrt", "disk_cp", "disk_brr", "disk_brw",
                "disk_brd", "disk_bwrt", "disk_bcp", "sync_disk_rw", "sync_disk_wrt",
                "sync_disk_cp", "sync_disk_update", "disk_src">>)

-----------------------------------------------------------------------------
(* What one run of a test performs, in the units of its factor.            *)

MAXSTRINGS == 100
MFILES     == 75
Thousands(loops, assignments) == (loops * Len(assignments)) \div 1000
\* while (--loops > 0).
Messages(loops) == loops - 1
\* Three sorts and a search in every turn, which advances by five.
Sorts(loops) == 4 * ((loops + 4) \div 5)
\* One piece of memory given back, sixteen taken.
BreakCalls(loops) == loops * (1 + 16)

Names(file) == {file[i].name : i \in DOMAIN file}
Performed(name, loops) ==
  CASE name \in Names(add_c)                 -> Thousands(loops, Additions)
    [] name \in {"mul_double", "mul_float"}  -> Thousands(loops, Additions)
    [] name \in {"mul_long", "mul_int", "mul_short"} -> Thousands(loops, Multiplications)
    [] name \in {"div_double", "div_float"}  -> Thousands(loops, Divisions)
    [] name \in {"div_long", "div_int", "div_short"} -> Thousands(loops, IntDivisions)
    [] name \in Names(fun_c)                 -> loops * fun_cal(1, 1, 0)
    [] name = "creat_clo"                    -> 1000
    [] name \in {"page_test", "brk_test"}    -> BreakCalls(loops)
    [] name = "link_test"                    -> LINK_LOOP * (THE_LINK_MAX - 1)
    [] name = "shared_memory"                -> 100
    [] name \in Names(Tail(pipe_test_c))     -> Messages(loops)
    [] name \in {"trig_rtns", "dir_rtns_1"}  -> 100 * loops
    [] name = "mem_rtns_1"                   -> 3 * MAXSTRINGS * loops
    [] name = "sort_rtns_1"                  -> Sorts(loops)
    [] name \in {"shell_rtns_1", "shell_rtns_2", "shell_rtns_3"} -> 1
    [] name = "disk_src"                     -> MFILES
    [] OTHER                                 -> loops
=============================================================================
