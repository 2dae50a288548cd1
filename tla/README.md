# A TLA+ model of Re-AIM (areaim)

Re-AIM is the OSDL port of the AIM7 and AIM9 benchmarks. In a *multiuser* run it
forks, for one *load point* after another, a growing number of simulated users;
every user runs a random mix of small tests drawn from a *workfile*, and the
program reports the throughput of each load point. In a *single user* run it
times each test alone. The program is `src/osdl-aim-7/`; names of files below are
relative to its `src/` unless they say otherwise, `lib/` is its copy of libltp.

Contents: 1 inventory, 2 plan, 3 modules, 4 runs, 5 fairness, 6 proofs,
7 findings, 8 observations, 9 what is not modelled.

## 1. Inventory

| Part | Where | State | Operations | Interacts through | Modules |
|---|---|---|---|---|---|
| Options, configuration | `driver.c` main, `read_config_file()` | `invars`, flags | parse, precedence | `invars` | Options |
| Registry, workfile | `files.h`, `register_test()`, `check_name()` | `global_list`, hits | register, read a line | linked list | Registry, WorkList |
| User ramp | `multiuser()`, `adjust_adaptive_timer()` | `runnum`, `incr`, last five rates | next load point, stop rules | `runloop()`, work files | MultiUser, Ramp |
| **Load point** | `runloop()`, `lib/forker.c`, `lib/tst_sig.c`, handlers | `kids_forked`, `num_children`, pipe, process group | fork, barrier, gun, alarm, wait, report, kill all | pipe, signals, wait() | RunLoop, LoadPoint |
| **Test mix** | `runloop()` 832-876, 957-1046, `aiml_*()` | `wlist`, loads, `procs_per_user` | allot, draw, remove | random numbers | WorkList |
| Single user run | `singleuser()` | `flag`, `count`, `trouble` | timed loop per test | SIGALRM | SingleUser |
| Result files | `drv_funcs.c` | log, csv, html files | header, append, rename | names of files | MultiUser, SingleUser, Reports |
| Work files | `disk_funcs.c` | `fn1arr`, `fn2arr`, fakeh | create, unlink | disk tests | MultiUser, Helpers |
| Disk tests | `disk1.c` | descriptors, temporary names | 19 tests | work files, `fn2` | DiskTests, TestRunner |
| Asynchronous disk tests | `disk1.c` with MARCIA | iocb pool, `aio_inflight` | submit, collect | the tests of one process | AioPool |
| Pipe, socket, IPC tests | `pipe_test.c` | descriptors, `sem`, `shmid` | transfers, shared memory | `clear_ipc()` in handlers | SystemTests, TestRunner |
| Process and file tests | `creat_clo.c` | children, break, links | fork, exec, link | wait() | SystemTests, TestRunner |
| Directory search | `disk_src.c` | two lists of names | load, search, free | heap | SystemTests |
| Kernels, random numbers | `add.c` ... `num_fcns.c`, `rand.c` | two seeds | arithmetic | results | Kernels, NumericTests |
| Clocks | `times_ms.c`, `driver.c` | epoch | read, subtract | rates | Helpers |
| Results of libltp | `lib/tst_res.c` | counters, held-back result | report, break, exit | output | TestResults |
| Temporary directory | `lib/tst_tmpdir.c` | TESTDIR | make, remove | file system | TmpDir |
| Write log | `lib/write_log.c` | a file of records | append, overwrite, scan | shared file | WriteLog |
| Forker | `lib/forker.c` | table of pids | fork n copies | processes | Forks |
| Options and loop of a test | `lib/parse_opts.c` | counts, clocks | parse, wait, loop | SIGUSR1, time | TestLoop, Helpers |
| I/O methods | `lib/tlibio.c`, `lib/random_range.c` | signal counter | write, read, wait | kernel | RandomChoice, AsyncIo |
| Patterns of buffers | `lib/pattern.c`, `lib/data*.c` | none | fill, check | buffers | BufferPatterns |
| Text of testers | `lib/string_to_tokens.c` ... | none | parse | strings | TextInputs |
| Scripts, SQL, data, ORIG | `../Support_scripts`, `../sql`, `../data` | none | none | command line | (section 9) |

The benchmark links libltp and calls of it only forker() and tst_sig(); the rest
is a library in the repository with its own promises, and is modelled as that.

What is hard, and which component it belongs to:

- *Load point.* One parent and N children run concurrently and talk by a pipe,
  three signals and exit statuses. The pipe is a barrier; the gun is a signal,
  which is lost on a process that does not wait for it; a child may fail, hang,
  be killed or never exist; any child can bring the whole run down while others
  are anywhere between fork and exit; the parent may be told to stop at any point.
- *Test mix.* Shares are rounded one by one while the sum becomes the loop count;
  the list shrinks while it is walked; the random walk must come to an end.
- *User ramp.* Three stop rules, an increment that feeds back on itself, work
  files made and removed on some paths only, results renamed between repeats.
- *Single user run.* An alarm that outlives the test it was set for.
- *Tests.* Users side by side in one directory and with few segments and
  semaphores; a call may fail at any place, and the single user run goes on with
  whatever a failed test left; a pool of blocks that outlives its test.
- *libltp.* Results held back for condensing, processes that append to one file and
  note offsets later, copies of copies with inherited tables, a signal between
  handler and pause(), transfers that go on after their wait has ended.

Each hazard is listed at its line in `PROJECT.json`, with the properties that
would notice it or the reason why none does.

## 2. Plan

All of the plan has been carried out, in this order: (1) `RunLoop` with `LoadPoint`
and its proofs; (2) `WorkList`; (3) `Options`, `MultiUser` with its abstract
specification `Ramp`, `SingleUser`, composed in `DriverMC`; (4) the tests of the
benchmark (`Calls`, `DiskTests`, `SystemTests`) run by `TestRunner`, with `AioPool`,
composed in `TestRunnerMC`; (5) libltp and the functions, composed in `LibraryMC`;
(6) the proofs of section 6. Worth doing next: a refinement of the load point step of
`MultiUser` by `RunLoop` itself (now both refer to `LoadPoint`: the one refines it, the
other takes its outcomes as one step), and proofs about the functions of `TextInputs`,
`Kernels` and `NumericTests` like those about `RandomChoice` and `BufferPatterns`.

No module that is proved about, and none that it uses, has a RECURSIVE operator: where
the code calls itself or loops, the model has a function on the natural numbers.

## 3. Modules

### LoadPoint
The promise, with two variables and no mechanism: users assemble, all start at
once, each completes or drops out, and results are published only when nobody
works; or the load point is aborted and publishes nothing.

### RunLoop
`pc` is the parent's place in `runloop()` or, once it has taken a SIGTERM, in
`kill_all_child_processes()`; `cpc[c]` is the place of child c:

| `pc` | code | | `cpc` | code |
|---|---|---|---|---|
| setup, pipe | 822-829, 881-886 | | absent, forked | before and after fork() |
| fork | forker.c 175-229 | | armed | after tst_sig() 926 |
| read (also `ReadFails`) | 1092-1102 | | sent | after write() 929 |
| sleep | 1103 | | paused | in pause() 940 |
| begin | 1117-1125 | | started | after pause() |
| wait | 1128-1214 | | working, hung | after alarm() 948 |
| report, returned | 1215-1297 | | failing | after kill() 1027 |
| term, reap | 1831-1839, 1840 | | quitting | in the inherited SIGTERM handler |
| exited | exit() | | zombie, gone | ended, reaped |

`msgs` counts the messages in the pipe, `kidsForked`, `numChildren`, `toolsOn` are
the variables of the code, `left` the iterations of the child's loop, `files` the
shared work files, `deaf` the processes that have set SIGTERM to be ignored.
`reported` and `outcome` record what was written and how a child ended.

Abstractions:

- A signal is handled at the step that sends it. Every step of a process ends in
  a system call, and a pending signal is handled before a system call returns; in
  particular the parent cannot reap a failing child before it has handled the
  SIGTERM that child sent first.
- A turn of the wait loop is one step: `wait()` and the bookkeeping after it, with
  the tool command it may run. What SIGTERM interrupts in it is lost anyway.
- The second half of `runloop()` (times, rates, files) is the step `Report`.
- The body of a test is one step that returns, fails, or hangs; `WorkList` models
  which test it is.
- The clean-up of a child's handler touches files only; that shared files are
  gone is kept, because tests fail on it.
- A handled signal other than SIGALRM, SIGTERM and SIGUSR1 leads where another
  fault leads: SIGHUP and SIGFPE to `FailTest`, SIGSEGV (ignored by its handler,
  hence fatal the second time) to `Killed`.

`Faults` chooses what the environment may do: a failing pipe(), fork(), write(), read(),
test or tool command, a hanging test, a killed child, a SIGTERM to the parent. After a
failed read() (1094) runloop() returns 1 and waits for nobody; multiuser() drops the
result and the children it leaves are in pause() or on their way there. They are in the
process group of the parent, so that the gun of the next load point starts them; that
load point is another instance of this module, in which they do not occur (section 9).
`SleepSuffices` says whether the parent's sleep(1) is long enough for a child to
get from write() to pause().

### WorkList
One child's view: workfile lines, `RoundedLoad` per test, the list (`items`, `size`,
`tail`), the draw with its restart from the head after each removal, the loop
count. `load` is what a test is still owed, `count` what it has had. Shares are exact
fractions where the code uses doubles: with doubles a share one half or a whole
number may be missed by rounding error, which moves a load by one run. A
workfile of total weight 0 is left out.

### Options, MultiUser, SingleUser, Ramp, DriverMC
`Options` gives main()'s settings for a command line, a configuration file and
the two size lines of a workfile, in the order the program reads them and with what
it refuses. `MultiUser` starts from such settings. Its `pc`: `main` (the repeats of
main(), 546-566), `pool` (654), `runloop` (one load point with the outcomes
`LoadPoint` leaves it: a report, killed, none because pipe() or read() failed, a tool failed), `rules` (684-755: last
user, crossover, maximum jobs, next increment), `end` (repeat_fix_results()),
`exited`. The adaptive timer writes `invars.incr`, as the code does. Work files are their sizes per
directory together with the stored names (`fn1arr`), since removal goes by name;
report files are sets of lines, a line being a repeat and a number of users.
Rates are whole numbers that follow from `Times`, the seconds a load point may take;
the percentages of the stop rules are those of the code. Settings with
STARTUSERS or INCREMENT 0, which nothing in the code refuses, are left out: they
divide by zero or never end.

`SingleUser` extends it with singleuser() and alarm_handler(): `spc` is its place,
`alarm` the test whose alarm is pending, `cutBy` the one whose alarm cleared `flag`. A
test that fails leaves its alarm pending (1755), so an alarm may clear the flag of a
later test. `Ramp` is the abstract specification of the ramp.

### Calls, DiskTests, SystemTests, TestRunner, TestRunnerMC, NamesApart, NamesApartMC
A test is a straight-line program of system calls: a loop of n rounds is its body
n times. A call names what it is about, and what the code closes, frees and unlinks if
it fails; that list is taken from each error path, one by one. `DiskTests` has the
nineteen disk tests that are registered, `SystemTests` those of processes, files, pipes,
sockets, shared memory, directory search, programs, memory and directories.
`TestRunner` has users that run tests next to each other: `fds`, `held`, `kids` are a
user's own, `disk` and `ipc` are shared; `fn2` and `counter` are those of aim_mktemp().
Any call that can fail may fail, a datagram may be lost, SIGTERM and SIGALRM may
arrive. A user of a load point ends with a failed test; the process of a single user
run goes on. A process dies of abort() (a second free()) and of an access that its memory
does not have: strcpy() to a null pointer, or the memcpy() of shared_memory() when the
handler of SIGTERM has cleared the segment. A user of a load point then runs
child_sighandler() first (`HandlesSegv`), which removes the segment and the work files.
`TestRunner` takes any process numbers; `NamesApart`, and its instance `NamesApartMC`,
those whose last five digits differ, which is what the names of files are made of. `leaks` keeps what a test left when it returned. Data are not modelled,
but file positions are: reading past the end fails as it does in the code.

### AioPool
The asynchronous disk tests share a static pool of control blocks and the counter
`aio_inflight` across tests; `aioPc` follows disk_aio_read_write(), `issue`, `full`
(waiting for a block), `recover` (after a failed submission), `drain`.

### WriteLog
Any number of processes append records to one file (`log`) and write their fixed part
over when the write that they log is done; one more process is in
wlog_scan_backward(). An append is two steps, as in the code: `Append_Write`, the write()
through the descriptor `w_afd`, and `Append_Offset`, the lseek() that tells where the
record is; others may append in between (`at` is the position of the descriptor).
`scan` has the variables of the scan by their names, the buffer being the bytes from
`bufstart` to `cp`. A turn of its outer loop begins with `Scan_Read`, one of its inner loop
is `Scan_Record` or ends it by `Scan_Leftover`. The user's function may say
WLOG_STOP_SCAN for any record. When the loop goes on after that, it is at a record's border
only if the buffer was used up; otherwise it takes bytes in the middle of a record
for its length, and the model stops with `astray`. A byte has a value if it is part of a
length; the first byte of a record stands for its fixed part. The three lengths of
path, host and pattern are one, with a field that has no room for the greatest.
`records` and `ends` are history.

### TestResults, TmpDir, Forks, TestLoop, AsyncIo, IoBits
Each models one stateful file of libltp. `TestResults` keeps tst_res.c's static state in
one record and its output as a sequence of lines; in the condensed modes a repeated
result is held back. `TmpDir` has a small file system with objects that cannot be
removed and directories that cannot be listed; rmobj() calls itself, so `calls` is the
stack of its calls that have not returned, each with what readdir() has still to give it
and its ret_val, and one action is one way to go on of the last (`rmobj_Open`,
`rmobj_Entry`, `rmobj_Close` and three ways to return at once). `tried` is history.
`Forks` has all processes of a forker() call, each with its own table. `TestLoop` reads
the command line option by option (`ParseOption`), then the environment (`ParseEnv`),
and has a wrapping clock of microseconds and the signal that releases the copies.
`AsyncIo` is tlibio.c for IRIX and UNICOS, the systems with asynchronous calls (on Linux
every transfer is a synchronous call, a function in `RandomChoice`; both name the bits
of a method by `IoBits`), against a kernel that completes, fails or interrupts at any
time. On sgi the set of i/o types has no asynchronous bit, so a lone bit of that kind
makes a plain call; nothing in either system leads to LIO_WAIT_NONE or to the last else.

### RandomChoice, BufferPatterns, TextInputs, Kernels, Registry, NumericTests, Reports, Helpers
Functions of their inputs. `RandomChoice` takes the number that lrand48() draws as an
argument; `DividerCalls` are the arguments of divider(), which calls itself, call by call. In
`BufferPatterns`, `Doubled` is the buffer after each turn of the loop of pattern_fill(),
`Compared` how far that of pattern_check() has come. In `Kernels`, integers have a width and wrap, and floating-point numbers are
elements of a finite field, where operations are exact; a law that holds there is
about the formula, not about rounding. `NumericTests` has multiples of a small unit and
intervals. `Registry` has every register_test() call and the factor of each result,
with what a run of the test performs. `Reports` has the files of a session of several
repeats and the job timing index. `Helpers` has tst_sig() and the handlers, locks,
clocks, create_fakeh(), reduce_list() and the hooks of parse_opts().

### LibraryMC
`part` selects one of the six stateful components or a function that is called once
with `input`; `FunctionsRight` compares the functions with definitions of what they
are for.

## 4. Runs

| Run | Bounds | States | Question |
|---|---|---|---|
| `runloop_safety` | 3 users, 2 tests, all faults, tools, any sleep | 422,000 | does safety survive every fault? |
| `runloop_live` | 3 users, 1 test, failing pipe() and read(), failing and hanging tests, tools | 10,000 | does a load point end and implement `LoadPoint`? |
| `runloop_lost_gun` | 2 users, no fault | small | can the gun miss a child? (yes) |
| `runloop_timeout` | 2 users, hanging tests | small | is a reported load complete? (no) |
| `runloop_killall` | 2 users, SIGTERM | small | does the kill always end? (no) |
| `worklist` | 3 tests, 3 lines, weights to 2, 4 jobs | 11,000 | do loads, list and loop agree for every draw? |
| `driver` | 10 command lines, ramps to 12 users, 3 repeats, 3 durations, 4 tests | 163,000 | does every ramp and single user run end, with its files and reports in place? |
| `driver_csv` | as `driver` | small | does the csv file survive a repeat? (no) |
| `tests` | 2 users side by side, or 1 with every pair of tests; one fault; 2 blocks | 47,000 | do tests disturb each other, leave something, end? |
| `tests_blocks` | copy, direct and update tests | small | do they move the blocks they report? (no) |
| `tests_names` | 2 users, numbers 500 and 100500, disk_src() | small | are names told apart by five digits? (no) |
| `library` | six components and 35 kinds of calls of functions, see the cfg | 494,000 | does libltp keep its promises? |

*runloop.* Three users are the smallest number with one that is ready, one that is
late and one that has ended, at the same time; with `RunNum \div 8 = 0` the first exit
halts the tools, and a killed child can come before or after it. Two tests give a
child that has worked and still has work. Several faults of all kinds may happen
in one behaviour. `StartBarrier`: nobody starts before all are ready.
`WaitAccounting`: `kids_forked` counts the unreaped children, so that ECHILD never
ends the loop. `ReportIsFinal`: the report comes after the last death and counts the
exits, and monitoring is off unless a child was killed. `FailureNeverReported`.
`NoOrphans`: a report and the end of the kill leave no child; a return of runloop() does
after a failed read() only, before the gun, and children that have not begun their load. `StuckForAReason`: where nobody can take a step, either the load point is
over, or the parent reads a pipe that a missing child will never write to, or it waits
for a child in a pause() that no signal will end. Under the survivable faults of
`RunLoopMC`, `ImplementsLoadPoint`, `RunEnds`, `ChildEnds`.

*worklist.* Three tests let an item be removed from the head, middle and tail of the
list; three lines let one test be listed twice; weights up to 2 and 4 jobs give
shares below one half, at one half, between and whole. `AllotmentFair`: a listed
test runs at least once, no other does, no share is off by a run. `DrawHasWork`: loop
count and list run out together, hence no modulus of 0. `NoRunLost`: a test
that is owed runs is listed exactly once (`OwedListedOnce`), and the child that ends has
run all of its share (`LoadCompleted`). `LoopEnds`.

*driver.* The ten command lines lead into: fixed increment with repeats, crossover,
adaptive increment over more than nine load points (the ninth is the first that adapts)
with each of the four ways to adapt, maximum jobs, a pool of disk space, no disk
directory, files and single user runs with repeats. Durations 2, 6 and 60 seconds
give rising, steady and falling rates. `ImplementsRamp`: users grow, within the
settings, whatever the increment makes of itself. `LoadHasFiles`: each load point
finds a work file of the size that its number of users gives. `FilesCleanedUp`: the
end leaves no work file but the one in hand when its creation failed.
`ReportsComplete`: every line of a load point is in the file of its repeat
(`NoReportLost`), and a single user run has one line or one failure per test and repeat
(`EveryTestAnswered`). `CutShortAfterFailureOnly`: a
test is timed by another alarm only directly after a failure. `RampEnds`. `Infinite` (7) stands for the
end of a ramp whose command line gives none.

*tests.* Two users suffice for two that compete: for names of files (process numbers
99999 and 100000 differ in their last digits by wrapping; 500 and 100500 do not differ,
and there `FailsOnlyByFault` is violated), for the one semaphore, for the work file. A single user run with every ordered pair of tests has every test
after every other, with one failing call at any place of either. Two blocks tell the
first from the last and a position past the end. `FailsOnlyByFault`: no interference.
`SuccessLeavesNothing`, `FailedDiskTestsClose`: descriptors, memory and files.
`FullDiskGivenBack`: a disk test that cannot write removes its file, so that a full disk
does not stay full; five tests that keep it are named, among them disk_rd(), which removes
another. `FailuresReturned`: a test that fails does not die of it, with three exceptions,
among them the copy to a segment that a signal has cleared. `BlocksAsReported` (violated)
compares the file that a test removes with what the test reports.
`IpcReleased`: only SIGALRM keeps a segment. `EveryTestEnds`. For the pool, 2 blocks and
3 transfers make a test wait for a block; 2 faults give a failure after one of
which traces remain: `PoolConserved`, `NoEmptyPool`, `AioTestReturns`.

*library.* `EachCaseReported`: every reported case is printed, once, by the end, in
every output mode. `NothingLeftUnsaid`: what can be found from TESTDIR when a removal is
over is what the system refuses to remove or a directory that is not empty; and no
directory of the test's own is left without a warning. The objects of a test go three
levels deep, with all subsets that have their directories, among them a file and an
entry of a subdirectory that cannot be removed and a directory that cannot be listed.
`ScanFindsRecords`: a scan finds the records that the log had when it began, the last
first, each once and as it was at some time since, and as many as were asked for unless
its function stops it. Two writers may be between write() and lseek() at the same time.
The largest record with its length is one byte shorter than the buffer of 11 bytes, so
that two records are in it, or one and a part of another, or just its length, or one
byte of that; three records make three reads. Of the sizes 3, 4 and 8 the last has the
high bit of its byte set (`Base` 16). `ForksKnown`: what the tables hold, how many
copies there are, with tables of four for up to six copies. `LoopsAsAsked`: passes and
copies are those asked for by options and environment, with a clock that wraps at 8.
`AsyncAnswers`: an answer of all bytes means that the transfer is done, and the signal
is released, except in the cases it names. `FunctionsRight`: the functions against
definitions of what they are for, over all inputs of small ranges, among them: every
random range is hit and never left; filled buffers pass their check and changed ones do
not; loops of additions and multiplications are stable for exact reciprocals; linear
systems with non-zero minors are solved; the generator has no second cycle; a workfile
gives each test the hits of its last line; every test but those named performs the
operations its result is multiplied by.

`CHECK_DEADLOCK FALSE` in every configuration: the programs end. That they do not stop
earlier is checked by the liveness properties. In `runloop_safety` the load point does:
with a failing fork() or a child lost before its message, the parent's read() blocks
for ever (the hazard at `driver.c` 1094); `StuckForAReason` lists these cases and
says that there are no others, and replaces the check for deadlocks there.

## 5. Fairness

`RunLoop`: weak fairness of the parent's steps together and of each child's steps
together: the kernel schedules every runnable process. A hung child has one step
left, its alarm, and alarm() is a promise of the kernel. Nothing is assumed of
faults, of the operator or of which alternative a process takes. `WorkList`: weak
fairness of the child, for whatever random numbers it gets; that the draw ends
is not due to luck, since a failed draw shortens the list. The driver: weak fairness of
the program and of a timer that is set. It is one process, its load points end
(`RunEnds`, where that holds) and its tests return (`EveryTestEnds`). `TestRunner`: weak
fairness of every user's calls and of every child's end; nothing says when a user
begins a test, fails or is told to stop. `AioPool`: weak fairness of a test's steps.
The library has safety properties only.

## 6. Proofs

All theorems hold for every value of the constants, from the named assumptions of
the modules only. None of the properties is inductive; each proof has an invariant
that is, one step lemma for each action or group of actions, and then the property as
a consequence.

`RunLoopProofs` (`Invariance`, from which the safety properties follow), for every
number of users, tests per user and set of faults. `StartBarrier`, for instance, speaks of
children, while the parent counts messages; it needs that messages in the pipe and
messages read never outnumber the children past their write(), and that a set of
N such children is all of them. `IInv` has seven layers, each proved on top of the
ones before:

1. `Shape`: types, counters only natural numbers.
2. `Control`: what the parent's place says of counters and children (children
   below `cnt` exist, nobody has been reaped before the gun, an outcome is set
   exactly for the ended, only the parent in `reap` or `exited` ignores SIGTERM).
3. `Messages`: `msgs + kidsForked` is at most the number of ready children; with
   the finite set theorems, N messages read mean that all N are ready.
4. `Barrier`: a started child means all are ready.
5. `Accounting`: after the gun, `kidsForked` is the number of unreaped children and
   `numChildren` that of reaped ones which called exit().
6. `Final`: what holds once something was reported or the program left; with a
   failed child about, the parent is past reporting.
7. `Tools`: monitoring is off before the gun, and while it is on no more than an
   eighth of the children have called exit().

`Refinement`: `RunLoop` implements `LoadPoint` if `SleepSuffices` and
no SIGTERM comes from outside; fork failures, lost children and hanging or failing
tests are allowed. Both conditions are needed: a late child starts after the others,
and a SIGTERM during the start lets children begin their load out of pause() while
others have not arrived. The mapping (`LoadPhase`, `UserView`) needs one invariant
more, `NobodyLate`: once the gun has been fired every child is past its pause().

Two layers more say where a load point can stop half-way. `Answers`: before the gun the
messages sent, read or not, are no more than the children that have not died without
one, and no fewer than those that wait for the gun, so that a parent at an empty pipe
misses a child. `Ends`: which fault explains an outcome, and which outcomes the parent's
place admits. They give `StuckForAReason`, and from it `UndisturbedNeverStuck`: if every
fork(), read() and write() succeeds, nobody kills, and the parent's sleep is long enough, nobody
can stop half-way whatever tests, tools and pipe() do. `ReportedOutcomes`,
`ReportedLoadCompleteHolds` and `GunHeardHolds` say under which condition each of the
statements that section 7 finds violated is true: a reported child has made all its runs
unless it hung or was killed from outside; the gun is heard if the sleep is long enough.

`LoadPointIsFinite`: the load point has at most 10 + N + N (9 + tests per user) steps for N
users, whatever fails. `Ahead` is the set of steps that are left to each process; every step
takes one out and adds none. With `UndisturbedNeverStuck` this is `RunEnds` but for one
inference: that a process which can take a step does so.

`WorkListProofs` (type correctness and `AllotmentFair`, `DrawHasWork`, `NoRunLost`),
for any number of tests, lines, weights and jobs. `WInv` is `Weights` (what
the workfile gives), `Lists` (a list with its size, no test twice, with every test that
is owed), `Shares` (had plus owed is the share), `Sums` (the loop count is what has been
run, is owed and is in hand). A sum over a recursive function is out of the prover's
reach; the runs owed are therefore counted as the elements of a set of pairs, of which
a draw takes one. `DrawIsFairHolds`: when a child draws, each test on the list answers to
exactly one remainder of the random number, and one of them is owed a run. `LoopIsFinite`:
with two steps for each run and one for each item, `Effort` bounds the loop and every
step uses some of it, so that the draw does not depend on luck.

`DriverProofs`, about the whole driver: `Ramping` (users within the settings, increments
positive) gives `ImplementsRamp`; `Sized` gives `LoadHasFiles`; `Filed` (files exist only in
directories whose name is stored, those are the first ones, and all of it but in
single user runs) gives `FilesCleanedUp`; `Recording` (repeats are counted down and
numbered up, the file of each repeat has its lines) gives `NoReportLost`; `Alarms`
(`Placed`, `Pending`, `Cut`: a pending alarm is one's own or a stale one directly before,
after a failure) gives `CutShortAfterFailureOnly`; `Types` gives `DriverTypeOK`; `Answering`
(a test the walk has passed has its one line or its failure, one it has not reached has
neither) gives `EveryTestAnswered`, and with it `ReportsComplete`. `BenchmarkIsFinite`: repeats, and in each the users or
tests still to come, give a number (`Effort`) that every step makes smaller but one, the
repetition of a test in a single user run; while a test is repeated its own alarm is
pending (`OwnAlarm`). An increment of the adaptive timer that came to 0 would show here.

`TestPrograms` and `TestRunnerProofs` (type correctness, `FailsOnlyByFault`,
`SuccessLeavesNothing`, `FailedDiskTestsClose`, `IpcReleased`), for any number of users
with process numbers as in `NamesApart`, blocks, rounds, segments and faults and any list of
tests. That a read() finds a block, or that a test ends with nothing, depends on every
call before, and the programs differ in each of their error paths. `TestPrograms`
therefore has an account along the calls of a test: what its user may have and has for
certain, the file `fd` is open on, between which blocks it stands (`lo`, `hi`), the last
block `fd2` can be at, the least length of the work file. A `Step` of the account says
for one call that it finds what it works on, that it stays within the file, and that the
clean-up after its failure gives back all the test may have. `Programs`: every test is a
path of such steps from nothing to nothing; for a loop, the account after each call is
given as a function of its number, so that no induction over the calls is needed. In
`TestRunnerProofs` `IInv` says that what each user has matches some place on a path that
its remaining calls complete (`Busy`); that names to come are free (`Fresh`: process
numbers, begun tests and the counter of aim_mktemp() tell all files apart), the work
file is there (`WorkThere`) and a user between tests has nothing (`Rests`). For every
kind of call there is a lemma that its user goes on to the next place (`..Done`), and
that others stay where they are, since what they have is their own; a failing call needs
what `Step` says of its clean-up, a full table of semaphores a step back to the segment.
This invariant quantifies over accounts and cannot be evaluated by TLC; what it implies
is what the run `tests` checks. `SomebodyGoesOnHolds`: no test waits for one that waits.
For it a step of the account also says who holds a segment at a call for another (nobody),
and whose semaphore is free when it is waited for; what is left are a datagram that was
lost and a segment of a user whom SIGALRM has ended.

`LibraryProofs`, four invariants for four parts of libltp, and functions.

- `ForksInv` (`Tables`, `Parents`, `Turns`): there is one process that still forks, the
  first in mode 0 and the last in mode 1; what each knows follows from its number.
- `TmpInv`, for any contents of a directory, in any order of reading. A removal that
  succeeds at the top and one that fails deep down differ in what every call on the way
  knows. `Descent`: the calls are a way down from TESTDIR, by parent and entry, and never
  twice to the same object; this comes without a word on cycles, from TESTDIR having its
  parent elsewhere. `Failures`: a call with ret_val -1 has an entry that has stayed and
  that it will not try again. `AllTried`: of an opened directory every entry is tried or
  still to be read, and what has been tried, is there and is on the way no more is either
  stuck or not empty. When the last call returns, what has been tried is therefore closed
  under "entry of", so that nothing else can be found from TESTDIR.
- `LoopInv`, for any command line, environment, clock and number of passes.
  `LoopsAsAsked` compares the end of a loop with options read long before, through
  variables that an option, the environment and a zero have each their own way to set:
  `Parsing` says what they hold after the first k options, `Settled` what of that is
  left when the environment has been asked. `Looping` says that the time to stop is some
  earlier reading of the clock plus the duration, both wrapped; as long as the clock has
  not wrapped round since the start, the test of usc_test_looping() then compares true
  times.
- `AsyncInv`, for any calls with any methods and signals, any number of them, and any
  completion or interruption in between. `AsyncAnswers` is a property of steps: the
  return of a call. It needs to know which signals are held and by whom (`FirstCall`: in
  the first call nobody else's transfer can have signalled), that the signal of a
  transfer that is over is waiting or has been handled (`Heard`), and which waits end
  early (`Early`).
- Random choices and buffers, for arguments of any size. The theorem of the library for
  induction takes an operator, which the provers cannot instantiate; the one for
  well-founded relations speaks of sets. From it come `Least`, `Inductive` (a set with 0
  and all successors is Nat) and `RecursiveFunction` (the equation of a function by
  recursion has a solution), and with these what a loop or a function that calls itself
  computes. `RandomRangeRight`: a failure means that the range has no multiple, a result
  is one, and each can come up. `RandomRangellRight`: divider() halves its interval at
  most 32 times; it is the claim of the comment at `random_range.c` 575, for intervals of
  up to 2^33 numbers of lrand48(), which all of 64 bits have. `OneMethod`,
  `StrideBoundsRight`. `FirstWrongByte`: checks of constant bytes and of characters.
  `PatternFilled` and `PatternChecked`: both loops take the buffer as its own pattern, so
  that a turn is right only because the part filled is a whole number of patterns until
  the buffer is full; that, and that each turn adds a byte, is kept along the turns.
  (Bounds of ranges are not negative there, patterns not empty; section 8.)

`ResultsProofs` (`EachCaseReported`), for any calls of tst_res(), tst_brk() and
tst_brkloop() with any arguments, in any number. That a case has its line is decided
calls later, when another result makes tst_condense() print the one it holds back, or
tst_flush() does. `ResultsInv`: the lines tell of the cases before the result held back,
each of them in one line, with its type, its message and its file, and of nothing else
(`Told`); what is held back is the result of all cases since (`HeldBack`). Each function,
from a line to a call, is shown to keep a state that tells of a sequence of cases
(`Sound`) for that sequence and the cases it adds, warnings that print in between
included. A break adds cases of two types, and may run into a file that cannot be read.

`PoolAndLogProofs`, two invariants.

- `PoolInv`, for pools of any size: the blocks free, in flight and dropped add up to the
  pool or to 0; `aio_inflight` is what the context holds and what was cut off with earlier
  ones.
- `LogInv`, for any writers, sizes, buffer and number of records, gives
  `ScanFindsRecords`. The code finds a record only by the length behind it, so that one
  wrong step would spoil all that follow; the proof needs the whole layout. With
  `ends`, which remembers where each record ends, the layout is a statement about each
  record and not about a sum: `LaidOut` (a record's head is where the one before it ends,
  its length at its own end). `Located`: what a writer knows or can tell from its
  descriptor is the border of its record. This is what O_APPEND is for. `Finding`: what has been
  found are the last records of those that were there at the beginning, each as it was at
  some time since (`Seen`). `Buffered`: the bytes not consumed end with the next record to
  find, and every head and length in them is one that the file had. `Counted`: how many
  are found, until the function stops the scan. A scan that has been stopped makes
  no promise about its number, and one that is astray has ended for the model: the
  theorem says of both that what they have found is right.

Model-checked only:

- liveness (`RunEnds`, `ChildEnds`, `LoopEnds`, `RampEnds`, `EveryTestEnds`,
  `AioTestReturns`), which with ENABLED is out of the prover's reach. What is proved of
  them is the part that is about the program: that nobody is stuck, or for how many
  steps it can go on;
- `FullDiskGivenBack`: the account of `TestPrograms` knows which descriptors a clean-up
  closes, not which files it removes;
- `FunctionsRight` as a whole. Of its parts those about random ranges and methods, strides,
  and buffers are theorems in a stronger form. The rest takes folds over lists and
  strings, RECURSIVE operators, or arithmetic that is true because of its constants.

## 7. Findings

1. *The gun can be lost* (`runloop_lost_gun`): ready is said before pause() is
   entered, and the alarm that would end the wait is armed after it.
2. *A timed-out child counts as complete* (`runloop_timeout`), although
   `README.aim7` says that a run executes until all jobs have completed.
3. *Killing all children may never end* (`runloop_killall`): a child between
   tst_sig() and pause() takes the SIGTERM, goes to sleep and is waited for.
4. *The csv file is lost between repeats* (`driver_csv`): repeat_fix_results() renames
   multiuser.csv, the program writes `<prefix>.csv`.
5. *Direct copy and write tests move nothing* (`tests_blocks`): n is overwritten by the
   result of local_pma(). Of the tests the property names, sync_disk_update() violates it
   too: it writes the block after the one it read, past the end for the last.
6. *Two users can have the same names* (`tests_names`): get_list() makes names "unique" by
   the last five digits of the process number (aim_mktemp() relies on the same).

## 8. Observations

Facts met while modelling that no run is about, or that a property names as its
exception.

- *Driver.* multiuser.ss is never truncated, an earlier session's file is added to; the
  file header goes to `<prefix>.log`, which never gets rows. A failed creation of work
  files is ignored in single user runs. Without a directory disk_create_all_files() says that
  it exits and returns 1; its callers ask for -1, and the ramp goes on without files. The default crossover threshold is 10.0 where
  the usage text says "<1.0". The job timing index is negative for a coefficient
  of variation between 1 and 2, which `(int) cov > 1.0` lets pass. SIGTERM in a child removes
  everybody's work files. The three breaks of the ramp leave
  the files of a pool to the next creation or to the end.
- *Registry.* `while (--n > 0)` makes the tcp, udp, stream, datagram, pipe and fifo tests
  transfer one message fewer than their factor; ram_copy (factor 25020) makes 100 copies
  and sort_rtns_1 (10) makes 8 sorts and searches. workfile.alltests lists string_rtns twice
  (the last line wins), and its total is not that of its lines.
- *Kernels.* The registered arguments of mul_double, 3.14159 and 0.31831, are not exact
  reciprocals: one pass multiplies d by (x y)^8, and all values are 0 after some passes,
  although `mul.c` calls the loop stable. solve_array() calls any zero pivot "Singular". sieve()
  counts 0 and 1. dir_rtns_1() returns its number of rewinds; misc_rtns_1() does not count.
- *Tests.* fork() and accept() failures go unnoticed; page_test and brk_test leave the
  break moved and link_test its links after a failure; fn2 is uninitialised in device mode;
  get_list() frees the names its caller frees again (`FailuresReturned`), and has no bound
  for MFILES. SIGALRM
  leaves segments and semaphores. A failed start of asynchronous i/o leaves `iocb_free` set.
- *libltp.* forker() called twice zeroes the first entry of its table only and never
  resets `Forker_npids`. SIGUSR1 between signal() and pause() of usc_global_setup_hook()
  is lost; one before kills. The clock of usc_test_looping() wraps every 71 minutes. A
  process that shares the descriptor of a write log with another notes the offset of the
  other's record. The scan of a log reads lengths of 128 and more back as negative (324,
  `Scan_Crash`). When its function stops it, only the loop over the buffer ends (357):
  in a log longer than the buffer it goes on in the middle of a record (`astray`). A
  path of WLOG_MAX_PATH bytes is one byte too long for w_pathlen and is stored as none
  (`Packed`). tst_tmpdir() never removes a relative TMPDIR; a failed chown() leaves the
  directory that a comment says is removed. random_range() leaves its range for a
  negative bound. string_to_tokens() writes one null past a full array. search_path()
  does not end when PATH begins with a colon. str_to_bytes("") uses an unset multiplier.
  A mask of ASYNC and SYNCV makes no call on Linux and returns 0. A pattern of length 0
  loops for ever. cat_file() of an unreadable file calls itself through tst_brk().
  file_lock() repeats with LOCK_NB where its comment says without. rtmsec() takes a
  reset at time 0 for none. datapidchk() off Cray says that byte 0 is wrong. tst_sig()
  leaves signal 31 alone. parse_opts() allocates the stack of STD_LP_RECFUN only if it
  is there already. pause() of an asynchronous write on UNICOS may return early through
  the signal of an earlier call, and the answer is then 0.

## 9. Not modelled

- Layout of reports, headers, messages and usage texts; the result lines are modelled as
  what they say, not how.
- What the children that a failed read() has left behind do later: the gun of the next load
  point starts them beside its own children, and its wait() may reap them.
- Rounding of doubles. Shares are exact fractions, rates whole numbers, the numeric
  kernels elements of a field or intervals.
- The device mode of the disk tests (a device instead of a directory).
- get_high_address() (one call of sbrk()), background() of `forker.c`, which nothing calls,
  the main() functions for unit tests, `test1.c`, which nothing links, and the tests between
  `#ifdef`s that no configuration of the makefiles sets, but for MARCIA.
- The shell scripts that set up file systems and call the program. (They keep no state of
  the benchmark; what they pass to the program are the options of `Options`.)
- SQL and Perl scripts for importing finished results; documents; workfiles other
  than workfile.alltests; the upstream sources in `ORIG`, which nothing builds.
- In the library: what a scan of the write log does once it is astray, a failing read() in
  it, a log that is truncated while others write it, and random ranges with negative
  bounds, an observation above.
