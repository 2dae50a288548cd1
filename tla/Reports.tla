------------------------------- MODULE Reports -------------------------------
(***************************************************************************)
(* What the functions of drv_funcs.c write to the files of a session, and  *)
(* the figures of a report: the job timing index of a load point and the   *)
(* rates of a single user test.                                            *)
(*                                                                         *)
(* A directory is a function from names of files to their lines; a file of *)
(* repeat n has the name <<base, suffix, n>>, and 0 for the one being      *)
(* written.  Of a line there is what it is, and the figures it is for.     *)
(***************************************************************************)
EXTENDS Registry

Lines(dir, file) == IF file \in DOMAIN dir THEN dir[file] ELSE <<>>
\* fopen() for "w" and for "a".
Written(dir, file, lines)  == (file :> lines) @@ dir
Appended(dir, file, lines) == (file :> Lines(dir, file) \o lines) @@ dir
\* mv, which complains of a file that there is not.
Moved(dir, file, n) ==
  LET to == <<file[1], file[2], n>> IN
  IF file \notin DOMAIN dir THEN dir
  ELSE [x \in (DOMAIN dir \ {file}) \cup {to} |-> IF x = to THEN dir[file] ELSE dir[x]]

logfile  == <<"multiuser", "ss", 0>>
stpmdata == <<"stp_mdata", "txt", 0>>
stpsdata == <<"stp_sdata", "html", 0>>
stphdata == <<"stp_hdata", "html", 0>>
maxjobs  == <<"maxjobs", "txt", 0>>
singless == <<"singleuser", "ss", 0>>
Prefixed(logfile_prefix, suffix) == <<logfile_prefix, suffix, 0>>

-----------------------------------------------------------------------------
(* A multiuser run.                                                        *)

write_file_header(dir, prefix) == Written(dir, Prefixed(prefix, "log"), <<"header">>)
write_csv_header(dir, prefix)  == Written(dir, Prefixed(prefix, "csv"), <<"header">>)
write_stp_mheader(dir)         == Written(Written(dir, stphdata, <<"table">>), stpmdata, <<"header">>)

write_stp_mout(dir, point)        == Appended(dir, stpmdata, <<point>>)
write_stp_hout(dir, point)        == Appended(dir, stphdata, <<point>>)
write_file_out(dir, point)        == Appended(dir, logfile, <<point>>)
write_csv_out(dir, prefix, point) == Appended(dir, Prefixed(prefix, "csv"), <<point>>)
close_stp_hout(dir, jmax) ==
  Appended(Written(dir, maxjobs, <<jmax>>), stphdata, <<jmax, "end of table">>)

\* The end of runloop(); a point is a number of users with its jobs per minute.
ReportPoint(dir, prefix, brief, point) ==
  LET stp == IF brief THEN write_stp_hout(write_stp_mout(dir, point), point) ELSE dir
  IN  write_csv_out(write_file_out(stp, point), prefix, point)
Peak(points) == Max({0} \cup {points[i].jpm : i \in DOMAIN points})
ReportMultiUser(dir, prefix, brief, points) ==
  LET headed == write_csv_header(write_file_header(dir, prefix), prefix)
      begun  == IF brief THEN write_stp_mheader(headed) ELSE headed
      done   == FoldLeft(LAMBDA d, p : ReportPoint(d, prefix, brief, p), begun, points)
  IN  IF brief THEN close_stp_hout(done, Peak(points)) ELSE done

-----------------------------------------------------------------------------
(* A single user run.                                                      *)

write_stp_sheader(dir) == Written(dir, stpsdata, <<"table">>)
close_stp_single(dir)  == Appended(dir, stpsdata, <<"end of table">>)

\* What a disk test moves is known here: the blocks of a file, and half of them when each
\* is written through.
SyncTests == {"sync_disk_rw", "sync_disk_wrt", "sync_disk_cp", "sync_disk_update"}
Factor(item, filesize) ==
  IF item.factor # WAITING_FOR_DISK_COUNT THEN item.factor
  ELSE IF item.name \in SyncTests THEN filesize \div 2 ELSE filesize

\* Loops in a second of a time of milliseconds, and operations if the test has a factor.
Rate(count, delta) == (1000 * count) \div delta
Outcome(item, factor, testnum) ==
  [testnum |-> testnum, name |-> item.name, count |-> item.count,
   ops |-> IF factor >= 0 THEN Rate(item.count, item.delta) * factor ELSE "uncalibrated"]
output_result(dir, line) == Appended(dir, singless, <<line>>)
output_stp(dir, line)    == Appended(dir, stpsdata, <<line>>)

\* A test that fails is not reported, and the next one has its number.
ReportTest(brief, filesize, run, item) ==
  LET line == Outcome(item, Factor(item, filesize), run.testnum)
      dir  == IF brief THEN output_stp(run.dir, line) ELSE run.dir
  IN  IF item.hits = 0 \/ item.trouble THEN run
      ELSE [dir |-> output_result(dir, line), testnum |-> run.testnum + 1]
ReportSingleUser(dir, brief, filesize, items) ==
  LET opened == Written(dir, singless, <<"header">>)
      begun  == [dir |-> IF brief THEN write_stp_sheader(opened) ELSE opened, testnum |-> 1]
      done   == FoldLeft(LAMBDA r, item : ReportTest(brief, filesize, r, item), begun, items)
      closed == Appended(done.dir, singless, <<"finish">>)
  IN  IF brief THEN close_stp_single(closed) ELSE closed

-----------------------------------------------------------------------------
(* The repeats of main().  The file of rates is looked for under a name of  *)
(* its own, whatever the prefix is.                                         *)

repeat_fix_results(dir, n, type, brief) ==
  LET names == IF type = 1 THEN <<singless>> \o IF brief THEN <<stpsdata>> ELSE <<>>
               ELSE <<logfile, Prefixed("multiuser", "csv")>>
                      \o IF brief THEN <<stpmdata, stphdata, maxjobs>> ELSE <<>>
  IN  FoldLeft(LAMBDA d, name : Moved(d, name, n), dir, names)

\* runs has the load points of every repeat; the files of the last one keep their names.
MultiUserSession(dir, prefix, brief, runs) ==
  LET after[n \in 0 .. Len(runs)] ==
        IF n = 0 THEN dir
        ELSE LET d == ReportMultiUser(after[n - 1], prefix, brief, runs[n])
             IN  IF n < Len(runs) THEN repeat_fix_results(d, n, 2, brief) ELSE d
  IN  after[Len(runs)]
SingleUserSession(dir, brief, filesize, runs) ==
  LET after[n \in 0 .. Len(runs)] ==
        IF n = 0 THEN dir
        ELSE LET d == ReportSingleUser(after[n - 1], brief, filesize, runs[n])
             IN  IF n < Len(runs) THEN repeat_fix_results(d, n, 1, brief) ELSE d
  IN  after[Len(runs)]

-----------------------------------------------------------------------------
(* The job timing index of the elapsed times of the children.              *)

SumOf(times)   == FoldLeft(LAMBDA s, t : s + t, 0, times)
SumSqOf(times) == FoldLeft(LAMBDA s, t : s + t * t, 0, times)
\* n * n times the variance, and the sum of the times: the coefficient of variation is
\* the root of the one over the other.
Spread(times) == Len(times) * SumSqOf(times) - SumOf(times) * SumOf(times)
\* A hundred times the coefficient, rounded: the index is an int, and a coefficient of 2
\* or more gives 0.
RootUp(a, b) == CHOOSE c \in 0 .. 200 : c * c * b >= a /\ \A d \in 0 .. c - 1 : d * d * b < a
RootDown(a, b) == IF RootUp(a, b) * RootUp(a, b) * b = a THEN RootUp(a, b) ELSE RootUp(a, b) - 1
\* (int) is for cov alone: it is compared as 0, 1, 2, ...
jti(times) ==
  LET square  == SumOf(times) * SumOf(times)
      spread  == 10000 * Spread(times)
  IN  IF Len(times) = 1 \/ square = 0 THEN 100
      ELSE IF Spread(times) >= 4 * square THEN 0
      ELSE IF Spread(times) <= square THEN 100 - RootUp(spread, square)
      ELSE 100 - RootDown(spread, square)
=============================================================================
