-------------------------------- MODULE TmpDir --------------------------------
(***************************************************************************)
(* The temporary directory of an LTP test: tst_tmpdir() makes it and goes  *)
(* there, tst_rmdir() leaves and removes it with rmobj(), call by call.    *)
(* On Linux it is mkdtemp() that is compiled in.                           *)
(*                                                                         *)
(* A file system is a function from its objects to their parent, their     *)
(* kind and whether the system refuses to remove them.                     *)
(***************************************************************************)
EXTENDS Integers, Sequences

CONSTANTS
  Contents,   \* what a test may leave in its directory: sets of objects
  ObjectOf,   \* each object of the contents: [parent, kind, stuck]
  TestDir,    \* the directory itself
  Elsewhere   \* a name that is no object's

Kinds == {"file", "directory", "unreadable"}   \* an unreadable directory cannot be listed
ASSUME TmpDirAssumption ==
  /\ \A C \in Contents : C \subseteq DOMAIN ObjectOf /\ TestDir \notin C
  /\ \A o \in DOMAIN ObjectOf : ObjectOf[o].kind \in Kinds
  /\ Elsewhere \notin DOMAIN ObjectOf \cup {TestDir}

VARIABLES
  fs,        \* the objects below the directory of temporary files
  testdir,   \* TESTDIR: "unset", "own", or "given" by the environment
  relative,  \* TESTDIR is not an absolute path, since TMPDIR is not
  cwd,       \* "before" the test, "testdir" or "parent"
  warned,    \* a TWARN was printed
  stage,     \* "start", "testing", "removing", "removed" or "exited"
  calls,     \* the calls of rmobj() that have not returned, with their variables
  tried      \* history: the objects for which rmobj() was called
tmpVars == <<fs, testdir, relative, cwd, warned, stage, calls, tried>>

Object(parent, kind, stuck) == [parent |-> parent, kind |-> kind, stuck |-> stuck]
EntriesOf(f, obj) == {o \in DOMAIN f : f[o].parent = obj}
Without(f, obj) == [o \in DOMAIN f \ {obj} |-> f[o]]

\* The tester's own directory is there before the test.
TmpInit ==
  /\ testdir \in {"unset", "given"}
  /\ fs = IF testdir = "given" THEN [o \in {TestDir} |-> Object(Elsewhere, "directory", FALSE)]
          ELSE [o \in {} |-> Object(Elsewhere, "file", FALSE)]
  /\ relative \in BOOLEAN
  /\ cwd = "before" /\ warned = FALSE /\ stage = "start"
  /\ calls = <<>> /\ tried = {}

-----------------------------------------------------------------------------

\* unlink() and rmdir().
unlink(f, obj) == IF f[obj].stuck THEN [ret |-> -1, fs |-> f] ELSE [ret |-> 0, fs |-> Without(f, obj)]
rmdir(f, obj) ==
  IF EntriesOf(f, obj) # {} THEN [ret |-> -1, fs |-> f] ELSE unlink(f, obj)

\* A call of rmobj().  dir holds the entries that readdir() has not returned yet.
rmobj_Call(obj) == [obj |-> obj, opened |-> FALSE, dir |-> {}, ret_val |-> 0]
Top == calls[Len(calls)]

\* The return of the top call; the last return is that to tst_rmdir(), which warns.
rmobj_Return(result) ==
  /\ fs' = result.fs
  /\ calls' = [i \in 1 .. Len(calls) - 1 |->
                 IF i = Len(calls) - 1 /\ result.ret # 0 THEN [calls[i] EXCEPT !.ret_val = -1] ELSE calls[i]]
  /\ IF Len(calls) = 1 THEN stage' = "removed" /\ warned' = (warned \/ result.ret = -1)
     ELSE UNCHANGED <<stage, warned>>
  /\ UNCHANGED tried

rmobj_Missing == Top.obj \notin DOMAIN fs /\ rmobj_Return([ret |-> -1, fs |-> fs])
rmobj_File ==
  /\ Top.obj \in DOMAIN fs /\ fs[Top.obj].kind = "file"
  /\ rmobj_Return(unlink(fs, Top.obj))
\* opendir() fails: a try to remove the directory as it is.
rmobj_Unreadable ==
  /\ Top.obj \in DOMAIN fs /\ fs[Top.obj].kind = "unreadable"
  /\ rmobj_Return(rmdir(fs, Top.obj))
rmobj_Open ==
  /\ Top.obj \in DOMAIN fs /\ fs[Top.obj].kind = "directory" /\ ~Top.opened
  /\ calls' = [calls EXCEPT ![Len(calls)].opened = TRUE, ![Len(calls)].dir = EntriesOf(fs, Top.obj)]
  /\ UNCHANGED <<fs, warned, stage, tried>>
\* All of a directory is tried, in the order of readdir().
rmobj_Entry ==
  /\ Top.opened
  /\ \E o \in Top.dir :
       /\ calls' = Append([calls EXCEPT ![Len(calls)].dir = @ \ {o}], rmobj_Call(o))
       /\ tried' = tried \cup {o}
  /\ UNCHANGED <<fs, warned, stage>>
\* The directory itself is tried only when all of that is gone.  (One with three links
\* gets an unlink(), which fails as rmdir() does: it has then a new subdirectory.)
rmobj_Close ==
  /\ Top.opened /\ Top.dir = {}
  /\ rmobj_Return(IF Top.ret_val = -1 THEN [ret |-> -1, fs |-> fs] ELSE rmdir(fs, Top.obj))

rmobj ==
  /\ stage = "removing"
  /\ rmobj_Missing \/ rmobj_File \/ rmobj_Unreadable \/ rmobj_Open \/ rmobj_Entry \/ rmobj_Close
  /\ UNCHANGED <<testdir, relative, cwd>>

-----------------------------------------------------------------------------

\* tmpdir_cleanup() warns and ends the test.
tmpdir_cleanup == warned' = TRUE /\ stage' = "exited"

MkdtempFails ==
  /\ stage = "start" /\ testdir = "unset"
  /\ tmpdir_cleanup
  /\ UNCHANGED <<fs, testdir, relative, cwd, calls, tried>>

\* What exists once mkdtemp() has worked or the environment has named a directory.
Made == [o \in DOMAIN fs \cup {TestDir} |-> Object(Elsewhere, "directory", FALSE)]

\* The directory stays.
ChownFails ==
  /\ stage = "start" /\ testdir = "unset"
  /\ fs' = Made /\ testdir' = "own"
  /\ tmpdir_cleanup
  /\ UNCHANGED <<relative, cwd, calls, tried>>

\* tst_brkm() returns, as it gets no function; rmdir() of the new directory may fail.
ChdirFails ==
  /\ stage = "start"
  /\ testdir' = IF testdir = "given" THEN "given" ELSE "own"
  /\ fs' \in IF testdir = "given" THEN {fs} ELSE {fs, Made}
  /\ tmpdir_cleanup
  /\ UNCHANGED <<relative, cwd, calls, tried>>

tst_tmpdir ==
  /\ stage = "start"
  /\ testdir' = IF testdir = "given" THEN "given" ELSE "own"
  /\ fs' = Made
  /\ cwd' = "testdir" /\ stage' = "testing"
  /\ UNCHANGED <<relative, warned, calls, tried>>

\* The test itself, here in one step: it leaves things behind in its directory.
Test ==
  /\ stage = "testing" /\ DOMAIN fs = {TestDir}
  /\ \E left \in Contents :
       fs' = [o \in left \cup {TestDir} |->
                IF o = TestDir THEN Object(Elsewhere, "directory", FALSE) ELSE ObjectOf[o]]
  /\ UNCHANGED <<testdir, relative, cwd, warned, stage, calls, tried>>

StartRemoval(obj) ==
  /\ stage' = "removing" /\ calls' = <<rmobj_Call(obj)>> /\ tried' = {obj}
  /\ UNCHANGED <<fs, testdir, relative>>

\* TDIRECTORY is not looked at any more.
tst_rmdir_AnyDirectory ==
  /\ stage = "testing"
  /\ cwd' = "parent" /\ UNCHANGED warned
  /\ StartRemoval(TestDir)

\* A directory that the tester has named stays.  A relative TESTDIR is taken from the
\* current directory, which is TESTDIR itself by now: neither the chdir() nor the rmobj()
\* finds it, and both warn.
tst_rmdir ==
  /\ stage = "testing"
  /\ CASE testdir = "given" ->
            stage' = "removed" /\ UNCHANGED <<fs, testdir, relative, cwd, warned, calls, tried>>
       [] testdir = "own" /\ relative -> warned' = TRUE /\ UNCHANGED cwd /\ StartRemoval(Elsewhere)
       [] testdir = "own" /\ ~relative -> cwd' = "parent" /\ UNCHANGED warned /\ StartRemoval(TestDir)

TmpNext == MkdtempFails \/ ChownFails \/ ChdirFails \/ tst_tmpdir \/ Test \/ tst_rmdir \/ rmobj
TmpSpec == TmpInit /\ [][TmpNext]_tmpVars

-----------------------------------------------------------------------------
(* Properties.                                                             *)

\* What can be found from TestDir through directories that can be listed: what is in every
\* set that holds TestDir and the entries of each of its own directories.
Findable(f) ==
  {o \in DOMAIN f :
     \A S \in SUBSET (DOMAIN f \cup {TestDir}) :
       /\ TestDir \in S
       /\ \A x \in S \cap DOMAIN f : f[x].kind = "directory" => EntriesOf(f, x) \subseteq S
       => o \in S}

\* A directory of the tester is never touched; one of the test's own is gone at its end or
\* a warning was printed; and a removal that starts at the right place leaves nothing
\* that could be removed: whatever else can be found there is what the system refuses to
\* remove, or a directory with something left in it.
NothingLeftUnsaid ==
  /\ testdir = "given" => TestDir \in DOMAIN fs
  /\ stage \in {"removed", "exited"} /\ testdir = "own" => TestDir \notin DOMAIN fs \/ warned
  /\ stage = "removed" /\ testdir = "own" /\ ~relative =>
       \A o \in Findable(fs) : fs[o].stuck \/ EntriesOf(fs, o) # {}
=============================================================================
