------------------------------ MODULE Options -------------------------------
(***************************************************************************)
(* What main() of driver.c makes of its inputs: the command line, the      *)
(* configuration file and the two size lines of the workfile, in the order *)
(* in which the program reads them.  A run whose inputs are refused has no *)
(* settings.  An option or line is a pair of its letter and its number.    *)
(***************************************************************************)
EXTENDS Integers, Sequences, SequencesExt

CONSTANT Infinite   \* INFINITE, 999999999 in the code: more users than any run has

Defaults ==
  [minusers |-> 1, maxusers |-> 5, incr |-> 1, jobs |-> 100, crossover |-> 0,
   filesize |-> 0, poolsize |-> 0, brief |-> 0, maxjobs |-> 0, numdirs |-> 0]

NoOptions ==
  [minu |-> 0, maxu |-> 0, incr |-> 0, jobs |-> 0, xover |-> 0, maxjobs |-> 0,
   brief |-> 0, threshold |-> 10, multi |-> 0, single |-> 0, repeat |-> 1, timeron |-> 1]

\* getopt_long() hands over one option after the other; a later one overwrites an
\* earlier one, also the end of the ramp that -x, -q and -g set on the side.
ApplyOption(t, o) ==
  CASE o[1] = "j" -> [t EXCEPT !.jobs = o[2]]
    [] o[1] = "s" -> [t EXCEPT !.minu = o[2]]
    [] o[1] = "e" -> [t EXCEPT !.maxu = o[2]]
    [] o[1] = "i" -> [t EXCEPT !.incr = o[2]]
    [] o[1] = "x" -> [t EXCEPT !.xover = 1, !.maxu = Infinite]
    [] o[1] = "q" -> [t EXCEPT !.xover = 1, !.maxu = Infinite, !.threshold = 60]
    [] o[1] = "g" -> [t EXCEPT !.maxjobs = 1, !.maxu = Infinite]
    [] o[1] = "b" -> [t EXCEPT !.brief = 1]
    [] o[1] = "m" -> [t EXCEPT !.multi = 1]
    [] o[1] = "o" -> [t EXCEPT !.single = 1]
    [] o[1] = "r" -> [t EXCEPT !.repeat = o[2]]
    [] o[1] = "t" -> [t EXCEPT !.timeron = 0]

\* Every line of the file overwrites its field; each DISKDIR line adds a directory,
\* of which none counts if the first one says OFF.
ConfigLine(inv, l) ==
  CASE l[1] = "BRIEF"      -> [inv EXCEPT !.brief = l[2]]
    [] l[1] = "CROSSOVER"  -> [inv EXCEPT !.crossover = IF l[2] = 1 THEN 1 ELSE 0]
    [] l[1] = "DISKDIR"    -> [inv EXCEPT !.numdirs = @ + 1]
    [] l[1] = "ENDUSERS"   -> [inv EXCEPT !.maxusers = l[2]]
    [] l[1] = "FILESIZE"   -> [inv EXCEPT !.filesize = l[2]]
    [] l[1] = "INCREMENT"  -> [inv EXCEPT !.incr = l[2]]
    [] l[1] = "JOBS"       -> [inv EXCEPT !.jobs = l[2]]
    [] l[1] = "POOLSIZE"   -> [inv EXCEPT !.poolsize = l[2]]
    [] l[1] = "STARTUSERS" -> [inv EXCEPT !.minusers = l[2]]

FirstDirOff(config) ==
  LET dirs == SelectSeq(config, LAMBDA l : l[1] = "DISKDIR")
  IN  dirs # <<>> /\ Head(dirs)[2] = "OFF"

ReadConfigFile(config) ==
  LET inv == FoldLeft(ConfigLine, Defaults, config)
  IN  IF FirstDirOff(config) THEN [inv EXCEPT !.numdirs = 0] ELSE inv

\* "command line overriddes the config file", if it gives a number other than 0.
Over(option, configured) == IF option # 0 THEN option ELSE configured

CommandLineOver(t, inv) ==
  [inv EXCEPT !.minusers = Over(t.minu, @), !.maxusers = Over(t.maxu, @),
              !.crossover = Over(t.xover, @), !.incr = Over(t.incr, @),
              !.jobs = Over(t.jobs, @), !.maxjobs = Over(t.maxjobs, @),
              !.brief = Over(t.brief, @)]

\* The size lines of the workfile override both; without any size main() gives up.
WorkfileOver(filesize, poolsize, inv) ==
  [inv EXCEPT !.filesize = Over(filesize, @), !.poolsize = Over(poolsize, @)]

Accepted(inv) ==
  /\ inv.minusers <= inv.maxusers
  /\ ~(inv.crossover # 0 /\ inv.maxjobs # 0)
  /\ inv.filesize # 0 \/ inv.poolsize # 0

\* With both -m and -o main() prints an error and runs multiuser() all the same.
Mode(t) == IF t.multi = 0 /\ t.single = 1 THEN "single" ELSE "multi"

Settings(options, config, filesize, poolsize) ==
  LET t   == FoldLeft(ApplyOption, NoOptions, options)
      inv == WorkfileOver(filesize, poolsize,
                          CommandLineOver(t, ReadConfigFile(config)))
  IN  [accepted |-> Accepted(inv), mode |-> Mode(t), repeat |-> t.repeat,
       timeron |-> t.timeron = 1, threshold |-> t.threshold,
       minusers |-> inv.minusers, maxusers |-> inv.maxusers, incr |-> inv.incr,
       jobs |-> inv.jobs, crossover |-> inv.crossover = 1, maxjobs |-> inv.maxjobs = 1,
       brief |-> inv.brief # 0,
       filesize |-> inv.filesize, poolsize |-> inv.poolsize, numdirs |-> inv.numdirs]
=============================================================================
