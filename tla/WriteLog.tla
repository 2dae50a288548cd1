------------------------------- MODULE WriteLog -------------------------------
(***************************************************************************)
(* write_log.c: processes that log their writes in one file.  A record is  *)
(* appended, with its length behind it, when a write is begun, and its     *)
(* fixed part is written over when the write is done.  A process scans the *)
(* records from the last to the first, a buffer at a time, while the       *)
(* others go on.                                                           *)
(*                                                                         *)
(* The file is a sequence of bytes.  The first of a record stands for what *)
(* its fixed part says, the others only for their place.                   *)
(***************************************************************************)
EXTENDS Integers, Sequences

CONSTANTS
  Writers,     \* processes, each of which opens the log for itself
  Fixed,       \* sizeof(struct wlog_rec_disk)
  PathSize,    \* WLOG_MAX_PATH, and the number of values of its field w_pathlen
  PathLengths, \* lengths of the paths of the writes that are logged
  Base,        \* values of a byte, 256
  BufSize,     \* the buffer of a scan, BSIZE * 32
  Nrecs,       \* values of nrecs
  MaxRecords   \* bound: records in the log
ASSUME WriteLogAssumption ==
  /\ Fixed \in Nat \ {0} /\ Base \in Nat \ {0} /\ PathSize \in Nat \ {0}
  /\ PathLengths \subseteq 0 .. PathSize
  /\ BufSize \in Nat /\ Nrecs \subseteq Int /\ MaxRecords \in Nat
  /\ Fixed + PathSize <= Base          \* one length byte is 0 in all records there are
  /\ Fixed + PathSize + 1 <= BufSize   \* any of them fits in the buffer

VARIABLES
  log,      \* the file
  at,       \* at[p]: position of p's descriptor w_afd
  wrote,    \* wrote[p]: the record that wlog_record_write() is in the middle of, or NoRecord
  pending,  \* pending[p]: the records of writes that are not done, each with its offset
  scan,     \* the process in wlog_scan_backward()
  records,  \* history: the records in the order in which they were appended
  ends      \* history: ends[n]: the length of the file when record n had been appended
logVars == <<log, at, wrote, pending, scan, records, ends>>
writerVars == <<log, at, wrote, pending, records, ends>>

\* A record: which one it is, the length of its path, and the bit w_done.
NoRecord == [n |-> 0, len |-> 0, done |-> FALSE]

HeadByte(rec)   == [rec |-> rec, value |-> 0]
LengthByte(n)   == [rec |-> NoRecord, value |-> n]
Fills(n)        == [i \in 1 .. n |-> LengthByte(0)]
LengthBytes(n)  == <<LengthByte(n \div Base), LengthByte(n % Base)>>

\* The bytes are read back as signed characters.
Signed(b) == IF b >= Base \div 2 THEN b - Base ELSE b
LengthAt(hi, lo) == Signed(hi.value) * Base + Signed(lo.value)

\* scan.buf are the bytes from bufstart to cp, those that are not consumed yet; stopped is
\* the number of records found when the function first said WLOG_STOP_SCAN, or 0.
NoScan == [pc |-> "idle", nrecs |-> 0, offset |-> 0, buf |-> <<>>, recnum |-> 0,
           found |-> <<>>, stopped |-> 0, old |-> <<>>]

WlogInit ==
  /\ log = <<>> /\ records = <<>> /\ ends = <<>>
  /\ at = [p \in Writers |-> 0] /\ wrote = [p \in Writers |-> NoRecord]
  /\ pending = [p \in Writers |-> {}]
  /\ scan = NoScan

-----------------------------------------------------------------------------
(* Writing.                                                                *)

\* wlog_rec_pack(): the field of the length has no room for the longest path.
Packed(rec) == [rec EXCEPT !.len = @ % PathSize]
FixedPart(rec)     == <<HeadByte(Packed(rec))>> \o Fills(Fixed - 1)
wlog_rec_pack(rec) == FixedPart(rec) \o Fills(Packed(rec).len)
RecSize(rec) == Fixed + Packed(rec).len

\* bytes written over the file from an offset on.
Overlaid(f, offset, bytes) ==
  [i \in 1 .. (IF offset + Len(bytes) > Len(f) THEN offset + Len(bytes) ELSE Len(f)) |->
     IF i > offset /\ i <= offset + Len(bytes) THEN bytes[i - offset] ELSE f[i]]

\* write() to w_afd: wlog_open() has opened it with O_APPEND.  Without that it would go
\* to where this process wrote last.
WriteTo_NoAppend(p, bytes) ==
  /\ log' = Overlaid(log, at[p], bytes)
  /\ at' = [at EXCEPT ![p] = @ + Len(bytes)]
WriteTo(p, bytes) ==
  /\ log' = log \o bytes
  /\ at' = [at EXCEPT ![p] = Len(log) + Len(bytes)]

\* wlog_record_write() with an offset below 0 writes, then asks for the position of the
\* descriptor to know where the record is.
Append_Write(p) ==
  /\ wrote[p] = NoRecord /\ Len(records) < MaxRecords
  /\ \E len \in PathLengths :
       LET rec == [n |-> Len(records) + 1, len |-> len, done |-> FALSE]
       IN  /\ WriteTo(p, wlog_rec_pack(rec) \o LengthBytes(RecSize(rec)))
           /\ wrote' = [wrote EXCEPT ![p] = rec]
           /\ records' = Append(records, rec)
  /\ ends' = Append(ends, Len(log'))
  /\ UNCHANGED <<pending, scan>>

Append_Offset(p) ==
  /\ wrote[p] # NoRecord
  /\ pending' = [pending EXCEPT ![p] =
       @ \cup {[rec |-> wrote[p], offset |-> at[p] - (RecSize(wrote[p]) + 2)]}]
  /\ wrote' = [wrote EXCEPT ![p] = NoRecord]
  /\ UNCHANGED <<log, at, scan, records, ends>>

\* With an offset it writes the fixed part over the record there: its write is done.
Overlay(p) ==
  /\ wrote[p] = NoRecord
  /\ \E w \in pending[p] :
       /\ log' = Overlaid(log, w.offset, FixedPart([w.rec EXCEPT !.done = TRUE]))
       /\ records' = [records EXCEPT ![w.rec.n].done = TRUE]
       /\ pending' = [pending EXCEPT ![p] = @ \ {w}]
  /\ UNCHANGED <<at, wrote, scan, ends>>

-----------------------------------------------------------------------------
(* wlog_scan_backward().                                                   *)

wlog_rec_unpack(bytes) == bytes[1].rec

\* offset is that of the end of the file.
Scan_Begin ==
  /\ scan.pc \notin {"buffer", "record"}
  /\ \E nrecs \in Nrecs :
       scan' = [NoScan EXCEPT !.pc = "buffer", !.nrecs = nrecs, !.offset = Len(log), !.old = records]
  /\ UNCHANGED writerVars

Enough(s) == s.nrecs # 0 /\ s.recnum >= s.nrecs
More(s)   == ~Enough(s) /\ s.offset > 0

\* A buffer is read in front of what is left over of the last one.
From(offset, leftover) ==
  IF offset + leftover < BufSize THEN 0 ELSE offset - (BufSize - leftover)
Scan_Read ==
  /\ scan.pc = "buffer" /\ More(scan)
  /\ LET from == From(scan.offset, Len(scan.buf))
     IN  scan' = [scan EXCEPT !.pc = "record", !.offset = from,
                              !.buf = SubSeq(log, from + 1, scan.offset) \o @]
  /\ UNCHANGED writerVars

Scan_Return ==
  /\ scan.pc = "buffer" /\ ~More(scan)
  /\ scan' = [scan EXCEPT !.pc = "done"]
  /\ UNCHANGED writerVars

\* The length of the last record in the buffer, if that is there.
Reclen(buf) == IF Len(buf) < 2 THEN 0 ELSE LengthAt(buf[Len(buf) - 1], buf[Len(buf)])

\* The record is not whole, or not even its length: it is left over.
NotWhole(buf) == Len(buf) < Reclen(buf) + 2
Scan_Leftover ==
  /\ scan.pc = "record" /\ NotWhole(scan.buf)
  /\ scan' = [scan EXCEPT !.pc = "buffer"]
  /\ UNCHANGED writerVars

\* A record is found and the function called.  When that says WLOG_STOP_SCAN, or with
\* the last record that was asked for, the loop over the buffer ends with nothing left
\* over; the loop over the file knows only of the number of records.  A length below 0
\* is that of a memcpy().
Scan_Record ==
  /\ scan.pc = "record" /\ ~NotWhole(scan.buf) /\ Reclen(scan.buf) >= 0
  /\ \E stop \in BOOLEAN :
       LET start == Len(scan.buf) - (Reclen(scan.buf) + 2)
           found == Append(scan.found, wlog_rec_unpack(SubSeq(scan.buf, start + 1, Len(scan.buf))))
           s     == [scan EXCEPT !.found = found, !.recnum = IF stop THEN @ ELSE @ + 1,
                                 !.stopped = IF stop /\ @ = 0 THEN Len(found) ELSE @]
       IN  scan' = IF stop \/ Enough(s)
                   THEN [s EXCEPT !.buf = <<>>,
                                  !.pc = IF start = 0 \/ s.offset = 0 \/ Enough(s) THEN "buffer" ELSE "astray"]
                   ELSE [s EXCEPT !.buf = SubSeq(@, 1, start)]
  /\ UNCHANGED writerVars
Scan_Crash ==
  /\ scan.pc = "record" /\ ~NotWhole(scan.buf) /\ Reclen(scan.buf) < 0
  /\ scan' = [scan EXCEPT !.pc = "crashed"]
  /\ UNCHANGED writerVars

\* "astray": the scan takes the bytes in the middle of a record for its length.  What it
\* goes on with is in the data.

ScanStep == Scan_Read \/ Scan_Return \/ Scan_Leftover \/ Scan_Record \/ Scan_Crash
WlogNext ==
  \/ \E p \in Writers : Append_Write(p) \/ Append_Offset(p) \/ Overlay(p)
  \/ Scan_Begin
  \/ ScanStep
WlogSpec == WlogInit /\ [][WlogNext]_logVars

-----------------------------------------------------------------------------
(* Properties.                                                             *)

\* The function is called with the records that the log had when the scan began, from
\* the last to the first and each once, and as many as were asked for if it does not
\* stop the scan.  A write that was done before the scan is found done, and one that is
\* found done is done.  All that while others append and write records over.
ScanFindsRecords ==
  LET old   == scan.old
      found == scan.found
      asked == IF scan.nrecs \in 1 .. Len(old) THEN scan.nrecs
               ELSE IF scan.nrecs < 0 THEN 0 ELSE Len(old)
  IN  /\ \A i \in DOMAIN found :
           LET n == Len(old) + 1 - i IN
           /\ n \in DOMAIN old
           /\ found[i].n = n /\ found[i].len = Packed(old[n]).len
           /\ old[n].done => found[i].done
           /\ found[i].done => records[n].done
      /\ scan.pc = "done" /\ scan.stopped = 0 => Len(found) = asked

=============================================================================
