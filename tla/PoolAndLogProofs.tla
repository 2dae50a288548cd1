-------------------------- MODULE PoolAndLogProofs --------------------------
(***************************************************************************)
(* Proofs about what is shared and left to others in any state: the pool   *)
(* of control blocks, by the tests of a process, and the write log, by     *)
(* processes that append, write over and scan.  One inductive invariant    *)
(* for each.                                                               *)
(***************************************************************************)
EXTENDS AioPool, WriteLog, TLAPS

(***************************************************************************)
(* The pool, of any size, for any number of transfers and of failures.     *)
(* One invariant carries both properties: the sum of the blocks is that of *)
(* the pool, or 0 without a pool, and aio_inflight is what the context     *)
(* holds plus what was cut off with earlier ones.                          *)
(***************************************************************************)

Counters ==
  /\ free \in Nat /\ inflight \in Nat /\ queued \in Nat
  /\ dropped \in Nat /\ cut \in Nat
  /\ inflight <= NumIo
  /\ issued \in 0 .. Transfers /\ aioFaults \in 0 .. MaxAioFaults
Places ==
  /\ aioPc \in {"idle", "open", "issue", "full", "recover", "drain", "crashed"}
  /\ inited \in BOOLEAN
Blocks ==
  /\ free + inflight + dropped \in {0, NumIo}
  /\ ~inited => free + inflight + dropped = 0
\* aio_inflight is static, the context is that of one test.
InContext ==
  /\ inflight = queued + cut
  /\ aioPc \in {"idle", "open"} => queued = 0
  /\ aioPc \notin {"idle", "open"} => inited
Crashed == aioPc = "crashed" => free = 0 /\ inflight < NumIo

PoolInv == Counters /\ Places /\ Blocks /\ InContext /\ Crashed

\* At the start no block is anywhere.
LEMMA PoolInvInit == AioInit => PoolInv
<1> SUFFICES ASSUME AioInit PROVE PoolInv
  OBVIOUS
<1>1. Counters
  BY AioAssumption DEF AioInit, Counters
<1>2. Places
  BY Zenon DEF AioInit, Places
<1>3. InContext
  <2>1. inflight = queued + cut /\ queued = 0
    BY DEF AioInit
  <2>2. aioPc \in {"idle", "open"}
    BY DEF AioInit
  <2> QED
    BY <2>1, <2>2, Zenon DEF InContext
<1>4. Blocks
  BY DEF AioInit, Blocks
<1>5. Crashed
  BY DEF AioInit, Crashed
<1> QED
  BY <1>1, <1>2, <1>3, <1>4, <1>5 DEF PoolInv

\* Every step of a test keeps blocks and counters together.
LEMMA PoolInvStep == PoolInv /\ [AioNext]_aioVars => PoolInv'
<1> SUFFICES ASSUME PoolInv, [AioNext]_aioVars PROVE PoolInv'
  OBVIOUS
<1> USE AioAssumption DEF PoolInv, Counters, Places, Blocks, InContext, Crashed, Fault
<1>1. CASE OpenContext
  BY <1>1 DEF OpenContext
<1>2. CASE init_aio_bufs
  BY <1>2 DEF init_aio_bufs
<1>3. CASE Submit
  BY <1>3 DEF Submit, Full
<1>4. CASE EmptyPool
  BY <1>4 DEF EmptyPool, Full
<1>5. CASE AtLimit
  BY <1>5 DEF AtLimit
<1>6. CASE aio_wait_for_ios
  <2>1. PICK n \in 1 .. queued : Completes(n)
    BY <1>6 DEF aio_wait_for_ios
  <2>2. /\ n \in Nat /\ n <= queued
        /\ queued' = queued - n /\ inflight' = inflight - n /\ free' = free + n
    BY <2>1 DEF Completes
  <2> QED
    BY <1>6, <2>2 DEF aio_wait_for_ios
<1>7. CASE AllIssued
  BY <1>7 DEF AllIssued
<1>8. CASE Release
  BY <1>8 DEF Release
<1>9. CASE InitFails
  BY <1>9 DEF InitFails
<1>10. CASE SubmitFails
  BY <1>10 DEF SubmitFails, Full
<1>11. CASE IoError
  <2>1. PICK n \in 1 .. queued : Completes(n)
    BY <1>11 DEF IoError
  <2>2. /\ n \in Nat /\ n <= queued
        /\ queued' = queued - n /\ inflight' = inflight - n /\ free' = free + n
    BY <2>1 DEF Completes
  <2> QED
    BY <1>11, <2>2 DEF IoError
<1>12. CASE UNCHANGED aioVars
  BY <1>12 DEF aioVars
<1> QED
  BY <1>1, <1>2, <1>3, <1>4, <1>5, <1>6, <1>7, <1>8, <1>9, <1>10, <1>11, <1>12
  DEF AioNext, AioStep

\* The invariant of the pool, over the tests of one process.
THEOREM PoolInvariance == AioSpec => []PoolInv
BY PoolInvInit, PoolInvStep, PTL DEF AioSpec

\* No counter of the pool leaves its range: not aio_inflight, and not iocb_free_count,
\* which indexes iocb_free.
THEOREM AioTypeCorrect == AioSpec => []AioTypeOK
<1>1. PoolInv => AioTypeOK
  BY AioAssumption DEF PoolInv, Counters, Places, Blocks, InContext, AioTypeOK
<1> QED
  BY <1>1, PoolInvariance, PTL

\* Whatever fails, a block is free, in flight, or lost to a submission that failed.
THEOREM PoolConservedHolds == AioSpec => []PoolConserved
<1>1. PoolInv => PoolConserved
  BY DEF PoolInv, Blocks, PoolConserved
<1> QED
  BY <1>1, PoolInvariance, PTL

\* alloc_iocb() is called on an empty pool only when an earlier submission failed or
\* there was no memory for a pool.
THEOREM NoEmptyPoolHolds == AioSpec => []NoEmptyPool
<1>1. PoolInv => NoEmptyPool
  BY AioAssumption DEF PoolInv, Counters, Blocks, Crashed, NoEmptyPool
<1> QED
  BY <1>1, PoolInvariance, PTL

\* As long as no context was released with transfers in it, aio_inflight is the number
\* of transfers that the present context holds: the wait for them cannot outlast them.
THEOREM NothingCut == AioSpec => [](cut = 0 => inflight = queued)
<1>1. PoolInv => (cut = 0 => inflight = queued)
  BY DEF PoolInv, Counters, InContext
<1> QED
  BY <1>1, PoolInvariance, PTL

(***************************************************************************)
(* The write log, for any processes, lengths, buffer and number of         *)
(* records.  Where a record ends is remembered from its append on; the     *)
(* rest of the layout follows.                                             *)
(***************************************************************************)

Logged == Len(records)
Edge(e, n) == IF n = 0 THEN 0 ELSE e[n]
LogRecord == [n : Nat, len : Nat, done : BOOLEAN]
Byte == [rec : LogRecord, value : Int]

LogTypes ==
  /\ log \in Seq(Byte) /\ records \in Seq(LogRecord) /\ ends \in Seq(Nat) /\ Len(ends) = Logged
  /\ at \in [Writers -> Nat] /\ wrote \in [Writers -> LogRecord]
  /\ pending \in [Writers -> SUBSET [rec : LogRecord, offset : Nat]]
  /\ scan \in [pc : {"idle", "buffer", "record", "done", "astray", "crashed"}, nrecs : Int,
               offset : Nat, buf : Seq(Byte), recnum : Nat, found : Seq(LogRecord),
               stopped : Nat, old : Seq(LogRecord)]

\* The file is the records, one behind the other, each with its head and its length.
LaidOut ==
  /\ Len(log) = Edge(ends, Logged)
  /\ \A m, n \in 0 .. Logged : m <= n => Edge(ends, m) <= Edge(ends, n)
  /\ \A n \in 1 .. Logged :
       /\ records[n].n = n /\ Edge(ends, n) = Edge(ends, n - 1) + RecSize(records[n]) + 2
       /\ log[Edge(ends, n - 1) + 1].rec = Packed(records[n])
       /\ log[Edge(ends, n) - 1].value = 0 /\ log[Edge(ends, n)].value = RecSize(records[n])

\* A writer knows, or can tell from its descriptor, where its records are.
Located ==
  \A p \in Writers :
    /\ wrote[p] # NoRecord =>
         /\ wrote[p].n \in 1 .. Logged /\ wrote[p].len = records[wrote[p].n].len
         /\ at[p] = Edge(ends, wrote[p].n)
    /\ \A w \in pending[p] :
         /\ w.rec.n \in 1 .. Logged /\ w.rec.len = records[w.rec.n].len
         /\ w.offset = Edge(ends, w.rec.n - 1)

\* rec is what record n was at some time since the scan began.
Seen(s, r, rec, n) ==
  /\ rec.n = n /\ rec.len = Packed(s.old[n]).len
  /\ s.old[n].done => rec.done
  /\ rec.done => r[n].done
Ahead == Len(scan.old) - Len(scan.found)

Finding ==
  /\ Len(scan.old) <= Logged /\ Ahead >= 0
  /\ \A n \in 1 .. Len(scan.old) :
       scan.old[n].len = records[n].len /\ (scan.old[n].done => records[n].done)
  /\ \A i \in 1 .. Len(scan.found) : Seen(scan, records, scan.found[i], Len(scan.old) + 1 - i)

\* While it goes on, the bytes in the buffer end with the next record, and a record that
\* is in it with its head or its length is there as it was in the file.
GoesOn == scan.pc = "record" \/ (scan.pc = "buffer" /\ More(scan))
Buffered ==
  /\ Len(scan.buf) <= BufSize
  /\ GoesOn =>
       /\ scan.offset + Len(scan.buf) = Edge(ends, Ahead)
       /\ \A n \in 1 .. Ahead :
            /\ Edge(ends, n - 1) >= scan.offset => Seen(scan, records, scan.buf[Edge(ends, n - 1) - scan.offset + 1].rec, n)
            /\ Edge(ends, n) - 1 > scan.offset => scan.buf[Edge(ends, n) - 1 - scan.offset].value = 0
            /\ Edge(ends, n) > scan.offset => scan.buf[Edge(ends, n) - scan.offset].value = RecSize(records[n])

\* As long as the function does not stop it, a scan counts what it finds, and ends with
\* what was asked for or at the start of the file.
Counted ==
  scan.stopped = 0 =>
    /\ scan.recnum = Len(scan.found)
    /\ scan.nrecs < 0 => Len(scan.found) = 0
    /\ scan.nrecs > 0 => Len(scan.found) <= scan.nrecs
    /\ scan.pc = "record" => ~Enough(scan)
    /\ scan.pc = "done" => ~More(scan)
    /\ scan.pc \in {"buffer", "done"} /\ ~Enough(scan) /\ scan.offset = 0 => Ahead = 0

LogInv == LogTypes /\ LaidOut /\ Located /\ Finding /\ Buffered /\ Counted

LEMMA LogConstants ==
  /\ Fixed \in Nat /\ Fixed >= 1 /\ Base \in Nat /\ Base >= 2 /\ PathSize \in Nat /\ PathSize >= 1
  /\ BufSize \in Nat /\ Fixed + PathSize <= Base /\ Fixed + PathSize + 1 <= BufSize
BY WriteLogAssumption

\* A number that one byte holds, in two.
LEMMA OneByte ==
  ASSUME NEW s \in Nat, s < Base
  PROVE  s \div Base = 0 /\ s % Base = s
<1>1. Base \in Nat /\ Base > 0
  BY LogConstants
<1>2. s = Base * (s \div Base) + (s % Base) /\ s % Base \in 0 .. Base - 1 /\ s \div Base \in Int
  BY <1>1
<1> QED
  BY <1>1, <1>2

LEMMA RecordSize ==
  ASSUME NEW rec \in LogRecord
  PROVE  /\ Packed(rec) \in LogRecord /\ Packed(rec).n = rec.n /\ Packed(rec).done = rec.done
         /\ Packed(rec).len = rec.len % PathSize
         /\ RecSize(rec) = Fixed + Packed(rec).len
         /\ RecSize(rec) \in Nat /\ RecSize(rec) >= Fixed /\ RecSize(rec) < Base /\ RecSize(rec) + 2 <= BufSize
<1>1. rec.len % PathSize \in 0 .. PathSize - 1
  BY LogConstants DEF LogRecord
<1>2. Packed(rec) = [rec EXCEPT !.len = rec.len % PathSize]
  BY DEF Packed
<1>3. Packed(rec) \in LogRecord /\ Packed(rec).n = rec.n /\ Packed(rec).done = rec.done
      /\ Packed(rec).len = rec.len % PathSize
  BY <1>1, <1>2 DEF LogRecord
<1>4. RecSize(rec) = Fixed + Packed(rec).len
  BY DEF RecSize
<1> QED
  BY <1>1, <1>3, <1>4, LogConstants

LEMMA Joined ==
  ASSUME NEW a \in Seq(Byte), NEW b \in Seq(Byte)
  PROVE  /\ a \o b \in Seq(Byte) /\ Len(a \o b) = Len(a) + Len(b)
         /\ \A i \in 1 .. Len(a) : (a \o b)[i] = a[i]
         /\ \A i \in 1 .. Len(b) : (a \o b)[Len(a) + i] = b[i]
OBVIOUS

LEMMA Piece ==
  ASSUME NEW f \in Seq(Byte), NEW m \in Nat, NEW n \in Nat, m <= n, n <= Len(f)
  PROVE  /\ SubSeq(f, m + 1, n) \in Seq(Byte) /\ Len(SubSeq(f, m + 1, n)) = n - m
         /\ \A i \in 1 .. n - m : SubSeq(f, m + 1, n)[i] = f[m + i]
<1>1. SubSeq(f, m + 1, n) = [i \in 1 .. n - m |-> f[i + (m + 1) - 1]]
  OBVIOUS
<1>2. ASSUME NEW i \in 1 .. n - m PROVE i + (m + 1) - 1 = m + i /\ m + i \in 1 .. Len(f)
  OBVIOUS
<1>3. SubSeq(f, m + 1, n) = [i \in 1 .. n - m |-> f[m + i]]
  BY <1>1, <1>2
<1>4. \A i \in 1 .. n - m : f[m + i] \in Byte
  BY <1>2
<1>5. n - m \in Nat
  OBVIOUS
<1> HIDE DEF Byte
<1> QED
  BY <1>3, <1>4, <1>5

\* The bytes of a record: its head, its length, and how many they are.
LEMMA RecordBytes ==
  ASSUME NEW rec \in LogRecord
  PROVE  /\ FixedPart(rec) \in Seq(Byte) /\ Len(FixedPart(rec)) = Fixed
         /\ FixedPart(rec)[1].rec = Packed(rec)
         /\ LET bytes == wlog_rec_pack(rec) \o LengthBytes(RecSize(rec)) IN
            /\ bytes \in Seq(Byte) /\ Len(bytes) = RecSize(rec) + 2
            /\ bytes[1].rec = Packed(rec)
            /\ bytes[RecSize(rec) + 1].value = 0 /\ bytes[RecSize(rec) + 2].value = RecSize(rec)
<1> DEFINE s == RecSize(rec)
<1>1. s = Fixed + Packed(rec).len /\ s \in Nat /\ s < Base /\ Packed(rec) \in LogRecord
  BY RecordSize
<1>2. NoRecord \in LogRecord
  BY DEF NoRecord, LogRecord
<1>3. ASSUME NEW n \in Nat
      PROVE  Fills(n) \in Seq(Byte) /\ Len(Fills(n)) = n
  BY <1>2 DEF Fills, LengthByte, Byte
<1>4. HeadByte(Packed(rec)) \in Byte /\ HeadByte(Packed(rec)).rec = Packed(rec)
  BY <1>1 DEF HeadByte, Byte
<1>5. Fixed - 1 \in Nat /\ Fixed >= 1 /\ Fixed \in Nat
  BY LogConstants
<1> DEFINE head == <<HeadByte(Packed(rec))>>
<1>6. head \in Seq(Byte) /\ Len(head) = 1 /\ head[1].rec = Packed(rec)
  BY <1>4
<1>7. FixedPart(rec) = head \o Fills(Fixed - 1)
  BY DEF FixedPart
<1> HIDE DEF head
<1>8. /\ FixedPart(rec) \in Seq(Byte) /\ Len(FixedPart(rec)) = Fixed
      /\ FixedPart(rec)[1].rec = Packed(rec)
  BY <1>3, <1>5, <1>6, <1>7
<1> DEFINE whole == wlog_rec_pack(rec)
<1>9. whole = FixedPart(rec) \o Fills(Packed(rec).len)
  BY DEF wlog_rec_pack
<1>10. Packed(rec).len \in Nat
  BY <1>1 DEF LogRecord
<1> HIDE DEF whole
<1>11. whole \in Seq(Byte) /\ Len(whole) = s /\ whole[1].rec = Packed(rec)
  <2>1. s = Fixed + Packed(rec).len
    BY <1>1
  <2> DEFINE a == FixedPart(rec)
             b == Fills(Packed(rec).len)
  <2>2. a \in Seq(Byte) /\ Len(a) = Fixed /\ a[1].rec = Packed(rec)
    BY <1>8
  <2>3. b \in Seq(Byte) /\ Len(b) = Packed(rec).len
    BY <1>3, <1>10
  <2>4. whole = a \o b
    BY <1>9
  <2> HIDE DEF a, b, s
  <2>5. 1 \in 1 .. Len(a)
    BY <1>5, <2>2
  <2>6. whole \in Seq(Byte) /\ Len(whole) = Len(a) + Len(b) /\ whole[1] = a[1]
    BY <2>2, <2>3, <2>4, <2>5, Joined
  <2> QED
    BY <2>1, <2>2, <2>3, <2>6
<1> DEFINE len == LengthBytes(s)
<1>12. len = <<LengthByte(0), LengthByte(s)>>
  BY <1>1, OneByte DEF LengthBytes
<1>13. LengthByte(0) \in Byte /\ LengthByte(s) \in Byte /\ LengthByte(0).value = 0 /\ LengthByte(s).value = s
  BY <1>1, <1>2 DEF LengthByte, Byte
<1>17. RecSize(rec) \in Nat /\ RecSize(rec) >= Fixed
  BY RecordSize
<1> HIDE DEF len, s
<1>14. len \in Seq(Byte) /\ Len(len) = 2 /\ len[1].value = 0 /\ len[2].value = s
  BY <1>12, <1>13
<1>16. s \in Nat /\ s >= Fixed
  BY <1>17 DEF s
<1>15. LET bytes == whole \o len IN
       /\ bytes \in Seq(Byte) /\ Len(bytes) = s + 2 /\ bytes[1].rec = Packed(rec)
       /\ bytes[s + 1].value = 0 /\ bytes[s + 2].value = s
  <2>1. 1 \in 1 .. Len(whole) /\ 1 \in 1 .. Len(len) /\ 2 \in 1 .. Len(len)
    BY <1>5, <1>11, <1>14, <1>16
  <2>2. /\ whole \o len \in Seq(Byte) /\ Len(whole \o len) = Len(whole) + Len(len)
        /\ (whole \o len)[1] = whole[1]
    BY <1>11, <1>14, <2>1, Joined
  <2>3. (whole \o len)[Len(whole) + 1] = len[1] /\ (whole \o len)[Len(whole) + 2] = len[2]
    BY <1>11, <1>14, <2>1, Joined
  <2> QED
    BY <1>11, <1>14, <1>16, <2>2, <2>3
<1> QED
  BY <1>8, <1>15 DEF whole, len, s

\* What a scan takes the last two bytes of a record for.
LEMMA LengthRead ==
  ASSUME NEW buf \in Seq(Byte), Len(buf) >= 2, NEW s \in Nat, s < Base,
         buf[Len(buf) - 1].value = 0, buf[Len(buf)].value = s
  PROVE  Reclen(buf) \in Int /\ (Reclen(buf) = s \/ Reclen(buf) < 0)
<1>1. Base \in Nat /\ Base >= 2
  BY LogConstants
<1>2. Base \div 2 \in Nat /\ Base \div 2 >= 1
  BY <1>1
<1>3. Signed(0) = 0 /\ Signed(s) \in Int /\ (Signed(s) = s \/ Signed(s) < 0)
  BY <1>1, <1>2 DEF Signed
<1>4. Reclen(buf) = Signed(0) * Base + Signed(s)
  BY DEF Reclen, LengthAt
<1> QED
  BY <1>1, <1>3, <1>4

\* Bytes written over the file within it.
LEMMA OverlaidBytes ==
  ASSUME NEW f \in Seq(Byte), NEW bytes \in Seq(Byte), NEW offset \in Nat,
         offset + Len(bytes) <= Len(f)
  PROVE  /\ Overlaid(f, offset, bytes) \in Seq(Byte) /\ Len(Overlaid(f, offset, bytes)) = Len(f)
         /\ \A i \in 1 .. Len(f) : Overlaid(f, offset, bytes)[i] =
              IF i > offset /\ i <= offset + Len(bytes) THEN bytes[i - offset] ELSE f[i]
<1>1. Overlaid(f, offset, bytes) =
        [i \in 1 .. Len(f) |-> IF i > offset /\ i <= offset + Len(bytes) THEN bytes[i - offset] ELSE f[i]]
  BY DEF Overlaid
<1>2. \A i \in 1 .. Len(f) :
        (IF i > offset /\ i <= offset + Len(bytes) THEN bytes[i - offset] ELSE f[i]) \in Byte
  OBVIOUS
<1>3. Len(f) \in Nat
  OBVIOUS
<1> QED
  BY <1>1, <1>2, <1>3

LEMMA LogInvInit == WlogInit => LogInv
<1> SUFFICES ASSUME WlogInit PROVE LogInv
  OBVIOUS
<1>1. /\ log = <<>> /\ records = <<>> /\ ends = <<>> /\ scan = NoScan
      /\ at = [p \in Writers |-> 0] /\ wrote = [p \in Writers |-> NoRecord]
      /\ pending = [p \in Writers |-> {}]
  BY DEF WlogInit
<1>2. /\ scan.pc = "idle" /\ scan.nrecs = 0 /\ scan.offset = 0 /\ scan.buf = <<>> /\ scan.recnum = 0
      /\ scan.found = <<>> /\ scan.stopped = 0 /\ scan.old = <<>>
  BY <1>1 DEF NoScan
<1>3. NoRecord \in LogRecord /\ Logged = 0
  BY <1>1 DEF NoRecord, LogRecord, Logged
<1>4. LogTypes
  <2>1. scan \in [pc : {"idle", "buffer", "record", "done", "astray", "crashed"}, nrecs : Int,
                  offset : Nat, buf : Seq(Byte), recnum : Nat, found : Seq(LogRecord),
                  stopped : Nat, old : Seq(LogRecord)]
    BY <1>1 DEF NoScan
  <2> QED
    BY <1>1, <1>3, <2>1 DEF LogTypes, Logged
<1>5. LaidOut
  BY <1>1, <1>3 DEF LaidOut, Edge
<1>6. Located
  BY <1>1 DEF Located
<1>7. Finding
  BY <1>2, <1>3 DEF Finding, Ahead
<1>8. Buffered
  BY <1>2, LogConstants DEF Buffered, GoesOn
<1>9. Counted
  BY <1>2 DEF Counted, Enough, More
<1> QED
  BY <1>4, <1>5, <1>6, <1>7, <1>8, <1>9 DEF LogInv

\* What the writers do is nothing to the scan: the records it looks for stay where they
\* are, and a write that is done stays done.
LEMMA WritersOnly ==
  ASSUME LogInv, LogTypes', UNCHANGED scan, Logged' >= Logged,
         \A n \in 0 .. Logged : Edge(ends', n) = Edge(ends, n),
         \A n \in 1 .. Logged : records'[n].len = records[n].len /\ (records[n].done => records'[n].done)
  PROVE  Finding' /\ Buffered' /\ Counted'
<1>1. Logged \in Nat /\ Logged' \in Nat /\ Len(scan.old) \in Nat /\ Len(scan.found) \in Nat
  BY DEF LogInv, LogTypes, Logged
<1>2. \A n \in 1 .. Logged : records[n] \in LogRecord /\ records'[n] \in LogRecord
  BY <1>1 DEF LogInv, LogTypes, Logged
<1>3. \A n \in 1 .. Logged : RecSize(records'[n]) = RecSize(records[n])
  BY <1>2, RecordSize
<1>4. \A rec, n : n \in 1 .. Logged /\ Seen(scan, records, rec, n) => Seen(scan, records', rec, n)
  BY DEF Seen
<1>5. Finding'
  <2>1. \A i \in 1 .. Len(scan.found) : Len(scan.old) + 1 - i \in 1 .. Logged
    BY <1>1 DEF LogInv, Finding, Ahead
  <2>2. \A i \in 1 .. Len(scan.found) : Seen(scan, records', scan.found[i], Len(scan.old) + 1 - i)
    BY <1>4, <2>1 DEF LogInv, Finding
  <2>3. \A n \in 1 .. Len(scan.old) : n \in 1 .. Logged
    BY <1>1 DEF LogInv, Finding
  <2> QED
    BY <1>1, <2>2, <2>3 DEF LogInv, Finding, Ahead
<1>6. Buffered'
  <2>1. Ahead' = Ahead /\ Ahead \in 0 .. Logged /\ (GoesOn' <=> GoesOn)
    <3>1. Ahead' = Ahead /\ (GoesOn' <=> GoesOn)
      BY DEF Ahead, GoesOn
    <3>2. Len(scan.old) <= Logged /\ Ahead >= 0 /\ Ahead = Len(scan.old) - Len(scan.found)
      BY DEF LogInv, Finding, Ahead
    <3> QED
      BY <1>1, <3>1, <3>2
  <2>2. SUFFICES ASSUME GoesOn
        PROVE  /\ scan.offset + Len(scan.buf) = Edge(ends', Ahead)
               /\ \A n \in 1 .. Ahead :
                    /\ Edge(ends', n - 1) >= scan.offset => Seen(scan, records', scan.buf[Edge(ends', n - 1) - scan.offset + 1].rec, n)
                    /\ Edge(ends', n) - 1 > scan.offset => scan.buf[Edge(ends', n) - 1 - scan.offset].value = 0
                    /\ Edge(ends', n) > scan.offset => scan.buf[Edge(ends', n) - scan.offset].value = RecSize(records'[n])
    BY <2>1 DEF LogInv, Buffered
  <2>3. \A n \in 1 .. Ahead : n \in 1 .. Logged /\ Edge(ends', n) = Edge(ends, n) /\ Edge(ends', n - 1) = Edge(ends, n - 1)
    BY <1>1, <2>1
  <2> QED
    BY <1>3, <1>4, <2>1, <2>2, <2>3 DEF LogInv, Buffered
<1>7. Counted'
  BY DEF LogInv, Counted, Enough, More, Ahead
<1> QED
  BY <1>5, <1>6, <1>7

\* A scan leaves the file and the writers alone.
LEMMA ScanOnly ==
  ASSUME LogInv, UNCHANGED writerVars
  PROVE  /\ LaidOut' /\ Located' /\ \A n : Edge(ends', n) = Edge(ends, n)
         /\ Logged' = Logged /\ records' = records
         /\ (/\ log \in Seq(Byte) /\ records \in Seq(LogRecord) /\ ends \in Seq(Nat) /\ Len(ends) = Logged
             /\ at \in [Writers -> Nat] /\ wrote \in [Writers -> LogRecord]
             /\ pending \in [Writers -> SUBSET [rec : LogRecord, offset : Nat]])'
<1> USE DEF writerVars
<1>1. LaidOut'
  BY DEF LogInv, LaidOut, Logged, Edge
<1>2. Located'
  BY DEF LogInv, Located, Logged, Edge
<1> QED
  BY <1>1, <1>2 DEF LogInv, LogTypes, Logged, Edge

\* Where records are, and that their edges are numbers in the file.
LEMMA EdgeRange ==
  ASSUME LogTypes, LaidOut, NEW n \in 0 .. Logged
  PROVE  Edge(ends, n) \in Nat /\ Edge(ends, n) <= Len(log)
<1>1. Logged \in Nat /\ Len(ends) = Logged /\ ends \in Seq(Nat)
  BY DEF LogTypes, Logged
<1>2. Edge(ends, n) \in Nat
  BY <1>1 DEF Edge
<1>3. n <= Logged /\ Logged \in 0 .. Logged
  BY <1>1
<1> QED
  BY <1>2, <1>3 DEF LaidOut

\* A record more at the end of the file.
LEMMA Append_WriteKeeps ==
  ASSUME LogInv, NEW p \in Writers, Append_Write(p)
  PROVE  LogInv'
<1>1. PICK len \in PathLengths :
        LET rec == [n |-> Len(records) + 1, len |-> len, done |-> FALSE]
        IN  /\ WriteTo(p, wlog_rec_pack(rec) \o LengthBytes(RecSize(rec)))
            /\ wrote' = [wrote EXCEPT ![p] = rec]
            /\ records' = Append(records, rec)
  BY DEF Append_Write
<1>2. Logged \in Nat /\ len \in Nat
  BY WriteLogAssumption DEF LogInv, LogTypes, Logged
<1> DEFINE rec == [n |-> Logged + 1, len |-> len, done |-> FALSE]
           bytes == wlog_rec_pack(rec) \o LengthBytes(RecSize(rec))
           size == RecSize(rec)
<1>3. rec \in LogRecord /\ rec.n = Logged + 1 /\ rec.len = len
  BY <1>2 DEF LogRecord
<1>4. /\ log' = log \o bytes /\ at' = [at EXCEPT ![p] = Len(log) + Len(bytes)]
      /\ wrote' = [wrote EXCEPT ![p] = rec] /\ records' = Append(records, rec)
      /\ ends' = Append(ends, Len(log')) /\ UNCHANGED <<pending, scan>>
  BY <1>1 DEF Append_Write, WriteTo, Logged
<1> HIDE DEF rec
<1>5. /\ bytes \in Seq(Byte) /\ Len(bytes) = size + 2 /\ bytes[1].rec = Packed(rec)
      /\ bytes[size + 1].value = 0 /\ bytes[size + 2].value = size
  BY <1>3, RecordBytes
<1>6. size \in Nat
  BY <1>3, RecordSize
<1> HIDE DEF bytes, size
<1>7. /\ log \in Seq(Byte) /\ records \in Seq(LogRecord) /\ ends \in Seq(Nat) /\ Len(ends) = Logged
      /\ Len(records) = Logged
  BY DEF LogInv, LogTypes, Logged
<1>8. /\ log' \in Seq(Byte) /\ Len(log') = Len(log) + size + 2
      /\ \A i \in 1 .. Len(log) : log'[i] = log[i]
      /\ \A i \in 1 .. size + 2 : log'[Len(log) + i] = bytes[i]
  <2>1. log' \in Seq(Byte) /\ Len(log') = Len(log) + Len(bytes)
    BY <1>4, <1>5, <1>7, Joined
  <2>2. \A i \in 1 .. Len(log) : log'[i] = log[i]
    BY <1>4, <1>5, <1>7, Joined
  <2>3. \A i \in 1 .. Len(bytes) : log'[Len(log) + i] = bytes[i]
    BY <1>4, <1>5, <1>7, Joined
  <2>4. Len(log) + Len(bytes) = Len(log) + size + 2
    BY <1>5, <1>6, <1>7
  <2> QED
    BY <1>5, <2>1, <2>2, <2>3, <2>4
<1>9. /\ records' \in Seq(LogRecord) /\ Logged' = Logged + 1 /\ records'[Logged + 1] = rec
      /\ \A n \in 1 .. Logged : records'[n] = records[n]
  BY <1>3, <1>4, <1>7 DEF Logged
<1>10. /\ ends' \in Seq(Nat) /\ Len(ends') = Logged + 1 /\ ends'[Logged + 1] = Len(log) + size + 2
       /\ \A n \in 1 .. Logged : ends'[n] = ends[n]
  BY <1>2, <1>4, <1>6, <1>7, <1>8
<1>11. /\ \A n \in 0 .. Logged : Edge(ends', n) = Edge(ends, n)
       /\ Edge(ends', Logged + 1) = Len(log) + size + 2
  BY <1>2, <1>10 DEF Edge
<1>12. LogTypes'
  <2>1. log' \in Seq(Byte) /\ records' \in Seq(LogRecord) /\ ends' \in Seq(Nat) /\ Len(ends') = Logged'
    BY <1>8, <1>9, <1>10
  <2>2. at' \in [Writers -> Nat]
    <3>1. Len(log) + Len(bytes) \in Nat
      BY <1>5, <1>6, <1>7
    <3> QED
      BY <1>4, <3>1 DEF LogInv, LogTypes
  <2>3. wrote' \in [Writers -> LogRecord]
    BY <1>3, <1>4 DEF LogInv, LogTypes
  <2>4. pending' = pending /\ scan' = scan
    BY <1>4
  <2> QED
    BY <2>1, <2>2, <2>3, <2>4 DEF LogInv, LogTypes
<1>13. \A n \in 0 .. Logged : Edge(ends, n) \in Nat /\ Edge(ends, n) <= Len(log)
  BY EdgeRange DEF LogInv
<1>14. LaidOut'
  <2>1. Len(log') = Edge(ends', Logged')
    BY <1>8, <1>9, <1>11
  <2>2. \A m, n \in 0 .. Logged' : m <= n => Edge(ends', m) <= Edge(ends', n)
    <3> SUFFICES ASSUME NEW m \in 0 .. Logged + 1, NEW n \in 0 .. Logged + 1, m <= n
                 PROVE  Edge(ends', m) <= Edge(ends', n)
      BY <1>9
    <3>1. CASE n <= Logged
      <4>1. m \in 0 .. Logged /\ n \in 0 .. Logged
        BY <1>2, <3>1
      <4>2. Edge(ends, m) <= Edge(ends, n)
        BY <4>1 DEF LogInv, LaidOut
      <4> QED
        BY <1>11, <4>1, <4>2
    <3>2. CASE n = Logged + 1 /\ m <= Logged
      BY <1>2, <1>6, <1>7, <1>11, <1>13, <3>2
    <3>3. CASE n = Logged + 1 /\ m = Logged + 1
      BY <1>6, <1>7, <1>11, <3>3
    <3> QED
      BY <1>2, <3>1, <3>2, <3>3
  <2>3. ASSUME NEW n \in 1 .. Logged
        PROVE  /\ records'[n].n = n /\ Edge(ends', n) = Edge(ends', n - 1) + RecSize(records'[n]) + 2
               /\ log'[Edge(ends', n - 1) + 1].rec = Packed(records'[n])
               /\ log'[Edge(ends', n) - 1].value = 0 /\ log'[Edge(ends', n)].value = RecSize(records'[n])
    <3>1. n \in 0 .. Logged /\ n - 1 \in 0 .. Logged
      BY <1>2
    <3>2. RecSize(records[n]) \in Nat /\ RecSize(records[n]) >= 1
      BY <1>7, RecordSize, LogConstants
    <3>3. /\ Edge(ends, n - 1) + 1 \in 1 .. Len(log) /\ Edge(ends, n) - 1 \in 1 .. Len(log)
          /\ Edge(ends, n) \in 1 .. Len(log)
      <4>1. Edge(ends, n) = Edge(ends, n - 1) + RecSize(records[n]) + 2
        BY DEF LogInv, LaidOut
      <4>2. Edge(ends, n - 1) \in Nat /\ Edge(ends, n) \in Nat /\ Edge(ends, n) <= Len(log) /\ Len(log) \in Nat
        BY <1>7, <1>13, <3>1
      <4> QED
        BY <3>2, <4>1, <4>2
    <3> QED
      BY SMTT(40), <1>8, <1>9, <1>11, <3>1, <3>3 DEF LogInv, LaidOut
  <2>4. /\ records'[Logged + 1].n = Logged + 1
        /\ Edge(ends', Logged + 1) = Edge(ends', Logged) + RecSize(records'[Logged + 1]) + 2
        /\ log'[Edge(ends', Logged) + 1].rec = Packed(records'[Logged + 1])
        /\ log'[Edge(ends', Logged + 1) - 1].value = 0
        /\ log'[Edge(ends', Logged + 1)].value = RecSize(records'[Logged + 1])
    <3>1. RecSize(records'[Logged + 1]) = size
      BY <1>9 DEF size
    <3>2. Edge(ends', Logged) = Len(log)
      BY <1>2, <1>11 DEF LogInv, LaidOut
    <3>3. /\ log'[Len(log) + 1] = bytes[1] /\ log'[Len(log) + (size + 1)] = bytes[size + 1]
          /\ log'[Len(log) + (size + 2)] = bytes[size + 2]
      BY <1>6, <1>8
    <3>4. Len(log) + (size + 1) = Edge(ends', Logged + 1) - 1 /\ Len(log) + (size + 2) = Edge(ends', Logged + 1)
      BY <1>6, <1>7, <1>11
    <3> QED
      BY <1>3, <1>5, <1>6, <1>7, <1>9, <1>11, <3>1, <3>2, <3>3, <3>4
  <2>5. ASSUME NEW n \in 1 .. Logged'
        PROVE  /\ records'[n].n = n /\ Edge(ends', n) = Edge(ends', n - 1) + RecSize(records'[n]) + 2
               /\ log'[Edge(ends', n - 1) + 1].rec = Packed(records'[n])
               /\ log'[Edge(ends', n) - 1].value = 0 /\ log'[Edge(ends', n)].value = RecSize(records'[n])
    <3>1. n \in 1 .. Logged \/ (n = Logged + 1 /\ n - 1 = Logged)
      BY <1>2, <1>9
    <3> QED
      BY <2>3, <2>4, <3>1
  <2> QED
    BY <2>1, <2>2, <2>5 DEF LaidOut
<1>15. Located'
  <2>1. ASSUME NEW q \in Writers, wrote'[q] # NoRecord
        PROVE  /\ wrote'[q].n \in 1 .. Logged' /\ wrote'[q].len = records'[wrote'[q].n].len
               /\ at'[q] = Edge(ends', wrote'[q].n)
    <3>1. CASE q = p
      <4>1. wrote'[p] = rec /\ at'[p] = Len(log) + size + 2
        BY <1>4, <1>5, <1>6, <1>7 DEF LogInv, LogTypes
      <4> QED
        BY <1>2, <1>3, <1>9, <1>11, <3>1, <4>1
    <3>2. CASE q # p
      <4>1. wrote'[q] = wrote[q] /\ at'[q] = at[q]
        BY <1>4, <3>2 DEF LogInv, LogTypes
      <4>2. /\ wrote[q].n \in 1 .. Logged /\ wrote[q].len = records[wrote[q].n].len
            /\ at[q] = Edge(ends, wrote[q].n)
        BY <2>1, <4>1 DEF LogInv, Located
      <4> QED
        BY <1>2, <1>9, <1>11, <4>1, <4>2
    <3> QED
      BY <3>1, <3>2
  <2>2. ASSUME NEW q \in Writers, NEW w \in pending'[q]
        PROVE  /\ w.rec.n \in 1 .. Logged' /\ w.rec.len = records'[w.rec.n].len
               /\ w.offset = Edge(ends', w.rec.n - 1)
    <3>1. /\ w.rec.n \in 1 .. Logged /\ w.rec.len = records[w.rec.n].len
          /\ w.offset = Edge(ends, w.rec.n - 1)
      BY <1>4 DEF LogInv, Located
    <3> QED
      BY SMTT(40), <1>2, <1>9, <1>11, <3>1
  <2> QED
    BY <2>1, <2>2 DEF Located
<1>16. Finding' /\ Buffered' /\ Counted'
  <2>1. \A n \in 1 .. Logged : records'[n].len = records[n].len /\ (records[n].done => records'[n].done)
    BY <1>9
  <2>2. Logged' >= Logged /\ UNCHANGED scan
    BY <1>2, <1>4, <1>9
  <2> QED
    BY <1>11, <1>12, <2>1, <2>2, WritersOnly
<1> QED
  BY <1>12, <1>14, <1>15, <1>16 DEF LogInv

\* The descriptor of the writer is at the end of its record, whoever wrote since.
LEMMA Append_OffsetKeeps ==
  ASSUME LogInv, NEW p \in Writers, Append_Offset(p)
  PROVE  LogInv'
<1> DEFINE r == wrote[p]
           w0 == [rec |-> r, offset |-> at[p] - (RecSize(r) + 2)]
<1>1. /\ r # NoRecord /\ pending' = [pending EXCEPT ![p] = @ \cup {w0}]
      /\ wrote' = [wrote EXCEPT ![p] = NoRecord] /\ UNCHANGED <<log, at, scan, records, ends>>
  BY DEF Append_Offset
<1>2. /\ r.n \in 1 .. Logged /\ r.len = records[r.n].len /\ at[p] = Edge(ends, r.n)
      /\ r \in LogRecord /\ records[r.n] \in LogRecord /\ Logged \in Nat
  BY <1>1 DEF LogInv, Located, LogTypes, Logged
<1>3. RecSize(r) = RecSize(records[r.n]) /\ RecSize(r) \in Nat
  BY <1>2, RecordSize
<1>4. Edge(ends, r.n - 1) \in Nat /\ Edge(ends, r.n) = Edge(ends, r.n - 1) + RecSize(r) + 2
  BY SMTT(40), <1>2, <1>3, EdgeRange DEF LogInv, LaidOut
<1>5. w0.offset = Edge(ends, r.n - 1) /\ w0.rec = r /\ w0 \in [rec : LogRecord, offset : Nat]
  BY <1>2, <1>3, <1>4
<1> HIDE DEF w0
<1>6. NoRecord \in LogRecord /\ pending'[p] = pending[p] \cup {w0}
      /\ (\A q \in Writers : q # p => pending'[q] = pending[q])
      /\ wrote'[p] = NoRecord /\ \A q \in Writers : q # p => wrote'[q] = wrote[q]
  BY <1>1 DEF LogInv, LogTypes, NoRecord, LogRecord
<1>7. LogTypes'
  BY <1>1, <1>5, <1>6 DEF LogInv, LogTypes, Logged
<1>8. LaidOut'
  BY <1>1 DEF LogInv, LaidOut, Logged
<1>9. Located'
  <2>1. ASSUME NEW q \in Writers, wrote'[q] # NoRecord
        PROVE  /\ wrote'[q].n \in 1 .. Logged' /\ wrote'[q].len = records'[wrote'[q].n].len
               /\ at'[q] = Edge(ends', wrote'[q].n)
    BY <1>1, <1>6, <2>1 DEF LogInv, Located, Logged
  <2>2. ASSUME NEW q \in Writers, NEW w \in pending'[q]
        PROVE  /\ w.rec.n \in 1 .. Logged' /\ w.rec.len = records'[w.rec.n].len
               /\ w.offset = Edge(ends', w.rec.n - 1)
    <3>1. CASE w = w0
      BY <1>1, <1>2, <1>5, <3>1 DEF Logged
    <3>2. CASE w \in pending[q]
      BY <1>1, <3>2 DEF LogInv, Located, Logged
    <3> QED
      BY <1>6, <3>1, <3>2
  <2> QED
    BY <2>1, <2>2 DEF Located
<1>10. Finding' /\ Buffered' /\ Counted'
  BY <1>1, <1>2, <1>7, WritersOnly DEF Logged
<1> QED
  BY <1>7, <1>8, <1>9, <1>10 DEF LogInv

\* The fixed part of a record is written where its head is, and nowhere else.
LEMMA OverlayKeeps ==
  ASSUME LogInv, NEW p \in Writers, Overlay(p)
  PROVE  LogInv'
<1>1. PICK w \in pending[p] :
        /\ log' = Overlaid(log, w.offset, FixedPart([w.rec EXCEPT !.done = TRUE]))
        /\ records' = [records EXCEPT ![w.rec.n].done = TRUE]
        /\ pending' = [pending EXCEPT ![p] = @ \ {w}]
  BY DEF Overlay
<1>2. UNCHANGED <<at, wrote, scan, ends>>
  BY DEF Overlay
<1> DEFINE k == w.rec.n
           done == [w.rec EXCEPT !.done = TRUE]
           bytes == FixedPart(done)
<1>3. /\ log \in Seq(Byte) /\ records \in Seq(LogRecord) /\ ends \in Seq(Nat) /\ Len(ends) = Logged
      /\ Len(records) = Logged /\ Logged \in Nat /\ w \in [rec : LogRecord, offset : Nat]
  BY DEF LogInv, LogTypes, Logged
<1>4. /\ k \in 1 .. Logged /\ w.rec.len = records[k].len /\ w.offset = Edge(ends, k - 1)
      /\ records[k].n = k /\ records[k] \in LogRecord
  BY <1>3 DEF LogInv, Located, LaidOut
<1>5. done \in LogRecord /\ done.n = k /\ done.len = records[k].len /\ done.done = TRUE
  BY <1>3, <1>4 DEF LogRecord
<1>6. /\ records' \in Seq(LogRecord) /\ Logged' = Logged
      /\ \A n \in 1 .. Logged : n # k => records'[n] = records[n]
      /\ records'[k] = [records[k] EXCEPT !.done = TRUE]
  <2> DEFINE over == [records[k] EXCEPT !.done = TRUE]
  <2>1. records' = [records EXCEPT ![k] = over]
    BY <1>1
  <2>2. over \in LogRecord
    BY <1>4 DEF LogRecord
  <2> HIDE DEF over, k
  <2>3. /\ records' \in Seq(LogRecord) /\ Len(records') = Len(records) /\ records'[k] = over
        /\ \A n \in 1 .. Logged : n # k => records'[n] = records[n]
    BY <1>3, <1>4, <2>1, <2>2
  <2> QED
    BY <2>3 DEF Logged, over
<1>7. records'[k] = done
  <2>1. /\ records'[k] \in LogRecord /\ records'[k].n = k /\ records'[k].len = records[k].len
        /\ records'[k].done = TRUE
    BY <1>4, <1>6 DEF LogRecord
  <2> QED
    BY <1>5, <2>1 DEF LogRecord
<1>8. /\ bytes \in Seq(Byte) /\ Len(bytes) = Fixed /\ bytes[1].rec = Packed(done)
      /\ RecSize(done) \in Nat /\ RecSize(done) >= Fixed /\ Fixed \in Nat /\ Fixed >= 1
      /\ RecSize(done) = RecSize(records[k])
  <2>1. /\ RecSize(done) = Fixed + Packed(done).len /\ RecSize(records[k]) = Fixed + Packed(records[k]).len
        /\ Packed(done).len = done.len % PathSize /\ Packed(records[k]).len = records[k].len % PathSize
        /\ RecSize(done) \in Nat /\ RecSize(done) >= Fixed
    BY <1>4, <1>5, RecordSize
  <2>2. bytes \in Seq(Byte) /\ Len(bytes) = Fixed /\ bytes[1].rec = Packed(done)
    BY <1>5, RecordBytes
  <2> QED
    BY <1>5, <2>1, <2>2, LogConstants
<1> DEFINE from == Edge(ends, k - 1)
<1>9. /\ from \in Nat /\ Edge(ends, k) = from + RecSize(done) + 2 /\ Edge(ends, k) <= Len(log)
      /\ Edge(ends, k) \in Nat
  <2>1. k \in 0 .. Logged /\ k - 1 \in 0 .. Logged
    BY <1>3, <1>4
  <2> QED
    BY <1>4, <1>8, <2>1, EdgeRange DEF LogInv, LaidOut
<1>10. log' = Overlaid(log, from, bytes)
  BY <1>1, <1>4
<1> HIDE DEF done, bytes, from, k
<1>11. from + Len(bytes) <= Len(log)
  BY <1>3, <1>8, <1>9
<1>12. /\ log' \in Seq(Byte) /\ Len(log') = Len(log)
       /\ \A i \in 1 .. Len(log) :
            log'[i] = IF i > from /\ i <= from + Fixed THEN bytes[i - from] ELSE log[i]
  BY SMTT(40), <1>3, <1>8, <1>9, <1>10, <1>11, OverlaidBytes
<1>13. /\ pending' \in [Writers -> SUBSET [rec : LogRecord, offset : Nat]]
       /\ \A q \in Writers : pending'[q] \subseteq pending[q]
  BY <1>1 DEF LogInv, LogTypes
<1>14. LogTypes'
  BY <1>2, <1>3, <1>6, <1>12, <1>13 DEF LogInv, LogTypes, Logged
<1>15. \A n \in 1 .. Logged :
         /\ records'[n].n = records[n].n /\ records'[n].len = records[n].len
         /\ RecSize(records'[n]) = RecSize(records[n]) /\ RecSize(records[n]) \in Nat /\ RecSize(records[n]) >= Fixed
         /\ (records[n].done => records'[n].done)
  <2> SUFFICES ASSUME NEW n \in 1 .. Logged
               PROVE  /\ records'[n].n = records[n].n /\ records'[n].len = records[n].len
                      /\ RecSize(records'[n]) = RecSize(records[n]) /\ RecSize(records[n]) \in Nat
                      /\ RecSize(records[n]) >= Fixed /\ (records[n].done => records'[n].done)
    OBVIOUS
  <2>1. RecSize(records[n]) \in Nat /\ RecSize(records[n]) >= Fixed
    BY <1>3, RecordSize
  <2> QED
    BY <1>4, <1>5, <1>6, <1>7, <1>8, <2>1
<1>16. LaidOut'
  <2>1. ASSUME NEW n \in 1 .. Logged
        PROVE  /\ records'[n].n = n /\ Edge(ends, n) = Edge(ends, n - 1) + RecSize(records'[n]) + 2
               /\ log'[Edge(ends, n - 1) + 1].rec = Packed(records'[n])
               /\ log'[Edge(ends, n) - 1].value = 0 /\ log'[Edge(ends, n)].value = RecSize(records'[n])
    <3>1. n \in 0 .. Logged /\ n - 1 \in 0 .. Logged /\ k \in 0 .. Logged /\ k - 1 \in 0 .. Logged
      BY <1>3, <1>4
    <3>2. /\ records[n].n = n /\ Edge(ends, n) = Edge(ends, n - 1) + RecSize(records[n]) + 2
          /\ log[Edge(ends, n - 1) + 1].rec = Packed(records[n])
          /\ log[Edge(ends, n) - 1].value = 0 /\ log[Edge(ends, n)].value = RecSize(records[n])
      BY DEF LogInv, LaidOut
    <3>3. /\ Edge(ends, n - 1) \in Nat /\ Edge(ends, n) \in Nat /\ Edge(ends, n) <= Len(log)
          /\ Len(log) \in Nat
      BY <1>3, <3>1, EdgeRange DEF LogInv
    <3>4. /\ Edge(ends, n - 1) + 1 \in 1 .. Len(log) /\ Edge(ends, n) - 1 \in 1 .. Len(log)
          /\ Edge(ends, n) \in 1 .. Len(log)
      BY SMTT(40), <1>8, <1>15, <3>2, <3>3
    <3>5. /\ n < k => Edge(ends, n) <= from
          /\ n > k => Edge(ends, n - 1) >= Edge(ends, k)
      <4>1. n < k => n <= k - 1
        BY <1>3, <1>4
      <4>2. n > k => k <= n - 1
        BY <1>3, <1>4
      <4> QED
        BY <3>1, <4>1, <4>2 DEF LogInv, LaidOut, from
    <3>6. log'[Edge(ends, n - 1) + 1].rec = Packed(records'[n])
      <4>1. CASE n = k
        <5>1. Edge(ends, n - 1) + 1 > from /\ Edge(ends, n - 1) + 1 <= from + Fixed
              /\ Edge(ends, n - 1) + 1 - from = 1
          BY <1>8, <1>9, <4>1 DEF from
        <5>2. \A i \in 1 .. Len(log) : i > from /\ i <= from + Fixed => log'[i] = bytes[i - from]
          BY <1>12
        <5> DEFINE i0 == Edge(ends, n - 1) + 1
        <5>3. i0 \in 1 .. Len(log) /\ i0 > from /\ i0 <= from + Fixed /\ i0 - from = 1
          BY <1>9, <3>3, <3>4, <5>1
        <5> SUFFICES log'[i0].rec = Packed(records'[n])
          BY DEF i0
        <5> HIDE DEF i0
        <5>4. log'[i0] = bytes[1]
          BY <5>2, <5>3
        <5> QED
          BY <1>7, <1>8, <4>1, <5>4
      <4>2. CASE n # k
        <5>1. n < k \/ n > k
          BY <1>3, <1>4, <4>2
        <5>2. ~(Edge(ends, n - 1) + 1 > from /\ Edge(ends, n - 1) + 1 <= from + Fixed)
          BY SMTT(40), <1>8, <1>9, <1>15, <3>2, <3>3, <3>5, <5>1
        <5>3. log'[Edge(ends, n - 1) + 1] = log[Edge(ends, n - 1) + 1]
          BY <1>12, <3>4, <5>2
        <5> QED
          BY <1>6, <3>2, <4>2, <5>3
      <4> QED
        BY <4>1, <4>2
    <3>7. log'[Edge(ends, n) - 1] = log[Edge(ends, n) - 1] /\ log'[Edge(ends, n)] = log[Edge(ends, n)]
      <4> DEFINE e == Edge(ends, n)
      <4>1. e <= from \/ e - 1 > from + Fixed
        <5>1. CASE n < k
          BY <3>5, <5>1
        <5>2. CASE n = k
          BY <1>8, <1>9, <5>2
        <5>3. CASE n > k
          <6>1. RecSize(records[n]) \in Nat
            BY <1>15
          <6>2. Edge(ends, n - 1) >= from + RecSize(done) + 2 /\ e = Edge(ends, n - 1) + RecSize(records[n]) + 2
            BY <1>9, <3>2, <3>5, <5>3
          <6>3. Edge(ends, n - 1) \in Nat
            BY <3>3
          <6> HIDE DEF e
          <6> QED
            BY SMTT(40), <1>8, <1>9, <6>1, <6>2, <6>3
        <5>4. n < k \/ n = k \/ n > k
          BY <1>3, <1>4
        <5> QED
          BY <5>1, <5>2, <5>3, <5>4
      <4>2. e \in 1 .. Len(log) /\ e - 1 \in 1 .. Len(log) /\ e \in Nat
        BY <3>3, <3>4
      <4> HIDE DEF e
      <4>3. /\ ~(e > from /\ e <= from + Fixed)
            /\ ~(e - 1 > from /\ e - 1 <= from + Fixed)
        BY <1>8, <1>9, <4>1, <4>2
      <4>4. log'[e - 1] = log[e - 1] /\ log'[e] = log[e]
        BY <1>12, <4>2, <4>3
      <4> QED
        BY <4>4 DEF e
    <3> QED
      BY <1>15, <3>2, <3>6, <3>7
  <2> QED
    BY <1>2, <1>6, <1>12, <2>1 DEF LogInv, LaidOut
<1>17. Located'
  <2>1. ASSUME NEW q \in Writers, wrote'[q] # NoRecord
        PROVE  /\ wrote'[q].n \in 1 .. Logged' /\ wrote'[q].len = records'[wrote'[q].n].len
               /\ at'[q] = Edge(ends', wrote'[q].n)
    BY <1>2, <1>6, <1>15, <2>1 DEF LogInv, Located
  <2>2. ASSUME NEW q \in Writers, NEW v \in pending'[q]
        PROVE  /\ v.rec.n \in 1 .. Logged' /\ v.rec.len = records'[v.rec.n].len
               /\ v.offset = Edge(ends', v.rec.n - 1)
    BY <1>2, <1>6, <1>13, <1>15 DEF LogInv, Located
  <2> QED
    BY <2>1, <2>2 DEF Located
<1>18. Finding' /\ Buffered' /\ Counted'
  BY <1>2, <1>3, <1>6, <1>14, <1>15, WritersOnly
<1> QED
  BY <1>14, <1>16, <1>17, <1>18 DEF LogInv

LEMMA ScanFields ==
  ASSUME LogInv
  PROVE  /\ scan.nrecs \in Int /\ scan.offset \in Nat /\ scan.buf \in Seq(Byte) /\ scan.recnum \in Nat
         /\ scan.found \in Seq(LogRecord) /\ scan.stopped \in Nat /\ scan.old \in Seq(LogRecord)
         /\ Logged \in Nat /\ Len(scan.buf) \in Nat /\ Len(scan.old) \in Nat /\ Len(scan.found) \in Nat
         /\ Len(scan.old) <= Logged /\ Ahead \in 0 .. Logged /\ Ahead <= Len(scan.old)
         /\ records \in Seq(LogRecord) /\ Len(records) = Logged /\ log \in Seq(Byte) /\ BufSize \in Nat
BY LogConstants DEF LogInv, LogTypes, Finding, Ahead, Logged

\* A record is at least as long as its length.
LEMMA EdgeStep ==
  ASSUME LogInv, NEW n \in 1 .. Logged
  PROVE  /\ RecSize(records[n]) \in Nat /\ RecSize(records[n]) >= 1 /\ RecSize(records[n]) < Base
         /\ Edge(ends, n - 1) \in Nat /\ Edge(ends, n) \in Nat /\ Edge(ends, n) <= Len(log)
         /\ Edge(ends, n) = Edge(ends, n - 1) + RecSize(records[n]) + 2
<1>1. n \in 0 .. Logged /\ n - 1 \in 0 .. Logged /\ records[n] \in LogRecord
  BY ScanFields
<1> QED
  BY <1>1, EdgeRange, RecordSize, LogConstants DEF LogInv, LaidOut

\* What is at the end of the buffer: the length of the next record; and its head, if it
\* is whole and its length is taken for what it is.  At the start of the file it is whole.
LEMMA NextRecord ==
  ASSUME LogInv, scan.pc = "record"
  PROVE  /\ Reclen(scan.buf) \in Int
         /\ NotWhole(scan.buf) /\ scan.offset = 0 => Ahead = 0
         /\ ~NotWhole(scan.buf) /\ Reclen(scan.buf) >= 0 =>
              /\ Ahead >= 1 /\ Reclen(scan.buf) = RecSize(records[Ahead])
              /\ Len(scan.buf) - (Reclen(scan.buf) + 2) = Edge(ends, Ahead - 1) - scan.offset
<1> DEFINE b == scan.buf
           k == Ahead
<1>1. scan.offset + Len(b) = Edge(ends, k) /\ scan.offset \in Nat /\ b \in Seq(Byte)
      /\ Len(b) \in Nat /\ k \in 0 .. Logged /\ Logged \in Nat
  BY ScanFields DEF LogInv, Buffered, GoesOn
<1>2. k = 0 => Len(b) = 0
  BY <1>1 DEF Edge
<1>3. k >= 1 => k \in 1 .. Logged /\ k \in 1 .. Ahead
  BY <1>1
<1>4. ASSUME k >= 1, Len(b) >= 2
      PROVE  Reclen(b) \in Int /\ (Reclen(b) = RecSize(records[k]) \/ Reclen(b) < 0)
  <2>1. Edge(ends, k) - 1 > scan.offset /\ Edge(ends, k) > scan.offset
        /\ Edge(ends, k) - 1 - scan.offset = Len(b) - 1 /\ Edge(ends, k) - scan.offset = Len(b)
    BY <1>1, <1>4
  <2>2. b[Len(b) - 1].value = 0 /\ b[Len(b)].value = RecSize(records[k])
    BY <1>3, <1>4, <2>1 DEF LogInv, Buffered, GoesOn
  <2>3. RecSize(records[k]) \in Nat /\ RecSize(records[k]) < Base
    BY <1>3, <1>4, EdgeStep
  <2> QED
    BY <1>1, <1>4, <2>2, <2>3, LengthRead
<1>5. Len(b) < 2 => Reclen(b) = 0
  BY DEF Reclen
<1>6. Reclen(b) \in Int
  BY <1>1, <1>2, <1>4, <1>5
<1>7. k >= 1 => /\ RecSize(records[k]) \in Nat /\ Edge(ends, k - 1) \in Nat
                /\ Edge(ends, k) = Edge(ends, k - 1) + RecSize(records[k]) + 2
  BY <1>3, EdgeStep
<1> HIDE DEF b, k
<1>8. NotWhole(b) /\ scan.offset = 0 => k = 0
  <2> SUFFICES ASSUME NotWhole(b), scan.offset = 0, k # 0 PROVE FALSE
    OBVIOUS
  <2>1. k >= 1 /\ Len(b) < Reclen(b) + 2
    BY <1>1 DEF NotWhole
  <2>2. Len(b) >= RecSize(records[k]) + 2
    BY <1>1, <1>7, <2>1
  <2> QED
    BY <1>1, <1>4, <1>6, <1>7, <2>1, <2>2
<1>9. ASSUME ~NotWhole(b), Reclen(b) >= 0
      PROVE  /\ k >= 1 /\ Reclen(b) = RecSize(records[k])
             /\ Len(b) - (Reclen(b) + 2) = Edge(ends, k - 1) - scan.offset
  <2>1. Len(b) >= Reclen(b) + 2 /\ Len(b) >= 2
    BY <1>1, <1>6, <1>9 DEF NotWhole
  <2>2. k >= 1
    BY <1>1, <1>2, <2>1
  <2>3. Reclen(b) = RecSize(records[k])
    BY <1>4, <1>6, <1>9, <2>1, <2>2
  <2> QED
    BY SMTT(40), <1>1, <1>7, <2>2, <2>3
<1> QED
  BY <1>6, <1>8, <1>9 DEF b, k

\* A scan begins at the end of the file with the records that are there.
LEMMA Scan_BeginKeeps == LogInv /\ Scan_Begin => LogInv'
<1> SUFFICES ASSUME LogInv, Scan_Begin PROVE LogInv'
  OBVIOUS
<1>1. PICK nrecs \in Nrecs :
        scan' = [NoScan EXCEPT !.pc = "buffer", !.nrecs = nrecs, !.offset = Len(log), !.old = records]
  BY DEF Scan_Begin
<1>2. UNCHANGED writerVars
  BY DEF Scan_Begin
<1>3. nrecs \in Int /\ Len(log) \in Nat /\ records \in Seq(LogRecord) /\ Logged \in Nat /\ Len(records) = Logged
  BY WriteLogAssumption, ScanFields
<1>4. /\ scan'.pc = "buffer" /\ scan'.nrecs = nrecs /\ scan'.offset = Len(log) /\ scan'.buf = <<>>
      /\ scan'.recnum = 0 /\ scan'.found = <<>> /\ scan'.stopped = 0 /\ scan'.old = records
      /\ scan' \in [pc : {"idle", "buffer", "record", "done", "astray", "crashed"}, nrecs : Int,
                    offset : Nat, buf : Seq(Byte), recnum : Nat, found : Seq(LogRecord),
                    stopped : Nat, old : Seq(LogRecord)]
  <2>1. scan' = [pc |-> "buffer", nrecs |-> nrecs, offset |-> Len(log), buf |-> <<>>, recnum |-> 0,
                 found |-> <<>>, stopped |-> 0, old |-> records]
    BY <1>1 DEF NoScan
  <2> QED
    BY <1>3, <2>1
<1>5. LogTypes'
  BY <1>2, <1>4, ScanOnly DEF LogTypes
<1>6. LaidOut' /\ Located' /\ Logged' = Logged /\ records' = records /\ ends' = ends /\ log' = log
  BY <1>2, ScanOnly DEF writerVars
<1>7. Ahead' = Logged
  BY <1>3, <1>4 DEF Ahead
<1>8. Finding'
  <2>1. Len(scan'.old) <= Logged' /\ Ahead' >= 0 /\ Len(scan'.found) = 0
    BY <1>3, <1>4, <1>6, <1>7
  <2> QED
    BY <1>4, <1>6, <2>1 DEF Finding
<1>9. Buffered'
  <2>1. Len(scan'.buf) = 0 /\ BufSize \in Nat
    BY <1>4, LogConstants
  <2>2. scan'.offset + Len(scan'.buf) = Edge(ends', Ahead')
    BY <1>3, <1>4, <1>6, <1>7, <2>1 DEF LogInv, LaidOut
  <2>3. ASSUME NEW n \in 1 .. Ahead'
        PROVE  ~(Edge(ends', n - 1) >= scan'.offset) /\ ~(Edge(ends', n) > scan'.offset)
               /\ ~(Edge(ends', n) - 1 > scan'.offset)
    <3>1. /\ n \in 1 .. Logged /\ ends' = ends /\ scan'.offset = Len(log)
      BY <1>4, <1>6, <1>7
    <3>2. /\ RecSize(records[n]) \in Nat /\ Edge(ends, n - 1) \in Nat /\ Edge(ends, n) \in Nat
          /\ Edge(ends, n) <= Len(log) /\ Edge(ends, n) = Edge(ends, n - 1) + RecSize(records[n]) + 2
      BY <3>1, EdgeStep
    <3> QED
      BY <1>3, <3>1, <3>2
  <2> QED
    BY <2>1, <2>2, <2>3, <1>3 DEF Buffered
<1>10. Counted'
  <2>1. Len(log) = 0 => Logged = 0
    <3>1. Logged >= 1 => Logged \in 1 .. Logged
      BY <1>3
    <3> QED
      BY <1>3, <3>1, EdgeStep
  <2>2. Len(scan'.found) = 0
    BY <1>4
  <2> QED
    BY <1>3, <1>4, <1>7, <2>1, <2>2 DEF Counted
<1> QED
  BY <1>5, <1>6, <1>8, <1>9, <1>10 DEF LogInv

\* A step that changes where the scan stands, and what it has read.
LEMMA ScanMoves ==
  ASSUME LogInv, UNCHANGED writerVars,
         scan'.found = scan.found, scan'.old = scan.old, LogTypes'
  PROVE  LaidOut' /\ Located' /\ Finding' /\ Ahead' = Ahead
<1>1. LaidOut' /\ Located' /\ Logged' = Logged /\ records' = records
  BY ScanOnly
<1>2. \A rec, n : Seen(scan, records, rec, n) => Seen(scan', records', rec, n)
  BY <1>1 DEF Seen
<1> QED
  BY <1>1, <1>2 DEF LogInv, Finding, Ahead

LEMMA Scan_ReturnKeeps == LogInv /\ Scan_Return => LogInv'
<1> SUFFICES ASSUME LogInv, Scan_Return PROVE LogInv'
  OBVIOUS
<1>1. scan' = [scan EXCEPT !.pc = "done"] /\ scan.pc = "buffer" /\ ~More(scan) /\ UNCHANGED writerVars
  BY DEF Scan_Return
<1>2. LogTypes'
  BY <1>1, ScanOnly DEF LogInv, LogTypes
<1>3. /\ scan'.pc = "done" /\ scan'.nrecs = scan.nrecs /\ scan'.offset = scan.offset /\ scan'.buf = scan.buf
      /\ scan'.recnum = scan.recnum /\ scan'.found = scan.found /\ scan'.stopped = scan.stopped
      /\ scan'.old = scan.old
  BY <1>1 DEF LogInv, LogTypes
<1>4. LaidOut' /\ Located' /\ Finding' /\ Ahead' = Ahead
  BY <1>1, <1>2, <1>3, ScanMoves
<1>5. Buffered'
  BY <1>3 DEF LogInv, Buffered, GoesOn
<1>6. Counted'
  BY <1>1, <1>3, <1>4 DEF LogInv, Counted, More, Enough
<1> QED
  BY <1>2, <1>4, <1>5, <1>6 DEF LogInv

\* What is left over stays in the buffer; at the start of the file nothing is.
LEMMA Scan_LeftoverKeeps == LogInv /\ Scan_Leftover => LogInv'
<1> SUFFICES ASSUME LogInv, Scan_Leftover PROVE LogInv'
  OBVIOUS
<1>1. scan' = [scan EXCEPT !.pc = "buffer"] /\ scan.pc = "record" /\ NotWhole(scan.buf) /\ UNCHANGED writerVars
  BY DEF Scan_Leftover
<1>2. LogTypes'
  BY <1>1, ScanOnly DEF LogInv, LogTypes
<1>3. /\ scan'.pc = "buffer" /\ scan'.nrecs = scan.nrecs /\ scan'.offset = scan.offset /\ scan'.buf = scan.buf
      /\ scan'.recnum = scan.recnum /\ scan'.found = scan.found /\ scan'.stopped = scan.stopped
      /\ scan'.old = scan.old
  BY <1>1 DEF LogInv, LogTypes
<1>4. LaidOut' /\ Located' /\ Finding' /\ Ahead' = Ahead
  BY <1>1, <1>2, <1>3, ScanMoves
<1>5. Buffered'
  <2>1. ends' = ends /\ records' = records
    BY <1>1 DEF writerVars
  <2>2. \A rec, n : Seen(scan, records, rec, n) => Seen(scan', records', rec, n)
    BY <1>3, <2>1 DEF Seen
  <2> QED
    BY <1>1, <1>3, <1>4, <2>1, <2>2 DEF LogInv, Buffered, GoesOn
<1>6. Counted'
  <2>1. scan.offset = 0 => Ahead = 0
    BY <1>1, NextRecord
  <2> QED
    BY <1>1, <1>3, <1>4, <2>1 DEF LogInv, Counted, Enough
<1> QED
  BY <1>2, <1>4, <1>5, <1>6 DEF LogInv

LEMMA Scan_CrashKeeps == LogInv /\ Scan_Crash => LogInv'
<1> SUFFICES ASSUME LogInv, Scan_Crash PROVE LogInv'
  OBVIOUS
<1>1. scan' = [scan EXCEPT !.pc = "crashed"] /\ UNCHANGED writerVars
  BY DEF Scan_Crash
<1>2. LogTypes'
  BY <1>1, ScanOnly DEF LogInv, LogTypes
<1>3. /\ scan'.pc = "crashed" /\ scan'.nrecs = scan.nrecs /\ scan'.buf = scan.buf
      /\ scan'.recnum = scan.recnum /\ scan'.found = scan.found /\ scan'.stopped = scan.stopped
      /\ scan'.old = scan.old
  BY <1>1 DEF LogInv, LogTypes
<1>4. LaidOut' /\ Located' /\ Finding'
  BY <1>1, <1>2, <1>3, ScanMoves
<1>5. Buffered' /\ Counted'
  BY <1>3 DEF LogInv, Buffered, GoesOn, Counted
<1> QED
  BY <1>2, <1>4, <1>5 DEF LogInv

\* What the file has now of a record that the scan looks for.
LEMMA SeenNow ==
  ASSUME LogInv, NEW n \in 1 .. Len(scan.old)
  PROVE  Seen(scan, records, Packed(records[n]), n) /\ n \in 1 .. Logged
<1>1. n \in 1 .. Logged /\ records[n] \in LogRecord /\ scan.old[n] \in LogRecord
  BY ScanFields
<1>2. /\ records[n].n = n /\ scan.old[n].len = records[n].len
      /\ (scan.old[n].done => records[n].done)
  BY <1>1 DEF LogInv, LaidOut, Finding
<1>3. /\ Packed(records[n]).n = n /\ Packed(records[n]).done = records[n].done
      /\ Packed(records[n]).len = records[n].len % PathSize
      /\ Packed(scan.old[n]).len = scan.old[n].len % PathSize
  BY <1>1, <1>2, RecordSize
<1> QED
  BY <1>1, <1>2, <1>3 DEF Seen

\* A buffer more: its bytes are those of the file, and behind them what was left over.
LEMMA Scan_ReadKeeps == LogInv /\ Scan_Read => LogInv'
<1> SUFFICES ASSUME LogInv, Scan_Read PROVE LogInv'
  OBVIOUS
<1> DEFINE offset == scan.offset
           b == scan.buf
           from == From(offset, Len(b))
           new == SubSeq(log, from + 1, offset)
<1>1. /\ scan' = [scan EXCEPT !.pc = "record", !.offset = from, !.buf = new \o b]
      /\ scan.pc = "buffer" /\ More(scan) /\ UNCHANGED writerVars
  BY DEF Scan_Read
<1>2. /\ offset \in Nat /\ b \in Seq(Byte) /\ Len(b) \in Nat /\ log \in Seq(Byte) /\ Len(log) \in Nat
      /\ BufSize \in Nat /\ Logged \in Nat /\ Ahead \in 0 .. Logged /\ Ahead <= Len(scan.old) /\ Len(scan.old) \in Nat
  BY ScanFields
<1>3. Len(b) <= BufSize /\ offset + Len(b) = Edge(ends, Ahead)
  BY <1>1 DEF LogInv, Buffered, GoesOn
<1>4. Edge(ends, Ahead) \in Nat /\ Edge(ends, Ahead) <= Len(log)
  BY <1>2, EdgeRange DEF LogInv
<1>5. from \in Nat /\ from <= offset /\ offset - from + Len(b) <= BufSize /\ offset <= Len(log)
  BY SMTT(40), <1>2, <1>3, <1>4 DEF From
<1> HIDE DEF from
<1>6. /\ new \in Seq(Byte) /\ Len(new) = offset - from
      /\ \A i \in 1 .. offset - from : new[i] = log[from + i]
  BY <1>2, <1>5, Piece
<1> HIDE DEF new, b, offset
<1>7. /\ new \o b \in Seq(Byte) /\ Len(new \o b) = offset - from + Len(b)
      /\ \A i \in 1 .. offset - from : (new \o b)[i] = log[from + i]
      /\ \A i \in 1 .. Len(b) : (new \o b)[offset - from + i] = b[i]
  <2>1. b \in Seq(Byte) /\ Len(b) \in Nat /\ offset - from \in Nat
    BY <1>2, <1>5 DEF b, offset
  <2>2. /\ new \o b \in Seq(Byte) /\ Len(new \o b) = Len(new) + Len(b)
        /\ \A i \in 1 .. Len(new) : (new \o b)[i] = new[i]
        /\ \A i \in 1 .. Len(b) : (new \o b)[Len(new) + i] = b[i]
    BY <1>6, <2>1, Joined
  <2> QED
    BY <1>6, <2>2
<1>8. /\ scan'.pc = "record" /\ scan'.nrecs = scan.nrecs /\ scan'.offset = from /\ scan'.buf = new \o b
      /\ scan'.recnum = scan.recnum /\ scan'.found = scan.found /\ scan'.stopped = scan.stopped
      /\ scan'.old = scan.old
  BY <1>1 DEF LogInv, LogTypes
<1>9. LogTypes'
  BY <1>1, <1>5, <1>7, ScanOnly DEF LogInv, LogTypes
<1>10. LaidOut' /\ Located' /\ Finding' /\ Ahead' = Ahead
  BY <1>1, <1>8, <1>9, ScanMoves
<1>11. ends' = ends /\ records' = records
  BY <1>1 DEF writerVars
<1> DEFINE buf == scan'.buf
\* The byte at place e of the file.
<1>12. ASSUME NEW e \in Nat, e > from, e <= offset
       PROVE  buf[e - from] = log[e]
  <2>1. e - from \in 1 .. offset - from /\ from + (e - from) = e
    BY <1>2, <1>5, <1>12 DEF offset
  <2> QED
    BY <1>7, <1>8, <2>1
<1>13. ASSUME NEW e \in Nat, e > offset, e <= offset + Len(b)
       PROVE  buf[e - from] = b[e - offset]
  <2>1. e - offset \in 1 .. Len(b) /\ offset - from + (e - offset) = e - from
    BY SMTT(40), <1>2, <1>5, <1>13 DEF offset
  <2> QED
    BY <1>7, <1>8, <2>1
<1>14. Buffered'
  <2>1. Len(buf) <= BufSize /\ from + Len(buf) = Edge(ends, Ahead)
    <3>1. offset - from + Len(b) <= BufSize
      BY <1>5
    <3>2. offset \in Nat
      BY <1>2 DEF offset
    <3> QED
      BY <1>2, <1>3, <1>5, <1>7, <1>8, <3>1, <3>2
  <2>2. ASSUME NEW n \in 1 .. Ahead
        PROVE  /\ Edge(ends, n - 1) >= from =>
                    Seen(scan, records, buf[Edge(ends, n - 1) - from + 1].rec, n)
               /\ Edge(ends, n) - 1 > from => buf[Edge(ends, n) - 1 - from].value = 0
               /\ Edge(ends, n) > from => buf[Edge(ends, n) - from].value = RecSize(records[n])
    <3> DEFINE d == Edge(ends, n - 1)
               e == Edge(ends, n)
    <3>1. n \in 1 .. Logged /\ n \in 1 .. Len(scan.old) /\ n \in 0 .. Logged
      BY <1>2
    <3>2. d \in Nat /\ e \in Nat /\ e = d + RecSize(records[n]) + 2 /\ RecSize(records[n]) \in Nat
      BY <3>1, EdgeStep
    <3>3. e <= offset + Len(b)
      <4>1. n <= Ahead /\ Ahead \in 0 .. Logged
        BY <1>2
      <4> QED
        BY <1>3, <3>1, <4>1 DEF LogInv, LaidOut
    <3>4. log[d + 1].rec = Packed(records[n]) /\ log[e - 1].value = 0 /\ log[e].value = RecSize(records[n])
      BY <3>1 DEF LogInv, LaidOut
    <3>5. /\ d >= offset => Seen(scan, records, b[d - offset + 1].rec, n)
          /\ e - 1 > offset => b[e - 1 - offset].value = 0
          /\ e > offset => b[e - offset].value = RecSize(records[n])
      BY <1>1 DEF LogInv, Buffered, GoesOn, b, offset
    <3>6. offset \in Nat
      BY <1>2 DEF offset
    <3> HIDE DEF d, e, buf
    <3>7. ASSUME d >= from PROVE Seen(scan, records, buf[d - from + 1].rec, n)
      <4> DEFINE h == d + 1
      <4>4. h \in Nat /\ h > from /\ h <= offset + Len(b) /\ h - from = d - from + 1 /\ h - offset = d - offset + 1
        BY SMTT(40), <1>2, <1>5, <3>2, <3>3, <3>6, <3>7
      <4>2. CASE d >= offset
        <5>1. h > offset
          BY <3>2, <3>6, <4>2
        <5> HIDE DEF h
        <5>2. buf[h - from] = b[h - offset]
          BY <1>13, <4>4, <5>1
        <5> QED
          BY <3>5, <4>2, <4>4, <5>2
      <4>3. CASE ~(d >= offset)
        <5>1. h <= offset
          BY <3>2, <3>6, <4>3
        <5>3. log[h].rec = Packed(records[n])
          BY <3>4
        <5> HIDE DEF h
        <5>2. buf[h - from] = log[h]
          BY <1>12, <4>4, <5>1
        <5> QED
          BY <3>1, <4>4, <5>2, <5>3, SeenNow
      <4> QED
        BY <4>2, <4>3
    <3>8. ASSUME e - 1 > from PROVE buf[e - 1 - from].value = 0
      <4>1. e - 1 \in Nat /\ e - 1 <= offset + Len(b)
        BY SMTT(40), <1>2, <3>2, <3>3, <3>6
      <4>2. CASE e - 1 > offset
        BY <1>13, <3>5, <4>1, <4>2
      <4>3. CASE e - 1 <= offset
        BY <1>12, <3>4, <3>8, <4>1, <4>3
      <4> QED
        BY <3>6, <4>1, <4>2, <4>3
    <3>9. ASSUME e > from PROVE buf[e - from].value = RecSize(records[n])
      <4>1. CASE e > offset
        BY <1>13, <3>2, <3>3, <3>5, <4>1
      <4>2. CASE e <= offset
        BY <1>12, <3>2, <3>4, <3>9, <4>2
      <4> QED
        BY <3>2, <3>6, <4>1, <4>2
    <3> QED
      BY <3>7, <3>8, <3>9 DEF d, e
  <2>3. \A rec, n : Seen(scan, records, rec, n) => Seen(scan', records', rec, n)
    BY <1>8, <1>11 DEF Seen
  <2> QED
    BY <1>8, <1>10, <1>11, <2>1, <2>2, <2>3 DEF Buffered
<1>15. Counted'
  BY <1>1, <1>8, <1>10 DEF LogInv, Counted, More, Enough
<1> QED
  BY <1>9, <1>10, <1>14, <1>15 DEF LogInv

\* A record found: it is the next one, and what is before it stays in the buffer unless
\* the scan is over.
LEMMA Scan_RecordKeeps == LogInv /\ Scan_Record => LogInv'
<1> SUFFICES ASSUME LogInv, Scan_Record PROVE LogInv'
  OBVIOUS
<1> DEFINE b == scan.buf
           k == Ahead
           head == Len(b) - (Reclen(b) + 2)
           rec == wlog_rec_unpack(SubSeq(b, head + 1, Len(b)))
           found == Append(scan.found, rec)
           S(stop) == [scan EXCEPT !.found = found, !.recnum = IF stop THEN @ ELSE @ + 1,
                                   !.stopped = IF stop /\ @ = 0 THEN Len(found) ELSE @]
<1>1. PICK stop \in BOOLEAN :
        scan' = IF stop \/ Enough(S(stop))
                THEN [S(stop) EXCEPT !.buf = <<>>,
                        !.pc = IF head = 0 \/ S(stop).offset = 0 \/ Enough(S(stop)) THEN "buffer" ELSE "astray"]
                ELSE [S(stop) EXCEPT !.buf = SubSeq(@, 1, head)]
  BY DEF Scan_Record
<1>2. scan.pc = "record" /\ ~NotWhole(b) /\ Reclen(b) >= 0 /\ UNCHANGED writerVars
  BY DEF Scan_Record
<1>3. /\ scan.offset \in Nat /\ b \in Seq(Byte) /\ Len(b) \in Nat /\ scan.found \in Seq(LogRecord)
      /\ scan.recnum \in Nat /\ scan.stopped \in Nat /\ scan.nrecs \in Int
      /\ Len(scan.found) \in Nat /\ Len(scan.old) \in Nat /\ k \in 0 .. Logged /\ Logged \in Nat /\ k <= Len(scan.old)
      /\ BufSize \in Nat /\ scan.old \in Seq(LogRecord)
  BY ScanFields
<1>4. /\ k >= 1 /\ Reclen(b) = RecSize(records[k]) /\ head = Edge(ends, k - 1) - scan.offset
  BY <1>2, NextRecord
<1>5. k \in 1 .. Logged /\ k \in 1 .. Len(scan.old) /\ k - 1 \in 0 .. Logged
  BY <1>3, <1>4
<1>6. RecSize(records[k]) \in Nat /\ Edge(ends, k - 1) \in Nat
  BY <1>5, EdgeStep
<1>7. head \in Nat /\ head + 1 <= Len(b)
  <2>1. Len(b) >= Reclen(b) + 2
    BY SMTT(40), <1>2, <1>3, <1>4, <1>6 DEF NotWhole
  <2> DEFINE size == Len(b)
             body == Reclen(b)
  <2>2. size \in Nat /\ body \in Nat /\ size >= body + 2 /\ head = size - (body + 2)
    BY <1>3, <1>4, <1>6, <2>1
  <2> HIDE DEF size, body, head
  <2>3. head \in Nat /\ head + 1 <= size
    BY <2>2
  <2> QED
    BY <2>3 DEF size
<1>8. rec = b[head + 1].rec /\ rec \in LogRecord
  <2> DEFINE size == Len(b)
  <2>5. size \in Nat /\ b \in Seq(Byte) /\ head \in Nat /\ head + 1 <= size
    BY <1>3, <1>7
  <2> HIDE DEF head, b, size
  <2>6. head <= size /\ size <= size /\ size - head >= 1
    BY <2>5
  <2>4. head \in Nat /\ Len(b) \in Nat /\ head <= Len(b) /\ Len(b) <= Len(b) /\ b \in Seq(Byte)
        /\ Len(b) - head >= 1
    BY <2>5, <2>6 DEF size
  <2>1. /\ SubSeq(b, head + 1, Len(b)) \in Seq(Byte) /\ Len(b) - head >= 1
        /\ \A i \in 1 .. Len(b) - head : SubSeq(b, head + 1, Len(b))[i] = b[head + i]
    BY <2>4, Piece
  <2>2. head + 1 \in 1 .. Len(b) /\ b \in Seq(Byte) /\ 1 \in 1 .. Len(b) - head
    BY <2>4
  <2>3. SubSeq(b, head + 1, Len(b))[1] = b[head + 1] /\ b[head + 1] \in Byte
    BY <2>1, <2>2
  <2> QED
    BY <2>3 DEF wlog_rec_unpack, Byte
<1>9. Seen(scan, records, rec, k)
  <2>1. Edge(ends, k - 1) >= scan.offset /\ head + 1 = Edge(ends, k - 1) - scan.offset + 1
    BY SMTT(40), <1>3, <1>4, <1>6, <1>7
  <2>2. k \in 1 .. Ahead
    BY <1>3, <1>4
  <2>3. Seen(scan, records, b[Edge(ends, k - 1) - scan.offset + 1].rec, k)
    BY <1>2, <2>1, <2>2 DEF LogInv, Buffered, GoesOn
  <2> QED
    BY <1>8, <2>1, <2>3
<1> HIDE DEF rec, head
<1>10. /\ found \in Seq(LogRecord) /\ Len(found) = Len(scan.found) + 1 /\ found[Len(scan.found) + 1] = rec
       /\ \A i \in 1 .. Len(scan.found) : found[i] = scan.found[i]
  BY SMTT(40), <1>3, <1>8
<1> HIDE DEF found
<1> DEFINE s == S(stop)
<1>11. /\ s.pc = "record" /\ s.nrecs = scan.nrecs /\ s.offset = scan.offset /\ s.buf = b /\ s.old = scan.old
       /\ s.found = found /\ s.recnum = (IF stop THEN scan.recnum ELSE scan.recnum + 1)
       /\ s.stopped = (IF stop /\ scan.stopped = 0 THEN Len(found) ELSE scan.stopped)
       /\ s \in [pc : {"idle", "buffer", "record", "done", "astray", "crashed"}, nrecs : Int,
                 offset : Nat, buf : Seq(Byte), recnum : Nat, found : Seq(LogRecord),
                 stopped : Nat, old : Seq(LogRecord)]
  <2>1. scan \in [pc : {"idle", "buffer", "record", "done", "astray", "crashed"}, nrecs : Int,
                  offset : Nat, buf : Seq(Byte), recnum : Nat, found : Seq(LogRecord),
                  stopped : Nat, old : Seq(LogRecord)]
    BY DEF LogInv, LogTypes
  <2>2. Len(found) \in Nat
    BY <1>3, <1>10
  <2>3. (IF stop THEN scan.recnum ELSE scan.recnum + 1) \in Nat
    BY <1>3
  <2>4. (IF stop /\ scan.stopped = 0 THEN Len(found) ELSE scan.stopped) \in Nat
    BY <1>3, <2>2
  <2> QED
    BY <1>2, <1>10, <2>1, <2>3, <2>4
<1>12. scan' = IF stop \/ Enough(s)
               THEN [s EXCEPT !.buf = <<>>,
                              !.pc = IF head = 0 \/ s.offset = 0 \/ Enough(s) THEN "buffer" ELSE "astray"]
               ELSE [s EXCEPT !.buf = SubSeq(b, 1, head)]
  <2>1. s.buf = b
    BY <1>11
  <2> QED
    BY <1>1, <2>1
<1> HIDE DEF s
<1> DEFINE left == SubSeq(b, 1, head)
<1>13. /\ left \in Seq(Byte) /\ Len(left) = head
       /\ \A i \in 1 .. head : left[i] = b[i]
  <2>1. /\ SubSeq(b, 0 + 1, head) \in Seq(Byte) /\ Len(SubSeq(b, 0 + 1, head)) = head - 0
        /\ \A i \in 1 .. head - 0 : SubSeq(b, 0 + 1, head)[i] = b[0 + i]
    <3>1. 0 <= head /\ head <= Len(b) /\ 0 \in Nat /\ head \in Nat
      BY <1>3, <1>7
    <3> QED
      BY <1>3, <3>1, Piece
  <2> QED
    BY <1>7, <2>1
<1> HIDE DEF left
<1> DEFINE Moved ==
         /\ scan'.nrecs = scan.nrecs /\ scan'.offset = scan.offset /\ scan'.old = scan.old
         /\ scan'.found = found /\ scan'.recnum = (IF stop THEN scan.recnum ELSE scan.recnum + 1)
         /\ scan'.stopped = (IF stop /\ scan.stopped = 0 THEN Len(found) ELSE scan.stopped)
         /\ scan'.buf = (IF stop \/ Enough(s) THEN <<>> ELSE left)
         /\ scan'.pc = (IF stop \/ Enough(s)
                        THEN IF head = 0 \/ s.offset = 0 \/ Enough(s) THEN "buffer" ELSE "astray"
                        ELSE "record")
         /\ scan' \in [pc : {"idle", "buffer", "record", "done", "astray", "crashed"}, nrecs : Int,
                       offset : Nat, buf : Seq(Byte), recnum : Nat, found : Seq(LogRecord),
                       stopped : Nat, old : Seq(LogRecord)]
<1>14. Moved
  <2>1. CASE stop \/ Enough(s)
    <3> DEFINE pc == IF head = 0 \/ s.offset = 0 \/ Enough(s) THEN "buffer" ELSE "astray"
    <3>1. scan' = [s EXCEPT !.buf = <<>>, !.pc = pc]
      BY <1>12, <2>1
    <3>2. pc \in {"buffer", "astray"} /\ <<>> \in Seq(Byte)
      OBVIOUS
    <3> HIDE DEF pc
    <3>3. /\ scan'.nrecs = s.nrecs /\ scan'.offset = s.offset /\ scan'.old = s.old /\ scan'.found = s.found
          /\ scan'.recnum = s.recnum /\ scan'.stopped = s.stopped /\ scan'.buf = <<>> /\ scan'.pc = pc
          /\ scan' \in [pc : {"idle", "buffer", "record", "done", "astray", "crashed"}, nrecs : Int,
                        offset : Nat, buf : Seq(Byte), recnum : Nat, found : Seq(LogRecord),
                        stopped : Nat, old : Seq(LogRecord)]
      BY <1>11, <3>1, <3>2
    <3> QED
      BY <1>11, <2>1, <3>3 DEF pc
  <2>2. CASE ~(stop \/ Enough(s))
    BY <1>11, <1>12, <1>13, <2>2 DEF left
  <2> HIDE DEF Moved
  <2> QED
    BY <2>1, <2>2
<1>15. Enough(scan') <=> Enough(s)
  BY <1>11, <1>14 DEF Enough
<1>16. LaidOut' /\ Located' /\ Logged' = Logged /\ records' = records /\ ends' = ends
  BY <1>2, ScanOnly DEF writerVars
<1>17. LogTypes'
  BY <1>2, <1>14, ScanOnly DEF LogTypes
<1>18. Ahead' = k - 1
  <2> DEFINE a == Len(scan.old)
             f == Len(scan.found)
             g == Len(found)
  <2>1. a \in Nat /\ f \in Nat /\ g = f + 1
    BY <1>3, <1>10
  <2>2. k = a - f
    BY DEF Ahead
  <2>3. Ahead' = a - g
    BY <1>14 DEF Ahead
  <2> HIDE DEF a, f, g, k
  <2> QED
    BY <2>1, <2>2, <2>3
<1>19. \A r, n : Seen(scan, records, r, n) => Seen(scan', records', r, n)
  BY <1>14, <1>16 DEF Seen
<1>20. Finding'
  <2>1. Len(scan'.old) <= Logged' /\ Ahead' >= 0
    BY <1>3, <1>4, <1>14, <1>16, <1>18, ScanFields
  <2>2. ASSUME NEW i \in 1 .. Len(scan'.found)
        PROVE  Seen(scan', records', scan'.found[i], Len(scan'.old) + 1 - i)
    <3>1. CASE i \in 1 .. Len(scan.found)
      <4>1. Seen(scan, records, scan.found[i], Len(scan.old) + 1 - i)
        BY <3>1 DEF LogInv, Finding
      <4> QED
        BY <1>10, <1>14, <1>19, <3>1, <4>1
    <3>2. CASE i = Len(scan.found) + 1
      <4>2. k = Len(scan.old) - Len(scan.found)
        BY DEF Ahead
      <4>1. Len(scan.old) + 1 - i = k
        <5> DEFINE a == Len(scan.old)
                   f == Len(scan.found)
        <5>1. a \in Nat /\ f \in Nat /\ i = f + 1 /\ k = a - f
          BY <1>3, <3>2, <4>2
        <5> HIDE DEF a, f, k
        <5>2. a + 1 - i = k
          BY <5>1
        <5> QED
          BY <5>2 DEF a
      <4> QED
        BY <1>9, <1>10, <1>14, <1>19, <3>2, <4>1
    <3>3. Len(scan'.found) = Len(scan.found) + 1 /\ i \in 1 .. Len(scan'.found)
      BY <1>10, <1>14
    <3>4. i \in 1 .. Len(scan.found) \/ i = Len(scan.found) + 1
      BY <1>3, <3>3
    <3> QED
      BY <3>1, <3>2, <3>4
  <2>3. \A n \in 1 .. Len(scan'.old) :
          scan'.old[n].len = records'[n].len /\ (scan'.old[n].done => records'[n].done)
    BY <1>14, <1>16 DEF LogInv, Finding
  <2> QED
    BY <2>1, <2>2, <2>3 DEF Finding
<1>21. GoesOn' => (~stop /\ ~Enough(s) /\ scan'.buf = left) \/ (head = 0 /\ scan'.buf = <<>>)
  <2>1. GoesOn' <=> scan'.pc = "record" \/ (scan'.pc = "buffer" /\ More(scan'))
    BY DEF GoesOn
  <2>2. CASE scan'.pc = "record"
    BY <1>14, <2>2
  <2>3. CASE scan'.pc = "buffer" /\ More(scan')
    <3>1. ~Enough(s) /\ s.offset > 0
      BY <1>11, <1>14, <1>15, <2>3 DEF More
    <3>2. s.offset \in Nat
      BY <1>3, <1>11
    <3> QED
      BY <1>14, <2>3, <3>1, <3>2
  <2> QED
    BY <2>1, <2>2, <2>3
<1>22. Buffered'
  <2>1. Len(b) <= BufSize
    BY DEF LogInv, Buffered
  <2>2. Len(scan'.buf) <= BufSize
    BY <1>3, <1>7, <1>13, <1>14, <2>1
  <2>3. SUFFICES ASSUME GoesOn'
        PROVE  /\ scan'.offset + Len(scan'.buf) = Edge(ends', Ahead')
               /\ \A n \in 1 .. Ahead' :
                    /\ Edge(ends', n - 1) >= scan'.offset =>
                         Seen(scan', records', scan'.buf[Edge(ends', n - 1) - scan'.offset + 1].rec, n)
                    /\ Edge(ends', n) - 1 > scan'.offset => scan'.buf[Edge(ends', n) - 1 - scan'.offset].value = 0
                    /\ Edge(ends', n) > scan'.offset =>
                         scan'.buf[Edge(ends', n) - scan'.offset].value = RecSize(records'[n])
    BY <2>2 DEF Buffered
  <2>4. Len(scan'.buf) = head /\ \A i \in 1 .. head : scan'.buf[i] = b[i]
    <3>1. CASE scan'.buf = left
      BY <1>13, <3>1
    <3>2. CASE head = 0 /\ scan'.buf = <<>>
      BY <3>2
    <3> QED
      BY <1>21, <2>3, <3>1, <3>2
  <2>5. scan.offset + head = Edge(ends, k - 1)
    BY SMTT(40), <1>3, <1>4, <1>6, <1>7
  <2>6. ASSUME NEW n \in 1 .. k - 1
        PROVE  /\ Edge(ends, n - 1) >= scan.offset =>
                    Seen(scan, records, scan'.buf[Edge(ends, n - 1) - scan.offset + 1].rec, n)
               /\ Edge(ends, n) - 1 > scan.offset => scan'.buf[Edge(ends, n) - 1 - scan.offset].value = 0
               /\ Edge(ends, n) > scan.offset =>
                    scan'.buf[Edge(ends, n) - scan.offset].value = RecSize(records[n])
    <3> DEFINE d == Edge(ends, n - 1)
               e == Edge(ends, n)
               o == scan.offset
    <3>1. n \in 1 .. Logged /\ n \in 1 .. k /\ n \in 0 .. Logged /\ n <= k - 1
      BY <1>3
    <3>2. d \in Nat /\ e \in Nat /\ e = d + RecSize(records[n]) + 2 /\ RecSize(records[n]) \in Nat
      BY <3>1, EdgeStep
    <3>3. e <= Edge(ends, k - 1)
      BY <1>5, <3>1 DEF LogInv, LaidOut
    <3>4. /\ d >= o => Seen(scan, records, b[d - o + 1].rec, n)
          /\ e - 1 > o => b[e - 1 - o].value = 0
          /\ e > o => b[e - o].value = RecSize(records[n])
      BY <1>2, <3>1 DEF LogInv, Buffered, GoesOn
    <3>5. o \in Nat /\ e <= o + head
      BY <1>3, <2>5, <3>3
    <3> HIDE DEF d, e, o
    <3>6. ASSUME d >= o PROVE d - o + 1 \in 1 .. head
      BY <1>7, <3>2, <3>5, <3>6
    <3>7. ASSUME e - 1 > o PROVE e - 1 - o \in 1 .. head
      BY SMTT(40), <1>7, <3>2, <3>5, <3>7
    <3>8. ASSUME e > o PROVE e - o \in 1 .. head
      BY SMTT(40), <1>7, <3>2, <3>5, <3>8
    <3>9. /\ d >= o => Seen(scan, records, scan'.buf[d - o + 1].rec, n)
          /\ e - 1 > o => scan'.buf[e - 1 - o].value = 0
          /\ e > o => scan'.buf[e - o].value = RecSize(records[n])
      BY <2>4, <3>4, <3>6, <3>7, <3>8
    <3> QED
      BY <3>9 DEF d, e, o
  <2> QED
    BY <1>14, <1>16, <1>18, <1>19, <2>4, <2>5, <2>6
<1>23. Counted'
  <2> SUFFICES ASSUME scan'.stopped = 0
               PROVE  /\ scan'.recnum = Len(scan'.found)
                      /\ scan'.nrecs < 0 => Len(scan'.found) = 0
                      /\ scan'.nrecs > 0 => Len(scan'.found) <= scan'.nrecs
                      /\ scan'.pc = "record" => ~Enough(scan')
                      /\ scan'.pc = "done" => ~More(scan')
                      /\ scan'.pc \in {"buffer", "done"} /\ ~Enough(scan') /\ scan'.offset = 0 => Ahead' = 0
    BY DEF Counted
  <2>1. ~stop /\ scan.stopped = 0
    BY <1>3, <1>10, <1>14
  <2>2. /\ scan.recnum = Len(scan.found) /\ ~Enough(scan)
    BY <1>2, <2>1 DEF LogInv, Counted
  <2>3. scan.nrecs = 0 \/ Len(scan.found) < scan.nrecs
    BY <1>3, <2>2 DEF Enough
  <2>4. scan'.recnum = Len(scan'.found) /\ Len(scan'.found) = Len(scan.found) + 1
    BY <1>10, <1>14, <2>1, <2>2
  <2>5. scan'.nrecs >= 0 /\ (scan'.nrecs > 0 => Len(scan'.found) <= scan'.nrecs)
    BY <1>3, <1>14, <2>3, <2>4
  <2>6. scan'.pc = "record" => ~Enough(scan')
    BY <1>14, <1>15
  <2>7. scan'.pc \in {"buffer", "done"} => Enough(scan')
    BY <1>14, <1>15, <2>1
  <2>8. scan'.pc # "done"
    BY <1>14
  <2> QED
    BY <1>3, <1>14, <2>4, <2>5, <2>6, <2>7, <2>8
<1> QED
  BY <1>16, <1>17, <1>20, <1>22, <1>23 DEF LogInv

\* The whole of the write log: the file, the writers and the scan keep to LogInv.
THEOREM LogInvariance == WlogSpec => []LogInv
<1>1. LogInv /\ [WlogNext]_logVars => LogInv'
  <2> SUFFICES ASSUME LogInv, [WlogNext]_logVars PROVE LogInv'
    OBVIOUS
  <2>1. CASE UNCHANGED logVars
    <3>1. UNCHANGED writerVars /\ scan' = scan
      BY <2>1 DEF logVars, writerVars
    <3>2. LaidOut' /\ Located' /\ records' = records /\ ends' = ends /\ Logged' = Logged
      BY <3>1, ScanOnly DEF writerVars
    <3>3. LogTypes'
      BY <3>1, ScanOnly DEF LogInv, LogTypes
    <3>4. Finding' /\ Buffered' /\ Counted'
      BY <3>1, <3>2 DEF LogInv, Finding, Ahead, Buffered, GoesOn, Counted, More, Enough
    <3> QED
      BY <3>2, <3>3, <3>4 DEF LogInv
  <2>2. ASSUME NEW p \in Writers, Append_Write(p) \/ Append_Offset(p) \/ Overlay(p)
        PROVE  LogInv'
    BY <2>2, Append_WriteKeeps, Append_OffsetKeeps, OverlayKeeps
  <2>3. CASE Scan_Begin
    BY <2>3, Scan_BeginKeeps
  <2>4. CASE ScanStep
    BY <2>4, Scan_ReadKeeps, Scan_ReturnKeeps, Scan_LeftoverKeeps, Scan_RecordKeeps, Scan_CrashKeeps DEF ScanStep
  <2> QED
    BY <2>1, <2>2, <2>3, <2>4 DEF WlogNext
<1> QED
  BY <1>1, LogInvInit, PTL DEF WlogSpec

\* Whatever is appended and written over meanwhile, a scan finds the records that the log
\* had when it began, the last first, each as it was at some time since, and as many as
\* were asked for: ScanFindsRecords, for logs, records and buffers of any size.
THEOREM ScanFindsRecordsHolds == WlogSpec => []ScanFindsRecords
<1>1. LogInv => ScanFindsRecords
  <2> SUFFICES ASSUME LogInv PROVE ScanFindsRecords
    OBVIOUS
  <2>1. /\ scan.nrecs \in Int /\ scan.offset \in Nat /\ scan.found \in Seq(LogRecord)
        /\ scan.old \in Seq(LogRecord) /\ Len(scan.old) \in Nat /\ Len(scan.found) \in Nat
        /\ Ahead \in Nat /\ Ahead = Len(scan.old) - Len(scan.found)
    BY ScanFields DEF Ahead
  <2>2. ASSUME NEW i \in DOMAIN scan.found
        PROVE  LET n == Len(scan.old) + 1 - i IN
               /\ n \in DOMAIN scan.old
               /\ scan.found[i].n = n /\ scan.found[i].len = Packed(scan.old[n]).len
               /\ scan.old[n].done => scan.found[i].done
               /\ scan.found[i].done => records[n].done
    <3>1. i \in 1 .. Len(scan.found) /\ Len(scan.old) + 1 - i \in 1 .. Len(scan.old)
      BY <2>1
    <3>2. Len(scan.old) + 1 - i \in DOMAIN scan.old
      BY SMTT(40), <2>1, <3>1
    <3> QED
      BY <3>1, <3>2 DEF LogInv, Finding, Seen
  <2>3. ASSUME scan.pc = "done", scan.stopped = 0
        PROVE  Len(scan.found) = IF scan.nrecs \in 1 .. Len(scan.old) THEN scan.nrecs
                                 ELSE IF scan.nrecs < 0 THEN 0 ELSE Len(scan.old)
    <3>1. /\ scan.recnum = Len(scan.found) /\ ~More(scan)
          /\ scan.nrecs < 0 => Len(scan.found) = 0
          /\ scan.nrecs > 0 => Len(scan.found) <= scan.nrecs
          /\ ~Enough(scan) /\ scan.offset = 0 => Ahead = 0
      BY <2>3 DEF LogInv, Counted
    <3>2. CASE Enough(scan)
      BY <2>1, <3>1, <3>2 DEF Enough
    <3>3. CASE ~Enough(scan)
      <4>1. Ahead = 0
        BY <2>1, <3>1, <3>3 DEF More
      <4> QED
        BY <2>1, <3>1, <3>3, <4>1 DEF Enough
    <3> QED
      BY <3>2, <3>3
  <2> QED
    BY <2>2, <2>3 DEF ScanFindsRecords
<1> QED
  BY <1>1, LogInvariance, PTL

=============================================================================
