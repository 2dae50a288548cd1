------------------------------- MODULE AsyncIo -------------------------------
(***************************************************************************)
(* Asynchronous i/o of tlibio.c: lio_write_buffer() and lio_read_buffer()  *)
(* as they are compiled for IRIX ("sgi") and UNICOS ("CRAY"), with         *)
(* lio_wait4asyncio() and lio_check_asyncio(), against a kernel that ends  *)
(* the transfer and sends its signal at any time.                          *)
(***************************************************************************)
EXTENDS IoBits, Integers

CONSTANTS Requests,     \* the calls to choose from: [system, op, mask, sig, fd]
          MaxCalls      \* how many calls are made, one after the other

VARIABLES request,      \* the call that is being made
          made,         \* how many calls have returned
          step,         \* where it is: "start", "issue", "wait", "check" or "returned"
          method,       \* the method, once chosen
          sig, notify,  \* the signal to send, if one is; on IRIX, how completion is told
          held,         \* signals are held, or off
          deferred,     \* a completion signal waits for that to end
          received,     \* Received_signal # Rec_signal
          transfer,     \* "none", "underway", "done" or "failed"
          orphan,       \* a transfer of an earlier call is under way, and will signal
          answer        \* what was returned: "none", "size", "zero" or "error"
asyncVars == <<request, made, step, method, sig, notify, held, deferred, received, transfer, orphan, answer>>

\* The sets of bits that depend on the system.
sgi        == request.system = "sgi"
IoSet      == IF sgi THEN {SYNC, SYNCV, SYNCP} ELSE {SYNC, ASYNC, SLISTIO, ALISTIO}
WaitSet    == IF sgi THEN {ACTIVE} ELSE {ACTIVE, RECALL, SIGPAUSE, SIGACTIVE}
SignalSet  == {SIGPAUSE, SIGACTIVE} \cup (IF sgi THEN {SIGSUSPEND} ELSE {})

AsyncInit ==
  /\ request \in Requests
  /\ made = 0 /\ step = "start" /\ method = {}
  /\ sig = FALSE /\ notify = "none"
  /\ held = FALSE /\ deferred = FALSE /\ received = FALSE
  /\ transfer = "none" /\ orphan = FALSE /\ answer = "none"

-----------------------------------------------------------------------------
(* What the system does.                                                   *)

\* A signal that is held waits; one that is let through is caught.
Signal ==
  /\ deferred' = (deferred \/ held)
  /\ received' = (received \/ ~held)
Release ==
  /\ held' = FALSE /\ deferred' = FALSE
  /\ received' = (received \/ deferred)

\* Will the transfer of this call send the signal when it ends?
Signals == sig /\ (sgi => notify = "signal")

\* The kernel ends a transfer, of this call or of an earlier one.
Complete ==
  /\ transfer = "underway" /\ transfer' \in {"done", "failed"}
  /\ IF Signals THEN Signal ELSE UNCHANGED <<deferred, received>>
  /\ UNCHANGED <<request, made, step, method, sig, notify, held, orphan, answer>>
CompleteOrphan ==
  /\ orphan /\ orphan' = FALSE /\ Signal
  /\ UNCHANGED <<request, made, step, method, sig, notify, held, transfer, answer>>

-----------------------------------------------------------------------------
(* lio_write_buffer() and lio_read_buffer().                               *)

Return(value) == step' = "returned" /\ answer' = value

\* At most one bit of each set is left of a method that is to be random.
OneOf(S) == IF S = {} THEN {{}} ELSE {{x} : x \in S}
Methods(mask) ==
  IF RANDOM \notin mask THEN {mask}
  ELSE {(mask \ (IoSet \cup WaitSet \cup {RANDOM})) \cup io \cup wait :
          io \in OneOf(mask \cap IoSet), wait \in OneOf(mask \cap WaitSet)}

\* A pipe cannot be written at a position, which a random method is changed for.
ForFifo(b) ==
  IF sgi /\ request.fd = "fifo" /\ SYNCP \in b /\ RANDOM \in request.mask
  THEN (b \ {SYNCP}) \cup {SYNC} ELSE b

\* The signal is used only if it is waited for or the caller has a handler of its own.
Prepare ==
  /\ step = "start"
  /\ \E b \in Methods(request.mask) :
       /\ method' = ForFifo(b)
       /\ sig' = (request.sig /\ (USE_SIGNAL \in method' \/ method' \cap SignalSet # {})
                              /\ (sgi => CBSUSPEND \notin method'))
       /\ notify' = IF ~sgi THEN "none"
                    ELSE IF sig' /\ method' \cap SignalSet # {} THEN "signal"
                    ELSE IF CBSUSPEND \in method' THEN "callback" ELSE "none"
  /\ received' = FALSE
  /\ IF sgi /\ request.fd = "bad" THEN Return("error") ELSE step' = "issue" /\ answer' = "none"
  /\ UNCHANGED <<request, made, held, deferred, transfer, orphan>>

\* Asynchronous bits alone choose write() where the set of types leaves them out.
CallFor ==
  CASE SYNC \in method \/ method \cap IoSet = {} -> "plain"
    [] SYNC \notin method /\ method \cap IoSet # {} ->
         IF ASYNC \in method THEN "async"
         ELSE IF SLISTIO \in method THEN "slistio"
         ELSE IF ALISTIO \in method THEN "alistio"
         ELSE IF SYNCV \in method THEN "vector" ELSE "positioned"

\* A synchronous call returns when it is done; none has a position in a pipe.
Move ==
  /\ \E ok \in BOOLEAN :
       /\ CallFor = "positioned" /\ request.fd = "fifo" => ~ok
       /\ transfer' = IF ok THEN "done" ELSE "none"
       /\ Return(IF ok THEN "size" ELSE "error")
  /\ UNCHANGED <<request, made, method, sig, notify, held, deferred, received, orphan>>

\* The signal is held, on UNICOS every signal, and let go when the call fails.
Refused ==
  /\ IF sgi => sig THEN Release ELSE UNCHANGED <<held, deferred, received>>
  /\ Return("error")
  /\ UNCHANGED <<request, made, method, sig, notify, transfer, orphan>>
Started ==
  /\ held' = (held \/ (sgi => sig))
  /\ transfer' = "underway" /\ step' = "wait"
  /\ UNCHANGED <<request, made, method, sig, notify, deferred, received, orphan, answer>>

\* The list call that waits has done with the transfer, signal included, on its return.
ListDone ==
  /\ held' = (held \/ (sgi => sig))
  /\ transfer' \in {"done", "failed"} /\ step' = "check"
  /\ deferred' = (deferred \/ Signals)
  /\ UNCHANGED <<request, made, method, sig, notify, received, orphan, answer>>

Issue(op, call) == step = "issue" /\ request.op = op /\ CallFor = call
write_plain      == Issue("write", "plain") /\ Move
write_async      == Issue("write", "async") /\ (Refused \/ Started)
write_slistio    == Issue("write", "slistio") /\ (Refused \/ ListDone)
write_alistio    == Issue("write", "alistio") /\ (Refused \/ Started)
write_vector     == Issue("write", "vector") /\ Move
write_positioned == Issue("write", "positioned") /\ Move

\* lio_read_buffer() is the same text over the calls that read.
read_plain      == Issue("read", "plain") /\ Move
read_async      == Issue("read", "async") /\ (Refused \/ Started)
read_slistio    == Issue("read", "slistio") /\ (Refused \/ ListDone)
read_alistio    == Issue("read", "alistio") /\ (Refused \/ Started)
read_vector     == Issue("read", "vector") /\ Move
read_positioned == Issue("read", "positioned") /\ Move

-----------------------------------------------------------------------------
(* lio_wait4asyncio().  On IRIX the set of wait methods holds one bit, so   *)
(* that waiting by signal is for UNICOS; no mask reaches LIO_WAIT_NONE.     *)

WaitCall ==
  IF RECALL \in method \/ (sgi /\ method \cap {CBSUSPEND, SIGSUSPEND} # {}) \/ method \cap WaitSet = {}
  THEN "suspend"
  ELSE IF ACTIVE \in method THEN "active" ELSE IF SIGPAUSE \in method THEN "pause" ELSE "sigactive"

\* Signals go on before every wait of UNICOS but pause().
Wait ==
  /\ step = "wait" /\ step' = "waiting"
  /\ IF ~sgi /\ WaitCall # "pause" THEN Release ELSE UNCHANGED <<held, deferred, received>>
  /\ UNCHANGED <<request, made, method, sig, notify, transfer, orphan, answer>>

Finished == transfer \in {"done", "failed"}
Waited ==
  /\ step = "waiting" /\ step' = "check"
  /\ CASE WaitCall \in {"suspend", "active"} -> Finished /\ UNCHANGED <<held, deferred, received>>
       [] WaitCall = "sigactive"             -> received /\ UNCHANGED <<held, deferred, received>>
       [] WaitCall = "pause"                 -> deferred /\ Release
  /\ UNCHANGED <<request, made, method, sig, notify, transfer, orphan, answer>>

\* recall() or aio_suspend() fails, or another signal interrupts it or pause().
Interrupted ==
  /\ step = "waiting" /\ WaitCall \in {"suspend", "pause"}
  /\ \/ WaitCall = "suspend" /\ Return("error")
     \/ (WaitCall = "pause" \/ notify = "signal") /\ step' = "check" /\ UNCHANGED answer
  /\ UNCHANGED <<request, made, method, sig, notify, held, deferred, received, transfer, orphan>>

-----------------------------------------------------------------------------
(* lio_check_asyncio().                                                     *)

\* UNICOS takes the status as it is; IRIX asks until the transfer is over.
Check_NoRelease ==
  /\ step = "check"
  /\ UNCHANGED <<held, deferred, received>>
  /\ CASE transfer = "done"     -> Return("size")
       [] transfer = "failed"   -> Return("error")
       [] transfer = "underway" -> IF sgi THEN step' = "spin" /\ UNCHANGED answer ELSE Return("zero")
  /\ UNCHANGED <<request, made, method, sig, notify, transfer, orphan>>
Check ==
  /\ step = "check"
  /\ IF notify = "signal" THEN Release ELSE UNCHANGED <<held, deferred, received>>
  /\ CASE transfer = "done"     -> Return("size")
       [] transfer = "failed"   -> Return("error")
       [] transfer = "underway" -> IF sgi THEN step' = "spin" /\ UNCHANGED answer ELSE Return("zero")
  /\ UNCHANGED <<request, made, method, sig, notify, transfer, orphan>>

\* Having had to ask again it returns the status instead of the bytes.
Spun ==
  /\ step = "spin" /\ Finished
  /\ Return(IF transfer = "done" THEN "zero" ELSE "error")
  /\ UNCHANGED <<request, made, method, sig, notify, held, deferred, received, transfer, orphan>>

-----------------------------------------------------------------------------

\* The caller makes another call on the same system.
Again ==
  /\ step = "returned" /\ made + 1 < MaxCalls
  /\ made' = made + 1 /\ step' = "start"
  /\ \E r \in Requests : r.system = request.system /\ request' = r
  /\ orphan' = (orphan \/ (transfer = "underway" /\ Signals))
  /\ transfer' = "none"
  /\ UNCHANGED <<method, sig, notify, held, deferred, received, answer>>

\* What both do once a transfer was started, or was done by the list call that waits.
write_end == request.op = "write" /\ (Wait \/ Waited \/ Interrupted \/ Check \/ Spun)
read_end  == request.op = "read"  /\ (Wait \/ Waited \/ Interrupted \/ Check \/ Spun)

lio_write == write_plain \/ write_async \/ write_slistio \/ write_alistio \/ write_vector \/ write_positioned \/ write_end
lio_read  == read_plain \/ read_async \/ read_slistio \/ read_alistio \/ read_vector \/ read_positioned \/ read_end

AsyncNext == Prepare \/ lio_write \/ lio_read \/ Complete \/ CompleteOrphan \/ Again

-----------------------------------------------------------------------------

\* What the answer of a call says of its transfer, its buffer and its signal: the size is
\* returned when every byte was moved, unless recall() or aio_suspend() failed, which
\* abandons the transfer, or aio_error() had to be asked again, which turns success into 0.
DoneIsSize ==
  transfer' = "done" /\ answer' # "size" => step = "spin" \/ (step = "waiting" /\ WaitCall = "suspend")
\* A transfer that is still under way is one that was abandoned, or UNICOS was woken by a
\* signal that was not this transfer's, and returns 0.
UnderwayIsKnown ==
  transfer' = "underway" =>
    \/ step = "waiting" /\ WaitCall = "suspend" /\ answer' = "error"
    \/ ~sgi /\ answer' = "zero" /\ (WaitCall = "pause" \/ (WaitCall = "sigactive" /\ made > 0))
\* Signals are held after a call that found them let through only where a signal is sent
\* without a wait for it, the wait failed, or UNICOS made no sigon().
SignalsLetGo ==
  held' /\ made = 0 =>
    IF sgi THEN sig /\ (notify # "signal" \/ step = "waiting")
    ELSE CallFor = "slistio" \/ WaitCall = "pause"
\* Who waits for a signal that was asked for does not wait after it came.
SignalNotMissed ==
  step' = "waiting" /\ WaitCall' \in {"pause", "sigactive"} /\ sig' /\ Finished' => deferred' \/ received'
Answers ==
  /\ step # "returned" /\ step' = "returned" =>
       DoneIsSize /\ (answer' = "size" => transfer' = "done") /\ UnderwayIsKnown /\ SignalsLetGo
  /\ SignalNotMissed

\* All of that, of every step of every call (lio_write_buffer(), lio_read_buffer(),
\* lio_wait4asyncio() and lio_check_asyncio() in tlibio.c).
AsyncAnswers == [][Answers]_asyncVars
=============================================================================
