----------------------------- MODULE SerialWrite -----------------------------
(***************************************************************************)
(* The write path of serial.sys: write.c, immediat.c, flush.c, the         *)
(* transmit half of SerialISR and the counting half of SerialPutChar.      *)
(* Writes, flushes and xoff counters share WriteQueue and CurrentWriteIrp. *)
(* An xoff counter first sends its character like a write; then it moves   *)
(* to CurrentXoffIrp, where the interrupt routine counts received          *)
(* characters for it until the next write starts.  An immediate character  *)
(* has the slot CurrentImmediateIrp and overtakes the current write.       *)
(*                                                                         *)
(* As in SerialRead one action is one critical section of the cancel spin  *)
(* lock or one interrupt, and a thread that lets go of the lock has a      *)
(* program counter.  DpcCount is left to SerialRead, whose timers and      *)
(* procedures come from the same helpers, and the events that              *)
(* SerialProcessEmptyTransmit raises to the wait requests.                 *)
(***************************************************************************)
EXTENDS Integers, Sequences, FiniteSets, SequencesExt

CONSTANTS
  Writes, Flushes, Xoffs, Immediates,  \* the requests, by what they ask for
  None,          \* the NULL pointer
  Workers,       \* threads and processors that can run driver code
  Lengths,       \* lengths of writes, 0 included when it is to be tried
  Counters,      \* values of the Counter of a SERIAL_XOFF_COUNTER
  TxFifoAmount,  \* characters the transmit FIFO takes at once, 1 without one
  MaxChars       \* bound: characters that arrive while a counter is running

QueueIrps == Writes \union Flushes \union Xoffs
Irps      == QueueIrps \union Immediates

ASSUME WriteAssumption ==
  /\ Writes \intersect (Flushes \union Xoffs \union Immediates) = {}
  /\ Flushes \intersect (Xoffs \union Immediates) = {}
  /\ Xoffs \intersect Immediates = {}
  /\ None \notin Irps
  /\ Lengths \subseteq Nat
  /\ Counters \subseteq Nat \ {0}
  /\ TxFifoAmount \in Nat \ {0}
  /\ MaxChars \in Nat

\* SERIAL_REF_ISR, _CANCEL, _TOTAL_TIMER and _XOFF_REF.
Refs == {"ISR", "CANCEL", "TOTAL", "XOFF"}

\* The three slots, used to name their timers.
Slots == {"write", "xoff", "immediate"}

Dpcs == {"CompleteWrite", "WriteTimeout", "CompleteXoff", "TimeoutXoff",
         "CompleteImmediate", "TimeoutImmediate"}
TimeoutDpc == [write |-> "WriteTimeout", xoff |-> "TimeoutXoff",
               immediate |-> "TimeoutImmediate"]

VARIABLES
  queue,         \* WriteQueue
  current,       \* CurrentWriteIrp
  xoff,          \* CurrentXoffIrp
  immediate,     \* CurrentImmediateIrp
  arrived,       \* the requests the driver has been given
  amount,        \* [Irps -> length of a write, Counter of an xoff counter]
  status,        \* [Irps -> IoStatus.Status]
  info,          \* [Irps -> IoStatus.Information]
  cancelled,     \* the IRPs whose Cancel flag is set
  routine,       \* [Irps -> CancelRoutine]
  refs,          \* [Irps -> references held]
  completions    \* [Irps -> times it was completed]

slotVars == <<queue, current, xoff, immediate>>
irpVars  == <<arrived, amount, status, info, cancelled, routine, refs, completions>>

VARIABLES
  writeLength,       \* WriteLength: characters of the current write still to send
  transmitImmediate, \* TransmitImmediate
  countSinceXoff,    \* CountSinceXoff
  armed,             \* slots whose timer is set
  dpcs,              \* queued deferred procedures
  pc,                \* [Workers -> what the worker will do next]
  aborting,          \* workers that will kill the xoff counter afterwards
  completeCurrent,   \* CompleteCurrent in SerialGetNextWrite
  totalChars,        \* TotalCharsQueued
  sent,              \* history: [Irps -> characters given to the device]
  received,          \* history: characters received while a counter ran
  forgotten,         \* history: characters never taken off totalChars again
  dropped            \* history: flushes taken off the queue and not completed

isrVars == <<writeLength, transmitImmediate, countSinceXoff>>
vars == <<slotVars, irpVars, isrVars, armed, dpcs, pc, aborting, completeCurrent,
          totalChars, sent, received, forgotten, dropped>>

Init ==
  /\ queue = <<>> /\ current = None /\ xoff = None /\ immediate = None
  /\ arrived = {} /\ cancelled = {}
  /\ amount = [i \in Irps |-> 0]
  /\ status = [i \in Irps |-> "none"]
  /\ info = [i \in Irps |-> 0]
  /\ routine = [i \in Irps |-> "null"]
  /\ refs = [i \in Irps |-> {}]
  /\ completions = [i \in Irps |-> 0]
  /\ writeLength = 0 /\ transmitImmediate = FALSE /\ countSinceXoff = 0
  /\ armed = {} /\ dpcs = {}
  /\ pc = [w \in Workers |-> "idle"] /\ aborting = {}
  /\ completeCurrent = TRUE
  /\ totalChars = 0
  /\ sent = [i \in Irps |-> 0] /\ received = 0 /\ forgotten = 0 /\ dropped = {}

-----------------------------------------------------------------------------
(* Helpers. *)

Smaller(a, b) == IF a < b THEN a ELSE b

Goto(w, label) == pc' = [pc EXCEPT ![w] = label] /\ UNCHANGED aborting

\* Worker w returns; one that carries out SERIAL_PURGE_TXABORT returns to the
\* second half of it.
Leave(w) ==
  /\ pc' = [pc EXCEPT ![w] = IF w \in aborting THEN "abortxoff" ELSE "idle"]
  /\ aborting' = aborting \ {w}

\* SerialCompleteRequest.
Complete(i) == completions' = [completions EXCEPT ![i] = @ + 1]

\* What a request adds to TotalCharsQueued: the length of a write, one for an
\* xoff counter or an immediate character, nothing for a flush.
CharsOf(i, n) ==
  CASE i \in Writes                      -> n
    [] i \in Xoffs \/ i \in Immediates   -> 1
    [] OTHER                             -> 0

\* The length SerialGiveWriteToIsr hands over: an xoff counter sends one character.
LengthOf(i) == IF i \in Writes THEN amount[i] ELSE 1

-----------------------------------------------------------------------------
(* Arrival of requests. *)

\* Nobody is served and nobody waits.
\* Mutant: an empty queue is taken for an idle device.
MayStartBesideCurrent == queue = <<>>
MayStart == queue = <<>> /\ current = None

\* SerialStartOrQueue with the starter at `label': the total is raised first,
\* also for a request that is refused as cancelled.
StartOrQueue(w, i, n, label, startStatus) ==
  /\ totalChars' = totalChars + CharsOf(i, n)
  /\ \/ /\ MayStart
        /\ current' = i
        /\ status' = [status EXCEPT ![i] = startStatus]
        /\ Goto(w, label)
        /\ UNCHANGED <<queue, routine, completions, forgotten>>
     \/ /\ ~MayStart /\ i \in cancelled
        /\ status' = [status EXCEPT ![i] = "cancelled"]
        /\ Complete(i)
        /\ forgotten' = forgotten + CharsOf(i, n)
        /\ UNCHANGED <<queue, current, routine, pc, aborting>>
     \/ /\ ~MayStart /\ i \notin cancelled
        /\ status' = [status EXCEPT ![i] = "pending"]
        /\ queue' = Append(queue, i)
        /\ routine' = [routine EXCEPT ![i] = "queued"]
        /\ UNCHANGED <<current, completions, forgotten, pc, aborting>>

Arrives(w, i) == pc[w] = "idle" /\ i \notin arrived /\ arrived' = arrived \union {i}

ArrivalLeaves == <<xoff, immediate, info, cancelled, refs, isrVars, armed, dpcs,
                   completeCurrent, sent, received, dropped>>

\* SerialWrite: a write of no characters is done at once.
Write(w, i) ==
  /\ i \in Writes /\ Arrives(w, i)
  /\ \E n \in Lengths :
       /\ amount' = [amount EXCEPT ![i] = n]
       /\ \/ n > 0 /\ StartOrQueue(w, i, n, "start", "none")
          \/ /\ n = 0
             /\ status' = [status EXCEPT ![i] = "success"]
             /\ Complete(i)
             /\ UNCHANGED <<queue, current, routine, pc, aborting, totalChars, forgotten>>
  /\ UNCHANGED ArrivalLeaves

\* SerialFlush; SerialStartFlush gives it its status before SerialGetNextWrite.
\* Mutant: it is done at once, whatever is still to be sent.
FlushAtOnce(w, i) ==
  /\ i \in Flushes /\ Arrives(w, i)
  /\ status' = [status EXCEPT ![i] = "success"]
  /\ Complete(i)
  /\ UNCHANGED <<queue, current, routine, pc, aborting, totalChars, forgotten, amount,
                 ArrivalLeaves>>
Flush(w, i) ==
  /\ i \in Flushes /\ Arrives(w, i)
  /\ StartOrQueue(w, i, 0, "getnext", "success")
  /\ UNCHANGED <<amount, ArrivalLeaves>>

\* IOCTL_SERIAL_XOFF_COUNTER.
XoffCounter(w, i) ==
  /\ i \in Xoffs /\ Arrives(w, i)
  /\ \E n \in Counters :
       /\ amount' = [amount EXCEPT ![i] = n]
       /\ StartOrQueue(w, i, n, "start", "none")
  /\ UNCHANGED ArrivalLeaves

ImmediateFree(i) == immediate = None /\ i \notin cancelled

\* IOCTL_SERIAL_IMMEDIATE_CHAR: refused while there is another.
ImmediateChar(w, i) ==
  /\ i \in Immediates /\ Arrives(w, i)
  /\ \/ /\ ~ImmediateFree(i)
        /\ status' = [status EXCEPT ![i] =
                        IF immediate # None THEN "invalid" ELSE "cancelled"]
        /\ Complete(i)
        /\ UNCHANGED <<immediate, totalChars, pc, aborting>>
     \/ /\ ImmediateFree(i)
        /\ immediate' = i
        /\ totalChars' = totalChars + 1
        /\ status' = [status EXCEPT ![i] = "pending"]
        /\ Goto(w, "startimmediate")
        /\ UNCHANGED completions
  /\ UNCHANGED <<queue, current, xoff, amount, info, cancelled, routine, refs,
                 isrVars, armed, dpcs, completeCurrent, sent, received, dropped, forgotten>>

-----------------------------------------------------------------------------
(* Completion: SerialTryToCompleteCurrent on each of the three slots. *)

\* SERIAL_REFERENCE_COUNT is zero.
LastReference(left) == left = {}

\* The references of request i that are left when it loses `ref', that of the
\* interrupt routine if the work was taken back from it, that of a cancel
\* routine still to be taken off, and that of a timer that can be stopped.
\* Mutant: a stopped timer's reference is left behind.
LeftWithTimers(i, ref, taken, timers) ==
  refs[i] \ ({ref} \union (IF taken THEN {"ISR"} ELSE {})
                   \union (IF routine[i] # "null" THEN {"CANCEL"} ELSE {}))
Left(i, ref, taken, timers) ==
  refs[i] \ ({ref} \union (IF taken THEN {"ISR"} ELSE {})
                   \union (IF routine[i] # "null" THEN {"CANCEL"} ELSE {})
                   \union (IF timers \intersect armed # {} THEN {"TOTAL"} ELSE {}))

Rundown(i, left, timers, newStatus, newInfo) ==
  /\ refs' = [refs EXCEPT ![i] = left]
  /\ routine' = [routine EXCEPT ![i] = "null"]
  /\ armed' = armed \ timers
  /\ IF LastReference(left)
       THEN /\ status' = [status EXCEPT ![i] = newStatus]
            /\ info' = [info EXCEPT ![i] = IF newStatus = "cancelled" THEN 0 ELSE newInfo]
       ELSE /\ info' = [info EXCEPT ![i] = newInfo]
            /\ UNCHANGED status

TryLeaves == <<arrived, amount, sent, received, dropped, forgotten, totalChars, completeCurrent>>

\* IoStatus.Information after SerialGrabWriteFromIsr.
\* Mutant: what was sent is not counted.
InfoUncounted(taken) == info[current]
InfoAfterGrab(taken) ==
  IF ~taken THEN info[current]
  ELSE IF current \in Writes THEN amount[current] - writeLength ELSE 0

\* The current write: with no reference left w goes on to SerialGetNextWrite.
TryWrite(w, ref, grab, newStatus) ==
  LET taken == grab /\ writeLength > 0
      left  == Left(current, ref, taken, {"write"})
  IN  /\ Rundown(current, left, {"write"}, newStatus, InfoAfterGrab(taken))
      /\ writeLength' = IF taken THEN 0 ELSE writeLength
      /\ IF LastReference(left) THEN Goto(w, "getnext") ELSE Leave(w)
      /\ UNCHANGED <<slotVars, completions, transmitImmediate, countSinceXoff, TryLeaves>>

\* The xoff counter: with no reference left it is completed; nothing follows it.
TryXoff(ref, grab, timers, newStatus, newInfo) ==
  LET taken == grab /\ countSinceXoff > 0
      left  == Left(xoff, ref, taken, timers)
  IN  /\ Rundown(xoff, left, timers, newStatus, newInfo)
      /\ countSinceXoff' = IF taken THEN 0 ELSE countSinceXoff
      /\ IF LastReference(left)
           THEN xoff' = None /\ Complete(xoff)
           ELSE UNCHANGED <<xoff, completions>>
      /\ UNCHANGED <<queue, current, immediate, writeLength, transmitImmediate, TryLeaves>>

\* The immediate character: w goes on to SerialGetNextImmediate.
TryImmediate(w, ref, grab, newStatus) ==
  LET taken == grab /\ transmitImmediate
      left  == Left(immediate, ref, taken, {"immediate"})
  IN  /\ Rundown(immediate, left, {"immediate"}, newStatus, info[immediate])
      /\ transmitImmediate' = (transmitImmediate /\ ~taken)
      /\ IF LastReference(left) THEN Goto(w, "getimmediate") ELSE Leave(w)
      /\ UNCHANGED <<slotVars, completions, writeLength, countSinceXoff, TryLeaves>>

\* A deferred procedure begins on an idle processor.
Runs(w, d) == pc[w] = "idle" /\ d \in dpcs /\ dpcs' = dpcs \ {d} /\ UNCHANGED cancelled

CompleteWrite(w) == Runs(w, "CompleteWrite") /\ TryWrite(w, "ISR", FALSE, "success")

\* SerialWriteTimeout.
WriteTimeout(w) == Runs(w, "WriteTimeout") /\ TryWrite(w, "TOTAL", TRUE, "timeout")

CompleteXoff(w) ==
  /\ Runs(w, "CompleteXoff")
  /\ TryXoff("ISR", FALSE, {"xoff"}, "success", info[xoff])
  /\ Leave(w)

\* SerialTimeoutXoff names no timer to be stopped: its own has just expired.
TimeoutXoff(w) ==
  /\ Runs(w, "TimeoutXoff")
  /\ TryXoff("TOTAL", TRUE, {}, "countertimeout", info[xoff])
  /\ Leave(w)

CompleteImmediate(w) ==
  Runs(w, "CompleteImmediate") /\ TryImmediate(w, "ISR", FALSE, "success")

TimeoutImmediate(w) ==
  Runs(w, "TimeoutImmediate") /\ TryImmediate(w, "TOTAL", TRUE, "timeout")

-----------------------------------------------------------------------------
(* SerialStartWrite and SerialGetNextWrite, by the worker that made the    *)
(* request current.                                                        *)

StarterLeaves == <<arrived, amount, cancelled, dpcs, completeCurrent, totalChars, sent,
                   received, dropped, forgotten>>

CounterRuns == xoff # None /\ refs[xoff] # {}

\* A new write puts an end to the xoff counter.
\* Mutant: it does not.
LeaveCounterAlone(w) ==
  /\ pc[w] = "start"
  /\ Goto(w, "started")
  /\ UNCHANGED <<slotVars, irpVars, isrVars, armed, dpcs, completeCurrent, totalChars,
                 sent, received, dropped, forgotten>>
StopCounter(w) ==
  /\ pc[w] = "start"
  /\ Goto(w, "started")
  /\ \/ /\ CounterRuns
        /\ TryXoff("XOFF", TRUE, {"xoff"}, "morewrites", 0)
        /\ UNCHANGED <<cancelled, dpcs>>
     \/ /\ ~CounterRuns
        /\ UNCHANGED <<slotVars, irpVars, isrVars, armed, dpcs, completeCurrent,
                       totalChars, sent, received, dropped, forgotten>>

\* The timeouts in force decide whether the total timer is set.
GiveWriteToIsr(w) ==
  /\ pc[w] = "started"
  /\ IF current \in cancelled
       THEN /\ status' = [status EXCEPT ![current] = "cancelled"]
            /\ refs' = [refs EXCEPT ![current] = {}]
            /\ Goto(w, "getnext")
            /\ UNCHANGED <<routine, armed, writeLength>>
       ELSE /\ routine' = [routine EXCEPT ![current] = "write"]
            /\ writeLength' = LengthOf(current)
            /\ \E timers \in SUBSET {"write"} :
                 /\ armed' = armed \union timers
                 /\ refs' = [refs EXCEPT ![current] = {"CANCEL", "ISR"} \union
                               IF timers = {} THEN {} ELSE {"TOTAL"}]
            /\ Leave(w)
            /\ UNCHANGED status
  /\ UNCHANGED <<slotVars, info, completions, transmitImmediate, countSinceXoff,
                 StarterLeaves>>

\* A write comes off the total.
DiscountWrite(w) ==
  /\ pc[w] = "getnext" /\ current \in Writes
  /\ totalChars' = totalChars - CharsOf(current, amount[current])
  /\ Goto(w, "discounted")
  /\ UNCHANGED <<slotVars, irpVars, isrVars, armed, dpcs, completeCurrent, sent,
                 received, dropped, forgotten>>

\* An xoff counter whose character was sent becomes CurrentXoffIrp.
HandOverXoff(w) ==
  /\ pc[w] = "getnext" /\ current \in Xoffs
  /\ totalChars' = totalChars - CharsOf(current, amount[current])
  /\ Goto(w, "discounted")
  /\ IF status[current] = "success" /\ current \notin cancelled
       THEN /\ routine' = [routine EXCEPT ![current] = "xoff"]
            /\ completeCurrent' = FALSE
            /\ xoff' = current
            /\ countSinceXoff' = amount[current]
            /\ \E timers \in SUBSET {"xoff"} :
                 /\ armed' = armed \union timers
                 /\ refs' = [refs EXCEPT ![current] = {"CANCEL", "ISR"} \union
                               IF timers = {} THEN {} ELSE {"TOTAL"}]
            /\ UNCHANGED status
       ELSE /\ status' = [status EXCEPT ![current] =
                            IF @ = "success" THEN "cancelled" ELSE @]
            /\ UNCHANGED <<routine, completeCurrent, xoff, countSinceXoff, armed, refs>>
  /\ UNCHANGED <<queue, current, immediate, arrived, amount, info, cancelled, completions,
                 writeLength, transmitImmediate, dpcs, sent, received, dropped, forgotten>>

\* SerialGetNextIrp and what SerialGetNextWrite makes of its answer.  A flush
\* is done at once; CompleteCurrent keeps its value on that way.
GetNextIrp(w) ==
  /\ pc[w] = "discounted" \/ (pc[w] = "getnext" /\ current \in Flushes)
  /\ IF completeCurrent THEN Complete(current) ELSE UNCHANGED completions
  /\ dropped' = IF completeCurrent THEN dropped ELSE dropped \union ({current} \ Xoffs)
  /\ IF queue = <<>>
       THEN /\ current' = None
            /\ completeCurrent' = TRUE
            /\ Leave(w)
            /\ UNCHANGED <<queue, routine, status>>
       ELSE LET next == Head(queue)
            IN  /\ current' = next
                /\ queue' = Tail(queue)
                /\ routine' = [routine EXCEPT ![next] = "null"]
                /\ IF next \in Flushes
                     THEN /\ status' = [status EXCEPT ![next] = "success"]
                          /\ Goto(w, "getnext")
                          /\ UNCHANGED completeCurrent
                     ELSE /\ completeCurrent' = TRUE
                          /\ Goto(w, "start")
                          /\ UNCHANGED status
  /\ UNCHANGED <<xoff, immediate, arrived, amount, info, cancelled, refs, isrVars, armed,
                 dpcs, totalChars, sent, received, forgotten>>

-----------------------------------------------------------------------------
(* The immediate character: SerialStartImmediate, SerialGetNextImmediate.  *)

\* One cancelled before it got a cancel routine is completed and stays in the
\* total.
StartImmediate(w) ==
  /\ pc[w] = "startimmediate"
  /\ Leave(w)
  /\ IF immediate \in cancelled
       THEN /\ immediate' = None
            /\ status' = [status EXCEPT ![immediate] = "cancelled"]
            /\ info' = [info EXCEPT ![immediate] = 0]
            /\ Complete(immediate)
            /\ forgotten' = forgotten + CharsOf(immediate, 0)
            /\ UNCHANGED <<routine, refs, armed, transmitImmediate>>
       ELSE /\ routine' = [routine EXCEPT ![immediate] = "immediate"]
            /\ transmitImmediate' = TRUE
            /\ \E timers \in SUBSET {"immediate"} :
                 /\ armed' = armed \union timers
                 /\ refs' = [refs EXCEPT ![immediate] = {"CANCEL", "ISR"} \union
                               IF timers = {} THEN {} ELSE {"TOTAL"}]
            /\ UNCHANGED <<immediate, status, info, completions, forgotten>>
  /\ UNCHANGED <<queue, current, xoff, arrived, amount, cancelled, writeLength,
                 countSinceXoff, dpcs, completeCurrent, totalChars, sent, received, dropped>>

GetNextImmediate(w) ==
  /\ pc[w] = "getimmediate"
  /\ totalChars' = totalChars - CharsOf(immediate, 0)
  /\ immediate' = None
  /\ Complete(immediate)
  /\ Leave(w)
  /\ UNCHANGED <<queue, current, xoff, arrived, amount, status, info, cancelled, routine,
                 refs, isrVars, armed, dpcs, completeCurrent, sent, received, dropped, forgotten>>

-----------------------------------------------------------------------------
(* The interrupt.  TXHolding is left to each interrupt's choice, as is     *)
(* whether one comes; an xon or xoff character of the driver's own takes   *)
(* an interrupt and changes nothing here.                                  *)

InterruptLeaves == <<slotVars, arrived, amount, cancelled, routine, refs, completions,
                     armed, pc, aborting, completeCurrent, totalChars, forgotten>>

SendImmediate ==
  /\ transmitImmediate
  /\ transmitImmediate' = FALSE
  /\ sent' = [sent EXCEPT ![immediate] = @ + 1]
  /\ dpcs' = dpcs \union {"CompleteImmediate"}
  /\ UNCHANGED <<status, info, writeLength, countSinceXoff, received, dropped, InterruptLeaves>>

\* The last character of the current write is in the device.
\* Mutant: nobody is told.
ForgetCompletion == dpcs' = dpcs
QueueCompletion  == dpcs' = dpcs \union {"CompleteWrite"}

\* The FIFO is filled from the current write; the immediate character is first.
SendWrite ==
  /\ writeLength > 0 /\ ~transmitImmediate
  /\ LET n == Smaller(TxFifoAmount, writeLength)
     IN  /\ sent' = [sent EXCEPT ![current] = @ + n]
         /\ writeLength' = writeLength - n
  /\ IF writeLength' = 0
       THEN /\ info' = [info EXCEPT ![current] = LengthOf(current)]
            /\ QueueCompletion
       ELSE UNCHANGED <<info, dpcs>>
  /\ UNCHANGED <<status, transmitImmediate, countSinceXoff, received, dropped, InterruptLeaves>>

\* SerialPutChar counts down for the xoff counter.
CountChar ==
  /\ countSinceXoff > 0 /\ received < MaxChars
  /\ received' = received + 1
  /\ countSinceXoff' = countSinceXoff - 1
  /\ IF countSinceXoff' = 0
       THEN /\ status' = [status EXCEPT ![xoff] = "success"]
            /\ info' = [info EXCEPT ![xoff] = 0]
            /\ dpcs' = dpcs \union {"CompleteXoff"}
       ELSE UNCHANGED <<status, info, dpcs>>
  /\ UNCHANGED <<writeLength, transmitImmediate, sent, dropped, InterruptLeaves>>

\* A timer expires: the kernel queues its deferred procedure.
TimerExpires(s) ==
  /\ s \in armed
  /\ armed' = armed \ {s}
  /\ dpcs' = dpcs \union {TimeoutDpc[s]}
  /\ UNCHANGED <<slotVars, irpVars, isrVars, pc, aborting, completeCurrent, totalChars,
                 sent, received, dropped, forgotten>>

-----------------------------------------------------------------------------
(* Cancellation. *)

\* SerialCancelQueued on the request at place k of the queue.
\* Mutant: its characters stay in the total.
KeepChars(i) == totalChars' = totalChars
DropChars(i) == totalChars' = totalChars - CharsOf(i, amount[i])
CancelQueued(k) ==
  /\ queue' = RemoveAt(queue, k)
  /\ routine' = [routine EXCEPT ![queue[k]] = "null"]
  /\ cancelled' = cancelled \union {queue[k]}
  /\ status' = [status EXCEPT ![queue[k]] = "cancelled"]
  /\ info' = [info EXCEPT ![queue[k]] = 0]
  /\ DropChars(queue[k])
  /\ Complete(queue[k])
  /\ UNCHANGED <<current, xoff, immediate, arrived, amount, refs, isrVars, armed, dpcs,
                 completeCurrent, sent, received, dropped, forgotten>>

Marks(i) == cancelled' = cancelled \union {i} /\ UNCHANGED dpcs

\* The cancel routine of a request in one of the slots, taken off and called.
\* Mutant: the write is left with the interrupt routine.
CancelWithoutGrab(w, i) ==
  \/ routine[i] = "write"     /\ Marks(i) /\ TryWrite(w, "CANCEL", FALSE, "cancelled")
  \/ routine[i] = "immediate" /\ Marks(i) /\ TryImmediate(w, "CANCEL", TRUE, "cancelled")
  \/ /\ routine[i] = "xoff"   /\ Marks(i)
     /\ TryXoff("CANCEL", TRUE, {"xoff"}, "cancelled", info[xoff])
     /\ Leave(w)
CancelInSlot(w, i) ==
  \/ routine[i] = "write"     /\ Marks(i) /\ TryWrite(w, "CANCEL", TRUE, "cancelled")
  \/ routine[i] = "immediate" /\ Marks(i) /\ TryImmediate(w, "CANCEL", TRUE, "cancelled")
  \/ /\ routine[i] = "xoff"   /\ Marks(i)
     /\ TryXoff("CANCEL", TRUE, {"xoff"}, "cancelled", info[xoff])
     /\ Leave(w)

OnlyMarks(i) ==
  /\ cancelled' = cancelled \union {i}
  /\ UNCHANGED <<slotVars, arrived, amount, status, info, routine, refs, completions,
                 isrVars, armed, dpcs, completeCurrent, totalChars, sent, received, dropped,
                 forgotten>>

\* IoCancelIrp, also of a request that is still on its way to the driver.
IoCancelIrp(w, i) ==
  /\ pc[w] = "idle" /\ i \notin cancelled /\ completions[i] = 0
  /\ \/ /\ routine[i] = "queued"
        /\ \E k \in DOMAIN queue : queue[k] = i /\ CancelQueued(k)
        /\ UNCHANGED <<pc, aborting>>
     \/ CancelInSlot(w, i)
     \/ routine[i] = "null" /\ OnlyMarks(i) /\ UNCHANGED <<pc, aborting>>

-----------------------------------------------------------------------------
(* SerialKillAllReadsOrWrites on WriteQueue: for the current write when    *)
(* the last handle is closed, the device goes away or the line has an      *)
(* error; for the current write and then the xoff counter when             *)
(* SERIAL_PURGE_TXABORT is asked for.                                      *)

StartKill(w) ==
  /\ pc[w] = "idle"
  /\ pc' = [pc EXCEPT ![w] = "kill"]
  /\ aborting' = aborting \union {w} \/ aborting' = aborting
  /\ UNCHANGED <<slotVars, irpVars, isrVars, armed, dpcs, completeCurrent, totalChars,
                 sent, received, dropped, forgotten>>

KillQueued(w) ==
  /\ pc[w] \in {"kill", "abortxoff"} /\ queue # <<>>
  /\ CancelQueued(Len(queue))
  /\ UNCHANGED <<pc, aborting>>

KillSlot(w, i) ==
  /\ queue = <<>>
  /\ IF i = None
       THEN Leave(w) /\ UNCHANGED <<slotVars, irpVars, isrVars, armed, dpcs,
              completeCurrent, totalChars, sent, received, dropped, forgotten>>
       ELSE CancelInSlot(w, i) \/ (routine[i] = "null" /\ OnlyMarks(i) /\ Leave(w))

KillCurrent(w) == pc[w] = "kill" /\ KillSlot(w, current)
KillXoff(w)    == pc[w] = "abortxoff" /\ KillSlot(w, xoff)

-----------------------------------------------------------------------------

Next ==
  \/ \E w \in Workers :
       \/ \E i \in Irps :
            Write(w, i) \/ Flush(w, i) \/ XoffCounter(w, i) \/ ImmediateChar(w, i)
            \/ IoCancelIrp(w, i)
       \/ StopCounter(w) \/ GiveWriteToIsr(w) \/ DiscountWrite(w) \/ HandOverXoff(w)
       \/ GetNextIrp(w) \/ StartImmediate(w) \/ GetNextImmediate(w)
       \/ CompleteWrite(w) \/ WriteTimeout(w) \/ CompleteXoff(w) \/ TimeoutXoff(w)
       \/ CompleteImmediate(w) \/ TimeoutImmediate(w)
       \/ StartKill(w) \/ KillQueued(w) \/ KillCurrent(w) \/ KillXoff(w)
  \/ SendImmediate \/ SendWrite \/ CountChar
  \/ \E s \in Slots : TimerExpires(s)

Spec == Init /\ [][Next]_vars

(***************************************************************************)
(* Processors run what is ready: what a thread has begun, a queued         *)
(* procedure and a set timer go on; a queued procedure preempts threads,   *)
(* so it is enough that a processor is free again and again.  Nothing is   *)
(* assumed of the line: the other end may hold the transmitter forever.    *)
(***************************************************************************)
Fairness ==
  /\ \A w \in Workers :
       WF_vars(StopCounter(w) \/ GiveWriteToIsr(w) \/ DiscountWrite(w) \/ HandOverXoff(w)
               \/ GetNextIrp(w) \/ StartImmediate(w) \/ GetNextImmediate(w)
               \/ KillQueued(w) \/ KillCurrent(w) \/ KillXoff(w))
  /\ SF_vars(\E w \in Workers : CompleteWrite(w))
  /\ SF_vars(\E w \in Workers : WriteTimeout(w))
  /\ SF_vars(\E w \in Workers : CompleteXoff(w))
  /\ SF_vars(\E w \in Workers : TimeoutXoff(w))
  /\ SF_vars(\E w \in Workers : CompleteImmediate(w))
  /\ SF_vars(\E w \in Workers : TimeoutImmediate(w))
  /\ \A s \in Slots : WF_vars(TimerExpires(s))

FairSpec == Spec /\ Fairness

-----------------------------------------------------------------------------
(* Properties. *)

Working(w) == pc[w] \in {"start", "started", "getnext", "discounted"}
Queued(i)  == \E k \in DOMAIN queue : queue[k] = i
Open(i)    == i \in arrived /\ completions[i] = 0

\* CurrentWriteIrp is an xoff counter that CurrentXoffIrp took over already.
HandedOver == ~completeCurrent /\ current \in Xoffs

TypeOK ==
  /\ queue \in Seq(QueueIrps) /\ current \in QueueIrps \union {None}
  /\ xoff \in Xoffs \union {None} /\ immediate \in Immediates \union {None}
  /\ arrived \subseteq Irps /\ cancelled \subseteq Irps
  /\ amount \in [Irps -> Nat] /\ info \in [Irps -> Nat]
  /\ status \in [Irps -> {"none", "pending", "success", "timeout", "cancelled",
                          "countertimeout", "morewrites", "invalid"}]
  /\ routine \in [Irps -> {"null", "queued"} \union Slots]
  /\ refs \in [Irps -> SUBSET Refs] /\ completions \in [Irps -> Nat]
  /\ writeLength \in Nat /\ transmitImmediate \in BOOLEAN /\ countSinceXoff \in Nat
  /\ armed \subseteq Slots /\ dpcs \subseteq Dpcs
  /\ pc \in [Workers -> {"idle", "start", "started", "getnext", "discounted",
                         "startimmediate", "getimmediate", "kill", "abortxoff"}]
  /\ aborting \subseteq Workers /\ completeCurrent \in BOOLEAN
  /\ totalChars \in Nat /\ forgotten \in Nat
  /\ sent \in [Irps -> Nat] /\ received \in 0 .. MaxChars /\ dropped \subseteq Flushes

(***************************************************************************)
(* CurrentWriteIrp and CurrentImmediateIrp are dereferenced outside the    *)
(* cancel lock by whoever starts or completes a request: that is one       *)
(* worker for each, it has a request to work on that nobody completed, no  *)
(* reference holds it and the interrupt routine does not work for it.      *)
(***************************************************************************)
OneWriter ==
  /\ \A v, w \in Workers : Working(v) /\ Working(w) => v = w
  /\ \A w \in Workers : Working(w) =>
       /\ current # None /\ writeLength = 0
       /\ ~HandedOver => completions[current] = 0 /\ refs[current] = {}
  /\ \A v, w \in Workers :
       {pc[v], pc[w]} \subseteq {"startimmediate", "getimmediate"} => v = w
  /\ \A w \in Workers : pc[w] \in {"startimmediate", "getimmediate"} =>
       /\ immediate # None /\ ~transmitImmediate
       /\ completions[immediate] = 0 /\ refs[immediate] = {}

(***************************************************************************)
(* The reference protocol on the three slots: work in the hands of the     *)
(* interrupt routine, a set timer, a queued procedure and a cancel routine *)
(* each hold their own reference on the request of their slot, so none     *)
(* ever acts on a later one, and without them nothing keeps it open but a  *)
(* worker on its way to complete it.                                       *)
(***************************************************************************)
Holds(i, slot, atIsr, done) ==
  /\ "ISR" \in refs[i] <=> (atIsr \/ done \in dpcs)
  /\ ~(atIsr /\ done \in dpcs)
  /\ "TOTAL" \in refs[i] <=> (slot \in armed \/ TimeoutDpc[slot] \in dpcs)
  /\ ~(slot \in armed /\ TimeoutDpc[slot] \in dpcs)
  /\ "CANCEL" \in refs[i] <=> (routine[i] = slot)

Idle(slot, atIsr, done) ==
  ~atIsr /\ slot \notin armed /\ done \notin dpcs /\ TimeoutDpc[slot] \notin dpcs

ReferencesMatch ==
  /\ IF current = None \/ HandedOver
       THEN Idle("write", writeLength > 0, "CompleteWrite")
       ELSE /\ Holds(current, "write", writeLength > 0, "CompleteWrite")
            /\ refs[current] = {} => \E w \in Workers : Working(w)
  /\ IF xoff = None
       THEN Idle("xoff", countSinceXoff > 0, "CompleteXoff")
       ELSE /\ Holds(xoff, "xoff", countSinceXoff > 0, "CompleteXoff")
            /\ refs[xoff] # {}
  /\ IF immediate = None
       THEN Idle("immediate", transmitImmediate, "CompleteImmediate")
       ELSE /\ Holds(immediate, "immediate", transmitImmediate, "CompleteImmediate")
            /\ refs[immediate] = {} =>
                 \E w \in Workers : pc[w] \in {"startimmediate", "getimmediate"}

(***************************************************************************)
(* Every request is completed at most once, and from then on the driver    *)
(* cannot reach it: it is not queued, holds no reference, has no cancel    *)
(* routine and is in no slot.  The exception is an xoff counter that is    *)
(* completed while SerialGetNextWrite still has it as CurrentWriteIrp.     *)
(***************************************************************************)
CompletedOnce ==
  \A i \in Irps :
    /\ completions[i] <= 1
    /\ completions[i] = 1 =>
         /\ ~Queued(i) /\ i \notin {xoff, immediate}
         /\ i = current => HandedOver
         /\ refs[i] = {} /\ routine[i] = "null"
         /\ status[i] \notin {"none", "pending"}
    /\ (routine[i] = "queued") <=> Queued(i)

(***************************************************************************)
(* The reference protocol as a whole, over well-typed states: one worker   *)
(* for each slot, references that match what is in flight, and completions *)
(* that are final.                                                         *)
(***************************************************************************)
ReferenceProtocol == TypeOK /\ OneWriter /\ ReferencesMatch /\ CompletedOnce

\* Until it is completed a request can be reached: it waits or is in a slot.
\* The exception is a flush that SerialGetNextWrite drops behind an xoff
\* counter.
Reachable(i) == Queued(i) \/ i \in {current, xoff, immediate}
NoneLost == \A i \in Irps \ dropped : Open(i) => Reachable(i)

\* The current write counts until SerialGetNextWrite has taken it off.
Discounted(i) == i = current /\ \E w \in Workers : pc[w] = "discounted"
Counted(i)    == Queued(i) \/ (i = current /\ ~Discounted(i)) \/ i = immediate
Chars(i)      == {i} \X (1 .. CharsOf(i, amount[i]))
CharsQueued   == UNION {Chars(i) : i \in {j \in Irps : Counted(j)}}

(***************************************************************************)
(* TotalCharsQueued, which an application reads as AmountInOutQueue, is    *)
(* the number of characters of the requests that are waiting, current or   *)
(* immediate, but for those that StartOrQueue and StartImmediate forget.   *)
(***************************************************************************)
TotalAccounted == totalChars = Cardinality(CharsQueued) + forgotten

(***************************************************************************)
(* A write is told how many of its characters the device was given: all of *)
(* them when it succeeds, at any rate as many as were sent when it times   *)
(* out, none when it is cancelled; an immediate character that succeeds    *)
(* was sent, and no request sends more than it has.                        *)
(***************************************************************************)
InfoIsExact ==
  \A i \in Irps :
    /\ i \in Writes => sent[i] <= amount[i]
    /\ i \in Xoffs \union Immediates => sent[i] <= 1
    /\ i \in Writes /\ completions[i] = 1 =>
         /\ status[i] = "success" => info[i] = amount[i] /\ sent[i] = amount[i]
         /\ status[i] = "timeout" => info[i] = sent[i]
         /\ status[i] = "cancelled" => info[i] = 0
    /\ i \in Immediates /\ completions[i] = 1 /\ status[i] = "success" => sent[i] = 1

\* What the driver says of characters: those that wait, and those it has sent.
CharactersAccounted == TotalAccounted /\ InfoIsExact

\* When a flush is done, every write that has begun is done: none that the
\* device was given characters of is open.
FlushStep ==
  \A f \in Flushes : completions'[f] > completions[f] /\ status'[f] = "success" =>
    \A i \in Writes : Open(i) => sent[i] = 0
FlushWaitsForWrites == [][FlushStep]_vars

\* No character is counted for an xoff counter once a later write can be sent:
\* the current write and the counter are never both in the interrupt
\* routine's hands.
CounterEndsAtWrite == ~(countSinceXoff > 0 /\ writeLength > 0)

\* Even if the other end never lets a character through, every request that is
\* cancelled or has a timeout is completed, so that in the end the open ones
\* are not cancelled and wait in the queue, or were left with the interrupt
\* routine by their start and nobody has touched them since: an attempt to end
\* a request takes its cancel routine off, and a timer is its TOTAL reference.
Untouched(i) == Queued(i) \/ refs[i] = {"ISR", "CANCEL"}
EndedFromOutside ==
  <>[](\A i \in arrived \ dropped : completions[i] = 0 => i \notin cancelled /\ Untouched(i))

\* While characters flow - when the other end lets one through now and then -
\* every write, flush and immediate character that was sent to the driver is
\* done in the end, but for the flushes that are dropped.
Flowing == WF_vars(SendImmediate) /\ WF_vars(SendWrite)
AllDone ==
  Flowing => <>[](\A i \in arrived \ Xoffs : completions[i] = 1 \/ i \in dropped)

\* Nothing waits for ever that somebody wants to end, or for which there is room.
RequestsEnd == EndedFromOutside /\ AllDone

\* The write queue keeps the promises of a request queue; an xoff counter is
\* done with the queue when CurrentXoffIrp has it.
Queue == INSTANCE IrpQueue WITH
           Irps <- QueueIrps, pending <- queue, active <- current,
           done <- {i \in QueueIrps : i \in arrived /\ ~Queued(i) /\ i # current}
QueueSpec == Queue!Spec
=============================================================================
