----------------------------- MODULE SerialRead -----------------------------
(***************************************************************************)
(* The read path of serial.sys (read.c, the SerialPutChar half of isr.c,   *)
(* the request helpers of utils.c, purge.c): read requests and buffer      *)
(* resizes are queued behind CurrentReadIrp; the current read takes what   *)
(* the typeahead ring holds and, when that is not enough, hands its own    *)
(* buffer to the interrupt service routine and is held open by up to four  *)
(* references: ISR, CANCEL, TOTAL and INT.  Whoever drops the last one     *)
(* completes it and starts its successor.                                  *)
(*                                                                         *)
(* One action is one critical section of the cancel spin lock, of the      *)
(* control lock, or one interrupt.  Within a cancel-lock section the code  *)
(* excludes the interrupt only during KeSynchronizeExecution; the rest of  *)
(* the section touches nothing the interrupt touches, so the section is    *)
(* placed at that call.  Where the code lets go of a lock and takes it     *)
(* again, the model has a program counter and two actions.                 *)
(***************************************************************************)
EXTENDS Integers, Sequences, FiniteSets, SequencesExt, SerialRing

CONSTANTS
  Irps,          \* the I/O request packets
  None,          \* the NULL pointer
  Workers,       \* threads and processors that can run driver code
  Lengths,       \* lengths of reads, 0 included when it is to be tried
  Sizes,         \* sizes asked for by IOCTL_SERIAL_SET_QUEUE_SIZE
  InitialSize,   \* BufferSize when the device is opened
  Modes,         \* what the timeouts in force make of a read, see below
  MaxChars,      \* bound: characters that arrive on the line
  MaxPolls       \* bound: interval timer runs before the interval is over

(***************************************************************************)
(* SerialStartRead turns the SERIAL_TIMEOUTS it finds into one of these:   *)
(*   "none"      wait for the last character                               *)
(*   "total"     bounded by the total timer                                *)
(*   "interval"  bounded between two characters                            *)
(*   "both"      both timers                                               *)
(*   "immediate" return with what is present                               *)
(*   "os2"       return if anything is present, else as "total"            *)
(*   "one"       as "os2", but wait for a single character only            *)
(***************************************************************************)
AllModes == {"none", "total", "interval", "both", "immediate", "os2", "one"}

Refs   == {"ISR", "CANCEL", "TOTAL", "INT"}
Timers == {"TOTAL", "INT"}
TimersOf(m) ==
  CASE m \in {"total", "os2", "one"} -> {"TOTAL"}
    [] m = "interval"                -> {"INT"}
    [] m = "both"                    -> {"TOTAL", "INT"}
    [] OTHER                         -> {}

\* The negative values of CountOnLastRead say who tried to complete the read.
READ_CANCEL   == -1
READ_TOTAL    == -2
READ_COMPLETE == -3

ASSUME BoundsAssumption ==
  /\ None \notin Irps
  /\ Lengths \subseteq Nat
  /\ InitialSize \in Nat \ {0}
  /\ Sizes \subseteq Nat
  /\ MaxChars \in Nat /\ MaxPolls \in Nat
  /\ Modes \subseteq AllModes
  /\ Stale \notin 1 .. MaxChars
  /\ "int" \notin Irps

VARIABLES
  queue,       \* ReadQueue
  current,     \* CurrentReadIrp
  kind,        \* [Irps -> "new", "read" or "resize"]
  amount,      \* [Irps -> length of the read, or size asked for]
  status,      \* [Irps -> IoStatus.Status]
  info,        \* [Irps -> IoStatus.Information]
  cancelled,   \* the IRPs whose Cancel flag is set
  routine,     \* [Irps -> CancelRoutine]
  refs,        \* [Irps -> references held]
  filled,      \* [Irps -> characters stored in the request's buffer]
  completions, \* [Irps -> times it was completed]
  newBuffer    \* [Irps -> the pool block a resize carries]

irpVars == <<kind, amount, status, info, cancelled, routine, refs, filled,
             completions, newBuffer>>

VARIABLES
  ring,        \* the typeahead buffer
  base,        \* ReadBufferBase: "int", the ring, or the request whose buffer it is
  needed,      \* NumberNeededForRead
  copied,      \* CharsCopied of the starter between copy and release
  mode,        \* the starter's local timeout flags
  countOnLast, \* CountOnLastRead
  readByIsr,   \* ReadByIsr
  polls,       \* interval timer runs since LastReadTime
  armed,       \* timers that are set
  dpcs,        \* queued deferred procedures, named by the reference they drop
  dpcCount,    \* DpcCount
  pc,          \* [Workers -> what the worker will do next]
  inDpc,       \* the workers that run a deferred procedure
  arrived,     \* history: characters received so far, numbered from 1
  delivered,   \* history: characters stored in read buffers, in that order
  lost,        \* history: characters dropped by an overrun or a purge
  skewed       \* history: some start was cancelled between skip and release

bufVars   == <<ring, base, needed, copied, mode>>
timeVars  == <<countOnLast, readByIsr, polls, armed, dpcs, dpcCount>>
histVars  == <<arrived, delivered, lost, skewed>>
vars == <<queue, current, irpVars, bufVars, timeVars, pc, inDpc, histVars>>

Init ==
  /\ queue = <<>> /\ current = None
  /\ kind = [i \in Irps |-> "new"]
  /\ amount = [i \in Irps |-> 0]
  /\ status = [i \in Irps |-> "none"]
  /\ info = [i \in Irps |-> 0]
  /\ cancelled = {}
  /\ routine = [i \in Irps |-> "null"]
  /\ refs = [i \in Irps |-> {}]
  /\ filled = [i \in Irps |-> 0]
  /\ completions = [i \in Irps |-> 0]
  /\ newBuffer = [i \in Irps |-> "none"]
  /\ ring = EmptyRing(InitialSize) /\ base = "int"
  /\ needed = 0 /\ copied = 0 /\ mode = "none"
  /\ countOnLast = 0 /\ readByIsr = 0 /\ polls = 0
  /\ armed = {} /\ dpcs = {} /\ dpcCount = 1
  /\ pc = [w \in Workers |-> "idle"] /\ inDpc = {}
  /\ arrived = 0 /\ delivered = <<>> /\ lost = {} /\ skewed = FALSE

-----------------------------------------------------------------------------
(* Helpers. *)

Smaller(a, b) == IF a < b THEN a ELSE b

\* SerialDpcEpilogue as the last act of a deferred procedure: the count that
\* is left when worker w goes idle with `n' outstanding.
\* Mutant: the procedure forgets its epilogue.
EpilogueForgotten(w, n) == n
Epilogue(w, n) == IF w \in inDpc THEN n - 1 ELSE n

\* Worker w has nothing left to do; `n' is DpcCount before its epilogue.
Leave(w, n) ==
  /\ pc' = [pc EXCEPT ![w] = "idle"]
  /\ inDpc' = inDpc \ {w}
  /\ dpcCount' = Epilogue(w, n)

Goto(w, label) == pc' = [pc EXCEPT ![w] = label]

\* SerialCompleteRequest.
Complete(i) == completions' = [completions EXCEPT ![i] = @ + 1]

\* The ring back in use by the interrupt routine, as the three places that
\* take the buffer of a read away from it set it up.
\* Mutant: it keeps the buffer.
KeepBuffer == UNCHANGED <<base, ring>>
SwitchBack == base' = "int" /\ ring' = Reset(ring)

\* The control lock is held by a starter between its copy and its switch.
ControlLockFree == \A w \in Workers : pc[w] # "copied"

-----------------------------------------------------------------------------
(* Arrival of requests: SerialRead, IOCTL_SERIAL_SET_QUEUE_SIZE. *)

\* Nobody is served and nobody waits.
\* Mutant: an empty queue is taken for an idle device.
MayStartBesideCurrent == queue = <<>>
MayStart == queue = <<>> /\ current = None

\* SerialStartOrQueue: start at once, refuse a cancelled request, or queue.
StartOrQueue(w, i) ==
  \/ /\ MayStart
     /\ current' = i
     /\ Goto(w, "start")
     /\ UNCHANGED <<queue, status, routine, completions>>
  \/ /\ ~MayStart
     /\ IF i \in cancelled
          THEN /\ status' = [status EXCEPT ![i] = "cancelled"]
               /\ Complete(i)
               /\ UNCHANGED <<queue, routine>>
          ELSE /\ status' = [status EXCEPT ![i] = "pending"]
               /\ queue' = Append(queue, i)
               /\ routine' = [routine EXCEPT ![i] = "queued"]
               /\ UNCHANGED completions
     /\ UNCHANGED <<current, pc>>

\* SerialRead: a read of no characters is done at once.
Read(w, i) ==
  /\ pc[w] = "idle" /\ kind[i] = "new"
  /\ kind' = [kind EXCEPT ![i] = "read"]
  /\ \E n \in Lengths :
       /\ amount' = [amount EXCEPT ![i] = n]
       /\ \/ n > 0 /\ StartOrQueue(w, i)
          \/ /\ n = 0
             /\ status' = [status EXCEPT ![i] = "success"]
             /\ Complete(i)
             /\ UNCHANGED <<queue, current, routine, pc>>
  /\ UNCHANGED <<info, cancelled, refs, filled, newBuffer, bufVars, timeVars,
                 inDpc, histVars>>

\* A resize that would not grow the buffer is done at once; the others carry
\* a block of pool with them, freed if the request is refused as cancelled.
SetQueueSize(w, i) ==
  /\ pc[w] = "idle" /\ kind[i] = "new"
  /\ kind' = [kind EXCEPT ![i] = "resize"]
  /\ \E n \in Sizes :
       /\ amount' = [amount EXCEPT ![i] = n]
       /\ \/ /\ n > ring.size
             /\ StartOrQueue(w, i)
             /\ newBuffer' = [newBuffer EXCEPT ![i] =
                  IF completions'[i] = completions[i] THEN "held" ELSE "freed"]
          \/ /\ n <= ring.size
             /\ status' = [status EXCEPT ![i] = "success"]
             /\ Complete(i)
             /\ UNCHANGED <<queue, current, routine, pc, newBuffer>>
  /\ UNCHANGED <<info, cancelled, refs, filled, bufVars, timeVars, inDpc, histVars>>

-----------------------------------------------------------------------------
(* SerialStartRead, by the worker that made the request current. *)

\* The resize branch: SerialResizeBuffer, which looks at BufferSize again.
ResizeBuffer(w) ==
  /\ pc[w] = "start" /\ kind[current] = "resize" /\ ControlLockFree
  /\ IF amount[current] <= ring.size
       THEN /\ newBuffer' = [newBuffer EXCEPT ![current] = "freed"]
            /\ UNCHANGED ring
       ELSE /\ newBuffer' = [newBuffer EXCEPT ![current] = "installed"]
            /\ ring' = Resized(ring, amount[current])
  /\ status' = [status EXCEPT ![current] = "success"]
  /\ info' = [info EXCEPT ![current] = 0]
  /\ Goto(w, "getnext")
  /\ UNCHANGED <<queue, current, kind, amount, cancelled, routine, refs, filled,
                 completions, base, needed, copied, mode, timeVars, inDpc, histVars>>

\* Both timers are stopped, the timeouts are read, and under the control lock
\* SerialGetCharsFromIntBuffer copies what the ring holds.
CopyFromRing(w) ==
  /\ pc[w] = "start" /\ kind[current] = "read" /\ ControlLockFree
  /\ LET n == Smaller(ring.count, amount[current])
     IN  /\ ring' = Skip(ring, n)
         /\ delivered' = delivered \o CopyOut(ring, n)
         /\ copied' = n
         /\ needed' = amount[current] - n
         /\ info' = [info EXCEPT ![current] = n]
         /\ filled' = [filled EXCEPT ![current] = n]
  /\ mode' \in Modes
  /\ armed' = {}
  /\ dpcCount' = dpcCount - Cardinality(armed)
  /\ Goto(w, "copied")
  /\ UNCHANGED <<queue, current, kind, amount, status, cancelled, routine, refs,
                 completions, newBuffer, base, countOnLast, readByIsr, polls,
                 dpcs, inDpc, arrived, lost, skewed>>

\* The read need not wait: the control lock is released with it satisfied.
Satisfied ==
  \/ mode = "immediate"
  \/ needed = 0
  \/ mode \in {"os2", "one"} /\ info[current] > 0

ReturnWhatIsPresent(w) ==
  /\ pc[w] = "copied" /\ Satisfied
  /\ ring' = Release(ring, copied)
  /\ copied' = 0 /\ mode' = "none"
  /\ status' = [status EXCEPT ![current] = "success"]
  /\ Goto(w, "getnext")
  /\ UNCHANGED <<queue, current, kind, amount, info, cancelled, routine, refs,
                 filled, completions, newBuffer, base, needed, timeVars,
                 inDpc, histVars>>

\* The request was cancelled while it had no cancel routine.  The characters
\* that were copied are not released.
CancelledAtStart(w) ==
  /\ pc[w] = "copied" /\ ~Satisfied /\ current \in cancelled
  /\ refs' = [refs EXCEPT ![current] = {}]
  /\ status' = [status EXCEPT ![current] = "cancelled"]
  /\ info' = [info EXCEPT ![current] = 0]
  /\ copied' = 0 /\ mode' = "none"
  /\ skewed' = (skewed \/ copied > 0)
  /\ Goto(w, "getnext")
  /\ UNCHANGED <<queue, current, kind, amount, cancelled, routine, filled,
                 completions, newBuffer, ring, base, needed, timeVars,
                 inDpc, arrived, delivered, lost>>

\* SerialUpdateAndSwitchToUser: release the first copy, copy again what came
\* in since, and if that is not enough give the read to the interrupt routine
\* and set its timers.
SwitchToUser(w) ==
  /\ pc[w] = "copied" /\ ~Satisfied /\ current \notin cancelled
  /\ LET wanted   == IF mode = "one" THEN 1 ELSE needed
         released == Release(ring, copied)
         n        == Smaller(released.count, wanted)
         timers   == TimersOf(mode)
     IN  /\ ring' = Release(Skip(released, n), n)
         /\ delivered' = delivered \o CopyOut(released, n)
         /\ copied' = 0 /\ mode' = "none"
         /\ needed' = wanted - n
         /\ amount' = [amount EXCEPT ![current] = IF mode = "one" THEN 1 ELSE @]
         /\ info' = [info EXCEPT ![current] = @ + n]
         /\ filled' = [filled EXCEPT ![current] = @ + n]
         /\ IF n = wanted
              THEN /\ refs' = [refs EXCEPT ![current] = {}]
                   /\ status' = [status EXCEPT ![current] = "success"]
                   /\ Goto(w, "getnext")
                   /\ UNCHANGED <<routine, base, timeVars, inDpc>>
              ELSE /\ base' = current
                   /\ routine' = [routine EXCEPT ![current] = "current"]
                   /\ refs' = [refs EXCEPT ![current] = {"ISR", "CANCEL"} \union timers]
                   /\ status' = [status EXCEPT ![current] = "pending"]
                   /\ countOnLast' = info[current] + n
                   /\ readByIsr' = 0
                   /\ polls' = 0
                   /\ armed' = armed \union timers
                   /\ Leave(w, dpcCount + Cardinality(timers \ armed))
                   /\ UNCHANGED dpcs
  /\ UNCHANGED <<queue, current, kind, cancelled, completions, newBuffer,
                 arrived, lost, skewed>>

\* SerialGetNextIrp: the current request is completed, its successor started.
GetNextIrp(w) ==
  /\ pc[w] = "getnext"
  /\ Complete(current)
  /\ IF queue = <<>>
       THEN /\ current' = None
            /\ Leave(w, dpcCount)
            /\ UNCHANGED <<queue, routine>>
       ELSE /\ current' = Head(queue)
            /\ queue' = Tail(queue)
            /\ routine' = [routine EXCEPT ![Head(queue)] = "null"]
            /\ Goto(w, "start")
            /\ UNCHANGED <<inDpc, dpcCount>>
  /\ UNCHANGED <<kind, amount, status, info, cancelled, refs, filled, newBuffer,
                 bufVars, countOnLast, readByIsr, polls, armed, dpcs, histVars>>

-----------------------------------------------------------------------------
(* The interrupt: SerialPutChar. *)

PutChar ==
  LET c == arrived + 1
  IN
  /\ arrived < MaxChars
  /\ arrived' = c
  /\ \/ /\ base # "int"
        /\ readByIsr' = readByIsr + 1
        /\ filled' = [filled EXCEPT ![base] = @ + 1]
        /\ delivered' = Append(delivered, c)
        /\ IF filled[base] = amount[base] - 1
             THEN /\ SwitchBack
                  /\ info' = [info EXCEPT ![current] = amount[base]]
                  /\ dpcs' = dpcs \union {"ISR"}
                  /\ dpcCount' = dpcCount + Cardinality({"ISR"} \ dpcs)
             ELSE UNCHANGED <<ring, base, info, dpcs, dpcCount>>
        /\ UNCHANGED lost
     \/ /\ base = "int"
        /\ IF ring.count < ring.size
             THEN ring' = Put(ring, c) /\ UNCHANGED lost
             ELSE lost' = lost \union {c} /\ UNCHANGED ring
        /\ UNCHANGED <<base, readByIsr, filled, info, dpcs, dpcCount, delivered>>
  /\ UNCHANGED <<queue, current, kind, amount, status, cancelled, routine, refs,
                 completions, newBuffer, needed, copied, mode, countOnLast, polls,
                 armed, pc, inDpc, skewed>>

-----------------------------------------------------------------------------
(* Completion: SerialTryToCompleteCurrent and its callers. *)

\* The references that go with `ref': ISR when the buffer is taken back from
\* the interrupt routine (SerialGrabReadFromIsr), CANCEL if the cancel routine
\* is still there to be taken off, and that of each timer that can be stopped
\* (SerialRundownIrpRefs).
\* Mutant: a stopped timer's reference is left behind.
DroppedWithoutTimers(i, ref, taken) ==
  {ref} \union (IF taken THEN {"ISR"} ELSE {})
        \union (IF routine[i] # "null" THEN {"CANCEL"} ELSE {})
Dropped(i, ref, taken) ==
  {ref} \union armed
        \union (IF taken THEN {"ISR"} ELSE {})
        \union (IF routine[i] # "null" THEN {"CANCEL"} ELSE {})

\* SERIAL_REFERENCE_COUNT is zero.
LastReference(left) == left = {}

\* IoStatus.Information once the buffer has been taken back, or was not.
\* Mutant: the characters the interrupt routine stored are not counted.
InfoUncounted(i, taken)  == info[i]
InfoAfterGrab(i, taken)  == IF taken THEN filled[i] ELSE info[i]

(***************************************************************************)
(* SerialTryToCompleteCurrent: the current read loses reference `ref' and  *)
(* what goes with it; `grab' tells whether the buffer is to be taken back  *)
(* from the interrupt routine if that still has it.                        *)
(* With none left the read gets its status and w goes on to complete it.   *)
(* `queuedDpcs' are the procedures still queued, `busy' tells whether w    *)
(* runs one, `count' is DpcCount.                                          *)
(***************************************************************************)
TryToComplete(w, ref, grab, newStatus, queuedDpcs, busy, cancelFlags, count) ==
  LET i       == current
      taken   == grab /\ base # "int"
      left    == refs[i] \ Dropped(i, ref, taken)
      stopped == count - Cardinality(armed)
  IN
  /\ refs' = [refs EXCEPT ![i] = left]
  /\ routine' = [routine EXCEPT ![i] = "null"]
  /\ armed' = {}
  /\ dpcs' = queuedDpcs
  /\ cancelled' = cancelFlags
  /\ IF taken THEN SwitchBack ELSE UNCHANGED <<base, ring>>
  /\ IF LastReference(left)
       THEN /\ status' = [status EXCEPT ![i] = newStatus]
            /\ info' = [info EXCEPT ![i] =
                 IF newStatus = "cancelled" THEN 0 ELSE InfoAfterGrab(i, taken)]
            /\ Goto(w, "getnext")
            /\ inDpc' = IF busy THEN inDpc \union {w} ELSE inDpc
            /\ dpcCount' = stopped
       ELSE /\ info' = [info EXCEPT ![i] = InfoAfterGrab(i, taken)]
            /\ Goto(w, "idle")
            /\ inDpc' = inDpc \ {w}
            /\ dpcCount' = IF busy THEN stopped - 1 ELSE stopped
            /\ UNCHANGED status
  /\ UNCHANGED <<queue, current, kind, amount, filled, completions, newBuffer,
                 needed, copied, mode, readByIsr, polls, histVars>>

\* A deferred procedure that drops `ref' from the current read.
CompleteFromDpc(w, ref, grab, newStatus) ==
  TryToComplete(w, ref, grab, newStatus, dpcs \ {ref}, TRUE, cancelled, dpcCount)

\* SerialCompleteRead: the interrupt routine stored the last character.
CompleteRead(w) ==
  /\ pc[w] = "idle" /\ "ISR" \in dpcs
  /\ countOnLast' = READ_COMPLETE
  /\ CompleteFromDpc(w, "ISR", FALSE, "success")

\* SerialReadTimeout: the total timer expired.
\* Mutant: the buffer is left with the interrupt routine.
ReadTimeoutWithoutGrab(w) ==
  /\ pc[w] = "idle" /\ "TOTAL" \in dpcs
  /\ countOnLast' = READ_TOTAL
  /\ CompleteFromDpc(w, "TOTAL", FALSE, "timeout")
ReadTimeout(w) ==
  /\ pc[w] = "idle" /\ "TOTAL" \in dpcs
  /\ countOnLast' = READ_TOTAL
  /\ CompleteFromDpc(w, "TOTAL", TRUE, "timeout")

\* What SerialIntervalReadTimeout does when another party tried to complete
\* the read before it.
IntervalStatus ==
  CASE countOnLast = READ_TOTAL    -> "timeout"
    [] countOnLast = READ_COMPLETE -> "success"
    [] OTHER                       -> "cancelled"

\* The interval timer is set again: no more than the procedure's own epilogue
\* and the timer's new count change DpcCount.
PollAgain(newPolls) ==
  /\ dpcs' = dpcs \ {"INT"}
  /\ armed' = armed \union {"INT"}
  /\ dpcCount' = dpcCount + Cardinality({"INT"} \ armed) - 1
  /\ polls' = newPolls
  /\ UNCHANGED <<queue, current, irpVars, bufVars, pc, inDpc, histVars>>

\* SerialIntervalReadTimeout.  MaxPolls stands for the time compared with
\* IntervalTime: after that many runs without a character it has passed.
IntervalReadTimeout(w) ==
  /\ pc[w] = "idle" /\ "INT" \in dpcs
  /\ \/ /\ countOnLast < 0
        /\ CompleteFromDpc(w, "INT", TRUE, IntervalStatus)
        /\ UNCHANGED countOnLast
     \/ /\ countOnLast >= 0 /\ readByIsr > 0
        /\ countOnLast' = readByIsr
        /\ readByIsr' = 0
        /\ PollAgain(0)
     \/ /\ countOnLast > 0 /\ readByIsr = 0
        /\ CompleteFromDpc(w, "INT", TRUE, "timeout")
        /\ UNCHANGED countOnLast
     \/ /\ countOnLast > 0 /\ readByIsr = 0 /\ polls < MaxPolls
        /\ PollAgain(polls + 1)
        /\ UNCHANGED <<countOnLast, readByIsr>>
     \/ /\ countOnLast = 0 /\ readByIsr = 0
        /\ PollAgain(polls)
        /\ UNCHANGED <<countOnLast, readByIsr>>

\* A timer expires: the kernel queues its deferred procedure.
TimerExpires(t) ==
  /\ t \in armed
  /\ armed' = armed \ {t}
  /\ dpcs' = dpcs \union {t}
  /\ UNCHANGED <<queue, current, irpVars, bufVars, countOnLast, readByIsr, polls,
                 dpcCount, pc, inDpc, histVars>>

\* SerialCancelCurrentRead, reached with the cancel routine already taken off.
\* Mutant: the buffer is left with the interrupt routine.
CancelWithoutGrab(w) ==
  /\ countOnLast' = READ_CANCEL
  /\ TryToComplete(w, "CANCEL", FALSE, "cancelled", dpcs, FALSE,
                   cancelled \union {current}, dpcCount)
CancelCurrentRead(w) ==
  /\ countOnLast' = READ_CANCEL
  /\ TryToComplete(w, "CANCEL", TRUE, "cancelled", dpcs, FALSE,
                   cancelled \union {current}, dpcCount)

\* The block of pool of a resize that will not be carried out is freed.
FreeBlock(i) == newBuffer' = [newBuffer EXCEPT ![i] = IF kind[i] = "resize" THEN "freed" ELSE @]

\* SerialCancelQueued on the request at place k of the queue.
CancelQueued(k) ==
  /\ queue' = RemoveAt(queue, k)
  /\ routine' = [routine EXCEPT ![queue[k]] = "null"]
  /\ cancelled' = cancelled \union {queue[k]}
  /\ status' = [status EXCEPT ![queue[k]] = "cancelled"]
  /\ FreeBlock(queue[k])
  /\ Complete(queue[k])
  /\ UNCHANGED <<current, kind, amount, info, refs, filled, bufVars, timeVars,
                 inDpc, histVars>>

\* IoCancelIrp sets the Cancel flag and calls the cancel routine, if any.
IoCancelIrp(w, i) ==
  /\ pc[w] = "idle"
  /\ i \notin cancelled /\ completions[i] = 0
  /\ \/ /\ routine[i] = "queued"
        /\ \E k \in DOMAIN queue : queue[k] = i /\ CancelQueued(k)
        /\ UNCHANGED pc
     \/ routine[i] = "current" /\ CancelCurrentRead(w)
     \/ /\ routine[i] = "null"
        /\ cancelled' = cancelled \union {i}
        /\ UNCHANGED <<queue, current, kind, amount, status, info, routine, refs,
                       filled, completions, newBuffer, bufVars, timeVars, pc,
                       inDpc, histVars>>

-----------------------------------------------------------------------------
(* SerialKillAllReadsOrWrites on the read queue, and the purge of the ring. *)

\* Cleanup, a purge, a line error or the removal of the device begins it.
StartKill(w) ==
  /\ pc[w] = "idle"
  /\ Goto(w, "kill")
  /\ UNCHANGED <<queue, current, irpVars, bufVars, timeVars, inDpc, histVars>>

\* The last request of the queue is taken off and cancelled; the lock is
\* released for that, so anything may happen before the next round.
KillQueued(w) ==
  /\ pc[w] = "kill" /\ queue # <<>>
  /\ CancelQueued(Len(queue))
  /\ UNCHANGED pc

KillCurrent(w) ==
  /\ pc[w] = "kill" /\ queue = <<>>
  /\ \/ current # None /\ routine[current] = "current" /\ CancelCurrentRead(w)
     \/ /\ IF current = None THEN UNCHANGED cancelled
           ELSE routine[current] = "null" /\ cancelled' = cancelled \union {current}
        /\ Goto(w, "idle")
        /\ UNCHANGED <<queue, current, kind, amount, status, info, routine, refs,
                       filled, completions, newBuffer, bufVars, timeVars, inDpc,
                       histVars>>

\* SERIAL_PURGE_RXCLEAR: SerialPurgeInterruptBuff under the control lock.
PurgeInterruptBuff ==
  /\ base = "int" /\ ring.count > 0 /\ ControlLockFree
  /\ SwitchBack
  /\ lost' = lost \union ToSet(Content(ring))
  /\ UNCHANGED <<queue, current, irpVars, needed, copied, mode, timeVars, pc,
                 inDpc, arrived, delivered, skewed>>

-----------------------------------------------------------------------------

Next ==
  \/ \E w \in Workers :
       \/ \E i \in Irps : Read(w, i) \/ SetQueueSize(w, i) \/ IoCancelIrp(w, i)
       \/ ResizeBuffer(w) \/ CopyFromRing(w) \/ ReturnWhatIsPresent(w)
       \/ CancelledAtStart(w) \/ SwitchToUser(w) \/ GetNextIrp(w)
       \/ CompleteRead(w) \/ ReadTimeout(w) \/ IntervalReadTimeout(w)
       \/ StartKill(w) \/ KillQueued(w) \/ KillCurrent(w)
  \/ \E t \in Timers : TimerExpires(t)
  \/ PutChar
  \/ PurgeInterruptBuff

Spec == Init /\ [][Next]_vars

(***************************************************************************)
(* Processors run what is ready: a started request, a completion, a kill   *)
(* under way, a queued procedure and a set timer all go on.  Requests,     *)
(* cancellations, kills and characters come from outside and need not.     *)
(* A queued procedure preempts every thread, so new calls cannot keep the  *)
(* processors from it: it is enough that one is free again and again.      *)
(***************************************************************************)
Fairness ==
  /\ \A w \in Workers :
       /\ WF_vars(ResizeBuffer(w) \/ CopyFromRing(w) \/ ReturnWhatIsPresent(w)
                    \/ CancelledAtStart(w) \/ SwitchToUser(w) \/ GetNextIrp(w))
       /\ WF_vars(KillQueued(w) \/ KillCurrent(w))
  /\ SF_vars(\E w \in Workers : CompleteRead(w))
  /\ SF_vars(\E w \in Workers : ReadTimeout(w))
  /\ SF_vars(\E w \in Workers : IntervalReadTimeout(w))
  /\ \A t \in Timers : WF_vars(TimerExpires(t))

FairSpec == Spec /\ Fairness

-----------------------------------------------------------------------------
(* Properties. *)

Working(w) == pc[w] \in {"start", "copied", "getnext"}
Queued(i)  == \E k \in DOMAIN queue : queue[k] = i
Open(i)    == kind[i] # "new" /\ completions[i] = 0

\* Characters are numbered in the order of arrival.
Chars == 1 .. MaxChars \union {Stale}

RequestTypes ==
  /\ queue \in Seq(Irps) /\ current \in Irps \union {None}
  /\ kind \in [Irps -> {"new", "read", "resize"}]
  /\ amount \in [Irps -> Nat]
  /\ status \in [Irps -> {"none", "pending", "success", "timeout", "cancelled"}]
  /\ info \in [Irps -> Nat] /\ filled \in [Irps -> Nat]
  /\ cancelled \subseteq Irps
  /\ routine \in [Irps -> {"null", "queued", "current"}]
  /\ refs \in [Irps -> SUBSET Refs]
  /\ completions \in [Irps -> Nat]
  /\ newBuffer \in [Irps -> {"none", "held", "freed", "installed"}]

BufferTypes ==
  /\ IsRing(ring, Chars)
  /\ base \in Irps \union {"int"}
  /\ needed \in Nat /\ copied \in Nat /\ mode \in AllModes

TimerTypes ==
  /\ countOnLast \in Int /\ readByIsr \in Nat /\ polls \in Nat
  /\ armed \subseteq Timers /\ dpcs \subseteq Refs \ {"CANCEL"}
  /\ dpcCount \in Int

WorkerTypes ==
  /\ pc \in [Workers -> {"idle", "start", "copied", "getnext", "kill"}]
  /\ inDpc \subseteq Workers

HistoryTypes ==
  /\ arrived \in 0 .. MaxChars /\ lost \subseteq Chars
  /\ delivered \in Seq(Chars) /\ skewed \in BOOLEAN

TypeOK ==
  RequestTypes /\ BufferTypes /\ TimerTypes /\ WorkerTypes /\ HistoryTypes

(***************************************************************************)
(* CurrentReadIrp is shared by whoever starts or completes a read and is   *)
(* dereferenced outside the cancel lock: at any time at most one thread or *)
(* procedure is between starting a request and completing it, it has a     *)
(* current request to work on, and no reference keeps that request open.   *)
(***************************************************************************)
OneStarter ==
  /\ \A v, w \in Workers : Working(v) /\ Working(w) => v = w
  /\ \A w \in Workers : Working(w) =>
       /\ current # None /\ completions[current] = 0
       /\ refs[current] = {} /\ routine[current] = "null" /\ base = "int"

(***************************************************************************)
(* The reference protocol of SerialTryToCompleteCurrent: a set timer or a  *)
(* queued procedure always finds its own reference on the read it is to    *)
(* act on, so none ever hits a later read; the interrupt routine writes to *)
(* a buffer only under the ISR reference; and no read is left open with    *)
(* nobody to complete it.                                                  *)
(***************************************************************************)
ReferencesMatch ==
  /\ armed \intersect dpcs = {}
  /\ armed \union dpcs # {} => current # None
  /\ current # None =>
       /\ base \in {"int", current}
       /\ ("ISR" \in refs[current]) <=> (base = current \/ "ISR" \in dpcs)
       /\ ~(base = current /\ "ISR" \in dpcs)
       /\ refs[current] \intersect Timers = (armed \union dpcs) \ {"ISR"}
       /\ ("CANCEL" \in refs[current]) <=> (routine[current] = "current")
       /\ refs[current] = {} => \E w \in Workers : Working(w)
  /\ current = None => base = "int" /\ queue = <<>>

(***************************************************************************)
(* Every request is completed at most once, and once it is, nothing in the *)
(* driver can reach it: it is not queued, not current, holds no reference  *)
(* and has no cancel routine.                                              *)
(***************************************************************************)
CompletedOnce ==
  \A i \in Irps :
    /\ completions[i] <= 1
    /\ completions[i] = 1 =>
         /\ i # current /\ ~Queued(i)
         /\ refs[i] = {} /\ routine[i] = "null"
         /\ status[i] \in {"success", "timeout", "cancelled"}
    /\ Open(i) => i = current \/ Queued(i)
    /\ (routine[i] = "queued") <=> Queued(i)

(***************************************************************************)
(* The reference protocol as a whole: one party at a time works on the     *)
(* current read, every party that may still complete it has a reference    *)
(* and finds it on that read, and the last one completes it, once.         *)
(***************************************************************************)
ReferenceProtocol == OneStarter /\ ReferencesMatch /\ CompletedOnce

(***************************************************************************)
(* What makes the reference protocol inductive: the queue holds no request *)
(* twice and never the current one, a new request is nowhere, only         *)
(* the current request has references, and the starter's local state fits  *)
(* the request it works on.                                                *)
(***************************************************************************)
QueueDistinct ==
  \A m, n \in DOMAIN queue : queue[m] = queue[n] => m = n

WaitingAreOpen ==
  \A k \in DOMAIN queue :
    queue[k] # current /\ kind[queue[k]] # "new" /\ completions[queue[k]] = 0

CurrentIsOpen == current # None => kind[current] # "new" /\ completions[current] = 0

OnlyCurrentIsHeld ==
  \A i \in Irps :
    /\ kind[i] = "new" => completions[i] = 0
    /\ i # current => refs[i] = {} /\ routine[i] # "current"

StarterState ==
  /\ base # "int" => filled[current] < amount[current]
  /\ ControlLockFree => copied = 0
  /\ \A w \in Workers :
       /\ pc[w] = "copied" =>
            /\ copied <= ring.count /\ kind[current] = "read"
            /\ filled[current] + needed = amount[current]
            /\ info[current] = filled[current]
       /\ pc[w] = "getnext" => status[current] \in {"success", "timeout", "cancelled"}

Bookkeeping ==
  QueueDistinct /\ WaitingAreOpen /\ CurrentIsOpen /\ OnlyCurrentIsHeld /\ StarterState

\* The block of pool a resize carries is freed or installed when the request
\* is completed, whichever of the five ways out it took, and not before.
PoolAccounted ==
  \A i \in Irps : (newBuffer[i] = "held") <=>
    (kind[i] = "resize" /\ completions[i] = 0 /\ status[i] # "success")

(***************************************************************************)
(* Characters reach the buffers of reads in the order of arrival, none     *)
(* twice, and what is still in the ring comes later; every character is    *)
(* delivered, in the ring, or accounted as lost.  The history variable     *)
(* excludes the runs in which a cancelled start skewed the ring.           *)
(***************************************************************************)
StreamInOrder ==
  LET waiting == CopyOut(ring, ring.count - copied)
      stream  == delivered \o waiting
  IN  ~skewed =>
        /\ \A m, n \in DOMAIN stream : m < n => stream[m] < stream[n]
        /\ ToSet(stream) \union lost = 1 .. arrived

\* A read is told how many characters are in its buffer, whether the start, the
\* interrupt routine or a timer that took the buffer back has counted them: as
\* many as were stored when it succeeds or times out, none when it is cancelled.
InfoIsExact ==
  \A i \in Irps : kind[i] = "read" /\ completions[i] = 1 /\ amount[i] > 0 =>
    /\ status[i] = "cancelled" => info[i] = 0
    /\ status[i] \in {"success", "timeout"} => info[i] = filled[i]
    /\ filled[i] <= amount[i]

\* FirstReadableChar, CurrentCharSlot and CharsInInterruptBuffer describe the
\* same characters whenever the interrupt routine uses the ring.
RingAligned == base = "int" /\ ~skewed => Aligned(ring, copied)

\* The ring and the order of the stream together: what is handed to reads, what
\* waits in the ring and what the pointers say of it.
StreamIntact == StreamInOrder /\ RingAligned

\* The same without the exception: what the comment on
\* SerialGetCharsFromIntBuffer says its callers see to.
CopiedCharsAreReleased == base = "int" => Aligned(ring, copied)

\* DpcCount is one plus the timers that are set, the procedures that are
\* queued and those that run: the close path waits for it to drop.
DpcCountExact ==
  dpcCount = 1 + Cardinality(armed) + Cardinality(dpcs) + Cardinality(inDpc)

\* What has to be given back: the block of a resize, and the count of timers and
\* procedures for which the close path waits.
ResourcesAccounted == PoolAccounted /\ DpcCountExact

\* A completed request belongs to its owner again: the driver never writes to
\* its buffer, its status or its count afterwards.
CompletedLeftAlone ==
  \A i \in Irps : completions[i] > 0 =>
    filled'[i] = filled[i] /\ info'[i] = info[i] /\ status'[i] = status[i]
NoWriteAfterCompletion == [][CompletedLeftAlone]_vars

\* A cancelled request, whatever timers and procedures are in flight when it is
\* cancelled, and a read with a total timeout are completed even if no
\* character arrives.
EndedFromOutside ==
  \A i \in Irps : (Open(i) /\ (i \in cancelled \/ "TOTAL" \in refs[i]))
                  ~> (completions[i] = 1)

\* The read queue keeps the promises of a request queue.
Queue == INSTANCE IrpQueue WITH
           pending <- queue, active <- current,
           done <- {i \in Irps : completions[i] > 0}
QueueSpec == Queue!Spec
=============================================================================
