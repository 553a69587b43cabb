----------------------------- MODULE SerialWait -----------------------------
(***************************************************************************)
(* Events of serial.sys (waitmask.c, the event code of isr.c, modmflow.c   *)
(* and write.c, the end of SerialKillPendingIrps).  IOCTL_SERIAL_SET_WAIT_ *)
(* MASK says which events are of interest; IOCTL_SERIAL_WAIT_ON_MASK is    *)
(* answered with those that happened since the last answer, or waits in    *)
(* CurrentWaitIrp for the interrupt routine to write them to its buffer.   *)
(*                                                                         *)
(* Actions are as in SerialRead.  The cancel spin lock is a variable here, *)
(* for one path of the code does not release it.  SerialFinishOldWait runs *)
(* at the level of the interrupt without that lock.                        *)
(***************************************************************************)
EXTENDS Integers, Sequences, FiniteSets, SequencesExt

CONSTANTS
  SetMasks, Waits,  \* the requests, by what they ask for
  None,             \* the NULL pointer
  Workers,          \* threads and processors that can run driver code
  Closers,          \* the workers that may run SerialKillPendingIrps
  Events            \* the SERIAL_EV_ bits

Irps == SetMasks \union Waits

ASSUME WaitAssumption ==
  /\ SetMasks \intersect Waits = {}
  /\ None \notin Irps \union Workers
  /\ Closers \subseteq Workers

VARIABLES
  queue,           \* MaskQueue
  current,         \* CurrentMaskIrp
  wait,            \* CurrentWaitIrp
  arrived,         \* the requests the driver has been given
  buffer,          \* [Irps -> the mask in the request's buffer]
  status,          \* [Irps -> IoStatus.Status]
  cancelled,       \* the IRPs whose Cancel flag is set
  routine,         \* [Irps -> CancelRoutine]
  refs,            \* [Irps -> references held]
  completions,     \* [Irps -> times it was completed]
  isrWaitMask,     \* IsrWaitMask
  historyMask,     \* HistoryMask
  irpMaskLocation, \* IrpMaskLocation: the request whose buffer it points to
  dpcQueued,       \* CommWaitDpc is queued
  cancelLock,      \* who holds the cancel spin lock between two actions
  pc               \* [Workers -> what the worker will do next]

irpVars == <<arrived, buffer, status, cancelled, routine, refs, completions>>
isrVars == <<isrWaitMask, historyMask, irpMaskLocation, dpcQueued>>
vars == <<queue, current, wait, irpVars, isrVars, cancelLock, pc>>

Init ==
  /\ queue = <<>> /\ current = None /\ wait = None
  /\ arrived = {} /\ cancelled = {}
  /\ buffer = [i \in Irps |-> {}]
  /\ status = [i \in Irps |-> "none"]
  /\ routine = [i \in Irps |-> "null"]
  /\ refs = [i \in Irps |-> {}]
  /\ completions = [i \in Irps |-> 0]
  /\ isrWaitMask = {} /\ historyMask = {} /\ irpMaskLocation = None
  /\ dpcQueued = FALSE /\ cancelLock = None
  /\ pc = [w \in Workers |-> "idle"]

-----------------------------------------------------------------------------

LockFree == cancelLock = None
Goto(w, label) == pc' = [pc EXCEPT ![w] = label]
Complete(i) == completions' = [completions EXCEPT ![i] = @ + 1]

\* Nobody is served and nobody waits.
\* Mutant: an empty queue is taken for an idle device.
MayStartBesideCurrent == queue = <<>>
MayStart == queue = <<>> /\ current = None

\* SerialIoControl and SerialStartOrQueue with SerialStartMask as the starter.
Request(w, i) ==
  /\ LockFree /\ pc[w] = "idle" /\ i \notin arrived
  /\ arrived' = arrived \union {i}
  /\ \E mask \in IF i \in SetMasks THEN SUBSET Events ELSE {{}} :
       buffer' = [buffer EXCEPT ![i] = mask]
  /\ \/ /\ MayStart
        /\ current' = i
        /\ Goto(w, "start")
        /\ UNCHANGED <<queue, status, routine, completions>>
     \/ /\ ~MayStart /\ i \in cancelled
        /\ status' = [status EXCEPT ![i] = "cancelled"]
        /\ Complete(i)
        /\ UNCHANGED <<queue, current, routine, pc>>
     \/ /\ ~MayStart /\ i \notin cancelled
        /\ status' = [status EXCEPT ![i] = "pending"]
        /\ queue' = Append(queue, i)
        /\ routine' = [routine EXCEPT ![i] = "queued"]
        /\ UNCHANGED <<current, completions, pc>>
  /\ UNCHANGED <<wait, cancelled, refs, isrVars, cancelLock>>

-----------------------------------------------------------------------------
(* SerialStartMask, by the worker that made the request current. *)

\* The old wait is answered with no event at all.
FinishOldWait ==
  /\ irpMaskLocation' = None
  /\ dpcQueued' = (dpcQueued \/ irpMaskLocation # None)

\* IOCTL_SERIAL_SET_WAIT_MASK: SerialFinishOldWait.
SetWaitMask(w) ==
  /\ pc[w] = "start" /\ current \in SetMasks
  /\ FinishOldWait
  /\ historyMask' = historyMask \intersect buffer[current]
  /\ isrWaitMask' = buffer[current]
  /\ status' = [status EXCEPT ![current] = "success"]
  /\ Goto(w, "getnext")
  /\ UNCHANGED <<queue, current, wait, arrived, buffer, cancelled, routine, refs,
                 completions, cancelLock>>

\* IOCTL_SERIAL_WAIT_ON_MASK: one wait at a time, and none for no event.  The
\* test is made without a lock.
TestWait(w) ==
  /\ pc[w] = "start" /\ current \in Waits
  /\ IF isrWaitMask = {} \/ wait # None
       THEN status' = [status EXCEPT ![current] = "invalid"] /\ Goto(w, "getnext")
       ELSE Goto(w, "tested") /\ UNCHANGED status
  /\ UNCHANGED <<queue, current, wait, arrived, buffer, cancelled, routine, refs,
                 completions, isrVars, cancelLock>>

CancelledWait(w) ==
  /\ LockFree /\ pc[w] = "tested" /\ current \in cancelled
  /\ status' = [status EXCEPT ![current] = "cancelled"]
  /\ Goto(w, "getnext")
  /\ UNCHANGED <<queue, current, wait, arrived, buffer, cancelled, routine, refs,
                 completions, isrVars, cancelLock>>

\* SerialGiveWaitToIsr answers at once with what is recorded, if anything is.
GiveWaitToIsr(i) ==
  IF historyMask = {}
    THEN irpMaskLocation' = i /\ UNCHANGED <<buffer, status, historyMask, dpcQueued>>
    ELSE /\ buffer' = [buffer EXCEPT ![i] = historyMask]
         /\ historyMask' = {}
         /\ status' = [status EXCEPT ![i] = "success"]
         /\ dpcQueued' = TRUE
         /\ UNCHANGED irpMaskLocation

\* The wait moves to CurrentWaitIrp and the queue goes on, under one lock.
BeginWait(w) ==
  /\ LockFree /\ pc[w] = "tested" /\ current \notin cancelled
  /\ wait' = current
  /\ refs' = [refs EXCEPT ![current] = {"CANCEL", "ISR"}]
  /\ GiveWaitToIsr(current)
  /\ IF queue = <<>>
       THEN /\ current' = None
            /\ routine' = [routine EXCEPT ![current] = "wait"]
            /\ Goto(w, "idle")
            /\ UNCHANGED queue
       ELSE /\ current' = Head(queue)
            /\ queue' = Tail(queue)
            /\ routine' = [routine EXCEPT ![current] = "wait", ![Head(queue)] = "null"]
            /\ Goto(w, "start")
  /\ UNCHANGED <<arrived, cancelled, completions, isrWaitMask, cancelLock>>

GetNextIrp(w) ==
  /\ LockFree /\ pc[w] = "getnext"
  /\ Complete(current)
  /\ IF queue = <<>>
       THEN current' = None /\ Goto(w, "idle") /\ UNCHANGED <<queue, routine>>
       ELSE /\ current' = Head(queue)
            /\ queue' = Tail(queue)
            /\ routine' = [routine EXCEPT ![Head(queue)] = "null"]
            /\ Goto(w, "start")
  /\ UNCHANGED <<wait, arrived, buffer, status, cancelled, refs, isrVars, cancelLock>>

-----------------------------------------------------------------------------
(* The interrupt. *)

\* An event of interest is recorded, and given to the wait that is there.
\* Mutant: it is recorded only.
RecordEvent(e) ==
  /\ e \in isrWaitMask
  /\ historyMask' = historyMask \union {e}
  /\ UNCHANGED <<queue, current, wait, irpVars, isrWaitMask, irpMaskLocation, dpcQueued,
                 cancelLock, pc>>
Event(e) ==
  /\ e \in isrWaitMask
  /\ IF irpMaskLocation = None
       THEN historyMask' = historyMask \union {e}
            /\ UNCHANGED <<buffer, irpMaskLocation, dpcQueued>>
       ELSE /\ buffer' = [buffer EXCEPT ![irpMaskLocation] = historyMask \union {e}]
            /\ irpMaskLocation' = None
            /\ historyMask' = {}
            /\ dpcQueued' = TRUE
  /\ UNCHANGED <<queue, current, wait, arrived, status, cancelled, routine, refs,
                 completions, isrWaitMask, cancelLock, pc>>

-----------------------------------------------------------------------------
(* Completion of the wait. *)

\* SERIAL_REFERENCE_COUNT is zero.
\* Mutant: the reference of the interrupt routine does not count.
LastButIsr(left) == left \subseteq {"ISR"}
LastReference(left) == left = {}

\* SerialTryToCompleteCurrent on CurrentWaitIrp; `taken' tells whether
\* SerialGrabWaitFromIsr took it back from the interrupt routine.
TryWait(ref, taken, newStatus) ==
  LET left == refs[wait] \ ({ref} \union (IF taken THEN {"ISR"} ELSE {})
                            \union (IF routine[wait] # "null" THEN {"CANCEL"} ELSE {}))
  IN  /\ refs' = [refs EXCEPT ![wait] = left]
      /\ routine' = [routine EXCEPT ![wait] = "null"]
      /\ irpMaskLocation' = IF taken THEN None ELSE irpMaskLocation
      /\ IF LastReference(left)
           THEN /\ status' = [status EXCEPT ![wait] = newStatus]
                /\ Complete(wait)
                /\ wait' = None
           ELSE UNCHANGED <<status, completions, wait>>
      /\ UNCHANGED <<queue, current, arrived, buffer, isrWaitMask, historyMask>>

\* SerialCompleteWait.
CompleteWait(w) ==
  /\ LockFree /\ pc[w] = "idle" /\ dpcQueued
  /\ dpcQueued' = FALSE
  /\ TryWait("ISR", FALSE, "success")
  /\ UNCHANGED <<cancelled, cancelLock, pc>>

\* SerialCancelWait.
\* Mutant: the wait is left with the interrupt routine.
CancelWithoutGrab ==
  /\ TryWait("CANCEL", FALSE, "cancelled")
  /\ cancelled' = cancelled \union {wait}
  /\ UNCHANGED <<dpcQueued, cancelLock>>
CancelWait ==
  /\ TryWait("CANCEL", irpMaskLocation # None, "cancelled")
  /\ cancelled' = cancelled \union {wait}
  /\ UNCHANGED <<dpcQueued, cancelLock>>

\* SerialCancelQueued on the request at place k of the queue.
CancelQueued(k) ==
  /\ queue' = RemoveAt(queue, k)
  /\ routine' = [routine EXCEPT ![queue[k]] = "null"]
  /\ cancelled' = cancelled \union {queue[k]}
  /\ status' = [status EXCEPT ![queue[k]] = "cancelled"]
  /\ Complete(queue[k])
  /\ UNCHANGED <<current, wait, arrived, buffer, refs, isrVars, cancelLock>>

IoCancelIrp(w, i) ==
  /\ LockFree /\ pc[w] = "idle" /\ i \notin cancelled /\ completions[i] = 0
  /\ UNCHANGED pc
  /\ \/ \E k \in DOMAIN queue : queue[k] = i /\ CancelQueued(k)
     \/ routine[i] = "wait" /\ CancelWait
     \/ /\ routine[i] = "null"
        /\ cancelled' = cancelled \union {i}
        /\ UNCHANGED <<queue, current, wait, arrived, buffer, status, routine, refs,
                       completions, isrVars, cancelLock>>

-----------------------------------------------------------------------------
(* SerialKillPendingIrps. *)

Kill(w) ==
  /\ pc[w] = "idle" /\ w \in Closers
  /\ Goto(w, "kill")
  /\ UNCHANGED <<queue, current, wait, irpVars, isrVars, cancelLock>>

KillQueued(w) ==
  /\ LockFree /\ pc[w] = "kill" /\ queue # <<>>
  /\ CancelQueued(Len(queue))
  /\ UNCHANGED pc

\* The request SerialKillAllReadsOrWrites marks.
CurrentIfAny == {current} \ {None}

\* A current mask request has no cancel routine: it is marked.
KillCurrent(w) ==
  /\ LockFree /\ pc[w] = "kill" /\ queue = <<>>
  /\ cancelled' = cancelled \union CurrentIfAny
  /\ Goto(w, "killwait")
  /\ UNCHANGED <<queue, current, wait, arrived, buffer, status, routine, refs,
                 completions, isrVars, cancelLock>>

\* A wait that has lost its cancel routine is marked, and the lock stays taken.
KillWait(w) ==
  /\ LockFree /\ pc[w] = "killwait"
  /\ Goto(w, "idle")
  /\ \/ /\ wait = None
        /\ UNCHANGED <<queue, current, wait, irpVars, isrVars, cancelLock>>
     \/ /\ \E i \in Waits : wait = i /\ routine[i] = "wait"
        /\ CancelWait
     \/ /\ \E i \in Waits : wait = i /\ routine[i] = "null"
        /\ cancelled' = cancelled \union {wait}
        /\ cancelLock' = w
        /\ UNCHANGED <<queue, current, wait, arrived, buffer, status, routine, refs,
                       completions, isrVars>>

-----------------------------------------------------------------------------

Next ==
  \/ \E w \in Workers :
       \/ \E i \in Irps : Request(w, i) \/ IoCancelIrp(w, i)
       \/ SetWaitMask(w) \/ TestWait(w) \/ CancelledWait(w) \/ BeginWait(w)
       \/ GetNextIrp(w) \/ CompleteWait(w)
       \/ Kill(w) \/ KillQueued(w) \/ KillCurrent(w) \/ KillWait(w)
  \/ \E e \in Events : Event(e)

Spec == Init /\ [][Next]_vars

\* What a worker has begun goes on, and a queued procedure runs when some
\* processor is free again and again.  Events need not happen.
Fairness ==
  /\ \A w \in Workers :
       WF_vars(SetWaitMask(w) \/ TestWait(w) \/ CancelledWait(w) \/ BeginWait(w)
               \/ GetNextIrp(w) \/ KillQueued(w) \/ KillCurrent(w) \/ KillWait(w))
  /\ SF_vars(\E w \in Workers : CompleteWait(w))

FairSpec == Spec /\ Fairness

-----------------------------------------------------------------------------
(* Properties. *)

Working(w) == pc[w] \in {"start", "tested", "getnext"}
Queued(i)  == \E k \in DOMAIN queue : queue[k] = i
Open(i)    == i \in arrived /\ completions[i] = 0

TypeOK ==
  /\ queue \in Seq(Irps) /\ current \in Irps \union {None} /\ wait \in Waits \union {None}
  /\ arrived \subseteq Irps /\ cancelled \subseteq Irps
  /\ buffer \in [Irps -> SUBSET Events]
  /\ status \in [Irps -> {"none", "pending", "success", "cancelled", "invalid"}]
  /\ routine \in [Irps -> {"null", "queued", "wait"}]
  /\ refs \in [Irps -> SUBSET {"ISR", "CANCEL"}] /\ completions \in [Irps -> Nat]
  /\ isrWaitMask \subseteq Events /\ historyMask \subseteq Events
  /\ irpMaskLocation \in Waits \union {None} /\ dpcQueued \in BOOLEAN
  /\ cancelLock \in Workers \union {None}
  /\ pc \in [Workers -> {"idle", "start", "tested", "getnext", "kill", "killwait"}]

(***************************************************************************)
(* The mask queue has one starter, and what its test without a lock found  *)
(* is still true when it acts on it: no second wait is started, and the    *)
(* interrupt routine's pointer is free (the four assertions of waitmask.c).*)
(***************************************************************************)
StarterMayTrustItsTest ==
  /\ \A v, w \in Workers : Working(v) /\ Working(w) => v = w
  /\ \A w \in Workers :
       /\ Working(w) => current # None /\ completions[current] = 0
       /\ pc[w] = "tested" => wait = None /\ irpMaskLocation = None /\ isrWaitMask # {}
       /\ pc[w] = "getnext" /\ current \in SetMasks => irpMaskLocation = None

(***************************************************************************)
(* The interrupt routine writes to the buffer of a wait only under its ISR *)
(* reference, a queued procedure always finds that reference on the wait   *)
(* it was queued for, and no wait is left with nobody to complete it.      *)
(***************************************************************************)
WaitReferences ==
  IF wait = None THEN irpMaskLocation = None /\ ~dpcQueued
  ELSE /\ irpMaskLocation \in {None, wait}
       /\ "ISR" \in refs[wait]
       /\ dpcQueued <=> irpMaskLocation = None
       /\ "CANCEL" \in refs[wait] <=> routine[wait] = "wait"

\* Every request is completed at most once and out of reach from then on; until
\* then it waits, is current, or is CurrentWaitIrp.
CompletedOnce ==
  \A i \in Irps :
    /\ completions[i] <= 1
    /\ completions[i] = 1 =>
         /\ ~Queued(i) /\ i \notin {current, wait, irpMaskLocation}
         /\ refs[i] = {} /\ routine[i] = "null"
    /\ Open(i) => Queued(i) \/ i \in {current, wait}

(***************************************************************************)
(* The reference protocol of the mask queue and of the wait, over          *)
(* well-typed states.                                                      *)
(***************************************************************************)
ReferenceProtocol == TypeOK /\ StarterMayTrustItsTest /\ WaitReferences /\ CompletedOnce

(***************************************************************************)
(* No event is missed: HistoryMask is a subset of IsrWaitMask, and a wait  *)
(* never stays with the interrupt routine while events are recorded or     *)
(* when no event is of interest any more.                                  *)
(***************************************************************************)
NoMissedEvent ==
  /\ historyMask \subseteq isrWaitMask
  /\ irpMaskLocation # None => historyMask = {} /\ isrWaitMask # {}

\* Events written to the buffer of a wait reach the application: cancelling the
\* wait at that moment does not turn its success into a cancellation.
EventsAreReported ==
  \A i \in Waits : completions[i] = 1 /\ buffer[i] # {} => status[i] = "success"

\* An event that was asked for reaches a wait, and the application.
EventsArrive == NoMissedEvent /\ EventsAreReported

\* A cancelled request is completed, and a new mask ends the wait that was there
\* when it was set.  The exception is a clean-up that has kept the cancel lock.
MaskIsSet == \E w \in Workers : pc[w] = "getnext" /\ current \in SetMasks
WaitsEnd ==
  []LockFree =>
    \A i \in Irps : (Open(i) /\ (i \in cancelled \/ (wait = i /\ MaskIsSet)))
                    ~> (completions[i] = 1)

\* The mask queue keeps the promises of a request queue; a wait is done with
\* the queue when CurrentWaitIrp has it.
Queue == INSTANCE IrpQueue WITH
           pending <- queue, active <- current,
           done <- {i \in Irps : i \in arrived /\ ~Queued(i) /\ i # current}
QueueSpec == Queue!Spec

\* SerialKillPendingIrps gets rid of a pending wait: one that is there when it
\* comes to it is completed.
CleanupEndsWait ==
  \A i \in Waits :
    (wait = i /\ \E w \in Workers : pc[w] = "killwait") ~> (completions[i] = 1)
=============================================================================
