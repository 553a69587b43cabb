----------------------------- MODULE ToasterFunc -----------------------------
(***************************************************************************)
(* The request queue and the plug-and-play handling of the toaster         *)
(* function driver (general/toaster/func/toaster.C).  Reads (IRP_MJ_READ,  *)
(* IRP_MJ_WRITE and IRP_MJ_DEVICE_CONTROL, which take the same way) run at *)
(* once or wait in NewRequestsQueue while the device is stopped or asked   *)
(* to stop or go; OutstandingIO counts the threads inside the driver, and  *)
(* two events tell the plug-and-play thread that it is the only one left,  *)
(* or that not even it is.                                                 *)
(*                                                                         *)
(* Every request runs in a thread of its own, and so does the plug-and-    *)
(* play manager, which sends one minor function at a time; pc says what    *)
(* each does next.  A request that was queued is completed by others: by   *)
(* the cancel routine, by a cleanup, or by the plug-and-play thread.  The  *)
(* counter and the events it controls change in separate steps, as in      *)
(* ToasterIoIncrement and ToasterIoDecrement.  The queue is a set: the     *)
(* driver takes entries from its head, and here whoever empties it may     *)
(* find them in any order.                                                 *)
(***************************************************************************)
EXTENDS Integers, FiniteSets

CONSTANTS
  Files,    \* file objects: each is created, cleaned up and closed
  PerFile,  \* names of the reads sent through one file
  Pnp,      \* the plug-and-play manager's thread
  None

Reads    == {"read"} \X Files \X PerFile
Creates  == {"create"} \X Files
Cleanups == {"cleanup"} \X Files
Closes   == {"close"} \X Files
Requests == Reads \union Creates \union Cleanups \union Closes
Threads  == Requests \union {Pnp}

Minors == {"start", "query_stop", "cancel_stop", "stop", "query_remove", "cancel_remove",
           "surprise", "remove"}

ASSUME ThreadsAssumption ==
  /\ Pnp \notin Requests /\ None \notin Minors
  /\ IsFiniteSet(Requests)

VARIABLES
  pc,            \* [Threads -> what the thread does next]
  queue,         \* NewRequestsQueue, the set of its entries
  queueState,    \* QueueState
  pnpState,      \* DevicePnPState
  previousState, \* PreviousPnPState
  outstandingIO, \* OutstandingIO
  stopEvent,     \* StopEvent is signaled
  removeEvent,   \* RemoveEvent is signaled
  routine,       \* reads that have ToasterCancelQueued as their cancel routine
  canceller,     \* [Reads -> how far IoCancelIrp has come]
  doomed,        \* [Threads -> reads on its list of cancelled requests]
  completions,   \* [Reads -> how often IoCompleteRequest was called]
  manager,       \* what the plug-and-play manager knows of the device
  minor,         \* the minor function it has sent
  late,          \* [Reads -> what had happened before the read was queued]
  overtaken      \* StopEvent was set after the count had risen again

queueVars == <<queue, routine, canceller, doomed, completions, late>>
eventVars == <<stopEvent, removeEvent, overtaken>>
pnpVars   == <<queueState, pnpState, previousState, manager, minor>>
vars      == <<pc, outstandingIO, queueVars, eventVars, pnpVars>>

\* AddDevice has run and the device was started.
Init ==
  /\ pc = [t \in Threads |-> IF t = Pnp THEN "idle" ELSE "none"]
  /\ queue = {} /\ queueState = "allow"
  /\ pnpState = "Started" /\ previousState = "NotStarted"
  /\ outstandingIO = 1 /\ stopEvent = TRUE /\ removeEvent = FALSE
  /\ routine = {} /\ canceller = [r \in Reads |-> "none"]
  /\ doomed = [t \in Threads |-> {}] /\ completions = [r \in Reads |-> 0]
  /\ manager = "started" /\ minor = None
  /\ late = [r \in Reads |-> {}] /\ overtaken = FALSE

Goto(t, label) == pc' = [pc EXCEPT ![t] = label]
Complete(S) == completions' = [r \in Reads |-> completions[r] + IF r \in S THEN 1 ELSE 0]

-----------------------------------------------------------------------------
(* ToasterIoIncrement and ToasterIoDecrement *)

\* Mutant: the count is compared before it is raised.
FirstBefore(n) == n = 1
FirstIn(n) == n = 2

Increment(t) ==
  /\ pc[t] = "enter"
  /\ outstandingIO' = outstandingIO + 1
  /\ Goto(t, IF FirstIn(outstandingIO + 1) THEN "clear" ELSE "inside")
  /\ UNCHANGED <<queueVars, eventVars, pnpVars>>

ClearStopEvent(t) ==
  /\ pc[t] = "clear"
  /\ stopEvent' = FALSE /\ overtaken' = FALSE
  /\ Goto(t, "inside")
  /\ UNCHANGED <<outstandingIO, queueVars, removeEvent, pnpVars>>

\* Where a thread goes that has left: a request is done, the plug-and-play
\* thread waits or passes its request down.
AfterLeaving(t) ==
  IF t # Pnp THEN "done"
  ELSE IF minor \in {"query_stop", "query_remove"} THEN "waitstop"
  ELSE IF minor = "remove" THEN "leavelast"
  ELSE "idle"

\* Mutant: the last request out does not tell.
Nobody(n) == FALSE
Alone(n) == n = 1

\* Mutant: the removal does not wait for the last request.
NobodyElse(n) == n <= 1
NobodyInside(n) == n = 0

\* A removal takes its own count off, and then the one the device began with.
Decrement(t) ==
  /\ pc[t] \in {"leave", "leavelast"}
  /\ outstandingIO' = outstandingIO - 1
  /\ LET last == pc[t] = "leavelast" IN
       Goto(t, IF Alone(outstandingIO - 1) /\ ~last THEN "setstop"
               ELSE IF NobodyInside(outstandingIO - 1) THEN "setremove"
               ELSE IF Alone(outstandingIO - 1) THEN "setstoplast"
               ELSE IF last THEN "waitremove"
               ELSE AfterLeaving(t))
  /\ UNCHANGED <<queueVars, eventVars, pnpVars>>

SetStopEvent(t) ==
  /\ pc[t] \in {"setstop", "setstoplast"}
  /\ stopEvent' = TRUE
  /\ overtaken' = (outstandingIO > 1)
  /\ Goto(t, IF pc[t] = "setstoplast" THEN "waitremove" ELSE AfterLeaving(t))
  /\ UNCHANGED <<outstandingIO, queueVars, removeEvent, pnpVars>>

SetRemoveEvent(t) ==
  /\ pc[t] = "setremove"
  /\ removeEvent' = TRUE
  /\ Goto(t, IF t = Pnp THEN "waitremove" ELSE "done")
  /\ UNCHANGED <<outstandingIO, queueVars, stopEvent, overtaken, pnpVars>>

-----------------------------------------------------------------------------
(* Requests. *)

FileOf(r) == r[2]
Done(r)   == pc[r] = "done"
Ended(r)  == completions[r] > 0

\* A device that is about to go is not opened.
MayOpen ==
  /\ manager \in {"started", "stop_asked", "stopped"}
  /\ minor \notin {"query_remove", "surprise", "remove"}

\* A file is cleaned up when its last handle is closed, which a thread may do
\* while another is about to read; it is closed when its requests are completed.
MayArrive(r) ==
  \/ r \in Creates /\ MayOpen
  \/ r \in Reads /\ Done(<<"create", FileOf(r)>>) /\ pc[<<"cleanup", FileOf(r)>>] = "none"
  \/ r \in Cleanups /\ Done(<<"create", FileOf(r)>>)
  \/ r \in Closes /\ Done(<<"cleanup", FileOf(r)>>)
     /\ \A q \in Reads : FileOf(q) = FileOf(r) => pc[q] = "none" \/ Ended(q)

\* ToasterCreateClose and ToasterCleanup count at once.
Arrive(r) ==
  /\ pc[r] = "none" /\ MayArrive(r)
  /\ Goto(r, IF r \in Reads THEN "called" ELSE "enter")
  /\ UNCHANGED <<outstandingIO, queueVars, eventVars, pnpVars>>

\* ToasterReadWrite and ToasterDispatchIoctl look at QueueState first.
Gate(r) ==
  /\ r \in Reads /\ pc[r] = "called"
  /\ Goto(r, IF queueState = "hold" THEN "queue" ELSE "enter")
  /\ UNCHANGED <<outstandingIO, queueVars, eventVars, pnpVars>>

CleanedUp(f) == pc[<<"cleanup", f>>] \notin {"none", "enter", "clear", "inside"}

\* What will not happen any more to a read that is queued now.
Missed(r) ==
  {s \in {"drained", "cancelled", "cleaned"} :
     \/ s = "drained"   /\ queueState # "hold"
     \/ s = "cancelled" /\ canceller[r] = "over"
     \/ s = "cleaned"   /\ CleanedUp(FileOf(r))}

\* ToasterQueueRequest.
QueueRequest(r) ==
  /\ pc[r] = "queue"
  /\ queue' = queue \union {r}
  /\ routine' = routine \union {r}
  /\ late' = [late EXCEPT ![r] = Missed(r)]
  /\ Goto(r, "done")
  /\ UNCHANGED <<outstandingIO, canceller, doomed, completions, eventVars, pnpVars>>

\* The read is done, or the create or close.
Work(r) ==
  /\ pc[r] = "inside" /\ r \notin Cleanups
  /\ Complete({r} \intersect Reads)
  /\ Goto(r, "leave")
  /\ UNCHANGED <<outstandingIO, queue, routine, canceller, doomed, late, eventVars, pnpVars>>

\* The reads in the queue that belong to a cleanup's file ...
Mine(r) == {q \in queue : FileOf(q) = FileOf(r)}

\* ... and those it completes.
\* Mutant: it only takes them out.
SweptAway(r) == {}
Swept(r) == Mine(r) \intersect routine

\* ToasterCleanup under QueueLock: what has a cancel routine is moved to a list
\* of its own; what has none any more belongs to its cancel routine.
SweepQueue(r) ==
  /\ r \in Cleanups /\ pc[r] = "inside"
  /\ queue' = queue \ Mine(r)
  /\ doomed' = [doomed EXCEPT ![r] = Swept(r)]
  /\ routine' = routine \ Mine(r)
  /\ Goto(r, "flush")
  /\ UNCHANGED <<outstandingIO, canceller, completions, late, eventVars, pnpVars>>

\* Completes its list, and then itself.
FlushCleanup(r) ==
  /\ r \in Cleanups /\ pc[r] = "flush"
  /\ Complete(doomed[r])
  /\ doomed' = [doomed EXCEPT ![r] = {}]
  /\ Goto(r, "leave")
  /\ UNCHANGED <<outstandingIO, queue, routine, canceller, late, eventVars, pnpVars>>

-----------------------------------------------------------------------------
(* Cancellation. *)

\* IoCancelIrp sets the request's Cancel flag, ...
IoCancelIrp(r) ==
  /\ canceller[r] = "none" /\ pc[r] # "none" /\ ~Ended(r)
  /\ canceller' = [canceller EXCEPT ![r] = "flagged"]
  /\ UNCHANGED <<pc, outstandingIO, queue, routine, doomed, completions, late, eventVars, pnpVars>>

\* ... takes its cancel routine, and calls it if there was one.
TakeCancelRoutine(r) ==
  /\ canceller[r] = "flagged"
  /\ canceller' = [canceller EXCEPT ![r] = IF r \in routine THEN "routine" ELSE "over"]
  /\ routine' = routine \ {r}
  /\ UNCHANGED <<pc, outstandingIO, queue, doomed, completions, late, eventVars, pnpVars>>

\* ToasterCancelQueued: RemoveEntryList does nothing to an entry that was
\* taken out and linked to itself.
CancelQueued(r) ==
  /\ canceller[r] = "routine"
  /\ queue' = queue \ {r}
  /\ Complete({r})
  /\ canceller' = [canceller EXCEPT ![r] = "over"]
  /\ UNCHANGED <<pc, outstandingIO, routine, doomed, late, eventVars, pnpVars>>

-----------------------------------------------------------------------------
(* ToasterDispatchPnp *)

FileGone(f) == pc[<<"create", f>>] = "none" \/ Done(<<"close", f>>)

\* What the manager may send: a cancel even if an upper driver refused the
\* query, and a removal when the files are closed.
Legal(m) ==
  \/ manager = "started"
     /\ m \in {"query_stop", "query_remove", "cancel_stop", "cancel_remove", "surprise"}
  \/ manager = "stop_asked" /\ m \in {"cancel_stop", "stop"}
  \/ manager = "stopped" /\ m \in {"start", "surprise"}
  \/ manager = "remove_asked" /\ m = "cancel_remove"
  \/ manager = "failed" /\ m = "surprise"
  \/ manager \in {"remove_asked", "surprised"} /\ m = "remove" /\ \A f \in Files : FileGone(f)

PnpArrives(m) ==
  /\ pc[Pnp] = "idle" /\ Legal(m)
  /\ minor' = m
  /\ Goto(Pnp, "enter")
  /\ UNCHANGED <<outstandingIO, queueVars, eventVars, queueState, pnpState, previousState,
                 manager>>

Serving(m) == pc[Pnp] = "inside" /\ minor = m

\* SET_NEW_PNP_STATE
Enter(state) == previousState' = pnpState /\ pnpState' = state

\* RESTORE_PREVIOUS_PNP_STATE
RestoreState == pnpState' = previousState /\ UNCHANGED previousState

\* The lower drivers, or the device interface, may fail the start.
StartDevice ==
  /\ Serving("start")
  /\ \/ /\ Enter("Started") /\ queueState' = "allow" /\ manager' = "started"
        /\ Goto(Pnp, "process")
     \/ /\ manager' = "failed"
        /\ Goto(Pnp, "leave")
        /\ UNCHANGED <<queueState, pnpState, previousState>>
  /\ UNCHANGED <<outstandingIO, queueVars, eventVars, minor>>

Query(m, state, answer) ==
  /\ Serving(m)
  /\ Enter(state) /\ queueState' = "hold" /\ manager' = answer
  /\ Goto(Pnp, "leave")
  /\ UNCHANGED <<outstandingIO, queueVars, eventVars, minor>>

QueryStop   == Query("query_stop", "StopPending", "stop_asked")
QueryRemove == Query("query_remove", "RemovePending", "remove_asked")

\* A cancel without a query is answered and changes nothing.
Cancel(m, state) ==
  /\ Serving(m)
  /\ IF pnpState = state
       THEN queueState' = "allow" /\ RestoreState /\ Goto(Pnp, "process")
       ELSE UNCHANGED <<queueState, pnpState, previousState>> /\ Goto(Pnp, "leave")
  /\ manager' = "started"
  /\ UNCHANGED <<outstandingIO, queueVars, eventVars, minor>>

CancelStop   == Cancel("cancel_stop", "StopPending")
CancelRemove == Cancel("cancel_remove", "RemovePending")

StopDevice ==
  /\ Serving("stop")
  /\ Enter("Stopped") /\ manager' = "stopped"
  /\ Goto(Pnp, "leave")
  /\ UNCHANGED <<outstandingIO, queueVars, eventVars, queueState, minor>>

SurpriseRemoval ==
  /\ Serving("surprise")
  /\ queueState' = "fail" /\ manager' = "surprised"
  /\ Goto(Pnp, "process")
  /\ UNCHANGED <<outstandingIO, queueVars, eventVars, pnpState, previousState, minor>>

RemoveDevice ==
  /\ Serving("remove")
  /\ IF pnpState # "SurpriseRemovePending"
       THEN queueState' = "fail" /\ Goto(Pnp, "process")
       ELSE UNCHANGED queueState /\ Goto(Pnp, "flush")
  /\ UNCHANGED <<outstandingIO, queueVars, eventVars, pnpState, previousState, manager, minor>>

\* Mutant: the Cancel flag is not looked at.
CancelIgnored(r) == FALSE
IsCancelled(r) == canceller[r] # "none"

(***************************************************************************)
(* One turn of ToasterProcessQueuedRequests: the cancel routine is taken   *)
(* off; what was cancelled is left to it if it was called already, and is  *)
(* put on a list otherwise; the rest is failed, or passed to the bus       *)
(* driver, which completes it.  The count that is held around that call is *)
(* left out: this thread has one of its own, so that it decides nothing.   *)
(***************************************************************************)
ProcessQueued ==
  /\ pc[Pnp] = "process"
  /\ \E r \in queue :
       /\ queue' = queue \ {r}
       /\ routine' = routine \ {r}
       /\ IF IsCancelled(r)
            THEN /\ doomed' = [doomed EXCEPT ![Pnp] = @ \union ({r} \intersect routine)]
                 /\ UNCHANGED completions
            ELSE Complete({r}) /\ UNCHANGED doomed
  /\ UNCHANGED <<pc, outstandingIO, canceller, late, eventVars, pnpVars>>

QueueIsEmpty ==
  /\ pc[Pnp] = "process" /\ queue = {}
  /\ Goto(Pnp, "flush")
  /\ UNCHANGED <<outstandingIO, queueVars, eventVars, pnpVars>>

\* The cancelled requests, and then the rest of the minor function.
FinishPnp ==
  /\ pc[Pnp] = "flush"
  /\ Complete(doomed[Pnp])
  /\ doomed' = [doomed EXCEPT ![Pnp] = {}]
  /\ CASE minor = "surprise" -> Enter("SurpriseRemovePending")
       [] minor = "remove"   -> Enter("Deleted")
       [] OTHER              -> UNCHANGED <<pnpState, previousState>>
  /\ Goto(Pnp, "leave")
  /\ UNCHANGED <<outstandingIO, queue, routine, canceller, late, eventVars, queueState, manager,
                 minor>>

\* Both events are reset by the wait they end.
WaitForStop ==
  /\ pc[Pnp] = "waitstop" /\ stopEvent
  /\ stopEvent' = FALSE /\ overtaken' = FALSE
  /\ Goto(Pnp, "idle")
  /\ UNCHANGED <<outstandingIO, queueVars, removeEvent, pnpVars>>

WaitForRemove ==
  /\ pc[Pnp] = "waitremove" /\ removeEvent
  /\ removeEvent' = FALSE /\ manager' = "removed"
  /\ Goto(Pnp, "removed")
  /\ UNCHANGED <<outstandingIO, queueVars, stopEvent, overtaken, queueState, pnpState,
                 previousState, minor>>

-----------------------------------------------------------------------------
\* Counting, for every thread.
Count(t) ==
  Increment(t) \/ ClearStopEvent(t) \/ Decrement(t) \/ SetStopEvent(t) \/ SetRemoveEvent(t)

RequestGoes(r) == Count(r) \/ Gate(r) \/ QueueRequest(r) \/ Work(r) \/ SweepQueue(r) \/ FlushCleanup(r)

CancelGoes(r) == TakeCancelRoutine(r) \/ CancelQueued(r)

PnpGoes ==
  \/ Count(Pnp) \/ StartDevice \/ QueryStop \/ QueryRemove \/ CancelStop \/ CancelRemove
  \/ StopDevice \/ SurpriseRemoval \/ RemoveDevice \/ ProcessQueued \/ QueueIsEmpty \/ FinishPnp
  \/ WaitForStop \/ WaitForRemove

Next ==
  \/ \E r \in Requests : Arrive(r) \/ RequestGoes(r)
  \/ \E r \in Reads : IoCancelIrp(r) \/ CancelGoes(r)
  \/ \E m \in Minors : PnpArrives(m)
  \/ PnpGoes

Spec == Init /\ [][Next]_vars

\* Threads run; nobody need send, cancel or unplug anything.
FairSpec ==
  /\ Spec
  /\ \A r \in Requests : WF_vars(RequestGoes(r))
  /\ \A r \in Reads : WF_vars(CancelGoes(r))
  /\ WF_vars(PnpGoes)

-----------------------------------------------------------------------------
(* Properties. *)

Open(r) == pc[r] # "none" /\ ~Ended(r)

Labels == {"none", "idle", "called", "queue", "enter", "clear", "inside", "process", "flush",
           "leave", "setstop", "leavelast", "setstoplast", "setremove", "waitstop",
           "waitremove", "removed", "done"}

TypeOK ==
  /\ pc \in [Threads -> Labels]
  /\ queue \subseteq Reads /\ routine \subseteq Reads
  /\ canceller \in [Reads -> {"none", "flagged", "routine", "over"}]
  /\ doomed \in [Threads -> SUBSET Reads] /\ completions \in [Reads -> Nat]
  /\ late \in [Reads -> SUBSET {"drained", "cancelled", "cleaned"}]
  /\ queueState \in {"hold", "allow", "fail"}
  /\ {pnpState, previousState} \subseteq {"NotStarted", "Started", "StopPending", "Stopped",
                                          "RemovePending", "SurpriseRemovePending", "Deleted"}
  /\ outstandingIO \in Nat /\ {stopEvent, removeEvent, overtaken} \subseteq BOOLEAN
  /\ manager \in {"started", "stop_asked", "stopped", "failed", "remove_asked", "surprised",
                  "removed"}
  /\ minor \in Minors \union {None}

\* Who will complete a read that was put into the queue.
Owners(r) ==
  (IF r \in queue /\ canceller[r] # "routine" THEN {"queue"} ELSE {})
  \union (IF canceller[r] = "routine" THEN {"cancel"} ELSE {})
  \union {t \in Threads : r \in doomed[t]}

(***************************************************************************)
(* The cancel routine, the cleanup and the plug-and-play thread race for a *)
(* queued read.  Exactly one of them has it until it is completed, and it  *)
(* is completed once; an entry of the queue has its cancel routine unless  *)
(* that routine was called.                                                *)
(***************************************************************************)
QueueProtocol ==
  /\ TypeOK
  /\ \A r \in Reads :
       /\ completions[r] <= 1
       /\ r \in routine <=> (r \in queue /\ canceller[r] # "routine")
       /\ pc[r] = "done" /\ Open(r) => Cardinality(Owners(r)) = 1
       /\ pc[r] # "done" \/ Ended(r) => Owners(r) = {}

\* OutstandingIO is one for the device until it is removed, and one for every
\* thread inside.
Counted == {"clear", "inside", "process", "flush", "leave"}
Base == IF pc[Pnp] \in {"setstoplast", "setremove", "waitremove", "removed"} THEN 0 ELSE 1
Inside == {t \in Threads : pc[t] \in Counted}
CountExact == outstandingIO = Base + Cardinality(Inside)

(***************************************************************************)
(* When a removal's wait is over, and the device object goes, no thread    *)
(* works on it any more: reads that were completed may still have had to   *)
(* take their count off.  One thing they may still do: the thread that     *)
(* found the count at one sets StopEvent, in the device extension, and     *)
(* nothing makes the removal wait for it.  (The driver asserts that the    *)
(* count reaches zero only when the device is Deleted.)                    *)
(***************************************************************************)
RemovedIsQuiet ==
  /\ pc[Pnp] = "removed" =>
       /\ \A r \in Requests : pc[r] \in {"none", "done", "setstop"}
       /\ queue = {} /\ \A r \in Reads : canceller[r] # "routine"
  /\ outstandingIO = 0 => pnpState = "Deleted"

CountProtects == CountExact /\ RemovedIsQuiet

(***************************************************************************)
(* The count and StopEvent do not change together, and this is all that    *)
(* may come of it: the event is signaled with a request inside only while  *)
(* that request has not cleared it yet, or when setting it was overtaken   *)
(* by a request coming in; and a wait for it is not left alone.            *)
(***************************************************************************)
StopEventTruth ==
  /\ stopEvent => outstandingIO <= 1 \/ overtaken \/ \E t \in Threads : pc[t] = "clear"
  /\ pc[Pnp] = "waitstop" /\ outstandingIO = 1 =>
       stopEvent \/ \E t \in Threads : pc[t] = "setstop"

\* Every plug-and-play request ends.
PnpEnds == (pc[Pnp] # "idle") ~> (pc[Pnp] \in {"idle", "removed"})

(***************************************************************************)
(* In the end every request is done, and the reads that are open wait in   *)
(* the queue: because the device is held, or because they were queued too  *)
(* late - after the queue was emptied, their cancellation had looked for   *)
(* them or their file's cleanup had.  Nothing else is forgotten.           *)
(***************************************************************************)
Excused(r) ==
  /\ r \in queue
  /\ queueState = "hold" \/ "drained" \in late[r]
  /\ canceller[r] # "none" => "cancelled" \in late[r]
  /\ CleanedUp(FileOf(r)) => "cleaned" \in late[r]

RequestsEnd ==
  <>[](/\ \A r \in Requests : pc[r] \in {"none", "done"}
       /\ \A r \in Reads : Open(r) => Excused(r))
=============================================================================
