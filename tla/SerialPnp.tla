------------------------------ MODULE SerialPnp ------------------------------
(***************************************************************************)
(* Life of a port of serial.sys: opening and closing (openclos.c), the     *)
(* gate every request passes (SerialIRPPrologue, SerialIRPEpilogue and     *)
(* SerialFilterIrps in utils.c), and the plug-and-play requests that stop, *)
(* restart and remove the device under them (pnp.c).                       *)
(*                                                                         *)
(* Each request runs in a thread of its own, pc[r] saying what it does     *)
(* next; the plug-and-play manager sends one minor function at a time,     *)
(* and step says how far it has come.  What a request does between its     *)
(* admission and its completion is SerialRead's, SerialWrite's and         *)
(* SerialWait's matter: here a read may stay pending, and a control        *)
(* request (power, internal ioctl) touches the hardware and completes.     *)
(***************************************************************************)
EXTENDS Integers, Sequences, FiniteSets

CONSTANTS
  Files,     \* the file objects: each is created, cleaned up and closed
  Reads,     \* reads, through whichever file is open
  Controls,  \* IRP_MJ_POWER and IRP_MJ_INTERNAL_DEVICE_CONTROL
  Minors,    \* the minor functions the plug-and-play manager may send
  None

Requests == ({"create", "cleanup", "close"} \X Files)
            \union ({"read"} \X Reads) \union ({"control"} \X Controls)

Creates == {"create"} \X Files
Closes  == {"close"} \X Files

MinorFunctions == {"query_stop", "cancel_stop", "stop", "start", "query_remove",
                   "cancel_remove", "surprise", "remove"}

ASSUME PnpAssumption ==
  /\ None \notin Requests \union MinorFunctions /\ IsFiniteSet(Requests)
  /\ Minors \subseteq MinorFunctions

VARIABLES
  pc,              \* [Requests -> what the request's thread does next]
  completed,       \* the requests IoCompleteRequest was called for
  opened,          \* the files whose create succeeded
  releasing,       \* the closes that will decrement OpenCount when they leave
  accept,          \* DevicePNPAccept, the set of its flags
  pnpState,        \* PNPState
  pendingIRPCnt,   \* PendingIRPCnt
  pendingIRPEvent, \* PendingIRPEvent is signaled
  stalled,         \* StalledIrpQueue
  openMutex,       \* the create that holds OpenMutex
  openCount,       \* OpenCount
  deviceIsOpened,  \* DeviceIsOpened
  ring,            \* InterruptReadBuffer is allocated
  connected,       \* the interrupt and the registers are ours
  manager,         \* what the plug-and-play manager knows of the device
  minor, step,     \* the minor function it sent, and what comes next of it
  served           \* the stalled request SerialUnstallIrps dispatched last

requestVars == <<pc, completed, opened, releasing>>
openVars == <<openMutex, openCount, deviceIsOpened, ring>>
pnpVars == <<accept, pnpState, connected, manager, minor, step, served>>
countVars == <<pendingIRPCnt, pendingIRPEvent>>
vars == <<requestVars, openVars, pnpVars, countVars, stalled>>

Init ==
  /\ pc = [r \in Requests |-> "none"] /\ completed = {} /\ opened = {} /\ releasing = {}
  /\ accept = {} /\ pnpState = "started"
  /\ pendingIRPCnt = 1 /\ pendingIRPEvent = FALSE /\ stalled = <<>>
  /\ openMutex = None /\ openCount = 0 /\ deviceIsOpened = FALSE /\ ring = FALSE
  /\ connected = TRUE /\ manager = "started" /\ minor = None /\ step = "idle" /\ served = None

-----------------------------------------------------------------------------
(* The gate. *)

Goto(r, label) == pc' = [pc EXCEPT ![r] = label]
Done(r) == pc[r] = "done"

\* A file is cleaned up when its last handle is closed, and closed when its
\* requests are done.
MayArrive(r) ==
  \/ r[1] \in {"create", "control"}
  \/ r[1] = "read" /\ \E f \in opened : Done(<<"create", f>>) /\ pc[<<"cleanup", f>>] = "none"
  \/ r[1] = "cleanup" /\ r[2] \in opened /\ Done(<<"create", r[2]>>)
  \/ r[1] = "close" /\ Done(<<"cleanup", r[2]>>)
     /\ \A q \in Reads : pc[<<"read", q>>] \in {"none", "done"}

Arrive(r) ==
  /\ pc[r] = "none" /\ manager # "removed" /\ MayArrive(r)
  /\ Goto(r, "called")
  /\ UNCHANGED <<completed, opened, releasing, openVars, pnpVars, countVars, stalled>>

\* SerialCreateOpen before it takes OpenMutex.
CheckState(r) ==
  /\ r \in Creates /\ pc[r] = "called"
  /\ IF pnpState = "started"
       THEN Goto(r, "checked") /\ UNCHANGED completed
       ELSE Goto(r, "done") /\ completed' = completed \union {r}
  /\ UNCHANGED <<opened, releasing, openVars, pnpVars, countVars, stalled>>

LockOpen(r) ==
  /\ pc[r] = "checked" /\ openMutex = None
  /\ openMutex' = r
  /\ Goto(r, "locked")
  /\ UNCHANGED <<completed, opened, releasing, openCount, deviceIsOpened, ring, pnpVars,
                 countVars, stalled>>

\* SerialIRPPrologue counts the request first, and then asks SerialFilterIrps.
Enter(r) ==
  /\ pc[r] = IF r \in Creates THEN "locked" ELSE "called"
  /\ pendingIRPCnt' = pendingIRPCnt + 1
  /\ Goto(r, "counted")
  /\ UNCHANGED <<completed, opened, releasing, openVars, pnpVars, pendingIRPEvent, stalled>>

\* The flag for broken hardware, set by a close, is left out.
Verdict ==
  IF accept = {} THEN "admitted"
  ELSE IF accept \intersect {"removing", "surprise"} # {} THEN "deleted"
  ELSE IF "stopping" \in accept THEN "stall"
  ELSE "admitted"

\* Under FlagsLock, which is released before the cancel lock is taken.
Filter(r) ==
  /\ pc[r] = "counted"
  /\ Goto(r, Verdict)
  /\ UNCHANGED <<completed, opened, releasing, openVars, pnpVars, countVars, stalled>>

\* A request that was cancelled is not put on the queue; both come back.
Stall(r) ==
  /\ pc[r] = "stall"
  /\ stalled' \in {stalled, Append(stalled, r)}
  /\ Goto(r, "stalled")
  /\ UNCHANGED <<completed, opened, releasing, openVars, pnpVars, countVars>>

MutexAfter(r) == IF openMutex = r THEN None ELSE openMutex

\* Who takes OpenCount back after a refusal.
IfClose(r) == {r} \intersect Closes

\* The ring of a file that is closed while its device goes away.
FreesRing(r) == r \in Closes /\ pc[r] = "deleted"

\* Everything but success makes the caller complete the request (SerialFlush,
\* which would not complete a stalled one, needs an open file: it cannot be
\* called while a stop is prepared).
Reject(r) ==
  /\ pc[r] \in {"deleted", "stalled"}
  /\ completed' = completed \union {r}
  /\ openMutex' = MutexAfter(r)
  /\ ring' = (ring /\ ~FreesRing(r))
  /\ releasing' = releasing \union IfClose(r)
  /\ Goto(r, "epilogue")
  /\ UNCHANGED <<opened, openCount, deviceIsOpened, pnpVars, countVars, stalled>>

CompleteRequest(r) ==
  /\ pc[r] = "complete"
  /\ completed' = completed \union {r}
  /\ Goto(r, "epilogue")
  /\ UNCHANGED <<opened, releasing, openVars, pnpVars, countVars, stalled>>

AfterEpilogue(r) == IF r \in releasing THEN "release" ELSE "done"

\* SerialIRPEpilogue: the last one out sets the event.
\* Mutant: it does not.
NeverLast(left) == FALSE
LastOut(left) == left = 0

Epilogue(r) ==
  /\ pc[r] = "epilogue"
  /\ pendingIRPCnt' = pendingIRPCnt - 1
  /\ Goto(r, IF LastOut(pendingIRPCnt - 1) THEN "signal" ELSE AfterEpilogue(r))
  /\ UNCHANGED <<completed, opened, releasing, openVars, pnpVars, pendingIRPEvent, stalled>>

SetEvent(r) ==
  /\ pc[r] = "signal"
  /\ pendingIRPEvent' = TRUE
  /\ Goto(r, AfterEpilogue(r))
  /\ UNCHANGED <<completed, opened, releasing, openVars, pnpVars, pendingIRPCnt, stalled>>

-----------------------------------------------------------------------------
(* Admitted requests. *)

Admitted(r, kind) == pc[r] = "admitted" /\ r[1] = kind

\* Mutant: the count of files is not looked at.
AnyOpen == TRUE
FirstOpen == openCount = 0

\* SerialCreateOpen under OpenMutex.
OpenDevice(r) ==
  /\ Admitted(r, "create") /\ FirstOpen
  /\ openCount' = openCount + 1 /\ ring' = TRUE /\ deviceIsOpened' = TRUE /\ openMutex' = None
  /\ opened' = opened \union {r[2]}
  /\ Goto(r, "complete")
  /\ UNCHANGED <<completed, releasing, pnpVars, countVars, stalled>>

\* No memory for the ring (then it is not allocated), or the shared interrupt
\* is in use.  The mutex is released before the count is taken back.
OpenFails(r) ==
  /\ Admitted(r, "create") /\ FirstOpen
  /\ openCount' = openCount + 1 /\ openMutex' = None
  /\ ring' \in BOOLEAN
  /\ Goto(r, "failing")
  /\ UNCHANGED <<completed, opened, releasing, deviceIsOpened, pnpVars, countVars, stalled>>

OpenDenied(r) ==
  /\ Admitted(r, "create") /\ ~FirstOpen
  /\ openCount' = openCount + 1 /\ openMutex' = None
  /\ Goto(r, "denied")
  /\ UNCHANGED <<completed, opened, releasing, deviceIsOpened, ring, pnpVars, countVars,
                 stalled>>

UndoOpen(r) ==
  /\ pc[r] \in {"denied", "failing"}
  /\ openCount' = openCount - 1
  /\ ring' = (ring /\ pc[r] = "denied")
  /\ Goto(r, "complete")
  /\ UNCHANGED <<completed, opened, releasing, openMutex, deviceIsOpened, pnpVars, countVars,
                 stalled>>

\* SerialClose; a close that finds OpenCount wrong is refused.
BeginClose(r) ==
  /\ Admitted(r, "close")
  /\ IF openCount = 1
       THEN deviceIsOpened' = FALSE /\ Goto(r, "closing")
       ELSE UNCHANGED deviceIsOpened /\ Goto(r, "complete")
  /\ UNCHANGED <<completed, opened, releasing, openMutex, openCount, ring, pnpVars, countVars,
                 stalled>>

EndClose(r) ==
  /\ pc[r] = "closing"
  /\ ring' = FALSE
  /\ releasing' = releasing \union {r}
  /\ Goto(r, "complete")
  /\ UNCHANGED <<completed, opened, openMutex, openCount, deviceIsOpened, pnpVars, countVars,
                 stalled>>

\* The deferred procedures have drained.
ReleaseOpen(r) ==
  /\ pc[r] = "release"
  /\ openCount' = openCount - 1
  /\ releasing' = releasing \ {r}
  /\ Goto(r, "done")
  /\ UNCHANGED <<completed, opened, openMutex, deviceIsOpened, ring, pnpVars, countVars,
                 stalled>>

StartRead(r) ==
  /\ Admitted(r, "read")
  /\ Goto(r, "pending")
  /\ UNCHANGED <<completed, opened, releasing, openVars, pnpVars, countVars, stalled>>

\* Data, a timeout or a cancellation: nothing says that it must happen.
FinishRead(r) ==
  /\ pc[r] = "pending"
  /\ Goto(r, "complete")
  /\ UNCHANGED <<completed, opened, releasing, openVars, pnpVars, countVars, stalled>>

ControlDevice(r) ==
  /\ Admitted(r, "control")
  /\ Goto(r, "complete")
  /\ UNCHANGED <<completed, opened, releasing, openVars, pnpVars, countVars, stalled>>

\* SerialKillPendingIrps: what is pending will be completed, and
\* SerialFilterCancelQueued only takes a stalled request off its queue.
Killed == [r \in Requests |-> IF pc[r] = "pending" THEN "complete" ELSE pc[r]]

Cleanup(r) ==
  /\ Admitted(r, "cleanup")
  /\ pc' = [Killed EXCEPT ![r] = "complete"]
  /\ stalled' = <<>>
  /\ UNCHANGED <<completed, opened, releasing, openVars, pnpVars, countVars>>
-----------------------------------------------------------------------------
(* The plug-and-play manager. *)

Closed(f) == Done(<<"close", f>>)

\* What it may send next: a query only to a started device, and a removal
\* after a surprise when the files are closed.  A restart that failed is a surprise.
Legal(m) ==
  \/ manager = "started" /\ m \in {"query_stop", "query_remove", "surprise"}
  \/ manager = "stop_asked" /\ (m = "cancel_stop" \/ (m = "stop" /\ pnpState = "qstop"))
  \/ manager = "remove_asked" /\ (m = "cancel_remove" \/ (m = "remove" /\ pnpState = "qremove"))
  \/ manager = "stopped" /\ m \in {"start", "surprise"}
  \/ manager = "failed" /\ m = "surprise"
  \/ manager = "surprised" /\ m = "remove" /\ \A f \in opened : Closed(f)

\* The prologue admits every plug-and-play request.
PnpArrives(m) ==
  /\ step = "idle" /\ Legal(m)
  /\ minor' = m /\ step' = "called"
  /\ pendingIRPCnt' = pendingIRPCnt + 1
  /\ UNCHANGED <<requestVars, openVars, accept, pnpState, connected, manager, served,
                 pendingIRPEvent, stalled>>

Called(m) == step = "called" /\ minor = m

\* Mutant: the answer is given without OpenMutex.
MutexIgnored == TRUE
MutexFree == openMutex = None

\* A query is refused while the port is open.
Query(m, flag, newState) ==
  /\ Called(m) /\ MutexFree
  /\ IF deviceIsOpened
       THEN UNCHANGED <<accept, pnpState>>
       ELSE accept' = accept \union {flag} /\ pnpState' = newState
  /\ step' = "leave"
  /\ UNCHANGED <<requestVars, openVars, connected, minor, served, countVars, stalled>>

QueryStop == Query("query_stop", "stopping", "qstop") /\ manager' = "stop_asked"
QueryRemove == Query("query_remove", "removing", "qremove") /\ manager' = "remove_asked"

CancelStop ==
  /\ Called("cancel_stop")
  /\ IF pnpState = "qstop"
       THEN pnpState' = "started" /\ accept' = accept \ {"stopping"}
       ELSE UNCHANGED <<accept, pnpState>>
  /\ manager' = "started" /\ step' = "leave"
  /\ UNCHANGED <<requestVars, openVars, connected, minor, served, countVars, stalled>>

CancelRemove ==
  /\ Called("cancel_remove")
  /\ pnpState' = "started" /\ accept' = accept \ {"removing"}
  /\ manager' = "started" /\ step' = "leave"
  /\ UNCHANGED <<requestVars, openVars, connected, minor, served, countVars, stalled>>

\* The device takes no more requests.
BeginStop ==
  /\ Called("stop")
  /\ accept' = (accept \ {"stopping"}) \union {"stopped"}
  /\ pnpState' = "stopping" /\ step' = "drain"
  /\ UNCHANGED <<requestVars, openVars, connected, manager, minor, served, countVars, stalled>>

BeginRemoval ==
  /\ Called("surprise") \/ Called("remove")
  /\ accept' = accept \union {IF minor = "remove" THEN "removing" ELSE "surprise"}
  /\ step' = "kill"
  /\ UNCHANGED <<requestVars, openVars, pnpState, connected, manager, minor, served, countVars,
                 stalled>>

\* SerialKillPendingIrps, for a removal or after a restart that failed.
Kill ==
  /\ step = "kill"
  /\ pc' = Killed /\ stalled' = <<>>
  /\ IF minor = "start"
       THEN accept' = accept \union {"removing"} /\ manager' = "failed" /\ step' = "leave"
       ELSE step' = "drain" /\ UNCHANGED <<accept, manager>>
  /\ UNCHANGED <<completed, opened, releasing, openVars, pnpState, connected, minor, served,
                 countVars>>

\* The second decrement, for the base of the count.
\* Mutant: it is left out.
BaseKept(count) == count
WithoutBase(count) == count - 1

\* Whoever is left inside is waited for.
\* Mutant: nobody is.
AfterDrainAtOnce(left) == "drained"
AfterDrain(left) == IF left = 0 THEN "drained" ELSE "wait"

\* The decrement for this request itself.
Drain ==
  /\ step = "drain"
  /\ pendingIRPCnt' = pendingIRPCnt - 1
  /\ step' = "drain_base"
  /\ UNCHANGED <<requestVars, openVars, accept, pnpState, connected, manager, minor, served,
                 pendingIRPEvent, stalled>>

DrainBase ==
  /\ step = "drain_base"
  /\ pendingIRPCnt' = WithoutBase(pendingIRPCnt)
  /\ step' = AfterDrain(WithoutBase(pendingIRPCnt))
  /\ UNCHANGED <<requestVars, openVars, accept, pnpState, connected, manager, minor, served,
                 pendingIRPEvent, stalled>>

Wait ==
  /\ step = "wait" /\ pendingIRPEvent
  /\ pendingIRPEvent' = FALSE
  /\ step' = "drained"
  /\ UNCHANGED <<requestVars, openVars, accept, pnpState, connected, manager, minor, served,
                 pendingIRPCnt, stalled>>

Reincrement ==
  /\ step = "drained" /\ minor # "remove"
  /\ pendingIRPCnt' = pendingIRPCnt + 1
  /\ step' = "disconnect"
  /\ UNCHANGED <<requestVars, openVars, accept, pnpState, connected, manager, minor, served,
                 pendingIRPEvent, stalled>>

\* The resources go, and the request goes down the stack: with IoCallDriver
\* from a stop, with SerialIoCallDriver, which counts, from a surprise removal.
Disconnect ==
  /\ step = "disconnect"
  /\ connected' = FALSE
  /\ IF minor = "stop"
       THEN manager' = "stopped" /\ step' = "idle" /\ minor' = None
       ELSE manager' = "surprised" /\ step' = "leave" /\ UNCHANGED minor
  /\ UNCHANGED <<requestVars, openVars, accept, pnpState, served, countVars, stalled>>

RemoveDevObj ==
  /\ step = "drained" /\ minor = "remove"
  /\ connected' = FALSE /\ manager' = "removed" /\ step' = "idle" /\ minor' = None
  /\ UNCHANGED <<requestVars, openVars, accept, pnpState, served, countVars, stalled>>

\* SerialFinishStartDevice for a device that was stopped; it may fail.
Restart ==
  /\ Called("start")
  /\ pnpState' = "restarting"
  /\ \/ connected' = TRUE /\ deviceIsOpened' = FALSE /\ step' = "unstall"
     \/ connected' \in BOOLEAN /\ step' = "kill" /\ UNCHANGED deviceIsOpened
  /\ UNCHANGED <<requestVars, openMutex, openCount, ring, accept, manager, minor, served,
                 countVars, stalled>>

\* SerialUnstallIrps hands the requests to their dispatch routines, one by one.
Between == served # None => pc[served] \in {"done", "pending"}

UnstallIrp ==
  /\ step = "unstall" /\ Between /\ stalled # <<>> /\ Done(Head(stalled))
  /\ stalled' = Tail(stalled)
  /\ served' = Head(stalled)
  /\ Goto(Head(stalled), "called")
  /\ UNCHANGED <<completed, opened, releasing, openVars, accept, pnpState, connected, manager,
                 minor, step, countVars>>

FinishRestart ==
  /\ step = "unstall" /\ Between /\ stalled = <<>>
  /\ pnpState' = "started" /\ accept' = {}
  /\ manager' = "started" /\ step' = "leave" /\ served' = None
  /\ UNCHANGED <<requestVars, openVars, connected, minor, countVars, stalled>>

\* The epilogue of the plug-and-play request.
Leave ==
  /\ step = "leave"
  /\ pendingIRPCnt' = pendingIRPCnt - 1
  /\ step' = IF LastOut(pendingIRPCnt - 1) THEN "signal" ELSE "idle"
  /\ minor' = None
  /\ UNCHANGED <<requestVars, openVars, accept, pnpState, connected, manager, served,
                 pendingIRPEvent, stalled>>

LeaveSetEvent ==
  /\ step = "signal"
  /\ pendingIRPEvent' = TRUE
  /\ step' = "idle"
  /\ UNCHANGED <<requestVars, openVars, accept, pnpState, connected, manager, minor, served,
                 pendingIRPCnt, stalled>>

-----------------------------------------------------------------------------

\* What a request's thread does by itself.
Goes(r) ==
  \/ CheckState(r) \/ LockOpen(r) \/ Enter(r) \/ Filter(r) \/ Stall(r) \/ Reject(r)
  \/ CompleteRequest(r) \/ Epilogue(r) \/ SetEvent(r)
  \/ OpenDevice(r) \/ OpenFails(r) \/ OpenDenied(r) \/ UndoOpen(r)
  \/ BeginClose(r) \/ EndClose(r) \/ ReleaseOpen(r)
  \/ StartRead(r) \/ ControlDevice(r) \/ Cleanup(r)

PnpGoes ==
  \/ QueryStop \/ QueryRemove \/ CancelStop \/ CancelRemove
  \/ BeginStop \/ BeginRemoval \/ Kill \/ Drain \/ DrainBase \/ Wait \/ Reincrement
  \/ Disconnect \/ RemoveDevObj \/ Restart \/ UnstallIrp \/ FinishRestart \/ Leave \/ LeaveSetEvent

Next ==
  \/ \E r \in Requests : Arrive(r) \/ FinishRead(r) \/ Goes(r)
  \/ \E m \in Minors : PnpArrives(m)
  \/ PnpGoes

Spec == Init /\ [][Next]_vars

\* Threads run, and OpenMutex is given to whoever waits for it.  No data need
\* come for a read, and no request need be sent.
FairSpec ==
  /\ Spec
  /\ \A r \in Requests : WF_vars(Goes(r))
  /\ \A r \in Creates : SF_vars(LockOpen(r))
  /\ WF_vars(PnpGoes) /\ SF_vars(QueryStop \/ QueryRemove)

-----------------------------------------------------------------------------
(* Properties. *)

InDriver == {"admitted", "pending", "closing", "denied", "failing", "complete"}
Counted == InDriver \union {"counted", "stall", "stalled", "deleted", "epilogue"}
FileOpen(f) == f \in opened /\ Done(<<"create", f>>)
               /\ pc[<<"close", f>>] \in {"none", "called", "counted"}

Labels == Counted \union {"none", "called", "checked", "locked", "release", "signal", "done"}

RequestTypes ==
  /\ pc \in [Requests -> Labels] /\ completed \subseteq Requests
  /\ opened \subseteq Files /\ releasing \subseteq Closes /\ stalled \in Seq(Requests)

OpenTypes ==
  /\ openMutex \in Creates \union {None} /\ openCount \in Int
  /\ deviceIsOpened \in BOOLEAN /\ ring \in BOOLEAN

PnpTypes ==
  /\ accept \subseteq {"removing", "stopping", "stopped", "surprise"}
  /\ pnpState \in {"started", "qstop", "stopping", "restarting", "qremove"}
  /\ connected \in BOOLEAN
  /\ manager \in {"started", "stop_asked", "remove_asked", "stopped", "surprised", "failed",
                  "removed"}
  /\ minor \in Minors \union {None} /\ served \in Requests \union {None}
  /\ step \in {"idle", "called", "kill", "drain", "drain_base", "wait", "drained", "disconnect",
               "unstall", "leave", "signal"}

TypeOK ==
  /\ RequestTypes /\ OpenTypes /\ PnpTypes
  /\ pendingIRPCnt \in Int /\ pendingIRPEvent \in BOOLEAN

(***************************************************************************)
(* PendingIRPCnt is the number of requests in the driver, and one more     *)
(* until somebody waits for them to leave.  The exception is a surprise    *)
(* removal, which takes itself off twice: from then on one is missing.     *)
(***************************************************************************)
Base == IF step \in {"wait", "drained"} THEN 0 ELSE 1
PnpInside == IF step \in {"called", "kill", "drain", "unstall", "leave"} THEN 1 ELSE 0
Missing == IF manager = "surprised" THEN 1 ELSE 0
Inside == {r \in Requests : pc[r] \in Counted}
CountExact ==
  manager # "removed" =>
    pendingIRPCnt + Missing = Base + PnpInside + Cardinality(Inside)

\* The gate as a whole, over well-typed states.
GateIsKept == TypeOK /\ CountExact

(***************************************************************************)
(* When the wait of a surprise removal or a removal is over, and for ever  *)
(* after, no request is at work on the device: the resources can go.  This *)
(* is not so when the device was stopped before: the event may then still  *)
(* be signaled from the time of the stop, and the wait is none.            *)
(***************************************************************************)
Drained ==
  \/ manager = "removed"
  \/ minor \in {"surprise", "remove"} /\ step \in {"drained", "disconnect"}
RemovedIsQuiet == Drained => \A r \in Requests : pc[r] \notin InDriver

(***************************************************************************)
(* A port is open to one file at a time, and that file owns the ring.      *)
(***************************************************************************)
OneOpen ==
  /\ \A f, g \in Files : FileOpen(f) /\ FileOpen(g) => f = g
  /\ \A f \in Files : FileOpen(f) => ring

(***************************************************************************)
(* A device that has agreed to be stopped or removed is not open, and no   *)
(* create that passed the gate before is about to open it.                 *)
(***************************************************************************)
QueriedIsUnopened ==
  pnpState \in {"qstop", "qremove"} /\ step = "idle" =>
    ~deviceIsOpened /\ \A r \in Creates : pc[r] # "admitted"

(***************************************************************************)
(* SerialClose asserts that OpenCount is one.  What it may find instead is *)
(* more, when creates that are being denied have not taken their counts    *)
(* back yet; then it refuses to close.  Nothing else makes a close fail.   *)
(***************************************************************************)
CloseRefused ==
  \A r \in Closes : pc[r] = "admitted" /\ openCount # 1 =>
    openCount > 1 /\ \E q \in Creates : pc[q] = "denied"

\* OpenCount excludes a second file, and nothing else.
OpensExclude == OneOpen /\ CloseRefused

(***************************************************************************)
(* Every plug-and-play request ends, the waits of stop and removal too,    *)
(* with two exceptions.  A read is waited for that was queued where none   *)
(* should be: after a surprise removal killed everything pending, having   *)
(* been filtered before; or through a file that was opened after the stop  *)
(* had been agreed to, its create having been admitted before - by that    *)
(* stop, or after the restart, which takes the device for closed.  And     *)
(* after a surprise removal the count is one too low: if a request was     *)
(* inside when the removal afterwards takes its own count off, the count   *)
(* passes zero before the removal waits, and never comes back.             *)
(***************************************************************************)
WaitsForRead ==
  /\ step = "wait" /\ \E r \in Reads : pc[<<"read", r>>] = "pending"
  /\ minor \in {"surprise", "stop"} \/ ~deviceIsOpened
Indebted == step = "wait" /\ manager = "surprised" /\ pendingIRPCnt < 0
PnpEnds == (step # "idle") ~> (step = "idle" \/ WaitsForRead \/ Indebted)
=============================================================================
