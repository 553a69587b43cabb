----------------------------- MODULE EcService -----------------------------
(***************************************************************************)
(* The service loop of the ACPI embedded controller driver (wdm/acpi/ec):  *)
(* reads and writes of controller bytes wait in WorkQueue; whoever calls   *)
(* AcpiEcServiceDevice first owns the device, masks its general purpose    *)
(* event (GPE) and works on the queue until the controller is silent for   *)
(* too long or there is nothing to do; everybody else only leaves a note   *)
(* in InServiceLoop.  The GPE is edge triggered: a wake-up that is cleared *)
(* too late or not looked for again is lost, and with it the queue.        *)
(*                                                                         *)
(* The controller is modelled from how the driver uses it: it takes a byte *)
(* from its input buffer, answers later through its output buffer, raises  *)
(* the GPE when it does either and when it has an event, and may leave     *)
(* burst mode whenever it likes.  A step of the driver is a section under  *)
(* EcData->Lock or one exchange with a port of the controller.             *)
(*                                                                         *)
(* The k-th byte of a transfer stands for its address in the controller,   *)
(* its place in the caller's buffer and its value.                         *)
(***************************************************************************)
EXTENDS Naturals, Sequences, SequencesExt

CONSTANTS
  None,
  Irps,             \* read and write requests
  Lengths,          \* lengths they may have
  MaxAddress,       \* last address of the controller (255)
  MaxBurstStall, MaxNonBurstStall,
  MaxEvents         \* bound on the events of the controller

\* What goes over the ports: a command or a byte one way, an answer the other.
Commands == {"read", "write", "burst", "query", "cancel"}
Ports    == [command : Commands \union {None}, byte : 0 .. MaxAddress]
Answers  == [answer : {"byte", "ack", "event", "noEvent"}, byte : 0 .. MaxAddress]

ASSUME BoundsAssumption ==
  /\ None \notin Irps \union Commands \union Ports \union Answers
  /\ "gpe" \notin Irps /\ Lengths \subseteq Nat
  /\ {MaxAddress, MaxBurstStall, MaxNonBurstStall} \subseteq Nat \ {0}
  /\ MaxEvents \in Nat

VARIABLES
  length, transfer, \* [Irps -> length; "read" or "write"] while the driver has it
  workQueue, currentIrp, completed,
  calls             \* threads about to call AcpiEcServiceDevice: the caller
                    \* of a request, or "gpe"
requestVars == <<length, transfer, workQueue, currentIrp, completed, calls>>

VARIABLES
  ioState,          \* IoState
  ioBurstState,     \* IoBurstState
  ioRemain,         \* IoRemain
  ioByte            \* the byte IoAddress and IoBuffer are at, 0 before the first
ioVars == <<ioState, ioBurstState, ioRemain, ioByte>>

VARIABLES
  inService, inServiceLoop, interruptEnabled
ownerVars == <<inService, inServiceLoop, interruptEnabled>>

VARIABLES
  pc,               \* where the owner is
  writePort,        \* what it is about to write, or None
  noWorkStall, timeout, ecBusy,
  burstEnabled, processQuery, completeQueue
loopVars == <<pc, writePort, noWorkStall, timeout, ecBusy, burstEnabled,
              processQuery, completeQueue>>

VARIABLES
  ibf,              \* input buffer: what the driver wrote, or None
  obf,              \* output buffer: what the controller answers, or None
  expects,          \* what the controller takes next: "command", "address", "data"
  command,          \* command it works on, or None
  ecByte,           \* byte it was told to transfer
  answering,        \* whether it owes an answer
  burst, events, raised,
  gpeStatus,        \* the GPE is latched
  moved             \* bytes of the current request that arrived:
                    \* <<place in the controller, place in the buffer>>
ecVars == <<ibf, obf, expects, command, ecByte, answering, burst, events, raised>>

vars == <<requestVars, ioVars, ownerVars, loopVars, ecVars, gpeStatus, moved>>

Init ==
  /\ length = [i \in Irps |-> 0] /\ transfer = [i \in Irps |-> "read"]
  /\ workQueue = <<>> /\ currentIrp = None /\ completed = {} /\ calls = {}
  /\ ioState = "none" /\ ioBurstState = "unknown" /\ ioRemain = 0 /\ ioByte = 0
  /\ inService = FALSE /\ inServiceLoop = FALSE /\ interruptEnabled = TRUE
  /\ pc = "out" /\ writePort = None /\ noWorkStall = 0 /\ timeout = FALSE /\ ecBusy = TRUE
  /\ burstEnabled = FALSE /\ processQuery = FALSE
  /\ completeQueue = <<>>
  /\ ibf = None /\ obf = None /\ expects = "command" /\ command = None /\ ecByte = 0
  /\ answering = FALSE /\ burst = FALSE /\ events = 0 /\ raised = 0
  /\ gpeStatus = FALSE /\ moved = <<>>

-----------------------------------------------------------------------------
\* What is written to the command port and to the data port.
Command(c) == [command |-> c, byte |-> 0]
Byte(k)    == [command |-> None, byte |-> k]

(* AcpiEcReadWrite *)

Known(i) == i \in completed \union ToSet(workQueue) \union ToSet(completeQueue) \union {currentIrp}

Refuse(i, n) ==
  /\ ~Known(i) /\ n > MaxAddress
  /\ completed' = completed \union {i}
  /\ UNCHANGED <<length, transfer, workQueue, currentIrp, calls, ioVars, ownerVars, loopVars,
                 ecVars, gpeStatus, moved>>

\* Mutant: last come, first served.
EnqueueFirst(i) == <<i>> \o workQueue

Enqueue(i) == Append(workQueue, i)

ReadWrite(i, n, t) ==
  /\ ~Known(i) /\ n <= MaxAddress
  /\ length' = [length EXCEPT ![i] = n] /\ transfer' = [transfer EXCEPT ![i] = t]
  /\ workQueue' = Enqueue(i)
  /\ calls' = IF currentIrp = None THEN calls \union {i} ELSE calls
  /\ UNCHANGED <<currentIrp, completed, ioVars, ownerVars, loopVars, ecVars, gpeStatus, moved>>

\* The ACPI driver clears an edge triggered GPE and calls the handler.
GpeServiceRoutine ==
  /\ gpeStatus /\ interruptEnabled /\ "gpe" \notin calls
  /\ gpeStatus' = FALSE
  /\ calls' = calls \union {"gpe"}
  /\ UNCHANGED <<length, transfer, workQueue, currentIrp, completed, ioVars, ownerVars, loopVars,
                 ecVars, moved>>

-----------------------------------------------------------------------------
(* AcpiEcServiceDevice *)

\* One more turn of the loop, with the locals of AcpiEcServiceIoLoop new.
EnterIoLoop ==
  /\ inServiceLoop' = FALSE
  /\ pc' = "poll"
  /\ UNCHANGED <<writePort, noWorkStall, timeout, ecBusy, burstEnabled,
                 processQuery, completeQueue>>

ServiceDevice(c) ==
  /\ c \in calls
  /\ calls' = calls \ {c}
  /\ IF inService
       THEN inServiceLoop' = TRUE /\ UNCHANGED <<inService, interruptEnabled, loopVars>>
       ELSE inService' = TRUE /\ interruptEnabled' = FALSE /\ EnterIoLoop
  /\ UNCHANGED <<length, transfer, workQueue, currentIrp, completed, ioVars, ecVars, gpeStatus,
                 moved>>

\* Mutant: The owner leaves without a look at who called meanwhile.
LeaveAtOnce ==
  /\ pc = "leave"
  /\ inService' = FALSE /\ interruptEnabled' = TRUE
  /\ pc' = "out"
  /\ UNCHANGED <<requestVars, ioVars, inServiceLoop, writePort, noWorkStall, timeout, ecBusy,
                 burstEnabled, processQuery, completeQueue, ecVars, gpeStatus, moved>>

\* Mutant: The event stays masked.
LeaveMasked ==
  /\ pc = "leave" /\ ~inServiceLoop
  /\ inService' = FALSE
  /\ pc' = "out"
  /\ UNCHANGED <<requestVars, ioVars, inServiceLoop, interruptEnabled, writePort, noWorkStall,
                 timeout, ecBusy, burstEnabled, processQuery, completeQueue, ecVars, gpeStatus,
                 moved>>

ServiceAgain ==
  /\ pc = "leave" /\ inServiceLoop
  /\ EnterIoLoop
  /\ UNCHANGED <<requestVars, ioVars, inService, interruptEnabled, ecVars, gpeStatus, moved>>

LeaveService ==
  /\ pc = "leave" /\ ~inServiceLoop
  /\ inService' = FALSE /\ interruptEnabled' = TRUE
  /\ pc' = "out"
  /\ UNCHANGED <<requestVars, ioVars, inServiceLoop, writePort, noWorkStall, timeout, ecBusy,
                 burstEnabled, processQuery, completeQueue, ecVars, gpeStatus, moved>>

-----------------------------------------------------------------------------
(* AcpiEcServiceIoLoop *)

\* A burst the controller has dropped is good for one more byte.
InBurst == burst \/ burstEnabled

StallLimit == IF InBurst THEN MaxBurstStall ELSE MaxNonBurstStall

\* The head of the loop, when Status was read and acted upon: port is what
\* is to be written, stall is NoWorkStall and busy EcBusy.  Work revokes a
\* timeout; without work a timeout ends the loop.
Turn(port, stall, busy) ==
  LET worked  == port # None \/ stall = 0
      expired == ~busy \/ stall >= StallLimit
  IN
  /\ writePort' = port
  /\ noWorkStall' = IF worked THEN 0 ELSE stall
  /\ timeout' = (~worked /\ (timeout \/ expired))
  /\ ecBusy' = (busy \/ (worked /\ timeout))
  /\ pc' = IF port # None THEN "write"
           ELSE IF worked THEN "poll"
           ELSE IF timeout THEN "finish"
           ELSE IF ~busy /\ InBurst THEN "cancel"
           ELSE IF expired THEN "clear"
           ELSE "poll"

WritePort ==
  /\ pc = "write"
  /\ ibf' = writePort
  /\ writePort' = None
  /\ pc' = "poll"
  /\ UNCHANGED <<requestVars, ioVars, ownerVars, noWorkStall, timeout, ecBusy, burstEnabled,
                 processQuery, completeQueue, obf, expects, command, ecByte, answering, burst,
                 events, raised, gpeStatus, moved>>

\* Before it leaves, the driver ends burst mode; no answer is expected.
CancelBurst ==
  /\ pc = "cancel"
  /\ ibf' = Command("cancel")
  /\ pc' = "clear"
  /\ UNCHANGED <<requestVars, ioVars, ownerVars, writePort, noWorkStall, timeout, ecBusy,
                 burstEnabled, processQuery, completeQueue, obf, expects, command, ecByte,
                 answering, burst, events, raised, gpeStatus, moved>>

\* GpeClearStatus, before the last look at Status.
ClearGpe ==
  /\ pc = "clear"
  /\ gpeStatus' = FALSE
  /\ pc' = "poll"
  /\ UNCHANGED <<requestVars, ioVars, ownerVars, writePort, noWorkStall, timeout, ecBusy,
                 burstEnabled, processQuery, completeQueue, ecVars, moved>>

\* Status is read: the controller has data.  What it is depends on what was
\* asked for.  Spurious data, which only counts as an error, is not sent by
\* the controller below.
TakeOutput ==
  /\ pc = "poll" /\ obf # None
  /\ obf' = None
  /\ Turn(None, 0, ecBusy)
  /\ burstEnabled' = ((burstEnabled /\ burst) \/ ioState = "burstAck")
  /\ processQuery' = (processQuery \/ obf.answer = "event")
  /\ ioState' = CASE ioState = "readQuery" -> "none"
                  [] ioState = "readByte"  -> "nextByte"
                  [] ioState = "burstAck"  -> ioBurstState
  /\ ioBurstState' = IF ioState = "burstAck" THEN "unknown" ELSE ioBurstState
  /\ moved' = IF ioState = "readByte" THEN Append(moved, <<obf.byte, ioByte>>) ELSE moved
  /\ UNCHANGED <<requestVars, ioRemain, ioByte, ownerVars, completeQueue, ibf, expects, command,
                 ecByte, answering, burst, events, raised, gpeStatus>>

LookAgain(port) ==
  /\ Turn(port, noWorkStall + 1, ecBusy)
  /\ burstEnabled' = (burstEnabled /\ burst)
  /\ UNCHANGED <<requestVars, ownerVars, processQuery, completeQueue, ecVars, gpeStatus, moved>>

\* The input buffer is full, or an answer is awaited.
Wait ==
  /\ pc = "poll" /\ obf = None
  /\ ibf # None \/ ioState \in {"readByte", "readQuery", "burstAck"}
  /\ LookAgain(None)
  /\ UNCHANGED ioVars

\* Mutant: The input buffer is taken for empty.
ReadyTooSoon == pc = "poll" /\ obf = None

Ready == pc = "poll" /\ obf = None /\ ibf = None

\* EC_IO_NEXT_BYTE with bytes left: the command of the next byte, or burst
\* mode first.
NextByte ==
  /\ Ready /\ ioState = "nextByte" /\ ioRemain > 0
  /\ IF InBurst
       THEN /\ ioByte' = ioByte + 1 /\ ioRemain' = ioRemain - 1
            /\ ioState' = "sendAddress"
            /\ LookAgain(Command(transfer[currentIrp]))
            /\ UNCHANGED ioBurstState
       ELSE /\ ioState' = "burstAck" /\ ioBurstState' = "nextByte"
            /\ LookAgain(Command("burst"))
            /\ UNCHANGED <<ioByte, ioRemain>>

SendAddress ==
  /\ Ready /\ ioState = "sendAddress"
  /\ ioState' = IF transfer[currentIrp] = "read" THEN "readByte" ELSE "writeByte"
  /\ LookAgain(Byte(ioByte))
  /\ UNCHANGED <<ioBurstState, ioRemain, ioByte>>

WriteByte ==
  /\ Ready /\ ioState = "writeByte"
  /\ ioState' = "nextByte"
  /\ LookAgain(Byte(ioByte))
  /\ UNCHANGED <<ioBurstState, ioRemain, ioByte>>

\* Nothing is in progress, or the last byte of the current request has been
\* moved and it is put aside for completion.  An event of the controller
\* comes before the next request of the queue.  (IoAddress and IoBuffer
\* mean nothing between two transfers: ioByte is 0 then.)
TransferNearlyOver == ioState = "nextByte" /\ ioRemain <= 1   \* Mutant: one byte early.

TransferOver == ioState = "nextByte" /\ ioRemain = 0

Initiate ==
  /\ Ready /\ (ioState = "none" \/ TransferOver)
  /\ completeQueue' = IF TransferOver THEN Append(completeQueue, currentIrp) ELSE completeQueue
  /\ burstEnabled' = (burstEnabled /\ burst)
  /\ ioByte' = 0 /\ moved' = <<>>
  /\ IF events > 0
       THEN /\ ioState' = "readQuery"
            /\ currentIrp' = None
            /\ Turn(Command("query"), noWorkStall + 1, ecBusy)
            /\ UNCHANGED <<workQueue, ioRemain>>
     ELSE IF workQueue # <<>>
       THEN /\ ioState' = "nextByte"
            /\ currentIrp' = Head(workQueue) /\ workQueue' = Tail(workQueue)
            /\ ioRemain' = length[Head(workQueue)]
            /\ Turn(None, 0, ecBusy)
       ELSE /\ ioState' = "none"
            /\ currentIrp' = None
            /\ Turn(None, noWorkStall + 1, FALSE)
            /\ UNCHANGED <<workQueue, ioRemain>>
  /\ UNCHANGED <<length, transfer, completed, calls, ioBurstState, ownerVars, processQuery,
                 ecVars, gpeStatus>>

\* After the loop: requests are completed, and queries dispatched (EcQuery);
\* the locals are gone.
FinishIoLoop ==
  /\ pc = "finish"
  /\ completed' = completed \union ToSet(completeQueue)
  /\ length' = [i \in Irps |-> IF i \in completed' THEN 0 ELSE length[i]]
  /\ transfer' = [i \in Irps |-> IF i \in completed' THEN "read" ELSE transfer[i]]
  /\ completeQueue' = <<>> /\ processQuery' = FALSE
  /\ noWorkStall' = 0 /\ timeout' = FALSE /\ ecBusy' = TRUE
  /\ burstEnabled' = FALSE
  /\ pc' = "leave"
  /\ UNCHANGED <<workQueue, currentIrp, calls, ioVars, ownerVars, writePort, ecVars, gpeStatus,
                 moved>>

-----------------------------------------------------------------------------
(* The controller *)

EcIdle == UNCHANGED <<requestVars, ioVars, ownerVars, loopVars>>

\* It takes what is in the input buffer.  A command of its own kind, or the
\* address of a byte to read, is answered later.
EcTake ==
  /\ ibf # None /\ ~answering
  /\ ibf' = None /\ gpeStatus' = TRUE
  /\ \/ /\ expects = "command"
        /\ command' = IF ibf.command = "cancel" THEN None ELSE ibf.command
        /\ expects' = IF ibf.command \in {"read", "write"} THEN "address" ELSE "command"
        /\ answering' = (ibf.command \in {"burst", "query"})
        /\ burst' = (burst /\ ibf.command # "cancel")
        /\ UNCHANGED <<ecByte, moved>>
     \/ /\ expects = "address"
        /\ ecByte' = ibf.byte
        /\ expects' = IF command = "write" THEN "data" ELSE "command"
        /\ answering' = (command = "read")
        /\ UNCHANGED <<command, burst, moved>>
     \/ /\ expects = "data"
        /\ moved' = Append(moved, <<ecByte, ibf.byte>>)
        /\ expects' = "command" /\ command' = None /\ ecByte' = 0
        /\ UNCHANGED <<answering, burst>>
  /\ EcIdle /\ UNCHANGED <<obf, events, raised>>

EcAnswer ==
  /\ answering /\ obf = None
  /\ answering' = FALSE /\ gpeStatus' = TRUE
  /\ obf' = [byte |-> ecByte,
             answer |-> CASE command = "query" -> IF events > 0 THEN "event" ELSE "noEvent"
                          [] command = "burst" -> "ack"
                          [] OTHER             -> "byte"]
  /\ command' = None /\ ecByte' = 0
  /\ events' = IF command = "query" /\ events > 0 THEN events - 1 ELSE events
  /\ burst' = (burst \/ command = "burst")
  /\ EcIdle /\ UNCHANGED <<ibf, expects, raised, moved>>

EcRaiseEvent ==
  /\ raised < MaxEvents
  /\ raised' = raised + 1 /\ events' = events + 1 /\ gpeStatus' = TRUE
  /\ EcIdle /\ UNCHANGED <<ibf, obf, expects, command, ecByte, answering, burst, moved>>

EcDropBurst ==
  /\ burst /\ burst' = FALSE
  /\ EcIdle /\ UNCHANGED <<ibf, obf, expects, command, ecByte, answering, events, raised,
                           gpeStatus, moved>>

-----------------------------------------------------------------------------
Loop ==
  \/ WritePort \/ CancelBurst \/ ClearGpe
  \/ TakeOutput \/ Wait \/ NextByte \/ SendAddress \/ WriteByte \/ Initiate
  \/ FinishIoLoop \/ ServiceAgain \/ LeaveService

Next ==
  \/ \E i \in Irps, n \in Lengths :
       Refuse(i, n) \/ \E t \in {"read", "write"} : ReadWrite(i, n, t)
  \/ GpeServiceRoutine
  \/ \E c \in calls : ServiceDevice(c)
  \/ Loop
  \/ EcTake \/ EcAnswer \/ EcRaiseEvent \/ EcDropBurst

Spec == Init /\ [][Next]_vars

\* Threads run, the ACPI driver delivers a GPE that is latched and enabled,
\* and the controller takes and answers what it is sent.
FairSpec ==
  /\ Spec
  /\ WF_vars(Loop) /\ WF_vars(GpeServiceRoutine)
  /\ WF_vars(\E c \in calls : ServiceDevice(c))
  /\ WF_vars(EcTake) /\ WF_vars(EcAnswer)

-----------------------------------------------------------------------------
RequestTypes ==
  /\ length \in [Irps -> 0 .. MaxAddress] /\ transfer \in [Irps -> {"read", "write"}]
  /\ workQueue \in Seq(Irps) /\ completeQueue \in Seq(Irps) /\ completed \subseteq Irps
  /\ currentIrp \in Irps \union {None} /\ calls \subseteq Irps \union {"gpe"}

LoopTypes ==
  /\ ioState \in {"none", "readByte", "readQuery", "burstAck", "writeByte", "nextByte",
                  "sendAddress"}
  /\ ioBurstState \in {"nextByte", "unknown"}
  /\ ioRemain \in 0 .. MaxAddress /\ ioByte \in 0 .. MaxAddress
  /\ inService \in BOOLEAN /\ inServiceLoop \in BOOLEAN /\ interruptEnabled \in BOOLEAN
  /\ pc \in {"out", "poll", "write", "cancel", "clear", "finish", "leave"}
  /\ writePort \in Ports \union {None} /\ noWorkStall \in Nat
  /\ timeout \in BOOLEAN /\ ecBusy \in BOOLEAN
  /\ burstEnabled \in BOOLEAN /\ processQuery \in BOOLEAN

EcTypes ==
  /\ ibf \in Ports \union {None} /\ obf \in Answers \union {None}
  /\ expects \in {"command", "address", "data"} /\ command \in Commands \union {None}
  /\ ecByte \in 0 .. MaxAddress /\ answering \in BOOLEAN /\ burst \in BOOLEAN
  /\ events \in Nat /\ raised \in Nat /\ gpeStatus \in BOOLEAN
  /\ moved \in Seq((0 .. MaxAddress) \X (0 .. MaxAddress))

TypeOK == RequestTypes /\ LoopTypes /\ EcTypes

\* Driver and controller stay in step, whatever times out and whenever the
\* service is left and entered again: nothing is written while the input
\* buffer is full, the controller gets an address or a byte when it expects
\* one and a command when it expects that, and what it answers is what the
\* driver waits for.
InStep ==
  /\ TypeOK
  /\ pc \in {"write", "cancel"} => ibf = None
  /\ ibf # None => (expects = "command" <=> ibf.command # None)
  /\ obf # None =>
       ioState = CASE obf.answer = "ack"  -> "burstAck"
                   [] obf.answer = "byte" -> "readByte"
                   [] OTHER               -> "readQuery"

\* A request is over only when each of its bytes, in order, once and to its
\* place, has been moved.
WholeTransfers ==
  [][currentIrp # None /\ currentIrp' # currentIrp =>
       moved = [k \in 1 .. length[currentIrp] |-> <<k, k>>]]_vars

\* When nobody is in service or on the way there, either the GPE is latched
\* or the controller has yet to raise it, or there is nothing to do.
NoLostWakeup ==
  ~inService /\ calls = {} /\ ~gpeStatus =>
    \/ ibf # None \/ answering
    \/ obf = None /\ ioState = "none" /\ workQueue = <<>> /\ events = 0

\* The requests are served in the order of arrival, and each is served.
Queue ==
  INSTANCE FifoServer WITH
    Requests <- Irps,
    waiting  <- (IF currentIrp = None THEN <<>> ELSE <<currentIrp>>) \o workQueue,
    finished <- completed \union ToSet(completeQueue)
QueueIsFifo == Queue!Spec

\* A request that was accepted is completed to its caller, and every event
\* of the controller is asked for, if the controller has finitely many.
AllAreServed ==
  /\ \A i \in Irps : i \in ToSet(workQueue) ~> i \in completed
  /\ events > 0 ~> events = 0
=============================================================================
