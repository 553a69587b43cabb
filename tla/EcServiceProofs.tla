--------------------------- MODULE EcServiceProofs ---------------------------
(***************************************************************************)
(* Proofs about EcService, for any requests, lengths, addresses and stall  *)
(* limits, and any number of events: driver and controller stay in step,   *)
(* transfers are whole, no wake-up is lost, and the queue serves requests  *)
(* in the order of arrival.                                                *)
(*                                                                         *)
(* The inductive invariant lists, for each IoState, where the byte or the  *)
(* command may be that the driver sent last: on its way, with the          *)
(* controller, or answered.  That nothing else is possible is what keeps   *)
(* the two in step; how many bytes have been moved follows from it.        *)
(***************************************************************************)
EXTENDS EcService, TLAPS

-----------------------------------------------------------------------------
(* The inductive invariant. *)

OnItsWay(p) == \/ writePort = p /\ ibf = None
               \/ writePort = None /\ ibf = p
Nothing == writePort = None /\ ibf = None
Controller(e, c, k, a, o) ==
  expects = e /\ command = c /\ ecByte = k /\ (answering <=> a) /\ obf = o
Rests == Controller("command", None, 0, FALSE, None)

Transfer(t) == currentIrp \in Irps /\ transfer[currentIrp] = t

NoPhase ==
  /\ ioState = "none" /\ currentIrp = None /\ ioByte = 0
  /\ Rests /\ (Nothing \/ OnItsWay(Command("cancel")))

QueryPhase ==
  /\ ioState = "readQuery" /\ currentIrp = None /\ ioByte = 0
  /\ \/ OnItsWay(Command("query")) /\ Rests
     \/ Nothing /\ Controller("command", "query", 0, TRUE, None)
     \/ Nothing /\ \E a \in {"event", "noEvent"} :
          Controller("command", None, 0, FALSE, [byte |-> 0, answer |-> a])

BurstPhase ==
  /\ ioState = "burstAck" /\ ioBurstState = "nextByte" /\ currentIrp \in Irps
  /\ \/ OnItsWay(Command("burst")) /\ Rests
     \/ Nothing /\ Controller("command", "burst", 0, TRUE, None)
     \/ Nothing /\ Controller("command", None, 0, FALSE, [byte |-> 0, answer |-> "ack"])

\* No byte is being moved.
BetweenPhase == ioState = "nextByte" /\ currentIrp \in Irps /\ Nothing /\ Rests

AddressPhase ==
  /\ ioState = "sendAddress" /\ currentIrp \in Irps
  /\ \/ OnItsWay(Command(transfer[currentIrp])) /\ Rests
     \/ Nothing /\ Controller("address", transfer[currentIrp], 0, FALSE, None)

ReadPhase ==
  /\ ioState = "readByte" /\ Transfer("read")
  /\ \/ OnItsWay(Byte(ioByte)) /\ Controller("address", "read", 0, FALSE, None)
     \/ Nothing /\ Controller("command", "read", ioByte, TRUE, None)
     \/ Nothing /\ Controller("command", None, 0, FALSE, [byte |-> ioByte, answer |-> "byte"])

WritePhase ==
  /\ ioState = "writeByte" /\ Transfer("write")
  /\ \/ OnItsWay(Byte(ioByte)) /\ Controller("address", "write", 0, FALSE, None)
     \/ Nothing /\ Controller("data", "write", ioByte, FALSE, None)

\* The byte is written, and the controller has yet to take it.
SentPhase ==
  /\ ioState = "nextByte" /\ Transfer("write")
  /\ OnItsWay(Byte(ioByte)) /\ Controller("data", "write", ioByte, FALSE, None)

Moving == AddressPhase \/ ReadPhase \/ WritePhase \/ SentPhase
Paused == NoPhase \/ QueryPhase \/ BurstPhase \/ BetweenPhase

PhaseInv ==
  /\ \/ Moving /\ ioByte > 0 /\ Len(moved) = ioByte - 1
     \/ Paused /\ Len(moved) = ioByte
  /\ \A k \in 1 .. Len(moved) : moved[k] = <<k, k>>
  /\ currentIrp # None => ioByte + ioRemain = length[currentIrp]

OwnerInv ==
  /\ pc = "out" <=> ~inService
  /\ inServiceLoop => inService
  /\ pc = "write" <=> writePort # None
  /\ ~ecBusy => timeout
  /\ pc = "cancel" => ioState = "none" /\ ibf = None

\* A request is in one place.
QueueInv ==
  /\ \A a, b \in 1 .. Len(workQueue) : workQueue[a] = workQueue[b] => a = b
  /\ \A a \in 1 .. Len(workQueue) :
       workQueue[a] \notin {currentIrp} \union completed \union ToSet(completeQueue)
  /\ currentIrp \notin completed \union ToSet(completeQueue)

\* What the owner may rely on when it goes, and leave behind.
Awaited ==
  \/ gpeStatus \/ calls # {} \/ inServiceLoop \/ ibf # None \/ answering
  \/ obf = None /\ ioState = "none" /\ workQueue = <<>> /\ events = 0
WakeInv == pc \in {"finish", "leave", "out"} => Awaited

IInv == TypeOK /\ PhaseInv /\ OwnerInv /\ QueueInv /\ WakeInv

-----------------------------------------------------------------------------
(* What goes over the ports. *)

LEMMA PortFacts ==
  /\ None \notin Irps /\ None \notin Commands /\ 0 \in 0 .. MaxAddress
  /\ \A c \in Commands : Command(c) \in Ports /\ Command(c) # None /\ Command(c).command = c
  /\ \A k \in 0 .. MaxAddress :
       Byte(k) \in Ports /\ Byte(k) # None /\ Byte(k).command = None /\ Byte(k).byte = k
  /\ \A k \in 0 .. MaxAddress : \A a \in {"byte", "ack", "event", "noEvent"} :
       /\ [byte |-> k, answer |-> a] \in Answers
       /\ [byte |-> k, answer |-> a] # None
  BY BoundsAssumption DEF Command, Byte, Ports, Answers, Commands

LEMMA PhaseKept ==
  ASSUME PhaseInv,
         UNCHANGED <<ioVars, currentIrp, writePort, ibf, obf, expects, command, ecByte,
                     answering, moved>>,
         currentIrp # None => /\ length'[currentIrp] = length[currentIrp]
                              /\ transfer'[currentIrp] = transfer[currentIrp]
  PROVE  PhaseInv'
  BY PortFacts DEF PhaseInv, Moving, Paused, NoPhase, QueryPhase, BurstPhase, BetweenPhase,
     AddressPhase, ReadPhase, WritePhase, SentPhase, Transfer, OnItsWay, Nothing, Controller,
     Rests, ioVars

LEMMA QueueKept ==
  ASSUME QueueInv, UNCHANGED <<workQueue, currentIrp, completed, completeQueue>>
  PROVE  QueueInv'
  BY DEF QueueInv

\* The types of what a step leaves alone.
LEMMA TypesKept ==
  /\ RequestTypes /\ UNCHANGED <<length, transfer, workQueue, completeQueue, completed,
                                currentIrp, calls>> => RequestTypes'
  /\ LoopTypes /\ UNCHANGED <<ioVars, inService, inServiceLoop, interruptEnabled, pc, writePort,
                             noWorkStall, timeout, ecBusy, burstEnabled, processQuery>>
       => LoopTypes'
  /\ EcTypes /\ UNCHANGED <<ecVars, gpeStatus, moved>> => EcTypes'
<1>1. RequestTypes /\ UNCHANGED <<length, transfer, workQueue, completeQueue, completed,
                                currentIrp, calls>> => RequestTypes'
  BY DEF RequestTypes
<1>2. LoopTypes /\ UNCHANGED <<ioVars, inService, inServiceLoop, interruptEnabled, pc, writePort,
                             noWorkStall, timeout, ecBusy, burstEnabled, processQuery>>
       => LoopTypes'
  BY DEF LoopTypes, ioVars
<1>3. EcTypes /\ UNCHANGED <<ecVars, gpeStatus, moved>> => EcTypes'
  BY DEF EcTypes, ecVars
<1> QED BY <1>1, <1>2, <1>3

LEMMA InitIInv == Init => IInv
<1> SUFFICES ASSUME Init PROVE IInv
  OBVIOUS
<1>1. TypeOK
  <2>1. MaxAddress \in Nat \ {0} /\ MaxEvents \in Nat
    BY BoundsAssumption
  <2>2. /\ length \in [Irps -> 0 .. MaxAddress] /\ transfer \in [Irps -> {"read", "write"}]
        /\ {ioRemain, ioByte, ecByte} \subseteq 0 .. MaxAddress
    BY <2>1 DEF Init
  <2>3. /\ {workQueue, completeQueue} \subseteq Seq(Irps) /\ calls \subseteq Irps \union {"gpe"}
        /\ moved \in Seq((0 .. MaxAddress) \X (0 .. MaxAddress)) /\ completed \subseteq Irps
    <3>1. \A S : <<>> \in Seq(S)
      OBVIOUS
    <3> QED BY <3>1 DEF Init
  <2>4. RequestTypes
    BY <2>2, <2>3 DEF Init, RequestTypes
  <2>5. LoopTypes
    BY <2>2 DEF Init, LoopTypes
  <2>6. EcTypes
    BY <2>2, <2>3 DEF Init, EcTypes
  <2> QED BY <2>4, <2>5, <2>6 DEF TypeOK
<1>2. PhaseInv
  BY PortFacts DEF Init, PhaseInv, Paused, NoPhase, Rests, Controller, Nothing
<1>3. OwnerInv /\ WakeInv
  BY DEF Init, OwnerInv, WakeInv, Awaited
<1>4. QueueInv
  BY PortFacts DEF Init, QueueInv, ToSet
<1> QED BY <1>1, <1>2, <1>3, <1>4 DEF IInv

-----------------------------------------------------------------------------
(* The steps that move nothing over the ports. *)

LEMMA ReadWriteStep ==
  ASSUME IInv, NEW i \in Irps, NEW n \in Lengths, NEW t \in {"read", "write"},
         ReadWrite(i, n, t)
  PROVE  IInv'
<1>0. n \in 0 .. MaxAddress /\ ~Known(i) /\ i # None
  BY PortFacts, BoundsAssumption DEF ReadWrite
<1>1. /\ workQueue \in Seq(Irps) /\ workQueue' \in Seq(Irps) /\ Len(workQueue) \in Nat
      /\ Len(workQueue') = Len(workQueue) + 1
      /\ \A a \in 1 .. Len(workQueue) : workQueue'[a] = workQueue[a]
      /\ workQueue'[Len(workQueue) + 1] = i
  BY DEF ReadWrite, Enqueue, IInv, TypeOK, RequestTypes
<1>2. TypeOK'
  <2>1. RequestTypes'
    BY <1>0, <1>1 DEF IInv, TypeOK, RequestTypes, ReadWrite, loopVars
  <2>2. LoopTypes' /\ EcTypes'
    BY TypesKept DEF IInv, TypeOK, ReadWrite, ownerVars, loopVars
  <2> QED BY <2>1, <2>2 DEF TypeOK
<1>3. PhaseInv'
  BY <1>0, PhaseKept DEF IInv, TypeOK, RequestTypes, ReadWrite, ioVars, ownerVars, loopVars,
     ecVars, Known
<1>4. OwnerInv'
  BY DEF IInv, OwnerInv, ReadWrite, ioVars, ownerVars, loopVars, ecVars
<1>5. QueueInv'
  <2>1. \A a \in 1 .. Len(workQueue) : workQueue[a] # i
    BY <1>0 DEF Known, ToSet
  <2>2. i \notin {currentIrp} \union completed \union ToSet(completeQueue)
    BY <1>0 DEF Known
  <2>3. UNCHANGED <<currentIrp, completed, completeQueue>>
    BY DEF ReadWrite, loopVars
  <2> QED BY <1>1, <2>1, <2>2, <2>3 DEF IInv, QueueInv
<1>6. WakeInv'
  <2>1. calls' = IF currentIrp = None THEN calls \union {i} ELSE calls
    BY DEF ReadWrite
  <2>2. ioState = "none" => currentIrp = None
    BY DEF IInv, PhaseInv, Moving, Paused, NoPhase, QueryPhase, BurstPhase, BetweenPhase,
       AddressPhase, ReadPhase, WritePhase, SentPhase
  <2> QED BY <2>1, <2>2 DEF IInv, WakeInv, Awaited, ReadWrite, ioVars, ownerVars, loopVars, ecVars
<1> QED BY <1>2, <1>3, <1>4, <1>5, <1>6 DEF IInv

LEMMA CallerStep ==
  ASSUME IInv, \/ \E i \in Irps, n \in Lengths : Refuse(i, n)
               \/ GpeServiceRoutine
               \/ \E c \in calls : ServiceDevice(c)
  PROVE  IInv'
<1>1. ASSUME NEW i \in Irps, NEW n \in Lengths, Refuse(i, n) PROVE IInv'
  <2>0. i \in Irps /\ ~Known(i) /\ completed' = completed \union {i} /\ i # None
        /\ UNCHANGED <<workQueue, currentIrp, completeQueue>>
    BY <1>1, PortFacts DEF Refuse, loopVars
  <2>1. TypeOK'
    <3>1. RequestTypes'
      BY <1>1 DEF IInv, TypeOK, RequestTypes, Refuse, loopVars
    <3>2. LoopTypes' /\ EcTypes'
      BY <1>1, TypesKept DEF IInv, TypeOK, Refuse, ownerVars, loopVars
    <3> QED BY <3>1, <3>2 DEF TypeOK
  <2>2. PhaseInv'
    BY <1>1, PhaseKept DEF IInv, Refuse, ioVars, ownerVars, loopVars, ecVars
  <2>3. OwnerInv' /\ WakeInv'
    BY <1>1 DEF IInv, OwnerInv, WakeInv, Awaited, Refuse, ioVars, ownerVars, loopVars, ecVars
  <2>4. QueueInv'
    <3>1. \A a \in 1 .. Len(workQueue) : workQueue[a] # i
      BY <2>0 DEF Known, ToSet, IInv, TypeOK, RequestTypes
    <3>2. i \notin {currentIrp} \union ToSet(completeQueue)
      BY <2>0 DEF Known
    <3> QED BY <2>0, <3>1, <3>2 DEF IInv, QueueInv
  <2> QED BY <2>1, <2>2, <2>3, <2>4 DEF IInv
<1>2. CASE GpeServiceRoutine
  <2>1. TypeOK'
    <3>1. RequestTypes'
      BY <1>2 DEF IInv, TypeOK, RequestTypes, GpeServiceRoutine, loopVars
    <3>2. LoopTypes'
      BY <1>2, TypesKept DEF IInv, TypeOK, GpeServiceRoutine, ownerVars, loopVars
    <3>3. EcTypes'
      BY <1>2 DEF IInv, TypeOK, EcTypes, GpeServiceRoutine, ecVars
    <3> QED BY <3>1, <3>2, <3>3 DEF TypeOK
  <2>2. PhaseInv' /\ QueueInv'
    BY <1>2, PhaseKept, QueueKept DEF IInv, GpeServiceRoutine, ioVars, ownerVars, loopVars, ecVars
  <2>3. OwnerInv' /\ WakeInv'
    BY <1>2 DEF IInv, OwnerInv, WakeInv, Awaited, GpeServiceRoutine, ioVars, ownerVars,
       loopVars, ecVars
  <2> QED BY <2>1, <2>2, <2>3 DEF IInv
<1>3. ASSUME NEW c \in calls, ServiceDevice(c) PROVE IInv'
  <2>2. UNCHANGED <<writePort, completeQueue, ioVars, ecVars, moved, completed, currentIrp,
                    workQueue, length, transfer, gpeStatus, timeout, ecBusy, noWorkStall,
                    burstEnabled, processQuery>>
    BY <1>3 DEF ServiceDevice, EnterIoLoop, ownerVars, loopVars, ecVars, ioVars
  <2>1. TypeOK'
    <3>1. /\ inService' \in BOOLEAN /\ inServiceLoop' \in BOOLEAN /\ interruptEnabled' \in BOOLEAN
          /\ pc' \in {pc, "poll"} /\ calls' \subseteq calls
      BY <1>3 DEF ServiceDevice, EnterIoLoop, loopVars, IInv, TypeOK, LoopTypes
    <3>2. RequestTypes' /\ LoopTypes'
      BY <2>2, <3>1 DEF IInv, TypeOK, RequestTypes, LoopTypes, ioVars
    <3> QED BY <2>2, <3>2, TypesKept DEF IInv, TypeOK
  <2>3. PhaseInv' /\ QueueInv'
    BY <2>2, PhaseKept, QueueKept DEF IInv, ecVars
  <2>4. OwnerInv' /\ WakeInv'
    <3>1. CASE inService
      BY <1>3, <2>2, <3>1 DEF IInv, OwnerInv, WakeInv, Awaited, ServiceDevice, EnterIoLoop,
         ioVars, loopVars, ecVars, TypeOK, LoopTypes
    <3>2. CASE ~inService
      BY <1>3, <2>2, <3>2 DEF IInv, OwnerInv, WakeInv, Awaited, ServiceDevice, EnterIoLoop,
         ioVars, loopVars, ecVars, TypeOK, LoopTypes
    <3> QED BY <3>1, <3>2
  <2> QED BY <2>1, <2>3, <2>4 DEF IInv
<1> QED BY <1>1, <1>2, <1>3

LEMMA LeaveStep ==
  ASSUME IInv, ServiceAgain \/ LeaveService \/ ClearGpe
  PROVE  IInv'
<1>1. UNCHANGED <<writePort, completeQueue, ioVars, ecVars, moved, requestVars, timeout, ecBusy,
                  noWorkStall, burstEnabled, processQuery>>
  BY DEF ServiceAgain, LeaveService, ClearGpe, EnterIoLoop
<1>2. TypeOK'
  <2>1. /\ inService' \in BOOLEAN /\ inServiceLoop' \in BOOLEAN /\ interruptEnabled' \in BOOLEAN
        /\ pc' \in {"poll", "out"} /\ gpeStatus' \in BOOLEAN
    BY DEF IInv, TypeOK, LoopTypes, EcTypes, ServiceAgain, LeaveService, ClearGpe, EnterIoLoop,
       ownerVars
  <2>2. RequestTypes'
    BY <1>1, TypesKept DEF IInv, TypeOK, requestVars
  <2>3. LoopTypes'
    BY <1>1, <2>1 DEF IInv, TypeOK, LoopTypes, ioVars
  <2>4. EcTypes'
    BY <1>1, <2>1 DEF IInv, TypeOK, EcTypes, ecVars
  <2> QED BY <2>2, <2>3, <2>4 DEF TypeOK
<1>3. PhaseInv' /\ QueueInv'
  BY <1>1, PhaseKept, QueueKept DEF IInv, ecVars, requestVars
<1>4. OwnerInv'
  BY <1>1 DEF IInv, OwnerInv, TypeOK, LoopTypes, ServiceAgain, LeaveService, ClearGpe, EnterIoLoop, ioVars,
     ownerVars, loopVars, ecVars, requestVars
<1>5. WakeInv'
  BY <1>1 DEF IInv, WakeInv, Awaited, ServiceAgain, LeaveService, ClearGpe, EnterIoLoop, ioVars,
     ownerVars, loopVars, ecVars, requestVars
<1> QED BY <1>2, <1>3, <1>4, <1>5 DEF IInv

-----------------------------------------------------------------------------
(* The controller. *)

LEMMA TakePhase ==
  ASSUME TypeOK, PhaseInv, EcTake,
         UNCHANGED <<ioState, ioBurstState, ioRemain, ioByte, currentIrp, length, transfer,
                     writePort>>
  PROVE  PhaseInv'
<1>0. /\ ibf # None /\ ~answering /\ ibf' = None /\ obf' = obf
      /\ ~Nothing
  BY DEF EcTake, OnItsWay, Nothing
<1>1. \A c \in Commands : ibf = Command(c) /\ Rests =>
        /\ command' = IF c = "cancel" THEN None ELSE c
        /\ expects' = IF c \in {"read", "write"} THEN "address" ELSE "command"
        /\ answering' <=> c \in {"burst", "query"}
        /\ UNCHANGED <<ecByte, moved>>
  <2>1. ASSUME NEW c \in Commands, ibf = Command(c), Rests
        PROVE  /\ command' = IF c = "cancel" THEN None ELSE c
               /\ expects' = IF c \in {"read", "write"} THEN "address" ELSE "command"
               /\ answering' <=> c \in {"burst", "query"}
               /\ UNCHANGED <<ecByte, moved>>
    BY <2>1, PortFacts DEF EcTake, Rests, Controller
  <2> QED BY <2>1
<1>2. \A p : OnItsWay(p) => ibf = p /\ writePort = None
  BY <1>0 DEF OnItsWay
<1>3. CASE NoPhase
  <2>1. ibf = Command("cancel") /\ writePort = None
    BY <1>0, <1>2, <1>3 DEF NoPhase
  <2>2. NoPhase' /\ UNCHANGED moved
    <3>1. /\ command' = None /\ expects' = "command" /\ ~answering'
          /\ UNCHANGED <<ecByte, moved>>
      BY <1>1, <1>3, <2>1 DEF NoPhase, Commands
    <3> QED BY <1>0, <1>3, <2>1, <3>1 DEF NoPhase, Rests, Controller, Nothing
  <2> QED BY <1>3, <2>2 DEF PhaseInv, Paused, Moving, NoPhase, AddressPhase, ReadPhase, WritePhase, SentPhase
<1>4. CASE QueryPhase
  <2>1. ibf = Command("query") /\ writePort = None /\ Rests
    BY <1>0, <1>2, <1>4 DEF QueryPhase
  <2>2. QueryPhase' /\ UNCHANGED moved
    BY <1>0, <1>1, <1>4, <2>1 DEF QueryPhase, Rests, Controller, Nothing, Commands
  <2> QED BY <1>4, <2>2 DEF PhaseInv, Paused, Moving, QueryPhase, AddressPhase, ReadPhase, WritePhase, SentPhase
<1>5. CASE BurstPhase
  <2>1. ibf = Command("burst") /\ writePort = None /\ Rests
    BY <1>0, <1>2, <1>5 DEF BurstPhase
  <2>2. BurstPhase' /\ UNCHANGED moved
    BY <1>0, <1>1, <1>5, <2>1 DEF BurstPhase, Rests, Controller, Nothing, Commands
  <2> QED BY <1>5, <2>2 DEF PhaseInv, Paused, Moving, BurstPhase, AddressPhase, ReadPhase, WritePhase, SentPhase
<1>6. CASE BetweenPhase
  BY <1>0, <1>6 DEF BetweenPhase
<1>7. CASE AddressPhase
  <2>0. transfer[currentIrp] \in {"read", "write"}
    BY <1>7 DEF AddressPhase, TypeOK, RequestTypes
  <2>1. ibf = Command(transfer[currentIrp]) /\ writePort = None /\ Rests
    BY <1>0, <1>2, <1>7 DEF AddressPhase
  <2>2. AddressPhase' /\ UNCHANGED moved
    <3>1. /\ command' = transfer[currentIrp] /\ expects' = "address" /\ ~answering'
          /\ UNCHANGED <<ecByte, moved>>
      BY <1>1, <2>0, <2>1 DEF Commands
    <3> QED BY <1>0, <1>7, <2>1, <3>1 DEF AddressPhase, Rests, Controller, Nothing
  <2> QED BY <1>7, <2>2 DEF PhaseInv, Paused, Moving, AddressPhase, NoPhase, QueryPhase, BurstPhase, BetweenPhase
<1>8. CASE ReadPhase
  <2>0. ioByte \in 0 .. MaxAddress
    BY DEF TypeOK, LoopTypes
  <2>1. ibf = Byte(ioByte) /\ writePort = None /\ Controller("address", "read", 0, FALSE, None)
    BY <1>0, <1>2, <1>8 DEF ReadPhase
  <2>2. ReadPhase' /\ UNCHANGED moved
    BY <1>0, <1>8, <2>0, <2>1, PortFacts DEF EcTake, ReadPhase, Controller, Nothing, Transfer
  <2> QED BY <1>8, <2>2 DEF PhaseInv, Paused, Moving, ReadPhase, NoPhase, QueryPhase, BurstPhase, BetweenPhase
<1>9. CASE WritePhase
  <2>0. ioByte \in 0 .. MaxAddress
    BY DEF TypeOK, LoopTypes
  <2>1. ibf = Byte(ioByte) /\ writePort = None /\ Controller("address", "write", 0, FALSE, None)
    BY <1>0, <1>2, <1>9 DEF WritePhase
  <2>2. WritePhase' /\ UNCHANGED moved
    BY <1>0, <1>9, <2>0, <2>1, PortFacts DEF EcTake, WritePhase, Controller, Nothing, Transfer
  <2> QED BY <1>9, <2>2 DEF PhaseInv, Paused, Moving, WritePhase, NoPhase, QueryPhase, BurstPhase, BetweenPhase
<1>10. CASE SentPhase
  <2>0. ioByte \in 0 .. MaxAddress /\ Len(moved) = ioByte - 1
    BY <1>0, <1>10 DEF TypeOK, LoopTypes, PhaseInv, SentPhase, Paused, NoPhase, QueryPhase, BurstPhase, BetweenPhase
  <2>1. ibf = Byte(ioByte) /\ writePort = None /\ Controller("data", "write", ioByte, FALSE, None)
    BY <1>0, <1>2, <1>10 DEF SentPhase
  <2>2. moved' = Append(moved, <<ioByte, ioByte>>)
    BY <2>0, <2>1, PortFacts DEF EcTake, Controller
  <2>3. BetweenPhase'
    BY <1>0, <1>10, <2>1 DEF EcTake, Controller, BetweenPhase, SentPhase, Nothing, Rests, Transfer
  <2>4. Len(moved') = ioByte' /\ \A k \in 1 .. Len(moved') : moved'[k] = <<k, k>>
    <3>1. /\ Len(moved') = Len(moved) + 1 /\ moved'[Len(moved) + 1] = <<ioByte, ioByte>>
          /\ \A k \in 1 .. Len(moved) : moved'[k] = moved[k]
      BY <2>0, <2>2 DEF TypeOK, EcTypes
    <3> QED BY <2>0, <3>1 DEF PhaseInv
  <2> QED BY <2>3, <2>4 DEF PhaseInv, Paused
<1> QED BY <1>3, <1>4, <1>5, <1>6, <1>7, <1>8, <1>9, <1>10 DEF PhaseInv, Moving, Paused

LEMMA AnswerPhase ==
  ASSUME TypeOK, PhaseInv, EcAnswer,
         UNCHANGED <<ioState, ioBurstState, ioRemain, ioByte, currentIrp, length, transfer,
                     writePort>>
  PROVE  PhaseInv'
<1>0. /\ answering /\ answering' = FALSE /\ command' = None /\ ecByte' = 0
      /\ UNCHANGED <<ibf, expects, moved>> /\ ~Rests
  BY DEF EcAnswer, Rests, Controller
<1>1. CASE QueryPhase
  <2>1. Nothing /\ Controller("command", "query", 0, TRUE, None)
    BY <1>0, <1>1 DEF QueryPhase, Controller
  <2>2. \E a \in {"event", "noEvent"} : obf' = [byte |-> 0, answer |-> a]
    BY <2>1 DEF EcAnswer, Controller
  <2>3. QueryPhase'
    BY <1>0, <1>1, <2>1, <2>2 DEF QueryPhase, Controller, Nothing
  <2> QED BY <1>0, <1>1, <2>3 DEF PhaseInv, Paused, Moving, QueryPhase, AddressPhase, ReadPhase, WritePhase, SentPhase
<1>2. CASE BurstPhase
  <2>1. Nothing /\ Controller("command", "burst", 0, TRUE, None)
    BY <1>0, <1>2 DEF BurstPhase, Controller
  <2>2. obf' = [byte |-> 0, answer |-> "ack"]
    BY <2>1 DEF EcAnswer, Controller
  <2>3. BurstPhase'
    BY <1>0, <1>2, <2>1, <2>2 DEF BurstPhase, Controller, Nothing
  <2> QED BY <1>0, <1>2, <2>3 DEF PhaseInv, Paused, Moving, BurstPhase, AddressPhase, ReadPhase, WritePhase, SentPhase
<1>3. CASE ReadPhase
  <2>1. Nothing /\ Controller("command", "read", ioByte, TRUE, None)
    BY <1>0, <1>3 DEF ReadPhase, Controller
  <2>2. obf' = [byte |-> ioByte, answer |-> "byte"]
    BY <2>1 DEF EcAnswer, Controller
  <2>3. ReadPhase'
    BY <1>0, <1>3, <2>1, <2>2 DEF ReadPhase, Controller, Nothing, Transfer
  <2> QED BY <1>0, <1>3, <2>3 DEF PhaseInv, Paused, Moving, ReadPhase, NoPhase, QueryPhase, BurstPhase, BetweenPhase
<1>4. ~NoPhase /\ ~BetweenPhase /\ ~AddressPhase /\ ~WritePhase /\ ~SentPhase
  BY <1>0 DEF NoPhase, BetweenPhase, AddressPhase, WritePhase, SentPhase, Controller
<1> QED BY <1>1, <1>2, <1>3, <1>4 DEF PhaseInv, Moving, Paused

LEMMA ControllerStep ==
  ASSUME IInv, EcTake \/ EcAnswer \/ EcRaiseEvent \/ EcDropBurst
  PROVE  IInv'
<1>1. /\ UNCHANGED <<length, transfer, workQueue, currentIrp, completed, completeQueue, calls,
                     ioState, ioBurstState, ioRemain, ioByte, inService, inServiceLoop,
                     interruptEnabled, pc, writePort, noWorkStall, timeout, ecBusy, burstEnabled,
                     processQuery>>
  BY DEF EcTake, EcAnswer, EcRaiseEvent, EcDropBurst, EcIdle, requestVars, ioVars, ownerVars,
     loopVars
<1>2. QueueInv'
  BY <1>1, QueueKept DEF IInv
<1>3. OwnerInv' /\ WakeInv'
  <2>1. ibf' = ibf \/ ibf' = None
    BY DEF EcTake, EcAnswer, EcRaiseEvent, EcDropBurst
  <2>2. OwnerInv'
    BY <1>1, <2>1 DEF IInv, OwnerInv
  <2>3. gpeStatus' = TRUE \/ UNCHANGED <<gpeStatus, ibf, answering, obf, events>>
    BY DEF EcTake, EcAnswer, EcRaiseEvent, EcDropBurst
  <2> QED BY <1>1, <2>2, <2>3 DEF IInv, WakeInv, Awaited
<1>4. TypeOK' /\ PhaseInv'
  <2>1. EcTypes /\ TypeOK /\ PhaseInv
    BY DEF IInv, TypeOK
  <2>2. RequestTypes' /\ LoopTypes'
    BY <1>1, <2>1, TypesKept DEF TypeOK, ioVars
  <2>3. CASE EcTake
    <3>1. ibf.command \in Commands \union {None} /\ ibf.byte \in 0 .. MaxAddress
      BY <2>1, <2>3 DEF EcTake, EcTypes, Ports
    <3>2. /\ ecByte' \in 0 .. MaxAddress /\ command' \in Commands \union {None}
          /\ expects' \in {"command", "address", "data"}
      BY <2>1, <2>3, <3>1, PortFacts DEF EcTake, EcTypes
    <3>3. moved' \in Seq((0 .. MaxAddress) \X (0 .. MaxAddress))
      <4>1. <<ecByte, ibf.byte>> \in (0 .. MaxAddress) \X (0 .. MaxAddress)
        <5>1. ibf.byte \in 0 .. MaxAddress
          BY <2>1, <2>3 DEF EcTake, EcTypes, Ports
        <5> QED BY <2>1, <5>1 DEF EcTypes
      <4>2. moved' = moved \/ moved' = Append(moved, <<ecByte, ibf.byte>>)
        BY <2>3 DEF EcTake
      <4>3. moved \in Seq((0 .. MaxAddress) \X (0 .. MaxAddress))
        BY <2>1 DEF EcTypes
      <4> DEFINE Places == (0 .. MaxAddress) \X (0 .. MaxAddress)
      <4> HIDE DEF Places
      <4>4. <<ecByte, ibf.byte>> \in Places /\ moved \in Seq(Places)
        BY <4>1, <4>3 DEF Places
      <4>5. moved' \in Seq(Places)
        BY <4>2, <4>4
      <4> QED BY <4>5 DEF Places
    <3>4. answering' \in BOOLEAN
      <4>1. \/ answering' = (ibf.command \in {"burst", "query"})
            \/ answering' = (command = "read")
            \/ answering' = answering
        BY <2>3 DEF EcTake
      <4>2. CASE answering' = (ibf.command \in {"burst", "query"})
        BY <4>2
      <4>3. CASE answering' = (command = "read")
        BY <4>3
      <4>4. CASE answering' = answering
        BY <2>1, <4>4 DEF EcTypes
      <4> QED BY <4>1, <4>2, <4>3, <4>4
    <3>5. burst' \in BOOLEAN
      BY <2>1, <2>3 DEF EcTake, EcTypes
    <3>6. EcTypes'
      BY <2>1, <2>3, <3>2, <3>3, <3>4, <3>5 DEF EcTake, EcTypes
    <3> QED BY <1>1, <2>1, <2>2, <2>3, <3>6, TakePhase DEF TypeOK
  <2>4. CASE EcAnswer
    <3>1. obf' \in Answers
      BY <2>1, <2>4 DEF EcAnswer, EcTypes, Answers
    <3>2. ecByte' \in 0 .. MaxAddress /\ command' = None
      BY <2>4, PortFacts DEF EcAnswer
    <3>3. events' \in Nat
      BY <2>1, <2>4 DEF EcAnswer, EcTypes
    <3>4. burst' \in BOOLEAN
      BY <2>1, <2>4 DEF EcAnswer, EcTypes
    <3>5. EcTypes'
      BY <2>1, <2>4, <3>1, <3>2, <3>3, <3>4 DEF EcAnswer, EcTypes
    <3> QED BY <1>1, <2>1, <2>2, <2>4, <3>5, AnswerPhase DEF TypeOK
  <2>5. CASE EcRaiseEvent \/ EcDropBurst
    <3>1. UNCHANGED <<ibf, obf, expects, command, ecByte, answering, moved>>
      BY <2>5 DEF EcRaiseEvent, EcDropBurst
    <3>2. events' \in Nat /\ raised' \in Nat
      BY <2>1, <2>5 DEF EcRaiseEvent, EcDropBurst, EcTypes
    <3>3. burst' \in {burst, FALSE} /\ gpeStatus' \in {gpeStatus, TRUE}
      BY <2>5 DEF EcRaiseEvent, EcDropBurst
    <3>4. EcTypes'
      BY <2>1, <3>1, <3>2, <3>3 DEF EcTypes
    <3> QED BY <1>1, <2>1, <2>2, <3>1, <3>4, PhaseKept DEF TypeOK, ioVars
  <2> QED BY <2>3, <2>4, <2>5
<1> QED BY <1>2, <1>3, <1>4 DEF IInv

-----------------------------------------------------------------------------
(* The loop. *)

\* What one turn of the loop does.
LEMMA TurnFacts ==
  ASSUME LoopTypes, ~ecBusy => timeout, NEW port \in Ports \union {None}, NEW stall \in Nat,
         NEW busy \in BOOLEAN, Turn(port, stall, busy)
  PROVE  /\ writePort' = port /\ noWorkStall' \in Nat
         /\ timeout' \in BOOLEAN /\ ecBusy' \in BOOLEAN
         /\ pc' \in {"poll", "write", "cancel", "clear", "finish"}
         /\ pc' = "write" <=> port # None
         /\ pc' = "cancel" => ~busy /\ ~timeout
         /\ pc' = "finish" => port = None /\ stall # 0
         /\ busy = ecBusy \/ (port = None /\ stall # 0) => (~ecBusy' => timeout')
<1> DEFINE worked  == port # None \/ stall = 0
           expired == ~busy \/ stall >= StallLimit
<1>1. /\ writePort' = port
      /\ noWorkStall' = IF worked THEN 0 ELSE stall
      /\ timeout' = (~worked /\ (timeout \/ expired))
      /\ ecBusy' = (busy \/ (worked /\ timeout))
  BY DEF Turn
<1>2. pc' = IF port # None THEN "write"
            ELSE IF worked THEN "poll"
            ELSE IF timeout THEN "finish"
            ELSE IF ~busy /\ InBurst THEN "cancel"
            ELSE IF expired THEN "clear"
            ELSE "poll"
  BY DEF Turn
<1>3. timeout' \in BOOLEAN
  BY <1>1
<1>4. ecBusy' \in BOOLEAN
  BY <1>1
<1>5. writePort' = port /\ noWorkStall' \in Nat
  BY <1>1
<1> HIDE DEF expired
<1>6. pc' \in {"poll", "write", "cancel", "clear", "finish"}
  BY <1>2
<1>7. (pc' = "write" <=> port # None) /\ (pc' = "cancel" => ~busy /\ ~timeout)
  BY <1>2
<1>8. pc' = "finish" => port = None /\ stall # 0
  BY <1>2
<1>9. busy = ecBusy \/ (port = None /\ stall # 0) => (~ecBusy' => timeout')
  <2>1. SUFFICES ASSUME busy = ecBusy \/ (port = None /\ stall # 0), ~ecBusy' PROVE timeout'
    OBVIOUS
  <2>2. ~busy /\ ~(worked /\ timeout)
    BY <1>1, <2>1
  <2>3. ~worked
    BY <2>1, <2>2
  <2> QED BY <1>1, <2>2, <2>3 DEF expired
<1> QED BY <1>3, <1>4, <1>5, <1>6, <1>7, <1>8, <1>9

\* A look at Status that finds no output, whatever IoState becomes.
LEMMA LookAgainStep ==
  ASSUME IInv, NEW port \in Ports \union {None}, pc = "poll", LookAgain(port),
         UNCHANGED ioState \/ port # None,
         ioState' \in {"none", "readByte", "readQuery", "burstAck", "writeByte", "nextByte",
                       "sendAddress"},
         ioBurstState' \in {"nextByte", "unknown"},
         ioRemain' \in 0 .. MaxAddress, ioByte' \in 0 .. MaxAddress
  PROVE  /\ TypeOK' /\ OwnerInv' /\ QueueInv'
         /\ writePort = None /\ writePort' = port
         /\ UNCHANGED <<requestVars, ecVars, moved>>
         /\ port # None \/ Awaited => WakeInv'
<1>0. /\ UNCHANGED <<requestVars, ownerVars, processQuery, completeQueue, ecVars, gpeStatus, moved>>
      /\ Turn(port, noWorkStall + 1, ecBusy) /\ noWorkStall + 1 \in Nat /\ LoopTypes
      /\ ~ecBusy => timeout
  BY DEF LookAgain, IInv, TypeOK, LoopTypes, OwnerInv
<1>1. /\ writePort' = port /\ noWorkStall' \in Nat
      /\ timeout' \in BOOLEAN /\ ecBusy' \in BOOLEAN
      /\ pc' \in {"poll", "write", "clear", "finish"}
      /\ pc' = "write" <=> port # None
      /\ pc' = "finish" => port = None
      /\ ~ecBusy' => timeout'
  <2>1. ecBusy \in BOOLEAN
    BY <1>0 DEF LoopTypes
  <2> QED BY <1>0, <2>1, TurnFacts
<1>2. writePort = None /\ inService
  BY DEF IInv, OwnerInv, TypeOK, LoopTypes
<1>3. TypeOK'
  <2>1. burstEnabled' \in BOOLEAN
    BY <1>0 DEF LookAgain, LoopTypes
  <2>2. RequestTypes' /\ EcTypes'
    BY <1>0, TypesKept DEF IInv, TypeOK, requestVars
  <2>3. LoopTypes'
    BY <1>0, <1>1, <2>1 DEF LoopTypes, ownerVars
  <2> QED BY <2>2, <2>3 DEF TypeOK
<1>4. OwnerInv'
  BY <1>0, <1>1, <1>2 DEF OwnerInv, IInv, ownerVars
<1>5. QueueInv'
  BY <1>0, QueueKept DEF IInv, requestVars
<1>6. port # None \/ Awaited => WakeInv'
  BY <1>0, <1>1 DEF WakeInv, Awaited, requestVars, ownerVars, ecVars
<1> QED BY <1>0, <1>1, <1>2, <1>3, <1>4, <1>5, <1>6

\* Where the bytes are when the loop has seen an empty input buffer.
LEMMA WaitStep ==
  ASSUME IInv, Wait
  PROVE  IInv'
<1>1. /\ pc = "poll" /\ LookAgain(None) /\ UNCHANGED ioVars /\ obf = None
      /\ ibf # None \/ ioState \in {"readByte", "readQuery", "burstAck"}
  BY DEF Wait
<1>2. LoopTypes /\ None \in Ports \union {None}
  BY DEF IInv, TypeOK
<1>3. /\ TypeOK' /\ OwnerInv' /\ QueueInv'
      /\ writePort = None /\ writePort' = None
      /\ UNCHANGED <<requestVars, ecVars, moved>>
      /\ Awaited => WakeInv'
  BY <1>1, <1>2, LookAgainStep DEF LoopTypes, ioVars
<1>4. PhaseInv'
  BY <1>1, <1>3, PhaseKept DEF IInv, requestVars, ecVars
<1>5. CASE ibf # None
  BY <1>3, <1>4, <1>5 DEF IInv, Awaited
<1>6. CASE ibf = None /\ ioState \in {"readByte", "readQuery", "burstAck"}
  <2>1. ~OnItsWay(Command("query")) /\ ~OnItsWay(Command("burst")) /\ ~OnItsWay(Byte(ioByte))
    BY <1>2, <1>3, <1>6, PortFacts DEF OnItsWay, LoopTypes, Commands
  <2>2. answering
    BY <1>1, <1>2, <1>6, <2>1, PortFacts DEF IInv, PhaseInv, Paused, Moving, NoPhase, QueryPhase,
       BurstPhase, BetweenPhase, AddressPhase, ReadPhase, WritePhase, SentPhase, Controller,
       LoopTypes
  <2> QED BY <1>3, <1>4, <2>2 DEF IInv, Awaited
<1> QED BY <1>1, <1>5, <1>6

\* What the loop may assume when input and output buffer are empty.
LEMMA ReadyFacts ==
  ASSUME IInv, Ready
  PROVE  /\ LoopTypes /\ RequestTypes /\ pc = "poll" /\ Nothing /\ obf = None
         /\ ioState = "none" => NoPhase /\ Rests
         /\ ioState = "nextByte" => BetweenPhase
         /\ ioState = "sendAddress" => AddressPhase /\ ~Rests
         /\ ioState = "writeByte" => WritePhase /\ Controller("data", "write", ioByte, FALSE, None)
         /\ ioState \in {"none", "nextByte"} => Paused /\ Len(moved) = ioByte
         /\ ioState \in {"sendAddress", "writeByte"} => ioByte > 0 /\ Len(moved) = ioByte - 1
         /\ currentIrp # None => ioByte + ioRemain = length[currentIrp]
<1>1. LoopTypes /\ RequestTypes /\ pc = "poll" /\ Nothing /\ obf = None
  BY DEF IInv, TypeOK, OwnerInv, Ready, Nothing
<1>2. \A p \in Ports : ~OnItsWay(p)
  BY <1>1, BoundsAssumption DEF Nothing, OnItsWay
<1>3. /\ ~OnItsWay(Command("query")) /\ ~OnItsWay(Command("burst")) /\ ~OnItsWay(Byte(ioByte))
      /\ currentIrp \in Irps => ~OnItsWay(Command(transfer[currentIrp]))
  BY <1>1, <1>2, PortFacts DEF LoopTypes, RequestTypes, Commands
<1>4. PhaseInv
  BY DEF IInv
<1>5. ioState = "none" => NoPhase /\ Rests
  BY <1>4 DEF PhaseInv, Moving, Paused, NoPhase, QueryPhase, BurstPhase, BetweenPhase,
     AddressPhase, ReadPhase, WritePhase, SentPhase
<1>6. ioState = "nextByte" => BetweenPhase
  BY <1>3, <1>4 DEF PhaseInv, Moving, Paused, NoPhase, QueryPhase, BurstPhase,
     AddressPhase, ReadPhase, WritePhase, SentPhase
<1>7. ioState = "sendAddress" => AddressPhase /\ ~Rests
  BY <1>3, <1>4 DEF PhaseInv, Moving, Paused, NoPhase, QueryPhase, BurstPhase, BetweenPhase,
     AddressPhase, ReadPhase, WritePhase, SentPhase, Rests, Controller
<1>8. ioState = "writeByte" => WritePhase /\ Controller("data", "write", ioByte, FALSE, None)
  BY <1>3, <1>4 DEF PhaseInv, Moving, Paused, NoPhase, QueryPhase, BurstPhase, BetweenPhase,
     AddressPhase, ReadPhase, WritePhase, SentPhase
<1>9. ioState \in {"sendAddress", "writeByte"} => ioByte > 0 /\ Len(moved) = ioByte - 1
  BY <1>4 DEF PhaseInv, Paused, NoPhase, QueryPhase, BurstPhase, BetweenPhase
<1>10. ioState \in {"none", "nextByte"} => Paused /\ Len(moved) = ioByte
  BY <1>3, <1>4 DEF PhaseInv, Moving, AddressPhase, ReadPhase, WritePhase, SentPhase
<1>11. currentIrp # None => ioByte + ioRemain = length[currentIrp]
  BY <1>4 DEF PhaseInv
<1> QED BY <1>1, <1>5, <1>6, <1>7, <1>8, <1>9, <1>10, <1>11

LEMMA NextByteStep ==
  ASSUME IInv, NextByte
  PROVE  IInv'
<1>1. /\ Ready /\ ioState = "nextByte" /\ ioRemain > 0 /\ LoopTypes /\ RequestTypes
      /\ pc = "poll" /\ Nothing /\ BetweenPhase /\ Len(moved) = ioByte
      /\ ioByte + ioRemain = length[currentIrp] /\ currentIrp \in Irps
  BY ReadyFacts, PortFacts DEF NextByte, BetweenPhase
<1>2. length[currentIrp] \in 0 .. MaxAddress /\ transfer[currentIrp] \in {"read", "write"}
  BY <1>1 DEF RequestTypes
<1>3. CASE InBurst
  <2>1. /\ ioByte' = ioByte + 1 /\ ioRemain' = ioRemain - 1 /\ ioState' = "sendAddress"
        /\ LookAgain(Command(transfer[currentIrp])) /\ UNCHANGED ioBurstState
    BY <1>3 DEF NextByte
  <2>2. ioByte' \in 0 .. MaxAddress /\ ioRemain' \in 0 .. MaxAddress
    BY <1>1, <1>2, <2>1, BoundsAssumption DEF LoopTypes
  <2>3. Command(transfer[currentIrp]) \in Ports /\ Command(transfer[currentIrp]) # None
    BY <1>2, PortFacts DEF Commands
  <2>4. /\ TypeOK' /\ OwnerInv' /\ QueueInv' /\ WakeInv'
        /\ writePort' = Command(transfer[currentIrp])
        /\ UNCHANGED <<requestVars, ecVars, moved>>
    BY <1>1, <2>1, <2>2, <2>3, LookAgainStep DEF LoopTypes
  <2>5. AddressPhase'
    BY <1>1, <2>1, <2>4 DEF AddressPhase, BetweenPhase, Nothing, OnItsWay, Rests, Controller,
       requestVars, ecVars
  <2>6. PhaseInv'
    BY <1>1, <2>1, <2>4, <2>5 DEF IInv, PhaseInv, Moving, requestVars, LoopTypes
  <2> QED BY <2>4, <2>6 DEF IInv
<1>4. CASE ~InBurst
  <2>1. /\ ioState' = "burstAck" /\ ioBurstState' = "nextByte" /\ LookAgain(Command("burst"))
        /\ UNCHANGED <<ioByte, ioRemain>>
    BY <1>4 DEF NextByte
  <2>3. Command("burst") \in Ports /\ Command("burst") # None
    BY PortFacts DEF Commands
  <2>4. /\ TypeOK' /\ OwnerInv' /\ QueueInv' /\ WakeInv'
        /\ writePort' = Command("burst")
        /\ UNCHANGED <<requestVars, ecVars, moved>>
    BY <1>1, <2>1, <2>3, LookAgainStep DEF LoopTypes
  <2>5. BurstPhase'
    BY <1>1, <2>1, <2>4 DEF BurstPhase, BetweenPhase, Nothing, OnItsWay, Rests, Controller,
       requestVars, ecVars
  <2>6. PhaseInv'
    BY <1>1, <2>1, <2>4, <2>5 DEF IInv, PhaseInv, Paused, requestVars
  <2> QED BY <2>4, <2>6 DEF IInv
<1> QED BY <1>3, <1>4

LEMMA AddressStep ==
  ASSUME IInv, SendAddress
  PROVE  IInv'
<1>1. /\ ioState = "sendAddress" /\ LoopTypes /\ RequestTypes
      /\ pc = "poll" /\ Nothing /\ AddressPhase /\ ~Rests
      /\ ioByte > 0 /\ Len(moved) = ioByte - 1
      /\ LookAgain(Byte(ioByte)) /\ UNCHANGED <<ioBurstState, ioRemain, ioByte>>
      /\ ioState' = IF transfer[currentIrp] = "read" THEN "readByte" ELSE "writeByte"
  BY ReadyFacts DEF SendAddress
<1>2. Byte(ioByte) \in Ports /\ Byte(ioByte) # None
  BY <1>1, PortFacts DEF LoopTypes
<1>3. /\ currentIrp \in Irps /\ transfer[currentIrp] \in {"read", "write"}
      /\ Controller("address", transfer[currentIrp], 0, FALSE, None)
  BY <1>1 DEF AddressPhase, RequestTypes
<1>4. /\ TypeOK' /\ OwnerInv' /\ QueueInv' /\ WakeInv' /\ writePort' = Byte(ioByte)
      /\ UNCHANGED <<requestVars, ecVars, moved>>
  BY <1>1, <1>2, LookAgainStep DEF LoopTypes
<1>5. ReadPhase' \/ WritePhase'
  BY <1>1, <1>3, <1>4 DEF ReadPhase, WritePhase, Transfer, Nothing, OnItsWay, Controller,
     requestVars, ecVars
<1>6. PhaseInv'
  BY <1>1, <1>4, <1>5 DEF IInv, PhaseInv, Moving, requestVars
<1> QED BY <1>4, <1>6 DEF IInv

LEMMA WriteByteStep ==
  ASSUME IInv, WriteByte
  PROVE  IInv'
<1>1. /\ ioState = "writeByte" /\ LoopTypes
      /\ pc = "poll" /\ Nothing /\ WritePhase /\ Controller("data", "write", ioByte, FALSE, None)
      /\ ioByte > 0 /\ Len(moved) = ioByte - 1
      /\ LookAgain(Byte(ioByte)) /\ UNCHANGED <<ioBurstState, ioRemain, ioByte>>
      /\ ioState' = "nextByte"
  BY ReadyFacts DEF WriteByte
<1>2. Byte(ioByte) \in Ports /\ Byte(ioByte) # None
  BY <1>1, PortFacts DEF LoopTypes
<1>4. /\ TypeOK' /\ OwnerInv' /\ QueueInv' /\ WakeInv' /\ writePort' = Byte(ioByte)
      /\ UNCHANGED <<requestVars, ecVars, moved>>
  BY <1>1, <1>2, LookAgainStep DEF LoopTypes
<1>5. SentPhase'
  BY <1>1, <1>4 DEF SentPhase, WritePhase, Transfer, Nothing, OnItsWay, Controller,
     requestVars, ecVars
<1>6. PhaseInv'
  BY <1>1, <1>4, <1>5 DEF IInv, PhaseInv, Moving, requestVars
<1> QED BY <1>4, <1>6 DEF IInv

LEMMA PortStep ==
  ASSUME IInv, WritePort \/ CancelBurst
  PROVE  IInv'
<1>0. /\ UNCHANGED <<requestVars, ioVars, ownerVars, noWorkStall, timeout, ecBusy, burstEnabled,
                     processQuery, completeQueue, obf, expects, command, ecByte, answering, burst,
                     events, raised, gpeStatus, moved>>
      /\ pc' \in {"poll", "clear"}
      /\ RequestTypes /\ LoopTypes /\ EcTypes /\ PhaseInv /\ OwnerInv
  BY DEF WritePort, CancelBurst, IInv, TypeOK
<1>1. Command("cancel") \in Ports /\ Command("cancel") # None
  BY PortFacts DEF Commands
<1>2. writePort' = None /\ ibf' \in Ports
  <2>1. CASE WritePort
    BY <1>0, <2>1 DEF WritePort, OwnerInv, LoopTypes
  <2>2. CASE CancelBurst
    BY <1>0, <1>1, <2>2 DEF CancelBurst, OwnerInv, LoopTypes
  <2> QED BY <2>1, <2>2
<1>3. TypeOK'
  <2>1. RequestTypes'
    BY <1>0, TypesKept DEF requestVars
  <2>2. LoopTypes'
    BY <1>0, <1>2 DEF LoopTypes, ioVars, ownerVars
  <2>3. EcTypes'
    BY <1>0, <1>2 DEF EcTypes
  <2> QED BY <2>1, <2>2, <2>3 DEF TypeOK
<1>4. OwnerInv'
  BY <1>0, <1>2 DEF WritePort, CancelBurst, OwnerInv, ownerVars
<1>5. QueueInv' /\ WakeInv'
  BY <1>0, QueueKept DEF IInv, WakeInv, requestVars
<1>6. CASE WritePort
  <2>1. writePort # None /\ ibf' = writePort
    BY <1>0, <1>6 DEF WritePort, OwnerInv
  <2>2. ~Nothing /\ \A p : OnItsWay(p) => OnItsWay(p)'
    BY <1>2, <2>1 DEF Nothing, OnItsWay
  <2>3. UNCHANGED <<ioState, ioBurstState, ioRemain, ioByte, currentIrp, length, transfer, expects,
                    command, ecByte, answering, obf, moved>>
    BY <1>0 DEF requestVars, ioVars
  <2>4. OnItsWay(Command("cancel")) => OnItsWay(Command("cancel"))'
    BY <2>2 DEF Command
  <2>5. OnItsWay(Command("query")) => OnItsWay(Command("query"))'
    BY <2>2 DEF Command
  <2>6. OnItsWay(Command("burst")) => OnItsWay(Command("burst"))'
    BY <2>2 DEF Command
  <2>7. OnItsWay(Command(transfer[currentIrp])) => OnItsWay(Command(transfer[currentIrp]))'
    BY <1>2, <2>1, <2>3 DEF OnItsWay, Command
  <2>8. OnItsWay(Byte(ioByte)) => OnItsWay(Byte(ioByte))'
    BY <1>2, <2>1, <2>3 DEF OnItsWay, Byte
  <2>9. PhaseInv'
    BY <1>0, <2>2, <2>3, <2>4, <2>5, <2>6, <2>7, <2>8 DEF PhaseInv, Moving, Paused, NoPhase,
       QueryPhase, BurstPhase, BetweenPhase, AddressPhase, ReadPhase, WritePhase, SentPhase,
       Transfer, Controller, Rests
  <2> QED BY <1>3, <1>4, <1>5, <2>9 DEF IInv
<1>7. CASE CancelBurst
  <2>1. ioState = "none" /\ ibf = None /\ ibf' = Command("cancel") /\ writePort = None
    BY <1>0, <1>7 DEF CancelBurst, OwnerInv, LoopTypes
  <2>2. NoPhase
    BY <1>0, <2>1 DEF PhaseInv, Moving, Paused, NoPhase, QueryPhase, BurstPhase, BetweenPhase,
       AddressPhase, ReadPhase, WritePhase, SentPhase
  <2>3. NoPhase'
    BY <1>0, <1>2, <2>1, <2>2 DEF NoPhase, OnItsWay, Rests, Controller, ioVars, requestVars, Command
  <2>4. ~Moving /\ UNCHANGED <<moved, currentIrp, ioByte>>
    BY <1>0, <2>2 DEF Moving, NoPhase, AddressPhase, ReadPhase, WritePhase, SentPhase, ioVars,
       requestVars
  <2>5. PhaseInv'
    BY <1>0, <2>3, <2>4 DEF PhaseInv, Paused, NoPhase
  <2> QED BY <1>3, <1>4, <1>5, <2>5 DEF IInv
<1> QED BY <1>6, <1>7

LEMMA TakeOutputStep ==
  ASSUME IInv, TakeOutput
  PROVE  IInv'
<1>0. /\ pc = "poll" /\ obf # None /\ obf' = None /\ Turn(None, 0, ecBusy)
      /\ UNCHANGED <<requestVars, ioRemain, ioByte, ownerVars, completeQueue, ibf, expects, command,
                     ecByte, answering, burst, events, raised, gpeStatus>>
      /\ RequestTypes /\ LoopTypes /\ EcTypes /\ PhaseInv /\ OwnerInv
  BY DEF TakeOutput, IInv, TypeOK
<1>1. /\ writePort = None /\ writePort' = None /\ noWorkStall' \in Nat
      /\ timeout' \in BOOLEAN /\ ecBusy' \in BOOLEAN /\ (~ecBusy' => timeout')
      /\ pc' \in {"poll", "clear"}
  <2>1. ecBusy \in BOOLEAN /\ 0 \in Nat /\ None \in Ports \union {None} /\ (~ecBusy => timeout)
    BY <1>0 DEF LoopTypes, OwnerInv
  <2>2. /\ writePort' = None /\ noWorkStall' \in Nat
        /\ timeout' \in BOOLEAN /\ ecBusy' \in BOOLEAN /\ (~ecBusy' => timeout')
        /\ pc' \in {"poll", "write", "cancel", "clear", "finish"}
        /\ pc' # "write" /\ pc' # "finish" /\ (pc' = "cancel" => ~ecBusy /\ ~timeout)
    BY <1>0, <2>1, TurnFacts
  <2> QED BY <1>0, <2>1, <2>2 DEF OwnerInv
<1>2. burstEnabled' \in BOOLEAN
  <2>1. burstEnabled' = ((burstEnabled /\ burst) \/ ioState = "burstAck")
    BY DEF TakeOutput
  <2> QED BY <2>1
<1>3. processQuery' \in BOOLEAN
  <2>1. processQuery' = (processQuery \/ obf.answer = "event")
    BY DEF TakeOutput
  <2> QED BY <2>1
<1>4. RequestTypes' /\ OwnerInv' /\ QueueInv' /\ WakeInv'
  <2>1. RequestTypes'
    BY <1>0, TypesKept DEF requestVars
  <2>2. pc # "out" /\ pc # "write"
    BY <1>0
  <2>3. OwnerInv'
    BY <1>0, <1>1 DEF OwnerInv, ownerVars
  <2>4. QueueInv' /\ WakeInv'
    BY <1>0, <1>1, QueueKept DEF IInv, WakeInv, requestVars
  <2> QED BY <2>1, <2>3, <2>4
<1>5. \A e, c, k, a : Controller(e, c, k, a, None) => FALSE
  BY <1>0 DEF Controller
<1>6. CASE QueryPhase
  <2>1. Nothing /\ Controller("command", None, 0, FALSE, obf)
    BY <1>0, <1>5, <1>6 DEF QueryPhase, Rests, Controller
  <2>2. ioState' = "none" /\ UNCHANGED <<ioBurstState, moved>>
    BY <1>6 DEF QueryPhase, TakeOutput
  <2>3. NoPhase'
    BY <1>0, <1>1, <1>6, <2>1, <2>2 DEF NoPhase, QueryPhase, Nothing, Controller, Rests, requestVars
  <2>4. PhaseInv'
    BY <1>0, <1>6, <2>2, <2>3 DEF PhaseInv, Moving, Paused, QueryPhase, NoPhase, AddressPhase,
       ReadPhase, WritePhase, SentPhase
  <2>5. LoopTypes'
    BY <1>0, <1>1, <1>2, <1>3, <2>2 DEF LoopTypes, ownerVars
  <2>6. EcTypes'
    BY <1>0, <2>2 DEF EcTypes
  <2> QED BY <1>4, <2>4, <2>5, <2>6 DEF IInv, TypeOK
<1>7. CASE BurstPhase
  <2>1. Nothing /\ Controller("command", None, 0, FALSE, obf)
    BY <1>0, <1>5, <1>7 DEF BurstPhase, Rests, Controller
  <2>2. ioState' = "nextByte" /\ ioBurstState' = "unknown" /\ UNCHANGED moved
    BY <1>7 DEF BurstPhase, TakeOutput
  <2>3. BetweenPhase'
    BY <1>0, <1>1, <1>7, <2>1, <2>2 DEF BetweenPhase, BurstPhase, Nothing, Controller, Rests,
       requestVars
  <2>4. PhaseInv'
    BY <1>0, <1>7, <2>2, <2>3 DEF PhaseInv, Moving, Paused, BurstPhase, AddressPhase,
       ReadPhase, WritePhase, SentPhase, requestVars
  <2>5. LoopTypes'
    BY <1>0, <1>1, <1>2, <1>3, <2>2 DEF LoopTypes, ownerVars
  <2>6. EcTypes'
    BY <1>0, <2>2 DEF EcTypes
  <2> QED BY <1>4, <2>4, <2>5, <2>6 DEF IInv, TypeOK
<1>8. CASE ReadPhase
  <2>1. Nothing /\ Controller("command", None, 0, FALSE, [byte |-> ioByte, answer |-> "byte"])
    BY <1>0, <1>5, <1>8 DEF ReadPhase
  <2>2. /\ ioState' = "nextByte" /\ UNCHANGED ioBurstState
        /\ moved' = Append(moved, <<ioByte, ioByte>>)
    BY <1>8, <2>1 DEF ReadPhase, TakeOutput, Controller
  <2>3. BetweenPhase'
    BY <1>0, <1>1, <1>8, <2>1, <2>2 DEF BetweenPhase, ReadPhase, Transfer, Nothing, Controller, Rests,
       requestVars
  <2>4. ioByte \in 0 .. MaxAddress /\ Len(moved) = ioByte - 1
    BY <1>0, <1>8 DEF LoopTypes, PhaseInv, Paused, ReadPhase, NoPhase, QueryPhase, BurstPhase,
       BetweenPhase
  <2> DEFINE Places == (0 .. MaxAddress) \X (0 .. MaxAddress)
  <2>5. <<ioByte, ioByte>> \in Places /\ moved \in Seq(Places)
    BY <1>0, <2>4 DEF EcTypes
  <2> HIDE DEF Places
  <2>6. /\ moved' \in Seq(Places)
        /\ Len(moved') = Len(moved) + 1 /\ moved'[Len(moved) + 1] = <<ioByte, ioByte>>
        /\ \A k \in 1 .. Len(moved) : moved'[k] = moved[k]
    BY <2>2, <2>5
  <2>7. PhaseInv'
    BY <1>0, <2>3, <2>4, <2>6 DEF PhaseInv, Paused, requestVars
  <2>8. LoopTypes'
    BY <1>0, <1>1, <1>2, <1>3, <2>2 DEF LoopTypes, ownerVars
  <2>9. moved' \in Seq((0 .. MaxAddress) \X (0 .. MaxAddress))
    BY <2>6 DEF Places
  <2>10. EcTypes'
    BY <1>0, <2>9 DEF EcTypes
  <2> QED BY <1>4, <2>7, <2>8, <2>10 DEF IInv, TypeOK
<1>9. ~NoPhase /\ ~BetweenPhase /\ ~AddressPhase /\ ~WritePhase /\ ~SentPhase
  BY <1>5 DEF NoPhase, BetweenPhase, AddressPhase, WritePhase, SentPhase, Rests
<1> QED BY <1>0, <1>6, <1>7, <1>8, <1>9 DEF PhaseInv, Moving, Paused

LEMMA InitiateStep ==
  ASSUME IInv, Initiate
  PROVE  IInv'
<1> DEFINE Port  == IF events > 0 THEN Command("query") ELSE None
           Stall == IF events > 0 \/ workQueue = <<>> THEN noWorkStall + 1 ELSE 0
           Busy  == IF events > 0 \/ workQueue # <<>> THEN ecBusy ELSE FALSE
<1>0. /\ Ready /\ (ioState = "none" \/ TransferOver)
      /\ completeQueue' = IF TransferOver THEN Append(completeQueue, currentIrp) ELSE completeQueue
      /\ ioByte' = 0 /\ moved' = <<>> /\ burstEnabled' = (burstEnabled /\ burst)
      /\ UNCHANGED <<length, transfer, completed, calls, ioBurstState, ownerVars, processQuery,
                     ecVars, gpeStatus>>
      /\ Turn(Port, Stall, Busy)
  BY DEF Initiate
<1>1. /\ RequestTypes /\ LoopTypes /\ EcTypes /\ OwnerInv /\ QueueInv
      /\ pc = "poll" /\ Nothing /\ obf = None /\ Rests
      /\ ioState = "none" => currentIrp = None
      /\ TransferOver => currentIrp \in Irps
  BY <1>0, ReadyFacts DEF IInv, TypeOK, TransferOver, BetweenPhase, NoPhase
<1>a. /\ Port \in Ports \union {None} /\ Stall \in Nat /\ Busy \in BOOLEAN
      /\ Command("query") # None /\ (~ecBusy => timeout)
  <2>1. Command("query") \in Ports /\ Command("query") # None
    BY PortFacts DEF Commands
  <2>2. ecBusy \in BOOLEAN /\ noWorkStall \in Nat /\ (~ecBusy => timeout)
    BY <1>1 DEF LoopTypes, OwnerInv
  <2>3. Busy \in BOOLEAN
    BY <2>2
  <2>4. Port \in Ports \union {None} /\ Stall \in Nat
    BY <2>1, <2>2
  <2> HIDE DEF Port, Stall, Busy
  <2> QED BY <2>1, <2>2, <2>3, <2>4
<1>b. /\ writePort' = Port /\ noWorkStall' \in Nat
      /\ timeout' \in BOOLEAN /\ ecBusy' \in BOOLEAN
      /\ pc' \in {"poll", "write", "cancel", "clear", "finish"}
      /\ pc' = "write" <=> Port # None
      /\ pc' = "cancel" => ~Busy /\ ~timeout
      /\ pc' = "finish" => Port = None /\ Stall # 0
      /\ Busy = ecBusy \/ (Port = None /\ Stall # 0) => (~ecBusy' => timeout')
  <2> HIDE DEF Port, Stall, Busy
  <2>1. Turn(Port, Stall, Busy) /\ LoopTypes
    BY <1>0, <1>1
  <2> QED BY <2>1, <1>a, TurnFacts
<1>c. burstEnabled' \in BOOLEAN
  BY <1>0
<1>d. EcTypes'
  <2>1. moved' \in Seq((0 .. MaxAddress) \X (0 .. MaxAddress))
    BY <1>0
  <2> QED BY <1>0, <1>1, <2>1 DEF EcTypes, ecVars
<1>e. /\ completeQueue' \in Seq(Irps)
      /\ ToSet(completeQueue') \subseteq Irps
      /\ \A x \in ToSet(completeQueue') : x \in ToSet(completeQueue) \/ x = currentIrp
  <2>1. CASE TransferOver
    <3>1. /\ completeQueue' \in Seq(Irps) /\ Len(completeQueue') = Len(completeQueue) + 1
          /\ \A a \in 1 .. Len(completeQueue) : completeQueue'[a] = completeQueue[a]
          /\ completeQueue'[Len(completeQueue) + 1] = currentIrp
      BY <1>0, <1>1, <2>1 DEF RequestTypes
    <3>2. completeQueue \in Seq(Irps) /\ DOMAIN completeQueue = 1 .. Len(completeQueue)
          /\ DOMAIN completeQueue' = 1 .. Len(completeQueue) + 1 /\ Len(completeQueue) \in Nat
      BY <1>1, <3>1 DEF RequestTypes
    <3>3. ASSUME NEW x \in ToSet(completeQueue')
          PROVE  x \in Irps /\ (x \in ToSet(completeQueue) \/ x = currentIrp)
      <4>1. PICK a \in 1 .. Len(completeQueue) + 1 : x = completeQueue'[a]
        BY <3>2, <3>3 DEF ToSet
      <4>2. CASE a = Len(completeQueue) + 1
        BY <1>1, <2>1, <3>1, <4>1, <4>2
      <4>3. CASE a \in 1 .. Len(completeQueue)
        BY <3>1, <3>2, <4>1, <4>3 DEF ToSet
      <4> QED BY <3>2, <4>1, <4>2, <4>3
    <3> QED BY <3>1, <3>3
  <2>2. CASE ~TransferOver
    BY <1>0, <1>1, <2>2 DEF ToSet, RequestTypes
  <2> QED BY <2>1, <2>2
<1>f. \A a \in 1 .. Len(workQueue) :
        workQueue[a] \in Irps /\ workQueue[a] # None
        /\ workQueue[a] \notin completed \union ToSet(completeQueue')
  BY <1>1, <1>e, PortFacts DEF RequestTypes, QueueInv
<1>g. None \notin completed \union ToSet(completeQueue')
  BY <1>1, <1>e, PortFacts DEF RequestTypes
<1> HIDE DEF Port, Stall, Busy
<1>2. CASE events > 0
  <2>1. /\ ioState' = "readQuery" /\ currentIrp' = None /\ UNCHANGED <<workQueue, ioRemain>>
        /\ Port = Command("query") /\ Stall = noWorkStall + 1 /\ Busy = ecBusy
    BY <1>2 DEF Initiate, Port, Stall, Busy
  <2>2. RequestTypes'
    BY <1>0, <1>1, <1>e, <2>1 DEF RequestTypes
  <2>3. LoopTypes'
    BY <1>0, <1>1, <1>a, <1>b, <1>c, <2>1, PortFacts DEF LoopTypes, ownerVars
  <2>4. OwnerInv' /\ WakeInv'
    <3>1. pc' # "cancel" /\ (~ecBusy' => timeout')
      BY <1>a, <1>b, <2>1
    <3>2. pc' \notin {"finish", "leave", "out"}
      BY <1>a, <1>b, <2>1
    <3> QED BY <1>0, <1>1, <1>b, <3>1, <3>2 DEF OwnerInv, WakeInv, ownerVars
  <2>5. QueueInv'
    BY <1>0, <1>1, <1>f, <1>g, <2>1 DEF QueueInv
  <2>6. QueryPhase'
    BY <1>0, <1>1, <1>b, <2>1 DEF QueryPhase, OnItsWay, Nothing, Rests, Controller, Command, ecVars
  <2>7. PhaseInv'
    BY <1>0, <2>1, <2>6 DEF PhaseInv, Paused
  <2> QED BY <1>d, <2>2, <2>3, <2>4, <2>5, <2>7 DEF IInv, TypeOK
<1>3. CASE ~(events > 0) /\ workQueue # <<>>
  <2>1. /\ ioState' = "nextByte"
        /\ currentIrp' = Head(workQueue) /\ workQueue' = Tail(workQueue)
        /\ ioRemain' = length[Head(workQueue)]
        /\ Port = None /\ Stall = 0 /\ Busy = ecBusy
    BY <1>3 DEF Initiate, Port, Stall, Busy
  <2>a. /\ workQueue' \in Seq(Irps) /\ Head(workQueue) = workQueue[1]
        /\ Len(workQueue) \in Nat \ {0} /\ Len(workQueue') = Len(workQueue) - 1
        /\ \A a \in 1 .. Len(workQueue') : workQueue'[a] = workQueue[a + 1]
    BY <1>1, <1>3, <2>1 DEF RequestTypes
  <2>b. /\ currentIrp' = workQueue[1] /\ currentIrp' \in Irps
        /\ ioRemain' = length[currentIrp'] /\ ioRemain' \in 0 .. MaxAddress
    BY <1>1, <1>f, <2>1, <2>a DEF RequestTypes
  <2>2. RequestTypes'
    BY <1>0, <1>1, <1>e, <2>1, <2>a, <2>b DEF RequestTypes
  <2>3. LoopTypes'
    BY <1>0, <1>1, <1>a, <1>b, <1>c, <2>1, <2>b, PortFacts DEF LoopTypes, ownerVars
  <2>4. OwnerInv' /\ WakeInv'
    <3>1. pc' # "cancel" /\ (~ecBusy' => timeout')
      BY <1>a, <1>b, <2>1
    <3>2. pc' \notin {"finish", "leave", "out"}
      BY <1>a, <1>b, <2>1
    <3> QED BY <1>0, <1>1, <1>b, <3>1, <3>2 DEF OwnerInv, WakeInv, ownerVars
  <2>5. QueueInv'
    <3>1. \A a \in 1 .. Len(workQueue') :
            a + 1 \in 1 .. Len(workQueue) /\ workQueue'[a] = workQueue[a + 1] /\ a + 1 # 1
      BY <2>a
    <3>2. 1 \in 1 .. Len(workQueue)
      BY <2>a
    <3> QED BY <1>0, <1>1, <1>f, <2>b, <3>1, <3>2 DEF QueueInv
  <2>6. BetweenPhase'
    BY <1>0, <1>1, <1>b, <2>1, <2>b DEF BetweenPhase, Nothing, Rests, Controller, ecVars
  <2>7. PhaseInv'
    BY <1>0, <2>2, <2>3, <2>b, <2>6 DEF PhaseInv, Paused, RequestTypes, LoopTypes
  <2> QED BY <1>d, <2>2, <2>3, <2>4, <2>5, <2>7 DEF IInv, TypeOK
<1>4. CASE ~(events > 0) /\ workQueue = <<>>
  <2>1. /\ ioState' = "none" /\ currentIrp' = None /\ UNCHANGED <<workQueue, ioRemain>>
        /\ Port = None /\ Stall = noWorkStall + 1 /\ Busy = FALSE
    BY <1>4 DEF Initiate, Port, Stall, Busy
  <2>2. RequestTypes'
    BY <1>0, <1>1, <1>e, <2>1 DEF RequestTypes
  <2>3. LoopTypes'
    BY <1>0, <1>1, <1>a, <1>b, <1>c, <2>1, PortFacts DEF LoopTypes, ownerVars
  <2>4. OwnerInv'
    BY <1>0, <1>1, <1>a, <1>b, <2>1 DEF OwnerInv, LoopTypes, Nothing, ownerVars, ecVars
  <2>5. WakeInv'
    BY <1>0, <1>1, <1>4, <2>1 DEF WakeInv, Awaited, EcTypes, ecVars
  <2>6. QueueInv'
    BY <1>0, <1>1, <1>f, <1>g, <2>1 DEF QueueInv
  <2>7. NoPhase'
    BY <1>0, <1>1, <1>b, <2>1 DEF NoPhase, Nothing, Rests, Controller, ecVars
  <2>8. PhaseInv'
    BY <1>0, <2>1, <2>7 DEF PhaseInv, Paused
  <2> QED BY <1>d, <2>2, <2>3, <2>4, <2>5, <2>6, <2>8 DEF IInv, TypeOK
<1> QED BY <1>2, <1>3, <1>4

LEMMA FinishStep ==
  ASSUME IInv, FinishIoLoop
  PROVE  IInv'
<1>0. /\ completed' = completed \union ToSet(completeQueue) /\ completeQueue' = <<>>
      /\ length' = [i \in Irps |-> IF i \in completed' THEN 0 ELSE length[i]]
      /\ transfer' = [i \in Irps |-> IF i \in completed' THEN "read" ELSE transfer[i]]
      /\ processQuery' = FALSE /\ noWorkStall' = 0 /\ timeout' = FALSE /\ ecBusy' = TRUE
      /\ burstEnabled' = FALSE /\ pc' = "leave" /\ pc = "finish"
      /\ UNCHANGED <<workQueue, currentIrp, calls, ioVars, ownerVars, writePort, ecVars, gpeStatus,
                     moved>>
      /\ RequestTypes /\ LoopTypes /\ EcTypes /\ QueueInv
  BY DEF FinishIoLoop, IInv, TypeOK
<1>1. completed' \subseteq Irps
  BY <1>0 DEF RequestTypes, ToSet
<1>2. RequestTypes'
  <2>1. 0 \in 0 .. MaxAddress /\ completeQueue' \in Seq(Irps)
    BY <1>0, PortFacts
  <2>2. length' \in [Irps -> 0 .. MaxAddress] /\ transfer' \in [Irps -> {"read", "write"}]
    BY <1>0, <2>1 DEF RequestTypes
  <2> QED BY <1>0, <1>1, <2>1, <2>2 DEF RequestTypes
<1>3. LoopTypes' /\ EcTypes'
  <2>1. LoopTypes'
    BY <1>0 DEF LoopTypes, ioVars, ownerVars
  <2> QED BY <1>0, <2>1, TypesKept
<1>4. currentIrp # None => /\ length'[currentIrp] = length[currentIrp]
                           /\ transfer'[currentIrp] = transfer[currentIrp]
  BY <1>0 DEF QueueInv, RequestTypes
<1>5. PhaseInv'
  BY <1>0, <1>4, PhaseKept DEF IInv, ecVars
<1>6. OwnerInv' /\ WakeInv'
  BY <1>0 DEF IInv, OwnerInv, WakeInv, Awaited, ioVars, ownerVars, ecVars, LoopTypes
<1>7. QueueInv'
  <2>1. ToSet(completeQueue') = {}
    BY <1>0 DEF ToSet
  <2> QED BY <1>0, <2>1 DEF QueueInv
<1> QED BY <1>2, <1>3, <1>5, <1>6, <1>7 DEF IInv, TypeOK

-----------------------------------------------------------------------------
(* The theorems. *)

LEMMA NextIInv == IInv /\ [Next]_vars => IInv'
<1> SUFFICES ASSUME IInv, [Next]_vars PROVE IInv'
  OBVIOUS
<1>1. ASSUME NEW i \in Irps, NEW n \in Lengths, NEW t \in {"read", "write"}, ReadWrite(i, n, t)
      PROVE  IInv'
  BY <1>1, ReadWriteStep
<1>2. CASE Loop
  BY <1>2, PortStep, LeaveStep, TakeOutputStep, WaitStep, NextByteStep, AddressStep,
     WriteByteStep, InitiateStep, FinishStep DEF Loop
<1>3. CASE UNCHANGED vars
  <2>1. TypeOK'
    BY <1>3, TypesKept DEF IInv, TypeOK, vars, requestVars, ownerVars, loopVars
  <2>2. PhaseInv' /\ QueueInv'
    BY <1>3, PhaseKept, QueueKept DEF IInv, vars, requestVars, loopVars, ecVars
  <2>3. OwnerInv' /\ WakeInv'
    BY <1>3 DEF IInv, OwnerInv, WakeInv, Awaited, vars, requestVars, ioVars, ownerVars, loopVars,
       ecVars
  <2> QED BY <2>1, <2>2, <2>3 DEF IInv
<1> QED BY <1>1, <1>2, <1>3, CallerStep, ControllerStep DEF Next

LEMMA Inductive == Spec => []IInv
  BY InitIInv, NextIInv, PTL DEF Spec

\* Driver and controller agree at every moment on what is sent next: an
\* address, a byte or a command (AcpiEcServiceIoLoop).
THEOREM DriverAndControllerInStep == Spec => []InStep
<1>1. IInv => InStep
  <2> SUFFICES ASSUME IInv PROVE InStep
    OBVIOUS
  <2>0. TypeOK /\ PhaseInv /\ OwnerInv /\ LoopTypes
    BY DEF IInv, TypeOK
  <2>1. pc \in {"write", "cancel"} => ibf = None
    BY <2>0 DEF PhaseInv, OwnerInv, Moving, Paused, NoPhase, QueryPhase, BurstPhase, BetweenPhase,
       AddressPhase, ReadPhase, WritePhase, SentPhase, OnItsWay, Nothing
  <2>2. ibf # None => (expects = "command" <=> ibf.command # None)
    <3> SUFFICES ASSUME ibf # None PROVE expects = "command" <=> ibf.command # None
      OBVIOUS
    <3>1. ~Nothing /\ \A p : OnItsWay(p) => ibf = p
      BY DEF Nothing, OnItsWay
    <3>2. \A c \in Commands : Command(c).command # None
      BY PortFacts
    <3>3. Byte(ioByte).command = None
      BY <2>0, PortFacts DEF LoopTypes
    <3>4. /\ {"cancel", "query", "burst"} \subseteq Commands
          /\ currentIrp \in Irps => transfer[currentIrp] \in Commands
      BY <2>0 DEF Commands, TypeOK, RequestTypes
    <3>5. \/ expects = "command" /\ \E c \in Commands : ibf = Command(c)
          \/ expects # "command" /\ ibf = Byte(ioByte)
      BY <2>0, <3>1, <3>4 DEF PhaseInv, Moving, Paused, NoPhase, QueryPhase, BurstPhase,
         BetweenPhase, AddressPhase, ReadPhase, WritePhase, SentPhase, Controller, Rests
    <3> QED BY <3>2, <3>3, <3>5
  <2>3. obf # None =>
          ioState = CASE obf.answer = "ack"  -> "burstAck"
                      [] obf.answer = "byte" -> "readByte"
                      [] OTHER               -> "readQuery"
    <3> SUFFICES ASSUME obf # None
                 PROVE  ioState = CASE obf.answer = "ack"  -> "burstAck"
                                    [] obf.answer = "byte" -> "readByte"
                                    [] OTHER               -> "readQuery"
      OBVIOUS
    <3>1. \/ ioState = "readQuery" /\ obf.answer \in {"event", "noEvent"}
          \/ ioState = "burstAck" /\ obf.answer = "ack"
          \/ ioState = "readByte" /\ obf.answer = "byte"
      BY <2>0 DEF PhaseInv, Moving, Paused, NoPhase, QueryPhase, BurstPhase,
         BetweenPhase, AddressPhase, ReadPhase, WritePhase, SentPhase, Controller, Rests
    <3> QED BY <3>1
  <2> QED BY <2>0, <2>1, <2>2, <2>3 DEF InStep
<1> QED BY <1>1, Inductive, PTL

\* The owner never leaves work behind that no later event of the controller
\* will bring it back to (the look at Status after GpeClearStatus).
THEOREM WakeupsAreKept == Spec => []NoLostWakeup
<1>1. IInv => NoLostWakeup
  BY DEF IInv, TypeOK, LoopTypes, OwnerInv, WakeInv, Awaited, NoLostWakeup
<1> QED BY <1>1, Inductive, PTL

\* When the loop lets go of a request each of its bytes has been moved, in
\* order and once, whatever burst mode and the time-outs did meanwhile.
THEOREM TransfersAreWhole == Spec => WholeTransfers
<1>1. IInv /\ [Next]_vars =>
        [currentIrp # None /\ currentIrp' # currentIrp =>
           moved = [k \in 1 .. length[currentIrp] |-> <<k, k>>]]_vars
  <2> SUFFICES ASSUME IInv, Next, currentIrp # None, currentIrp' # currentIrp
               PROVE  moved = [k \in 1 .. length[currentIrp] |-> <<k, k>>]
    BY DEF vars, requestVars
  <2>1. Initiate
    BY DEF Next, Refuse, ReadWrite, GpeServiceRoutine, ServiceDevice, Loop, WritePort, CancelBurst,
       ClearGpe, TakeOutput, Wait, NextByte, SendAddress, WriteByte, FinishIoLoop, ServiceAgain,
       LeaveService, EcTake, EcAnswer, EcRaiseEvent, EcDropBurst, EcIdle, LookAgain, requestVars
  <2>2. /\ Ready /\ (ioState = "none" \/ TransferOver)
        /\ ioState = "none" => currentIrp = None
    BY <2>1, ReadyFacts DEF Initiate, NoPhase
  <2>3. /\ Len(moved) = ioByte /\ ioByte + ioRemain = length[currentIrp] /\ ioRemain = 0
        /\ ioByte \in 0 .. MaxAddress
    BY <2>1, <2>2, ReadyFacts DEF TransferOver, LoopTypes, Initiate
  <2>4. /\ moved \in Seq((0 .. MaxAddress) \X (0 .. MaxAddress))
        /\ \A k \in 1 .. Len(moved) : moved[k] = <<k, k>>
    BY DEF IInv, PhaseInv, TypeOK, EcTypes
  <2>5. Len(moved) = length[currentIrp]
    BY <2>3
  <2>6. moved = [k \in 1 .. Len(moved) |-> <<k, k>>]
    BY <2>4
  <2> QED BY <2>5, <2>6
<1> QED BY <1>1, Inductive, PTL DEF Spec, WholeTransfers

-----------------------------------------------------------------------------
(* The queue, as FifoServer sees it. *)

Current  == IF currentIrp = None THEN <<>> ELSE <<currentIrp>>
Waiting  == Current \o workQueue
Finished == completed \union ToSet(completeQueue)

LEMMA WaitingFacts ==
  ASSUME IInv
  PROVE  /\ Current \in Seq(Irps) /\ workQueue \in Seq(Irps) /\ completeQueue \in Seq(Irps)
         /\ Waiting \in Seq(Irps)
         /\ ToSet(Waiting) \subseteq ToSet(workQueue) \union {currentIrp}
         /\ None \notin Irps
<1>1. /\ Current \in Seq(Irps) /\ workQueue \in Seq(Irps) /\ completeQueue \in Seq(Irps)
      /\ None \notin Irps
  BY PortFacts DEF IInv, TypeOK, RequestTypes, Current
<1>2. /\ Waiting \in Seq(Irps) /\ Len(Waiting) = Len(Current) + Len(workQueue)
      /\ \A k \in 1 .. Len(Waiting) :
           Waiting[k] = IF k <= Len(Current) THEN Current[k] ELSE workQueue[k - Len(Current)]
  <2> HIDE DEF Current
  <2> QED BY <1>1 DEF Waiting
<1>3. \A k \in 1 .. Len(Current) : Current[k] = currentIrp
  BY DEF Current
<1>4. ASSUME NEW x \in ToSet(Waiting) PROVE x \in ToSet(workQueue) \union {currentIrp}
  <2>1. PICK k \in 1 .. Len(Waiting) : x = Waiting[k]
    BY <1>2, <1>4 DEF ToSet
  <2>2. Len(Current) \in Nat /\ Len(workQueue) \in Nat
    BY <1>1
  <2>3. CASE k <= Len(Current)
    BY <1>2, <1>3, <2>1, <2>2, <2>3
  <2>4. CASE ~(k <= Len(Current))
    <3>1. k - Len(Current) \in 1 .. Len(workQueue) /\ x = workQueue[k - Len(Current)]
      BY <1>2, <2>1, <2>2, <2>4
    <3> QED BY <1>1, <3>1 DEF ToSet
  <2> QED BY <2>3, <2>4
<1> QED BY <1>1, <1>2, <1>4

LEMMA FifoStep ==
  ASSUME IInv, Next
  PROVE  \/ \E i \in Irps : /\ i \notin ToSet(Waiting) \union Finished
                            /\ \/ Waiting' = Append(Waiting, i) /\ Finished' = Finished
                               \/ Finished' = Finished \union {i} /\ Waiting' = Waiting
         \/ /\ Waiting # <<>> /\ Waiting' = Tail(Waiting)
            /\ Finished' = Finished \union {Head(Waiting)}
         \/ Waiting' = Waiting /\ Finished' = Finished
<1>1. ASSUME NEW i \in Irps, NEW n \in Lengths, Refuse(i, n)
      PROVE  /\ i \notin ToSet(Waiting) \union Finished
             /\ Finished' = Finished \union {i} /\ Waiting' = Waiting
  BY <1>1, WaitingFacts DEF Refuse, Known, Waiting, Current, Finished, loopVars
<1>2. ASSUME NEW i \in Irps, NEW n \in Lengths, NEW t \in {"read", "write"}, ReadWrite(i, n, t)
      PROVE  /\ i \notin ToSet(Waiting) \union Finished
             /\ Waiting' = Append(Waiting, i) /\ Finished' = Finished
  <2>1. i \notin ToSet(Waiting) \union Finished
    BY <1>2, WaitingFacts DEF ReadWrite, Known, Finished
  <2>2. workQueue' = Append(workQueue, i) /\ Current' = Current /\ Finished' = Finished
    BY <1>2 DEF ReadWrite, Enqueue, Current, Finished, loopVars
  <2>3. Waiting' = Append(Waiting, i)
    <3> HIDE DEF Current
    <3> QED BY <2>2, WaitingFacts DEF Waiting
  <2> QED BY <2>1, <2>2, <2>3
<1>3. CASE Initiate
  <2>1. /\ Ready /\ (ioState = "none" \/ TransferOver)
        /\ completeQueue' = IF TransferOver THEN Append(completeQueue, currentIrp)
                            ELSE completeQueue
        /\ UNCHANGED completed
        /\ \/ currentIrp' = None /\ workQueue' = workQueue
           \/ /\ workQueue # <<>> /\ currentIrp' = Head(workQueue)
              /\ workQueue' = Tail(workQueue)
    BY <1>3 DEF Initiate
  <2>2. Waiting' = workQueue
    <3>1. CASE currentIrp' = None /\ workQueue' = workQueue
      BY <3>1, WaitingFacts DEF Waiting, Current
    <3>2. CASE /\ workQueue # <<>> /\ currentIrp' = Head(workQueue)
               /\ workQueue' = Tail(workQueue)
      <4>1. currentIrp' # None
        BY <3>2, WaitingFacts
      <4>2. Waiting' = <<Head(workQueue)>> \o Tail(workQueue)
        BY <3>2, <4>1 DEF Waiting, Current
      <4> QED BY <3>2, <4>2, WaitingFacts
    <3> QED BY <2>1, <3>1, <3>2
  <2>3. CASE TransferOver
    <3>1. currentIrp \in Irps /\ Current = <<currentIrp>>
      BY <2>1, <2>3, ReadyFacts, WaitingFacts DEF TransferOver, BetweenPhase, Current
    <3>2. Waiting # <<>> /\ workQueue = Tail(Waiting) /\ currentIrp = Head(Waiting)
      BY <3>1, WaitingFacts DEF Waiting
    <3>3. ToSet(completeQueue') = ToSet(completeQueue) \union {currentIrp}
      <4>1. /\ Len(completeQueue) \in Nat /\ DOMAIN completeQueue = 1 .. Len(completeQueue)
            /\ DOMAIN completeQueue' = 1 .. Len(completeQueue) + 1
            /\ \A a \in 1 .. Len(completeQueue) : completeQueue'[a] = completeQueue[a]
            /\ completeQueue'[Len(completeQueue) + 1] = currentIrp
        BY <2>1, <2>3, <3>1, WaitingFacts
      <4>2. \A a \in 1 .. Len(completeQueue) + 1 :
              a \in 1 .. Len(completeQueue) \/ a = Len(completeQueue) + 1
        BY <4>1
      <4>3. Len(completeQueue) + 1 \in 1 .. Len(completeQueue) + 1
            /\ \A a \in 1 .. Len(completeQueue) : a \in 1 .. Len(completeQueue) + 1
        BY <4>1
      <4> QED BY <4>1, <4>2, <4>3 DEF ToSet
    <3> QED BY <2>1, <2>2, <3>2, <3>3 DEF Finished
  <2>4. CASE ~TransferOver
    <3>1. currentIrp = None
      BY <2>1, <2>4, ReadyFacts DEF NoPhase
    <3>2. Waiting = workQueue
      BY <3>1, WaitingFacts DEF Waiting, Current
    <3> QED BY <2>1, <2>2, <2>4, <3>2 DEF Finished
  <2> QED BY <2>3, <2>4
<1>4. CASE FinishIoLoop
  <2>1. ToSet(completeQueue') = {}
    BY <1>4 DEF FinishIoLoop, ToSet
  <2> QED BY <1>4, <2>1 DEF FinishIoLoop, Waiting, Current, Finished
<1>5. CASE UNCHANGED <<currentIrp, workQueue, completed, completeQueue>>
  BY <1>5 DEF Waiting, Current, Finished
<1>6. \/ \E i \in Irps, n \in Lengths :
           Refuse(i, n) \/ \E t \in {"read", "write"} : ReadWrite(i, n, t)
      \/ Initiate \/ FinishIoLoop
      \/ UNCHANGED <<currentIrp, workQueue, completed, completeQueue>>
  BY DEF Next, GpeServiceRoutine, ServiceDevice, EnterIoLoop, Loop, WritePort, CancelBurst,
     ClearGpe, TakeOutput, Wait, NextByte, SendAddress, WriteByte, ServiceAgain,
     LeaveService, EcTake, EcAnswer, EcRaiseEvent, EcDropBurst, EcIdle, LookAgain, requestVars,
     loopVars
<1> QED BY <1>1, <1>2, <1>3, <1>4, <1>5, <1>6

\* The safety part of the refinement: whoever owns the service loop, requests
\* are served one at a time and in the order in which AcpiEcReadWrite took them.
THEOREM ServiceImplementsFifo == Spec => Queue!Init /\ [][Queue!Next]_(Queue!vars)
<1>1. Init => Queue!Init
  BY DEF Init, Queue!Init, ToSet
<1>2. IInv /\ [Next]_vars => [Queue!Next]_(Queue!vars)
  <2> SUFFICES ASSUME IInv, [Next]_vars PROVE [Queue!Next]_(Queue!vars)
    OBVIOUS
  <2>1. CASE Next
    <3>1. ASSUME NEW i \in Irps, i \notin ToSet(Waiting) \union Finished,
                 Waiting' = Append(Waiting, i), Finished' = Finished
          PROVE  Queue!Submit(i)
      BY <3>1 DEF Queue!Submit, Queue!ToSet, ToSet, Waiting, Current, Finished
    <3>2. ASSUME NEW i \in Irps, i \notin ToSet(Waiting) \union Finished,
                 Finished' = Finished \union {i}, Waiting' = Waiting
          PROVE  Queue!Refuse(i)
      BY <3>2 DEF Queue!Refuse, Queue!ToSet, ToSet, Waiting, Current, Finished
    <3>3. ASSUME Waiting # <<>>, Waiting' = Tail(Waiting),
                 Finished' = Finished \union {Head(Waiting)}
          PROVE  Queue!Serve
      BY <3>3 DEF Queue!Serve, Waiting, Current, Finished
    <3>4. ASSUME Waiting' = Waiting, Finished' = Finished
          PROVE  UNCHANGED Queue!vars
      BY <3>4 DEF Queue!vars, Waiting, Current, Finished
    <3> QED BY <2>1, <3>1, <3>2, <3>3, <3>4, FifoStep DEF Queue!Next
  <2>2. CASE UNCHANGED vars
    BY <2>2 DEF vars, requestVars, loopVars, Queue!vars
  <2> QED BY <2>1, <2>2
<1> QED BY <1>1, <1>2, Inductive, PTL DEF Spec
=============================================================================
