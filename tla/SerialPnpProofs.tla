--------------------------- MODULE SerialPnpProofs ---------------------------
(***************************************************************************)
(* Proofs about SerialPnp, for any files, reads and control requests: the  *)
(* count of requests is exact and the answer to a query is kept, whatever  *)
(* minor functions the plug-and-play manager may send; and for a device    *)
(* that is not asked to stop, nobody works on it when the wait of its      *)
(* removal is over, and it is open to one file at a time.                  *)
(*                                                                         *)
(* The second half rests on the first.  What it adds is why the event of   *)
(* a removal can be trusted - the count reaches zero only for whoever has  *)
(* shut the gate before - and who of the creates and closes in the driver  *)
(* OpenCount stands for.                                                   *)
(***************************************************************************)
EXTENDS SerialPnp, FiniteSetTheorems, TLAPS

-----------------------------------------------------------------------------
(* The inductive invariant, for all minor functions. *)

\* Which requests come where.
KindInv ==
  \A r \in Requests :
    /\ pc[r] \in {"checked", "locked", "denied", "failing"} => r \in Creates
    /\ pc[r] = "pending" => r[1] = "read"
    /\ pc[r] \in {"closing", "release"} => r \in Closes
    /\ r \in releasing => pc[r] \in {"complete", "epilogue", "signal", "release"}
    /\ pc[r] = "release" => r \in releasing

\* From its test of the state to its verdict a create holds the mutex.
UnderMutex == {"locked", "counted", "stall", "stalled", "deleted", "admitted"}
MutexInv == \A r \in Creates : pc[r] \in UnderMutex <=> openMutex = r

\* A query that was agreed to: nothing open, and the gate closed.
QueryInv ==
  /\ pnpState \in {"qstop", "qremove"} =>
       ~deviceIsOpened /\ \A r \in Creates : pc[r] # "admitted"
  /\ pnpState = "qstop" => "stopping" \in accept
  /\ pnpState = "qremove" => "removing" \in accept

\* After a surprise removal only a removal comes, and nothing after that.
ManagerInv ==
  /\ manager = "removed" => step = "idle"
  /\ manager = "surprised" => minor = "remove" \/ step \in {"idle", "leave", "signal"}
  /\ step \in {"kill", "drain", "drain_base", "wait", "drained", "disconnect", "unstall"} =>
       minor \in {"stop", "start", "surprise", "remove"}
  /\ step = "disconnect" => minor # "remove"
  /\ step = "unstall" => minor = "start"

IInv == TypeOK /\ KindInv /\ MutexInv /\ QueryInv /\ ManagerInv /\ CountExact

-----------------------------------------------------------------------------
(* What is added for a device that is not asked to stop. *)

NoStop ==
  /\ minor \notin {"query_stop", "cancel_stop", "stop", "start"}
  /\ manager \in {"started", "remove_asked", "surprised", "removed"}
  /\ accept \subseteq {"removing", "surprise"}
  /\ \A r \in Requests : pc[r] \notin {"stall", "stalled"}

\* A removal: from its first step on the gate is shut, and once the event was
\* due or its wait is over nothing works on the device.
Going ==
  \/ step \in {"kill", "drain", "drain_base", "wait", "drained", "disconnect"}
  \/ manager \in {"surprised", "removed"}
Over == step \in {"drained", "disconnect"} \/ manager \in {"surprised", "removed"}
Signaled == pendingIRPEvent \/ step = "signal" \/ \E r \in Requests : pc[r] = "signal"
Quiet == \A r \in Requests : pc[r] \notin InDriver
RemovalInv ==
  /\ Going => accept \intersect {"removing", "surprise"} # {}
  /\ Over \/ Signaled => Going /\ Quiet

\* A file is created before it is cleaned up and closed.
FileInv ==
  \A f \in Files :
    /\ f \in opened => pc[<<"create", f>>] \in {"complete", "epilogue", "signal", "done"}
    /\ pc[<<"cleanup", f>>] # "none" => f \in opened
    /\ pc[<<"close", f>>] # "none" => f \in opened

\* The create that found OpenCount at zero, as long as its count is due to be
\* taken back by itself or by the close of its file.
Holds(f) ==
  /\ f \in opened
  /\ \/ pc[<<"close", f>>] \in {"none", "called", "counted", "admitted", "closing", "deleted"}
     \/ <<"close", f>> \in releasing
First  == {r \in Creates : pc[r] = "failing" \/ Holds(r[2])}
Denied == {r \in Creates : pc[r] = "denied"}
OpenInv ==
  /\ \A p, q \in First : p = q
  /\ \/ openCount = Cardinality(First) + Cardinality(Denied)
     \/ First = {} /\ openCount = 1 + Cardinality(Denied)  \* a close was refused
  /\ \A f \in Files : Holds(f) /\ <<"close", f>> \notin releasing => ring

RemovalsOnly == NoStop /\ RemovalInv /\ FileInv /\ OpenInv

-----------------------------------------------------------------------------
(* The requests. *)

LEMMA Kinds ==
  /\ \A r \in Requests : r \in Creates <=> r[1] = "create"
  /\ \A r \in Requests : r \in Closes <=> r[1] = "close"
  /\ Creates \subseteq Requests /\ Closes \subseteq Requests
  /\ \A r \in Creates \union Closes : r[2] \in Files
  /\ \A r \in Creates : r = <<"create", r[2]>>
  /\ \A r \in Closes : r = <<"close", r[2]>>
  /\ \A f \in Files : /\ <<"create", f>> \in Creates /\ <<"close", f>> \in Closes
                      /\ <<"cleanup", f>> \in Requests
  /\ Creates \intersect Closes = {} /\ None \notin Requests
  BY PnpAssumption DEF Requests, Creates, Closes

LEMMA PcMoves ==
  ASSUME TypeOK, NEW r \in Requests, NEW l, pc' = [pc EXCEPT ![r] = l]
  PROVE  pc'[r] = l /\ \A u \in Requests : u # r => pc'[u] = pc[u]
  BY DEF TypeOK, RequestTypes

-----------------------------------------------------------------------------
(* The count. *)

LEMMA InsideIsFinite ==
  /\ IsFiniteSet(Inside) /\ Cardinality(Inside) \in Nat
  /\ \A r \in Inside : Cardinality(Inside) >= 1
<1>1. IsFiniteSet(Inside)
  BY PnpAssumption, FS_Subset DEF Inside
<1>2. ASSUME NEW r \in Inside PROVE Cardinality(Inside) >= 1
  BY <1>1, FS_EmptySet, FS_CardinalityType
<1> QED BY <1>1, <1>2, FS_CardinalityType

In(label) == IF label \in Counted THEN 1 ELSE 0

\* A request that moves changes the number of those inside as its labels say.
LEMMA InsideMoves ==
  ASSUME TypeOK, NEW r \in Requests, NEW l, pc' = [pc EXCEPT ![r] = l]
  PROVE  Cardinality(Inside)' = Cardinality(Inside) + In(l) - In(pc[r])
<1>1. pc'[r] = l /\ \A u \in Requests : u # r => pc'[u] = pc[u]
  BY PcMoves
<1>2. CASE pc[r] \in Counted <=> l \in Counted
  <2>1. Inside' = Inside
    BY <1>1, <1>2 DEF Inside
  <2> QED BY <2>1, <1>2, InsideIsFinite DEF In
<1>3. CASE pc[r] \in Counted /\ l \notin Counted
  <2>1. Inside' = Inside \ {r} /\ r \in Inside
    BY <1>1, <1>3 DEF Inside
  <2>2. Cardinality(Inside') = Cardinality(Inside) - 1
    BY <2>1, InsideIsFinite, FS_RemoveElement
  <2> QED BY <2>2, <1>3, InsideIsFinite DEF In
<1>4. CASE pc[r] \notin Counted /\ l \in Counted
  <2>1. Inside' = Inside \union {r} /\ r \notin Inside
    BY <1>1, <1>4 DEF Inside
  <2>2. Cardinality(Inside') = Cardinality(Inside) + 1
    BY <2>1, InsideIsFinite, FS_AddElement
  <2> QED BY <2>2, <1>4, InsideIsFinite DEF In
<1> QED BY <1>2, <1>3, <1>4

\* What a request's thread does to the labels and to the count.
Move(r, l) ==
  /\ pc' = [pc EXCEPT ![r] = l] /\ l \in Labels
  /\ UNCHANGED <<pnpVars, stalled>>
  /\ pendingIRPCnt' = pendingIRPCnt + In(l) - In(pc[r])
  /\ pendingIRPEvent' \in BOOLEAN

LEMMA MoveKeepsCount ==
  ASSUME TypeOK, CountExact, NEW r \in Requests, NEW l, Move(r, l)
  PROVE  CountExact'
<1>1. Cardinality(Inside)' = Cardinality(Inside) + In(l) - In(pc[r])
  BY InsideMoves DEF Move
<1>2. /\ In(l) \in {0, 1} /\ In(pc[r]) \in {0, 1} /\ Base' = Base /\ PnpInside' = PnpInside
      /\ Missing' = Missing /\ {Base, PnpInside, Missing} \subseteq {0, 1} /\ manager' = manager
  BY DEF In, Base, PnpInside, Missing, Move, pnpVars
<1> QED BY <1>1, <1>2, InsideIsFinite DEF CountExact, Move, TypeOK

LEMMA MoveKeepsTypes ==
  ASSUME TypeOK, NEW r \in Requests, NEW l, Move(r, l), OpenTypes',
         completed' \subseteq Requests, opened' \subseteq Files, releasing' \subseteq Closes
  PROVE  TypeOK'
<1>1. pendingIRPCnt' \in Int
  BY DEF Move, In, TypeOK
<1> QED BY <1>1 DEF Move, TypeOK, RequestTypes, PnpTypes, pnpVars

-----------------------------------------------------------------------------
(* The steps of the requests' threads. *)

\* What a step must see to when it takes request r to label l.
KindRule(r, l) ==
  /\ l \in {"checked", "locked", "denied", "failing"} => r \in Creates
  /\ l = "pending" => r[1] = "read"
  /\ l \in {"closing", "release"} => r \in Closes
  /\ \A u \in Requests : u # r => (u \in releasing' <=> u \in releasing)
  /\ r \in releasing' => l \in {"complete", "epilogue", "signal", "release"}
  /\ l = "release" => r \in releasing'
MutexRule(r, l) ==
  /\ r \in Creates => (l \in UnderMutex <=> openMutex' = r)
  /\ \A u \in Creates : u # r => (openMutex' = u <=> openMutex = u)
QueryRule(r, l) ==
  (r \in Creates /\ l = "admitted") \/ (deviceIsOpened' /\ ~deviceIsOpened) =>
    pnpState \notin {"qstop", "qremove"}

LEMMA MoveStep ==
  ASSUME IInv, NEW r \in Requests, NEW l, Move(r, l),
         OpenTypes', completed' \subseteq Requests, opened' \subseteq Files,
         releasing' \subseteq Closes,
         KindRule(r, l), MutexRule(r, l), QueryRule(r, l)
  PROVE  IInv'
<1>1. TypeOK' /\ CountExact'
  BY MoveKeepsCount, MoveKeepsTypes DEF IInv
<1>2. pc'[r] = l /\ \A u \in Requests : u # r => pc'[u] = pc[u]
  BY PcMoves DEF IInv, Move
<1>3. KindInv'
  BY <1>2 DEF IInv, KindInv, KindRule
<1>4. MutexInv'
  BY <1>2, Kinds DEF IInv, MutexInv, MutexRule
<1>5. QueryInv'
  BY <1>2, Kinds DEF IInv, QueryInv, QueryRule, Move, pnpVars
<1>6. ManagerInv'
  BY DEF IInv, ManagerInv, Move, pnpVars
<1> QED BY <1>1, <1>3, <1>4, <1>5, <1>6 DEF IInv

\* Steps that change nothing of what creates and closes share.
LEMMA PlainStep ==
  ASSUME IInv, NEW r \in Requests, NEW l, Move(r, l), UNCHANGED openVars,
         UNCHANGED <<opened, releasing>>, completed' \subseteq Requests,
         KindRule(r, l), r \in Creates => (l \in UnderMutex <=> pc[r] \in UnderMutex),
         r \in Creates /\ l = "admitted" => pnpState \notin {"qstop", "qremove"}
  PROVE  IInv'
<1>1. OpenTypes' /\ opened' \subseteq Files /\ releasing' \subseteq Closes
  BY DEF IInv, TypeOK, OpenTypes, RequestTypes, openVars
<1>2. MutexRule(r, l) /\ QueryRule(r, l)
  BY DEF IInv, MutexInv, MutexRule, QueryRule, openVars
<1> QED BY <1>1, <1>2, MoveStep

LEMMA ArrivalStep ==
  ASSUME IInv, NEW r \in Requests,
         Arrive(r) \/ CheckState(r) \/ Enter(r) \/ Filter(r) \/ Stall(r)
  PROVE  IInv'
<1>0. pc[r] \in Labels /\ (r \in releasing => pc[r] \in {"complete", "epilogue", "signal", "release"})
      /\ pendingIRPCnt \in Int /\ pendingIRPEvent \in BOOLEAN /\ completed \subseteq Requests
  BY DEF IInv, TypeOK, RequestTypes, KindInv
<1>1. CASE Arrive(r)
  <2>1. Move(r, "called")
    BY <1>0, <1>1 DEF Arrive, Goto, Move, In, Counted, InDriver, Labels, countVars
  <2>2. KindRule(r, "called")
    BY <1>0, <1>1 DEF Arrive, KindRule
  <2> QED BY <1>0, <1>1, <2>1, <2>2, PlainStep DEF Arrive, UnderMutex
<1>2. CASE CheckState(r)
  <2>1. PICK l \in {"checked", "done"} : pc' = [pc EXCEPT ![r] = l]
    BY <1>2 DEF CheckState, Goto
  <2>2. Move(r, l)
    BY <1>0, <1>2, <2>1 DEF CheckState, Move, In, Counted, InDriver, Labels, countVars
  <2>3. KindRule(r, l)
    BY <1>0, <1>2, <2>1 DEF CheckState, KindRule
  <2> QED BY <1>0, <1>2, <2>1, <2>2, <2>3, PlainStep DEF CheckState, UnderMutex
<1>3. CASE Enter(r)
  <2>1. pc[r] = IF r \in Creates THEN "locked" ELSE "called"
    BY <1>3 DEF Enter
  <2>2. Move(r, "counted")
    BY <1>0, <1>3, <2>1 DEF Enter, Goto, Move, In, Counted, InDriver, Labels
  <2>3. KindRule(r, "counted")
    BY <1>0, <1>3, <2>1 DEF Enter, KindRule
  <2> QED BY <1>0, <1>3, <2>1, <2>2, <2>3, PlainStep DEF Enter, UnderMutex
<1>4. CASE Filter(r)
  <2>1. pc[r] = "counted" /\ pc' = [pc EXCEPT ![r] = Verdict] /\ Verdict \in {"admitted", "deleted", "stall"}
    BY <1>4 DEF Filter, Goto, Verdict
  <2>2. Move(r, Verdict)
    BY <1>0, <1>4, <2>1 DEF Filter, Move, In, Counted, InDriver, Labels, countVars
  <2>3. KindRule(r, Verdict)
    BY <1>0, <1>4, <2>1 DEF Filter, KindRule
  <2>4. Verdict = "admitted" => pnpState \notin {"qstop", "qremove"}
    BY DEF Verdict, IInv, QueryInv
  <2> QED BY <1>0, <1>4, <2>1, <2>2, <2>3, <2>4, PlainStep DEF Filter, UnderMutex
<1>5. CASE Stall(r)
  <2>1. pc[r] = "stall" /\ pc' = [pc EXCEPT ![r] = "stalled"]
    BY <1>5 DEF Stall, Goto
  <2>2. stalled' \in Seq(Requests)
    BY <1>5 DEF Stall, IInv, TypeOK, RequestTypes
  <2>3. CountExact'
    <3>1. Cardinality(Inside)' = Cardinality(Inside) + In("stalled") - In(pc[r])
      BY <2>1, InsideMoves DEF IInv
    <3>2. In("stalled") = 1 /\ In(pc[r]) = 1
      BY <2>1 DEF In, Counted
    <3> QED BY <1>5, <3>1, <3>2, InsideIsFinite DEF IInv, CountExact, Stall, Base, PnpInside,
           Missing, pnpVars, countVars
  <2>4. TypeOK'
    BY <1>5, <2>1, <2>2 DEF IInv, TypeOK, RequestTypes, OpenTypes, PnpTypes, Stall, Labels, Counted,
       InDriver, openVars, pnpVars, countVars
  <2>5. pc'[r] = "stalled" /\ \A u \in Requests : u # r => pc'[u] = pc[u]
    BY <2>1, PcMoves DEF IInv
  <2>6. KindInv' /\ MutexInv' /\ QueryInv' /\ ManagerInv'
    BY <1>5, <2>1, <2>5, Kinds DEF IInv, KindInv, MutexInv, QueryInv, ManagerInv, UnderMutex, Stall,
       openVars, pnpVars
  <2> QED BY <2>3, <2>4, <2>6 DEF IInv
<1> QED BY <1>1, <1>2, <1>3, <1>4, <1>5

LEMMA DepartureStep ==
  ASSUME IInv, NEW r \in Requests,
         CompleteRequest(r) \/ Epilogue(r) \/ SetEvent(r) \/ StartRead(r) \/ FinishRead(r)
         \/ ControlDevice(r)
  PROVE  IInv'
<1>0. pc[r] \in Labels /\ (r \in releasing => pc[r] \in {"complete", "epilogue", "signal", "release"})
      /\ pendingIRPCnt \in Int /\ pendingIRPEvent \in BOOLEAN /\ completed \subseteq Requests
      /\ releasing \subseteq Closes
  BY DEF IInv, TypeOK, RequestTypes, KindInv
<1>1. CASE CompleteRequest(r)
  <2>1. pc[r] = "complete" /\ Move(r, "epilogue")
    BY <1>0, <1>1 DEF CompleteRequest, Goto, Move, In, Counted, InDriver, Labels, countVars
  <2>2. KindRule(r, "epilogue")
    BY <1>0, <1>1 DEF CompleteRequest, KindRule
  <2> QED BY <1>0, <1>1, <2>1, <2>2, PlainStep DEF CompleteRequest, UnderMutex
<1>2. CASE Epilogue(r)
  <2> DEFINE l == IF LastOut(pendingIRPCnt - 1) THEN "signal" ELSE AfterEpilogue(r)
  <2>1. pc[r] = "epilogue" /\ pc' = [pc EXCEPT ![r] = l] /\ l \in {"signal", "release", "done"}
        /\ (l = "release" => r \in releasing) /\ (r \in releasing => l # "done")
    BY <1>2 DEF Epilogue, Goto, AfterEpilogue
  <2> HIDE DEF l
  <2>2. Move(r, l)
    BY <1>0, <1>2, <2>1 DEF Epilogue, Move, In, Counted, InDriver, Labels
  <2>3. KindRule(r, l)
    BY <1>0, <1>2, <2>1 DEF Epilogue, KindRule
  <2> QED BY <1>0, <1>2, <2>1, <2>2, <2>3, PlainStep DEF Epilogue, UnderMutex
<1>3. CASE SetEvent(r)
  <2>1. PICK l \in {"release", "done"} : pc' = [pc EXCEPT ![r] = l] /\ (l = "release" <=> r \in releasing)
    BY <1>3 DEF SetEvent, Goto, AfterEpilogue
  <2>2. Move(r, l)
    BY <1>0, <1>3, <2>1 DEF SetEvent, Move, In, Counted, InDriver, Labels
  <2>3. KindRule(r, l)
    BY <1>0, <1>3, <2>1 DEF SetEvent, KindRule
  <2> QED BY <1>0, <1>3, <2>1, <2>2, <2>3, PlainStep DEF SetEvent, UnderMutex
<1>4. CASE StartRead(r)
  <2>1. pc[r] = "admitted" /\ r[1] = "read" /\ Move(r, "pending")
    BY <1>0, <1>4 DEF StartRead, Admitted, Goto, Move, In, Counted, InDriver, Labels, countVars
  <2>2. KindRule(r, "pending") /\ r \notin Creates
    BY <1>0, <1>4, <2>1, Kinds DEF StartRead, KindRule
  <2> QED BY <1>0, <1>4, <2>1, <2>2, PlainStep DEF StartRead
<1>5. CASE FinishRead(r)
  <2>1. pc[r] = "pending" /\ r[1] = "read" /\ Move(r, "complete")
    BY <1>0, <1>5 DEF FinishRead, Goto, Move, In, Counted, InDriver, Labels, countVars, IInv, KindInv
  <2>2. KindRule(r, "complete") /\ r \notin Creates
    BY <1>0, <1>5, <2>1, Kinds DEF FinishRead, KindRule
  <2> QED BY <1>0, <1>5, <2>1, <2>2, PlainStep DEF FinishRead
<1>6. CASE ControlDevice(r)
  <2>1. pc[r] = "admitted" /\ r[1] = "control" /\ Move(r, "complete")
    BY <1>0, <1>6 DEF ControlDevice, Admitted, Goto, Move, In, Counted, InDriver, Labels, countVars
  <2>2. KindRule(r, "complete") /\ r \notin Creates
    BY <1>0, <1>6, <2>1, Kinds DEF ControlDevice, KindRule
  <2> QED BY <1>0, <1>6, <2>1, <2>2, PlainStep DEF ControlDevice
<1> QED BY <1>1, <1>2, <1>3, <1>4, <1>5, <1>6

LEMMA CreateStep ==
  ASSUME IInv, NEW r \in Requests,
         LockOpen(r) \/ OpenDevice(r) \/ OpenFails(r) \/ OpenDenied(r) \/ UndoOpen(r)
  PROVE  IInv'
<1>0. /\ pc[r] \in Labels /\ (r \in releasing => pc[r] \in {"complete", "epilogue", "signal", "release"})
      /\ pendingIRPCnt \in Int /\ pendingIRPEvent \in BOOLEAN /\ completed \subseteq Requests
      /\ releasing \subseteq Closes /\ opened \subseteq Files /\ openCount \in Int /\ ring \in BOOLEAN
      /\ openMutex \in Creates \union {None} /\ deviceIsOpened \in BOOLEAN
  BY DEF IInv, TypeOK, RequestTypes, OpenTypes, KindInv
<1>1. CASE LockOpen(r)
  <2>1. r \in Creates /\ pc[r] = "checked" /\ Move(r, "locked")
    BY <1>0, <1>1 DEF LockOpen, Goto, Move, In, Counted, InDriver, Labels, countVars, IInv, KindInv
  <2>2. KindRule(r, "locked") /\ QueryRule(r, "locked")
    BY <1>0, <1>1, <2>1 DEF LockOpen, KindRule, QueryRule
  <2>3. MutexRule(r, "locked")
    BY <1>1, <2>1, Kinds DEF LockOpen, MutexRule, UnderMutex, IInv, MutexInv
  <2>4. OpenTypes'
    BY <1>0, <1>1, <2>1 DEF LockOpen, OpenTypes
  <2> QED BY <1>0, <1>1, <2>1, <2>2, <2>3, <2>4, MoveStep DEF LockOpen
<1>2. ASSUME OpenDevice(r) \/ OpenFails(r) \/ OpenDenied(r)
      PROVE  IInv'
  <2>1. /\ r \in Creates /\ pc[r] = "admitted" /\ openMutex = r /\ openMutex' = None
        /\ pnpState \notin {"qstop", "qremove"} /\ r[2] \in Files
    BY <1>2, Kinds DEF OpenDevice, OpenFails, OpenDenied, Admitted, IInv, MutexInv, UnderMutex, QueryInv
  <2>2. PICK l \in {"complete", "failing", "denied"} : pc' = [pc EXCEPT ![r] = l]
    BY <1>2 DEF OpenDevice, OpenFails, OpenDenied, Goto
  <2>3. Move(r, l)
    BY <1>0, <1>2, <2>1, <2>2 DEF OpenDevice, OpenFails, OpenDenied, Move, In, Counted, InDriver,
       Labels, countVars
  <2>4. KindRule(r, l) /\ QueryRule(r, l)
    BY <1>0, <1>2, <2>1, <2>2 DEF OpenDevice, OpenFails, OpenDenied, KindRule, QueryRule
  <2>5. MutexRule(r, l)
    BY <2>1, <2>2, Kinds DEF MutexRule, UnderMutex
  <2>6. OpenTypes' /\ opened' \subseteq Files
    <3>1. openCount + 1 \in Int /\ None \in Creates \union {None}
      BY <1>0
    <3>2. CASE OpenDevice(r)
      BY <1>0, <2>1, <3>1, <3>2 DEF OpenDevice, OpenTypes
    <3>3. CASE OpenFails(r)
      BY <1>0, <3>1, <3>3 DEF OpenFails, OpenTypes
    <3>4. CASE OpenDenied(r)
      BY <1>0, <3>1, <3>4 DEF OpenDenied, OpenTypes
    <3> QED BY <1>2, <3>2, <3>3, <3>4
  <2> QED BY <1>0, <1>2, <2>3, <2>4, <2>5, <2>6, MoveStep DEF OpenDevice, OpenFails, OpenDenied
<1>3. CASE UndoOpen(r)
  <2>1. r \in Creates /\ pc[r] \in {"denied", "failing"} /\ Move(r, "complete")
    BY <1>0, <1>3 DEF UndoOpen, Goto, Move, In, Counted, InDriver, Labels, countVars, IInv, KindInv
  <2>2. KindRule(r, "complete") /\ QueryRule(r, "complete")
    BY <1>0, <1>3, <2>1 DEF UndoOpen, KindRule, QueryRule
  <2>3. MutexRule(r, "complete")
    BY <1>3, <2>1 DEF UndoOpen, MutexRule, UnderMutex, IInv, MutexInv
  <2>4. OpenTypes'
    BY <1>0, <1>3 DEF UndoOpen, OpenTypes
  <2> QED BY <1>0, <1>3, <2>1, <2>2, <2>3, <2>4, MoveStep DEF UndoOpen
<1> QED BY <1>1, <1>2, <1>3

LEMMA CloseStep ==
  ASSUME IInv, NEW r \in Requests, Reject(r) \/ BeginClose(r) \/ EndClose(r) \/ ReleaseOpen(r)
  PROVE  IInv'
<1>0. /\ pc[r] \in Labels /\ (r \in releasing => pc[r] \in {"complete", "epilogue", "signal", "release"})
      /\ pendingIRPCnt \in Int /\ pendingIRPEvent \in BOOLEAN /\ completed \subseteq Requests
      /\ releasing \subseteq Closes /\ opened \subseteq Files /\ openCount \in Int /\ ring \in BOOLEAN
      /\ openMutex \in Creates \union {None} /\ deviceIsOpened \in BOOLEAN
  BY DEF IInv, TypeOK, RequestTypes, OpenTypes, KindInv
<1>1. CASE Reject(r)
  <2>1. pc[r] \in {"deleted", "stalled"} /\ Move(r, "epilogue")
    BY <1>0, <1>1 DEF Reject, Goto, Move, In, Counted, InDriver, Labels, countVars
  <2>2. KindRule(r, "epilogue") /\ QueryRule(r, "epilogue")
    BY <1>0, <1>1, <2>1, Kinds DEF Reject, KindRule, QueryRule, IfClose
  <2>3. MutexRule(r, "epilogue")
    BY <1>1, <2>1, Kinds DEF Reject, MutexRule, UnderMutex, MutexAfter, IInv, MutexInv
  <2>4. OpenTypes' /\ releasing' \subseteq Closes /\ completed' \subseteq Requests
    BY <1>0, <1>1 DEF Reject, OpenTypes, MutexAfter, IfClose
  <2> QED BY <1>0, <1>1, <2>1, <2>2, <2>3, <2>4, MoveStep DEF Reject
<1>2. ASSUME BeginClose(r) \/ EndClose(r) \/ ReleaseOpen(r)
      PROVE  IInv'
  <2>1. r \in Closes /\ r \notin Creates
    BY <1>2, Kinds DEF BeginClose, EndClose, ReleaseOpen, Admitted, IInv, KindInv
  <2>2. PICK l : /\ pc' = [pc EXCEPT ![r] = l]
                 /\ \/ pc[r] = "admitted" /\ l \in {"closing", "complete"} /\ releasing' = releasing
                    \/ pc[r] = "closing" /\ l = "complete" /\ releasing' = releasing \union {r}
                    \/ pc[r] = "release" /\ l = "done" /\ releasing' = releasing \ {r}
    <3>1. CASE BeginClose(r)
      BY <3>1 DEF BeginClose, Admitted, Goto
    <3>2. CASE EndClose(r) \/ ReleaseOpen(r)
      BY <3>2 DEF EndClose, ReleaseOpen, Goto
    <3> QED BY <1>2, <3>1, <3>2
  <2>3. Move(r, l)
    BY <1>0, <1>2, <2>2 DEF BeginClose, EndClose, ReleaseOpen, Move, In, Counted, InDriver,
       Labels, countVars
  <2>4. KindRule(r, l) /\ QueryRule(r, l)
    BY <1>0, <1>2, <2>1, <2>2 DEF BeginClose, EndClose, ReleaseOpen, KindRule, QueryRule
  <2>5. MutexRule(r, l)
    BY <1>2, <2>1 DEF BeginClose, EndClose, ReleaseOpen, MutexRule
  <2>6. OpenTypes' /\ releasing' \subseteq Closes
    <3>1. releasing' \subseteq Closes
      BY <1>0, <2>1, <2>2
    <3>2. openCount - 1 \in Int
      BY <1>0
    <3>3. CASE BeginClose(r)
      <4>1. UNCHANGED <<openMutex, openCount, ring>>
        BY <3>3 DEF BeginClose
      <4>2. deviceIsOpened' \in BOOLEAN
        <5>1. deviceIsOpened' = FALSE \/ deviceIsOpened' = deviceIsOpened
          BY <3>3 DEF BeginClose
        <5>2. deviceIsOpened \in BOOLEAN
          BY <1>0
        <5> QED BY <5>1, <5>2, Zenon
      <4>3. openMutex' \in Creates \union {None} /\ openCount' \in Int
        BY <1>0, <4>1
      <4>4. ring' \in BOOLEAN
        BY <1>0, <4>1
      <4> QED BY <3>1, <4>2, <4>3, <4>4 DEF OpenTypes
    <3>4. CASE EndClose(r)
      <4>1. openMutex' \in Creates \union {None} /\ openCount' \in Int
        BY <1>0, <3>4 DEF EndClose
      <4>2. deviceIsOpened' \in BOOLEAN
        BY <1>0, <3>4 DEF EndClose
      <4>3. ring' \in BOOLEAN
        BY <3>4 DEF EndClose
      <4> QED BY <3>1, <4>1, <4>2, <4>3 DEF OpenTypes
    <3>5. CASE ReleaseOpen(r)
      BY <1>0, <3>2, <3>5 DEF ReleaseOpen, OpenTypes
    <3> QED BY <1>2, <3>1, <3>3, <3>4, <3>5
  <2> QED BY <1>0, <1>2, <2>3, <2>4, <2>5, <2>6, MoveStep DEF BeginClose, EndClose, ReleaseOpen
<1> QED BY <1>1, <1>2

\* What a kill does to the labels of the requests changes nothing that counts.
LEMMA KilledFacts ==
  ASSUME TypeOK, KindInv,
         NEW q \in [Requests -> Labels],
         \A u \in Requests : q[u] = pc[u] \/ (pc[u] \in {"pending", "admitted"} /\ q[u] = "complete"
                                              /\ u \notin Creates),
         pc' = q, releasing' = releasing
  PROVE  /\ KindInv' /\ Inside' = Inside
         /\ \A u \in Creates : pc'[u] = pc[u]
<1>1. KindInv'
  BY DEF KindInv
<1>2. Inside' = Inside
  BY DEF Inside, Counted, InDriver
<1>3. \A u \in Creates : pc'[u] = pc[u]
  BY Kinds
<1> QED BY <1>1, <1>2, <1>3

LEMMA CleanupStep ==
  ASSUME IInv, NEW r \in Requests, Cleanup(r)
  PROVE  IInv'
<1>1. pc[r] = "admitted" /\ r[1] = "cleanup" /\ r \notin Creates /\ pc \in [Requests -> Labels]
  BY Kinds DEF Cleanup, Admitted, IInv, TypeOK, RequestTypes
<1>2. /\ pc' \in [Requests -> Labels]
      /\ \A u \in Requests : pc'[u] = pc[u] \/ (pc[u] \in {"pending", "admitted"} /\ pc'[u] = "complete"
                                                /\ u \notin Creates)
  BY <1>1, Kinds DEF Cleanup, Killed, Labels, Counted, InDriver, IInv, KindInv
<1>3. releasing' = releasing /\ stalled' = <<>> /\ UNCHANGED <<completed, opened, openVars, pnpVars, countVars>>
  BY DEF Cleanup
<1>4. KindInv' /\ Inside' = Inside /\ \A u \in Creates : pc'[u] = pc[u]
  BY <1>2, <1>3, KilledFacts DEF IInv
<1>5. TypeOK'
  BY <1>2, <1>3 DEF IInv, TypeOK, RequestTypes, OpenTypes, PnpTypes, openVars, pnpVars, countVars
<1>6. MutexInv' /\ QueryInv' /\ ManagerInv'
  BY <1>3, <1>4 DEF IInv, MutexInv, QueryInv, ManagerInv, openVars, pnpVars
<1>7. CountExact'
  BY <1>3, <1>4 DEF IInv, CountExact, Base, PnpInside, Missing, pnpVars, countVars
<1> QED BY <1>4, <1>5, <1>6, <1>7 DEF IInv

-----------------------------------------------------------------------------
(* The steps of the plug-and-play requests. *)

\* With c requests inside, the count is what it should be.
Balanced(c) == pendingIRPCnt + Missing = Base + PnpInside + c

\* Steps that leave the requests alone: their count follows from where the
\* plug-and-play request is.
LEMMA PnpStep ==
  ASSUME IInv, UNCHANGED requestVars, OpenTypes', PnpTypes', openMutex' = openMutex,
         stalled' \in Seq(Requests), pendingIRPEvent' \in BOOLEAN, pendingIRPCnt' \in Int,
         deviceIsOpened' => deviceIsOpened,
         QueryInv', ManagerInv',
         manager' # "removed" =>
           manager # "removed" /\ \A c \in Nat : Balanced(c) => Balanced(c)'
  PROVE  IInv'
<1>1. TypeOK'
  BY DEF IInv, TypeOK, RequestTypes, requestVars
<1>2. KindInv' /\ MutexInv' /\ Inside' = Inside
  BY DEF IInv, KindInv, MutexInv, requestVars, Inside
<1>3. CountExact'
  <2>1. CASE manager' = "removed"
    BY <2>1 DEF CountExact
  <2>2. CASE manager' # "removed"
    <3> DEFINE c == Cardinality(Inside)
    <3>1. c \in Nat /\ Balanced(c)
      BY <2>2, InsideIsFinite DEF IInv, CountExact, Balanced
    <3>2. Cardinality(Inside)' = c
      BY <1>2
    <3> HIDE DEF c
    <3>3. pendingIRPCnt' + Missing' = Base' + PnpInside' + c
      BY <2>2, <3>1 DEF Balanced
    <3> QED BY <3>2, <3>3 DEF CountExact
  <2> QED BY <2>1, <2>2
<1> QED BY <1>1, <1>2, <1>3 DEF IInv

LEMMA ManagerFacts ==
  ASSUME IInv
  PROVE  /\ PnpTypes /\ OpenTypes /\ pendingIRPCnt \in Int /\ pendingIRPEvent \in BOOLEAN
         /\ stalled \in Seq(Requests) /\ QueryInv /\ ManagerInv
         /\ manager = "removed" => step = "idle"
         /\ manager = "surprised" => minor = "remove" \/ step \in {"idle", "leave", "signal"}
  BY DEF IInv, TypeOK, ManagerInv, RequestTypes

LEMMA ArrivesStep ==
  ASSUME IInv, NEW m \in Minors, PnpArrives(m)
  PROVE  IInv'
<1>1. manager \notin {"removed"} /\ (manager = "surprised" => m = "remove") /\ step = "idle"
  BY DEF PnpArrives, Legal
<1>2. PnpTypes' /\ OpenTypes' /\ QueryInv' /\ ManagerInv'
  BY <1>1, ManagerFacts DEF PnpArrives, PnpTypes, OpenTypes, QueryInv, ManagerInv, requestVars, openVars
<1>3. \A c \in Nat : Balanced(c) => Balanced(c)'
  BY <1>1, ManagerFacts DEF PnpArrives, Balanced, Base, PnpInside, Missing
<1> QED BY <1>1, <1>2, <1>3, ManagerFacts, PnpStep DEF PnpArrives, openVars

LEMMA QueriesStep ==
  ASSUME IInv, QueryStop \/ QueryRemove \/ CancelStop \/ CancelRemove
  PROVE  IInv'
<1>1. step = "called" /\ minor \in {"query_stop", "query_remove", "cancel_stop", "cancel_remove"}
      /\ step' = "leave" /\ manager' \in {"stop_asked", "remove_asked", "started"} /\ minor' = minor
      /\ UNCHANGED <<requestVars, openVars, connected, served, countVars, stalled>>
  BY DEF QueryStop, QueryRemove, Query, CancelStop, CancelRemove, Called
<1>2. manager \notin {"removed", "surprised"}
  BY <1>1, ManagerFacts
<1>3. PnpTypes'
  <2>1. CASE QueryStop \/ QueryRemove
    BY <1>1, <2>1, ManagerFacts DEF QueryStop, QueryRemove, Query, PnpTypes
  <2>2. CASE CancelStop \/ CancelRemove
    BY <1>1, <2>2, ManagerFacts DEF CancelStop, CancelRemove, PnpTypes
  <2> QED BY <2>1, <2>2
<1>4. QueryInv'
  <2>1. CASE QueryStop \/ QueryRemove
    <3>1. openMutex = None => \A r \in Creates : pc[r] # "admitted"
      BY Kinds DEF IInv, MutexInv, UnderMutex
    <3>2. UNCHANGED <<pc, deviceIsOpened>>
      BY <1>1 DEF requestVars, openVars
    <3> QED BY <2>1, <3>1, <3>2, ManagerFacts DEF QueryStop, QueryRemove, Query, QueryInv, MutexFree
  <2>2. CASE CancelStop \/ CancelRemove
    BY <1>1, <2>2, ManagerFacts DEF CancelStop, CancelRemove, QueryInv, requestVars, openVars
  <2> QED BY <2>1, <2>2
<1>5. ManagerInv' /\ OpenTypes'
  BY <1>1, ManagerFacts DEF ManagerInv, OpenTypes, openVars
<1>6. \A c \in Nat : Balanced(c) => Balanced(c)'
  BY <1>1, <1>2, ManagerFacts DEF Balanced, Base, PnpInside, Missing, countVars
<1> QED BY <1>1, <1>2, <1>3, <1>4, <1>5, <1>6, ManagerFacts, PnpStep DEF openVars, countVars

LEMMA StopStep ==
  ASSUME IInv,
         BeginStop \/ BeginRemoval \/ Drain \/ DrainBase \/ Wait \/ Reincrement
           \/ Disconnect \/ RemoveDevObj
  PROVE  IInv'
<1>1. UNCHANGED <<requestVars, openVars, served, stalled>>
  BY DEF BeginStop, BeginRemoval, Drain, DrainBase, Wait, Reincrement, Disconnect, RemoveDevObj
<1>2. manager # "removed"
  BY ManagerFacts DEF BeginStop, BeginRemoval, Drain, DrainBase, Wait, Reincrement, Disconnect,
     RemoveDevObj, Called
<1>3. PnpTypes' /\ pendingIRPCnt' \in Int /\ pendingIRPEvent' \in BOOLEAN
  <2>1. CASE BeginStop \/ BeginRemoval
    <3>1. /\ accept' \subseteq accept \union {"removing", "stopped", "surprise"}
          /\ pnpState' \in {pnpState, "stopping"} /\ step' \in {"drain", "kill"}
          /\ UNCHANGED <<connected, manager, minor, countVars>>
      BY <2>1 DEF BeginStop, BeginRemoval
    <3>2. accept' \subseteq {"removing", "stopping", "stopped", "surprise"}
      BY <3>1, ManagerFacts DEF PnpTypes
    <3>3. PnpTypes'
      BY <1>1, <3>1, <3>2, ManagerFacts DEF PnpTypes
    <3> QED BY <3>1, <3>3, ManagerFacts DEF countVars
  <2>2. CASE Drain \/ DrainBase \/ Wait \/ Reincrement
    <3>1. /\ step' \in {"drain_base", "drained", "wait", "disconnect"}
          /\ UNCHANGED <<accept, pnpState, connected, manager, minor, served>>
      BY <2>2 DEF Drain, DrainBase, AfterDrain, Wait, Reincrement
    <3>2. PnpTypes'
      BY <3>1, ManagerFacts DEF PnpTypes
    <3>3. pendingIRPCnt' \in Int
      BY <2>2, ManagerFacts DEF Drain, DrainBase, WithoutBase, Wait, Reincrement
    <3>4. pendingIRPEvent' \in BOOLEAN
      BY <2>2, ManagerFacts DEF Drain, DrainBase, Wait, Reincrement
    <3> QED BY <3>2, <3>3, <3>4
  <2>3. CASE Disconnect \/ RemoveDevObj
    BY <1>1, <2>3, ManagerFacts DEF Disconnect, RemoveDevObj, PnpTypes, countVars
  <2> QED BY <2>1, <2>2, <2>3
<1>4. QueryInv'
  BY <1>1, ManagerFacts DEF BeginStop, BeginRemoval, Drain, DrainBase, Wait, Reincrement, Disconnect,
     RemoveDevObj, QueryInv, requestVars, openVars, Called
<1>5. ManagerInv' /\ OpenTypes'
  <2>1. CASE BeginStop \/ BeginRemoval
    BY <1>1, <2>1, ManagerFacts DEF BeginStop, BeginRemoval, ManagerInv, OpenTypes, openVars, Called
  <2>2. CASE Drain \/ DrainBase \/ Wait \/ Reincrement
    BY <1>1, <2>2, ManagerFacts DEF Drain, DrainBase, AfterDrain, Wait, Reincrement, ManagerInv,
       OpenTypes, openVars
  <2>3. CASE Disconnect \/ RemoveDevObj
    BY <1>1, <2>3, ManagerFacts DEF Disconnect, RemoveDevObj, ManagerInv, OpenTypes, openVars
  <2> QED BY <2>1, <2>2, <2>3
<1>6. manager' # "removed" =>
        \A c \in Nat : Balanced(c) => Balanced(c)'
  <2>1. CASE BeginStop \/ BeginRemoval
    BY <2>1, ManagerFacts DEF BeginStop, BeginRemoval, Called, Balanced, Base, PnpInside, Missing, countVars
  <2>2. CASE Drain
    BY <2>2, ManagerFacts DEF Drain, Balanced, Base, PnpInside, Missing
  <2>3. CASE DrainBase
    BY <2>3, ManagerFacts DEF DrainBase, WithoutBase, AfterDrain, Balanced, Base, PnpInside, Missing
  <2>4. CASE Wait \/ Reincrement
    BY <2>4, ManagerFacts DEF Wait, Reincrement, Balanced, Base, PnpInside, Missing
  <2>5. CASE Disconnect
    BY <2>5, ManagerFacts DEF Disconnect, ManagerInv, Balanced, Base, PnpInside, Missing, countVars
  <2>6. CASE RemoveDevObj
    BY <2>6 DEF RemoveDevObj
  <2> QED BY <2>1, <2>2, <2>3, <2>4, <2>5, <2>6
<1> QED BY <1>1, <1>2, <1>3, <1>4, <1>5, <1>6, ManagerFacts, PnpStep DEF openVars

LEMMA RestartStep ==
  ASSUME IInv, Restart \/ FinishRestart \/ Leave \/ LeaveSetEvent
  PROVE  IInv'
<1>1. UNCHANGED requestVars /\ openMutex' = openMutex /\ UNCHANGED stalled
  BY DEF Restart, FinishRestart, Leave, LeaveSetEvent, openVars
<1>2. manager # "removed" /\ manager' # "removed"
  BY ManagerFacts DEF Restart, FinishRestart, Leave, LeaveSetEvent, Called
<1>3. PnpTypes' /\ OpenTypes' /\ pendingIRPCnt' \in Int /\ pendingIRPEvent' \in BOOLEAN
      /\ (deviceIsOpened' => deviceIsOpened)
  <2>1. CASE Restart
    <3>1. (deviceIsOpened' = FALSE \/ deviceIsOpened' = deviceIsOpened) /\ connected' \in BOOLEAN
          /\ UNCHANGED <<openCount, ring, accept, manager, minor, served, countVars>>
          /\ step' \in {"unstall", "kill"} /\ pnpState' = "restarting"
      BY <2>1 DEF Restart
    <3>2. deviceIsOpened' \in BOOLEAN /\ (deviceIsOpened' => deviceIsOpened)
      <4>1. deviceIsOpened \in BOOLEAN
        BY ManagerFacts DEF OpenTypes
      <4>2. deviceIsOpened' = FALSE \/ deviceIsOpened' = deviceIsOpened
        BY <3>1
      <4>3. deviceIsOpened' \in BOOLEAN
        BY <4>1, <4>2
      <4>4. deviceIsOpened' => deviceIsOpened
        BY <4>1, <4>2, Zenon
      <4> QED BY <4>3, <4>4
    <3>3. OpenTypes'
      BY <1>1, <3>1, <3>2, ManagerFacts DEF OpenTypes
    <3>4. PnpTypes'
      BY <3>1, ManagerFacts DEF PnpTypes
    <3> QED BY <3>1, <3>2, <3>3, <3>4, ManagerFacts DEF countVars
  <2>2. CASE FinishRestart
    <3>1. /\ accept' = {} /\ served' = None /\ pnpState' = "started" /\ manager' = "started"
          /\ step' = "leave" /\ UNCHANGED <<openVars, connected, minor, countVars>>
      BY <2>2 DEF FinishRestart
    <3>2. PnpTypes'
      BY <3>1, ManagerFacts DEF PnpTypes
    <3>3. OpenTypes' /\ (deviceIsOpened' => deviceIsOpened)
      BY <3>1, ManagerFacts DEF OpenTypes, openVars
    <3>4. pendingIRPCnt' \in Int /\ pendingIRPEvent' \in BOOLEAN
      BY <3>1, ManagerFacts DEF countVars
    <3> QED BY <3>2, <3>3, <3>4
  <2>3. CASE Leave \/ LeaveSetEvent
    <3>1. /\ step' \in {"signal", "idle"} /\ minor' \in {None, minor}
          /\ UNCHANGED <<openVars, accept, pnpState, connected, manager, served>>
      BY <2>3 DEF Leave, LeaveSetEvent
    <3>2. PnpTypes'
      BY <3>1, ManagerFacts DEF PnpTypes
    <3>3. OpenTypes' /\ (deviceIsOpened' => deviceIsOpened)
      BY <3>1, ManagerFacts DEF OpenTypes, openVars
    <3>4. pendingIRPCnt' \in Int
      BY <2>3, ManagerFacts DEF Leave, LeaveSetEvent
    <3>5. pendingIRPEvent' \in BOOLEAN
      BY <2>3, ManagerFacts DEF Leave, LeaveSetEvent
    <3> QED BY <3>2, <3>3, <3>4, <3>5
  <2> QED BY <2>1, <2>2, <2>3
<1>4. QueryInv'
  <2>1. CASE Restart
    BY <2>1 DEF Restart, QueryInv
  <2>2. CASE FinishRestart
    BY <2>2 DEF FinishRestart, QueryInv
  <2>3. CASE Leave \/ LeaveSetEvent
    BY <1>1, <2>3, ManagerFacts DEF Leave, LeaveSetEvent, QueryInv, requestVars, openVars
  <2> QED BY <2>1, <2>2, <2>3
<1>5. ManagerInv'
  BY ManagerFacts DEF Restart, FinishRestart, Leave, LeaveSetEvent, ManagerInv, Called
<1>6. \A c \in Nat : Balanced(c) => Balanced(c)'
  <2>1. CASE Restart
    BY <2>1, ManagerFacts DEF Restart, Called, Balanced, Base, PnpInside, Missing, countVars
  <2>2. CASE FinishRestart
    BY <2>2, ManagerFacts DEF FinishRestart, ManagerInv, Balanced, Base, PnpInside, Missing, countVars
  <2>3. CASE Leave \/ LeaveSetEvent
    BY <2>3, ManagerFacts DEF Leave, LeaveSetEvent, Balanced, Base, PnpInside, Missing
  <2> QED BY <2>1, <2>2, <2>3
<1> QED BY <1>1, <1>2, <1>3, <1>4, <1>5, <1>6, ManagerFacts, PnpStep

LEMMA KillStep ==
  ASSUME IInv, Kill
  PROVE  IInv'
<1>1. /\ pc' \in [Requests -> Labels]
      /\ \A u \in Requests : pc'[u] = pc[u] \/ (pc[u] \in {"pending", "admitted"} /\ pc'[u] = "complete"
                                                /\ u \notin Creates)
  BY Kinds DEF Kill, Killed, Labels, Counted, InDriver, IInv, KindInv, TypeOK, RequestTypes
<1>2. /\ step = "kill" /\ releasing' = releasing /\ stalled' = <<>>
      /\ UNCHANGED <<completed, opened, openVars, pnpState, connected, minor, served, countVars>>
  BY DEF Kill
<1>3. \/ /\ minor = "start" /\ accept' = accept \union {"removing"} /\ manager' = "failed"
         /\ step' = "leave"
      \/ step' = "drain" /\ UNCHANGED <<accept, manager>>
  BY DEF Kill
<1>4. KindInv' /\ Inside' = Inside /\ \A u \in Creates : pc'[u] = pc[u]
  BY <1>1, <1>2, KilledFacts DEF IInv
<1>5. PnpTypes' /\ QueryInv' /\ ManagerInv' /\ OpenTypes'
  BY <1>2, <1>3, <1>4, ManagerFacts DEF PnpTypes, QueryInv, ManagerInv, OpenTypes, openVars
<1>6. TypeOK' /\ MutexInv'
  BY <1>1, <1>2, <1>4, <1>5 DEF IInv, TypeOK, RequestTypes, MutexInv, openVars, countVars
<1>7. CountExact'
  BY <1>2, <1>3, <1>4, ManagerFacts DEF IInv, CountExact, Base, PnpInside, Missing, countVars
<1> QED BY <1>4, <1>5, <1>6, <1>7 DEF IInv

LEMMA UnstallStep ==
  ASSUME IInv, UnstallIrp
  PROVE  IInv'
<1> DEFINE r == Head(stalled)
<1>1. r \in Requests /\ Tail(stalled) \in Seq(Requests) /\ pc[r] = "done"
  BY DEF UnstallIrp, Done, IInv, TypeOK, RequestTypes
<1>2. /\ pc' = [pc EXCEPT ![r] = "called"] /\ stalled' = Tail(stalled) /\ served' = r
      /\ UNCHANGED <<completed, opened, releasing, openVars, accept, pnpState, connected, manager,
                     minor, step, countVars>>
  BY DEF UnstallIrp, Goto
<1> HIDE DEF r
<1>3. pc'[r] = "called" /\ \A u \in Requests : u # r => pc'[u] = pc[u]
  BY <1>1, <1>2, PcMoves DEF IInv
<1>4. TypeOK'
  BY <1>1, <1>2 DEF IInv, TypeOK, RequestTypes, OpenTypes, PnpTypes, Labels, openVars, countVars
<1>5. KindInv' /\ MutexInv' /\ QueryInv' /\ ManagerInv'
  BY <1>1, <1>2, <1>3, Kinds DEF IInv, KindInv, MutexInv, UnderMutex, QueryInv, ManagerInv, openVars
<1>6. Inside' = Inside
  BY <1>1, <1>3 DEF Inside, Counted, InDriver
<1>7. CountExact'
  BY <1>2, <1>6 DEF IInv, CountExact, Base, PnpInside, Missing, countVars
<1> QED BY <1>4, <1>5, <1>7 DEF IInv

-----------------------------------------------------------------------------
(* The gate. *)

LEMMA InitIInv == Init => IInv
<1> SUFFICES ASSUME Init PROVE IInv
  OBVIOUS
<1>1. TypeOK
  <2>1. RequestTypes
    BY DEF Init, RequestTypes, Labels
  <2>2. OpenTypes
    <3>1. openMutex \in Creates \union {None} /\ openCount \in Int
      BY DEF Init
    <3>2. deviceIsOpened \in BOOLEAN
      BY DEF Init
    <3>3. ring \in BOOLEAN
      BY DEF Init
    <3> QED BY <3>1, <3>2, <3>3 DEF OpenTypes
  <2>3. PnpTypes
    BY DEF Init, PnpTypes
  <2>4. pendingIRPCnt \in Int
    BY DEF Init
  <2>5. pendingIRPEvent \in BOOLEAN
    BY DEF Init
  <2> QED BY <2>1, <2>2, <2>3, <2>4, <2>5 DEF TypeOK
<1>2. KindInv /\ MutexInv /\ QueryInv /\ ManagerInv
  BY Kinds DEF Init, KindInv, MutexInv, UnderMutex, QueryInv, ManagerInv
<1>3. Inside = {}
  BY DEF Init, Inside, Counted, InDriver
<1>4. CountExact
  BY <1>3, FS_EmptySet DEF Init, CountExact, Base, PnpInside, Missing
<1> QED BY <1>1, <1>2, <1>4 DEF IInv

LEMMA NextIInv == IInv /\ [Next]_vars => IInv'
<1> SUFFICES ASSUME IInv, [Next]_vars PROVE IInv'
  OBVIOUS
<1>1. ASSUME NEW r \in Requests, Arrive(r) \/ FinishRead(r) \/ Goes(r) PROVE IInv'
  BY <1>1, ArrivalStep, DepartureStep, CreateStep, CloseStep, CleanupStep DEF Goes
<1>2. ASSUME NEW m \in Minors, PnpArrives(m) PROVE IInv'
  BY <1>2, ArrivesStep
<1>3. CASE PnpGoes
  BY <1>3, QueriesStep, StopStep, RestartStep, KillStep, UnstallStep DEF PnpGoes
<1>4. CASE UNCHANGED vars
  <2>1. TypeOK' /\ Inside' = Inside
    BY <1>4 DEF vars, requestVars, openVars, pnpVars, countVars, IInv, TypeOK, RequestTypes,
       OpenTypes, PnpTypes, Inside
  <2>2. KindInv' /\ MutexInv' /\ QueryInv' /\ ManagerInv'
    BY <1>4 DEF vars, requestVars, openVars, pnpVars, countVars, IInv, KindInv, MutexInv, QueryInv,
       ManagerInv
  <2>3. CountExact'
    BY <1>4, <2>1 DEF vars, pnpVars, countVars, IInv, CountExact, Base, PnpInside, Missing
  <2> QED BY <2>1, <2>2, <2>3 DEF IInv
<1> QED BY <1>1, <1>2, <1>3, <1>4 DEF Next

\* PendingIRPCnt is exact: SerialIRPPrologue, SerialIRPEpilogue and the
\* plug-and-play handlers count every request in and out exactly once, with
\* the one surplus decrement of a surprise removal.
THEOREM GateIsCounted == Spec => []GateIsKept
<1>1. IInv => GateIsKept
  BY DEF IInv, GateIsKept
<1> QED BY InitIInv, NextIInv, <1>1, PTL DEF Spec

\* A device that agreed to be stopped or removed stays unopened until it is
\* told what happens: the query is answered under the mutex of the creates.
THEOREM QueriesAreKept == Spec => []QueriedIsUnopened
<1>1. IInv => QueriedIsUnopened
  BY DEF IInv, QueryInv, QueriedIsUnopened
<1> QED BY InitIInv, NextIInv, <1>1, PTL DEF Spec

-----------------------------------------------------------------------------
(* A device that is not asked to stop. *)

\* What a step of request r does, as far as a removal is concerned.
Inward(r) ==
  /\ \A u \in Requests : u # r => pc'[u] = pc[u] \/ (pc[u] = "pending" /\ pc'[u] = "complete")
  /\ pc'[r] \notin {"stall", "stalled"}
  /\ pc'[r] \in InDriver => pc[r] \in InDriver \/ (pc[r] = "counted" /\ accept = {})
  /\ pc'[r] = "signal" => pc[r] = "epilogue" /\ pendingIRPCnt = 1
  /\ pendingIRPEvent' => pendingIRPEvent \/ pc[r] = "signal"

LEMMA RequestMoves ==
  ASSUME IInv, NoStop, NEW r \in Requests, Arrive(r) \/ FinishRead(r) \/ Goes(r)
  PROVE  Inward(r) /\ UNCHANGED pnpVars
<1>0. pc \in [Requests -> Labels] /\ pendingIRPCnt \in Int /\ releasing \subseteq Closes
  BY DEF IInv, TypeOK, RequestTypes
<1>1. CASE Cleanup(r)
  <2>1. pc' = [Killed EXCEPT ![r] = "complete"] /\ pc[r] = "admitted"
        /\ UNCHANGED <<pnpVars, countVars>>
    BY <1>1 DEF Cleanup, Admitted
  <2> QED BY <1>0, <2>1 DEF Killed, Inward, InDriver, countVars
<1>2. CASE Filter(r)
  <2>1. pc[r] = "counted" /\ pc' = [pc EXCEPT ![r] = Verdict] /\ UNCHANGED <<pnpVars, countVars>>
    BY <1>2 DEF Filter, Goto
  <2>2. Verdict \in {"admitted", "deleted"} /\ (Verdict = "admitted" => accept = {})
    BY DEF Verdict, NoStop
  <2> QED BY <1>0, <2>1, <2>2 DEF Inward, InDriver, countVars
<1>3. CASE Epilogue(r)
  <2> DEFINE l == IF LastOut(pendingIRPCnt - 1) THEN "signal" ELSE AfterEpilogue(r)
  <2>1. pc[r] = "epilogue" /\ pc' = [pc EXCEPT ![r] = l] /\ UNCHANGED <<pnpVars, pendingIRPEvent>>
    BY <1>3 DEF Epilogue, Goto
  <2>2. l \in {"signal", "release", "done"} /\ (l = "signal" => pendingIRPCnt = 1)
    BY <1>0 DEF LastOut, AfterEpilogue
  <2> HIDE DEF l
  <2> QED BY <1>0, <2>1, <2>2 DEF Inward, InDriver
<1>4. CASE SetEvent(r)
  <2>1. PICK l \in {"release", "done"} : pc' = [pc EXCEPT ![r] = l]
    BY <1>4 DEF SetEvent, Goto, AfterEpilogue
  <2>2. pc[r] = "signal" /\ UNCHANGED pnpVars
    BY <1>4 DEF SetEvent
  <2> QED BY <1>0, <2>1, <2>2 DEF Inward, InDriver
<1>5. ASSUME Arrive(r) \/ CheckState(r) \/ LockOpen(r) \/ Enter(r) \/ Stall(r) \/ Reject(r)
             \/ ReleaseOpen(r)
      PROVE  Inward(r) /\ UNCHANGED pnpVars
  <2>1. PICK l \in {"called", "checked", "done", "locked", "counted", "epilogue"} :
          pc' = [pc EXCEPT ![r] = l]
    BY <1>5 DEF Arrive, CheckState, LockOpen, Enter, Stall, Reject, ReleaseOpen, Goto, NoStop
  <2>2. UNCHANGED <<pnpVars, pendingIRPEvent>>
    BY <1>5 DEF Arrive, CheckState, LockOpen, Enter, Stall, Reject, ReleaseOpen, NoStop, countVars
  <2> QED BY <1>0, <2>1, <2>2 DEF Inward, InDriver
<1>6. ASSUME CompleteRequest(r) \/ OpenDevice(r) \/ OpenFails(r) \/ OpenDenied(r) \/ UndoOpen(r)
             \/ BeginClose(r) \/ EndClose(r) \/ StartRead(r) \/ FinishRead(r) \/ ControlDevice(r)
      PROVE  Inward(r) /\ UNCHANGED pnpVars
  <2>1. PICK l \in {"epilogue", "complete", "failing", "denied", "closing", "pending"} :
          pc' = [pc EXCEPT ![r] = l]
    BY <1>6 DEF CompleteRequest, OpenDevice, OpenFails, OpenDenied, UndoOpen, BeginClose, EndClose,
       StartRead, FinishRead, ControlDevice, Goto
  <2>2. pc[r] \in InDriver /\ UNCHANGED <<pnpVars, pendingIRPEvent>>
    BY <1>6 DEF CompleteRequest, OpenDevice, OpenFails, OpenDenied, UndoOpen, BeginClose, EndClose,
       StartRead, FinishRead, ControlDevice, Admitted, InDriver, countVars
  <2> QED BY <1>0, <2>1, <2>2 DEF Inward, InDriver
<1> QED BY <1>1, <1>2, <1>3, <1>4, <1>5, <1>6 DEF Goes

\* Without a query_stop none of the stop and restart code is reached.
LEMMA PnpMoves ==
  ASSUME IInv, NoStop, "query_stop" \notin Minors, PnpGoes
  PROVE  /\ QueryRemove \/ CancelRemove \/ BeginRemoval \/ Kill \/ Drain \/ DrainBase \/ Wait
            \/ Reincrement \/ Disconnect \/ RemoveDevObj \/ Leave \/ LeaveSetEvent
         /\ minor \notin {"query_stop", "cancel_stop", "stop", "start"} /\ step # "unstall"
<1>1. minor \notin {"query_stop", "cancel_stop", "stop", "start"} /\ step # "unstall"
  BY DEF NoStop, IInv, ManagerInv
<1>2. ~QueryStop /\ ~CancelStop /\ ~BeginStop /\ ~Restart /\ ~UnstallIrp /\ ~FinishRestart
  BY <1>1 DEF QueryStop, Query, CancelStop, BeginStop, Restart, Called, UnstallIrp, FinishRestart
<1> QED BY <1>1, <1>2 DEF PnpGoes

LEMMA NoStopStep ==
  ASSUME IInv, NoStop, "query_stop" \notin Minors, Next
  PROVE  NoStop'
<1>1. ASSUME NEW r \in Requests, Arrive(r) \/ FinishRead(r) \/ Goes(r) PROVE NoStop'
  BY <1>1, RequestMoves DEF NoStop, Inward, pnpVars
<1>2. ASSUME NEW m \in Minors, PnpArrives(m) PROVE NoStop'
  <2>1. m \notin {"query_stop", "cancel_stop", "stop", "start"}
    BY <1>2 DEF PnpArrives, Legal, NoStop
  <2> QED BY <1>2, <2>1 DEF PnpArrives, NoStop, requestVars
<1>3. CASE PnpGoes
  <2>1. None \notin {"query_stop", "cancel_stop", "stop", "start"}
    BY PnpAssumption DEF MinorFunctions
  <2>2. minor' \in {minor, None} /\ minor \notin {"query_stop", "cancel_stop", "stop", "start"}
        /\ manager' \in {manager, "remove_asked", "started", "surprised", "removed"}
        /\ accept' \subseteq accept \union {"removing", "surprise"}
        /\ \A u \in Requests : pc'[u] \in {pc[u], "complete"}
    <3>1. CASE QueryRemove \/ CancelRemove \/ BeginRemoval
      BY <1>3, <3>1, PnpMoves DEF QueryRemove, Query, CancelRemove, BeginRemoval, requestVars
    <3>2. CASE Kill
      BY <1>3, <3>2, PnpMoves DEF Kill, Killed, IInv, TypeOK, RequestTypes
    <3>3. CASE Drain \/ DrainBase \/ Wait \/ Reincrement
      BY <1>3, <3>3, PnpMoves DEF Drain, DrainBase, Wait, Reincrement, requestVars
    <3>4. CASE Disconnect \/ RemoveDevObj \/ Leave \/ LeaveSetEvent
      BY <1>3, <3>4, PnpMoves DEF Disconnect, RemoveDevObj, Leave, LeaveSetEvent, requestVars
    <3> QED BY <1>3, <3>1, <3>2, <3>3, <3>4, PnpMoves
  <2> QED BY <2>1, <2>2 DEF NoStop
<1> QED BY <1>1, <1>2, <1>3 DEF Next

-----------------------------------------------------------------------------
(* The event of a removal. *)

\* Who sees the count reach zero is the last one in.
LEMMA LastInside ==
  ASSUME IInv, NEW r \in Requests, pc[r] = "epilogue", pendingIRPCnt = 1,
         manager \notin {"surprised", "removed"}
  PROVE  step \in {"wait", "drained"} /\ Quiet
<1>1. r \in Inside /\ Cardinality(Inside) \in Nat /\ Cardinality(Inside) >= 1 /\ IsFiniteSet(Inside)
  BY InsideIsFinite DEF Inside, Counted
<1>2. 1 = Base + PnpInside + Cardinality(Inside)
  BY DEF IInv, CountExact, Missing
<1>3. {Base, PnpInside} \subseteq {0, 1}
  BY DEF Base, PnpInside
<1>4. Base = 0 /\ Cardinality(Inside) = 1
  BY <1>1, <1>2, <1>3
<1>5. Cardinality(Inside \ {r}) = 0 /\ IsFiniteSet(Inside \ {r})
  BY <1>1, <1>4, FS_RemoveElement
<1>6. Inside \ {r} = {}
  BY <1>5, FS_EmptySet
<1>7. step \in {"wait", "drained"}
  BY <1>4 DEF Base
<1> QED BY <1>6, <1>7 DEF Inside, Counted, Quiet, InDriver

LEMMA RequestRemoval ==
  ASSUME IInv, NoStop, RemovalInv, NEW r \in Requests, Arrive(r) \/ FinishRead(r) \/ Goes(r)
  PROVE  RemovalInv'
<1>1. Inward(r) /\ UNCHANGED pnpVars
  BY RequestMoves
<1>2. UNCHANGED <<step, manager, accept>> /\ (Going' <=> Going) /\ (Over' <=> Over)
  BY <1>1 DEF pnpVars, Going, Over
<1>3. Quiet /\ accept # {} => Quiet'
  BY <1>1 DEF Inward, Quiet, InDriver
<1>4. Signaled' => Signaled \/ (pc[r] = "epilogue" /\ pendingIRPCnt = 1)
  BY <1>1, <1>2 DEF Signaled, Inward
<1>5. pc[r] = "epilogue" /\ pendingIRPCnt = 1 => Going /\ Quiet
  BY LastInside DEF RemovalInv, Going, Over
<1> QED BY <1>2, <1>3, <1>4, <1>5 DEF RemovalInv

LEMMA PnpRemoval ==
  ASSUME IInv, NoStop, RemovalInv, "query_stop" \notin Minors, PnpGoes
  PROVE  RemovalInv'
<1>0. /\ minor \notin {"query_stop", "cancel_stop", "stop", "start"}
      /\ pendingIRPCnt \in Int /\ pc \in [Requests -> Labels]
      /\ (manager = "removed" => step = "idle")
      /\ (manager = "surprised" => minor = "remove" \/ step \in {"idle", "leave", "signal"})
  BY PnpMoves, ManagerFacts DEF IInv, TypeOK, RequestTypes
<1>1. CASE QueryRemove \/ CancelRemove
  <2>1. /\ step = "called" /\ step' = "leave" /\ manager \notin {"surprised", "removed"}
        /\ manager' \in {"started", "remove_asked"} /\ pendingIRPEvent' = pendingIRPEvent /\ pc' = pc
    BY <1>0, <1>1 DEF QueryRemove, Query, CancelRemove, Called, requestVars, countVars
  <2>2. ~Going /\ ~Signaled
    BY <2>1 DEF RemovalInv, Going
  <2>3. ~Going' /\ ~Over' /\ ~Signaled'
    BY <2>1, <2>2 DEF Going, Over, Signaled
  <2> QED BY <2>3 DEF RemovalInv
<1>2. CASE BeginRemoval
  <2>1. /\ step = "called" /\ step' = "kill" /\ UNCHANGED <<manager, pendingIRPEvent, pc>>
        /\ accept' \intersect {"removing", "surprise"} # {}
    BY <1>2 DEF BeginRemoval, Called, requestVars, countVars
  <2>2. Going' /\ (Over' => Over) /\ (Signaled' => Signaled) /\ (Quiet' <=> Quiet)
    BY <2>1 DEF Going, Over, Signaled, Quiet
  <2> QED BY <2>1, <2>2 DEF RemovalInv
<1>3. CASE Kill
  <2>1. step = "kill" /\ step' = "drain" /\ UNCHANGED <<manager, pendingIRPEvent, accept>> /\ pc' = Killed
    BY <1>0, <1>3 DEF Kill, countVars
  <2>2. Going /\ Going' /\ (Over' => Over)
    BY <2>1 DEF Going, Over
  <2>3. (Signaled' => Signaled) /\ (Quiet => Quiet')
    BY <1>0, <2>1 DEF Signaled, Quiet, Killed, InDriver
  <2> QED BY <2>1, <2>2, <2>3 DEF RemovalInv
<1>4. CASE Drain
  <2>1. /\ step = "drain" /\ step' = "drain_base"
        /\ UNCHANGED <<manager, pendingIRPEvent, accept, pc>>
    BY <1>4 DEF Drain, requestVars
  <2>2. Going /\ Going' /\ (Over' => Over) /\ (Signaled' => Signaled) /\ (Quiet' <=> Quiet)
    BY <2>1 DEF Going, Over, Signaled, Quiet
  <2> QED BY <2>1, <2>2 DEF RemovalInv
<1>5. CASE DrainBase
  <2>1. step = "drain_base" /\ UNCHANGED <<manager, pendingIRPEvent, accept, pc>>
        /\ (step' = "wait" \/ (step' = "drained" /\ pendingIRPCnt = 1))
    BY <1>0, <1>5 DEF DrainBase, AfterDrain, WithoutBase, requestVars
  <2>2. Going /\ Going' /\ (Signaled' => Signaled) /\ (Quiet' <=> Quiet)
    BY <2>1 DEF Going, Signaled, Quiet
  <2>3. step' = "drained" => Over \/ Quiet
    <3>1. SUFFICES ASSUME pendingIRPCnt = 1, manager \notin {"surprised", "removed"} PROVE Quiet
      BY <2>1 DEF Over
    <3>2. Cardinality(Inside) = 0
      BY <2>1, <3>1, InsideIsFinite DEF IInv, CountExact, Missing, Base, PnpInside
    <3>3. Inside = {}
      BY <3>2, InsideIsFinite, FS_EmptySet
    <3> QED BY <3>3 DEF Inside, Counted, Quiet, InDriver
  <2>4. Over' => Over \/ step' = "drained"
    BY <2>1 DEF Over
  <2> QED BY <2>1, <2>2, <2>3, <2>4 DEF RemovalInv
<1>6. CASE Wait
  <2>1. step = "wait" /\ pendingIRPEvent /\ step' = "drained" /\ ~pendingIRPEvent'
        /\ UNCHANGED <<manager, accept, pc>>
    BY <1>6 DEF Wait, requestVars
  <2>2. Going /\ Going' /\ Signaled /\ (Quiet' <=> Quiet)
    BY <2>1 DEF Going, Signaled, Quiet
  <2> QED BY <2>1, <2>2 DEF RemovalInv
<1>7. CASE Reincrement \/ Disconnect \/ RemoveDevObj
  <2>1. /\ step \in {"drained", "disconnect"} /\ UNCHANGED <<accept, pc>>
        /\ step' = "disconnect" \/ manager' \in {"surprised", "removed"}
    BY <1>0, <1>7 DEF Reincrement, Disconnect, RemoveDevObj, requestVars
  <2>2. Going /\ Over /\ Going' /\ (Quiet' <=> Quiet)
    BY <2>1 DEF Going, Over, Quiet
  <2> QED BY <2>1, <2>2 DEF RemovalInv
<1>8. CASE Leave
  <2>1. step = "leave" /\ UNCHANGED <<manager, pendingIRPEvent, accept, pc>>
        /\ (step' = "idle" \/ (step' = "signal" /\ pendingIRPCnt = 1))
    BY <1>0, <1>8 DEF Leave, LastOut, requestVars
  <2>2. (Going' <=> Going) /\ (Over' <=> Over) /\ (Quiet' <=> Quiet)
    BY <2>1 DEF Going, Over, Quiet
  <2>3. pendingIRPCnt = 1 => Over
    <3>1. SUFFICES ASSUME pendingIRPCnt = 1, manager \notin {"surprised", "removed"} PROVE FALSE
      BY DEF Over
    <3> QED BY <2>1, <3>1, InsideIsFinite DEF IInv, CountExact, Missing, Base, PnpInside
  <2>4. Signaled' => Signaled \/ Over
    BY <2>1, <2>3 DEF Signaled
  <2> QED BY <2>1, <2>2, <2>4 DEF RemovalInv
<1>9. CASE LeaveSetEvent
  <2>1. step = "signal" /\ step' = "idle" /\ UNCHANGED <<manager, accept, pc>>
    BY <1>9 DEF LeaveSetEvent, requestVars
  <2>2. (Going' <=> Going) /\ Signaled /\ (Quiet' <=> Quiet)
    BY <2>1 DEF Going, Signaled, Quiet
  <2> QED BY <2>1, <2>2 DEF RemovalInv
<1> QED BY <1>1, <1>2, <1>3, <1>4, <1>5, <1>6, <1>7, <1>8, <1>9, PnpMoves

LEMMA RemovalStep ==
  ASSUME IInv, NoStop, RemovalInv, "query_stop" \notin Minors, Next
  PROVE  RemovalInv'
<1>1. ASSUME NEW m \in Minors, PnpArrives(m) PROVE RemovalInv'
  <2>1. step = "idle" /\ step' = "called" /\ UNCHANGED <<manager, pendingIRPEvent, accept, pc>>
    BY <1>1 DEF PnpArrives, requestVars
  <2>2. (Going' <=> Going) /\ (Over' <=> Over) /\ (Signaled' => Signaled) /\ (Quiet' <=> Quiet)
    BY <2>1 DEF Going, Over, Signaled, Quiet
  <2> QED BY <2>1, <2>2 DEF RemovalInv
<1> QED BY <1>1, RequestRemoval, PnpRemoval DEF Next

-----------------------------------------------------------------------------
(* The files and OpenCount. *)

Ended == {"complete", "epilogue", "signal", "done"}

\* How far a create and a close have come, for one step of request r.
LEMMA FileMoves ==
  ASSUME IInv, NoStop, FileInv, NEW r \in Requests, Arrive(r) \/ FinishRead(r) \/ Goes(r)
  PROVE  /\ \A u \in Requests : u # r => pc'[u] = pc[u] \/ (u \notin Creates \union Closes /\ pc[u] # "none")
         /\ r \in Creates /\ pc[r] \in Ended => pc'[r] \in Ended
         /\ opened' = opened \/ (r \in Creates /\ opened' = opened \union {r[2]} /\ pc'[r] \in Ended)
         /\ pc[r] # "none" \/ r[1] \notin {"cleanup", "close"} \/ r[2] \in opened
<1>0. pc \in [Requests -> Labels] /\ releasing \subseteq Closes /\ Creates \intersect Closes = {}
  BY Kinds DEF IInv, TypeOK, RequestTypes
<1>1. CASE Arrive(r)
  <2>1. pc[r] = "none" /\ MayArrive(r) /\ pc' = [pc EXCEPT ![r] = "called"] /\ opened' = opened
    BY <1>1 DEF Arrive, Goto
  <2>2. r[1] = "close" => r[2] \in Files /\ pc[<<"cleanup", r[2]>>] = "done"
    BY <2>1, Kinds DEF MayArrive, Done
  <2>3. r[1] \in {"cleanup", "close"} => r[2] \in opened
    BY <2>1, <2>2 DEF MayArrive, FileInv
  <2> QED BY <1>0, <2>1, <2>3 DEF Ended
<1>2. CASE Cleanup(r)
  <2>1. pc[r] = "admitted" /\ r \notin Creates /\ pc' = [Killed EXCEPT ![r] = "complete"] /\ opened' = opened
    BY <1>2, Kinds DEF Cleanup, Admitted
  <2>2. \A u \in Requests : pc[u] = "pending" => u \notin Creates \union Closes
    BY Kinds DEF IInv, KindInv
  <2> QED BY <1>0, <2>1, <2>2 DEF Killed
<1>3. ASSUME CheckState(r) \/ LockOpen(r) \/ Enter(r) \/ Filter(r) \/ Stall(r) \/ Reject(r)
             \/ OpenFails(r) \/ OpenDenied(r) \/ UndoOpen(r) \/ BeginClose(r) \/ EndClose(r)
             \/ StartRead(r) \/ FinishRead(r) \/ ControlDevice(r)
      PROVE  /\ pc[r] \notin Ended \union {"none"} /\ opened' = opened
             /\ \A u \in Requests : u # r => pc'[u] = pc[u]
  <2>1. PICK l : pc' = [pc EXCEPT ![r] = l]
    BY <1>3 DEF CheckState, LockOpen, Enter, Filter, Stall, Reject, OpenFails, OpenDenied, UndoOpen,
       BeginClose, EndClose, StartRead, FinishRead, ControlDevice, Goto
  <2>2. pc[r] \notin Ended \union {"none"} /\ opened' = opened
    BY <1>3 DEF CheckState, LockOpen, Enter, Filter, Stall, Reject, OpenFails, OpenDenied, UndoOpen,
       BeginClose, EndClose, StartRead, FinishRead, ControlDevice, Admitted, Ended
  <2> QED BY <1>0, <2>1, <2>2
<1>4. CASE OpenDevice(r)
  <2>1. pc[r] = "admitted" /\ r \in Creates /\ pc' = [pc EXCEPT ![r] = "complete"]
        /\ opened' = opened \union {r[2]}
    BY <1>4, Kinds DEF OpenDevice, Admitted, Goto
  <2> QED BY <1>0, <2>1 DEF Ended
<1>5. ASSUME CompleteRequest(r) \/ Epilogue(r) \/ SetEvent(r) \/ ReleaseOpen(r)
      PROVE  /\ pc[r] # "none" /\ opened' = opened
             /\ \A u \in Requests : u # r => pc'[u] = pc[u]
             /\ r \in Creates /\ pc[r] \in Ended => pc'[r] \in Ended
  <2>1. PICK l \in {"epilogue", "signal", "release", "done"} : pc' = [pc EXCEPT ![r] = l]
                                                                /\ (l = "release" => r \in releasing)
    BY <1>5 DEF CompleteRequest, Epilogue, SetEvent, ReleaseOpen, AfterEpilogue, Goto
  <2>2. pc[r] # "none" /\ opened' = opened
    BY <1>5 DEF CompleteRequest, Epilogue, SetEvent, ReleaseOpen
  <2> QED BY <1>0, <2>1, <2>2 DEF Ended
<1> QED BY <1>1, <1>2, <1>3, <1>4, <1>5 DEF Goes

LEMMA RequestFiles ==
  ASSUME IInv, NoStop, FileInv, NEW r \in Requests, Arrive(r) \/ FinishRead(r) \/ Goes(r)
  PROVE  FileInv'
<1>1. SUFFICES ASSUME NEW f \in Files
               PROVE  /\ f \in opened' => pc'[<<"create", f>>] \in Ended
                      /\ pc'[<<"cleanup", f>>] # "none" => f \in opened'
                      /\ pc'[<<"close", f>>] # "none" => f \in opened'
  BY DEF FileInv, Ended
<1> DEFINE cr == <<"create", f>>
           cu == <<"cleanup", f>>
           cl == <<"close", f>>
<1>2. cr \in Creates /\ cu \in Requests /\ cl \in Closes /\ cr \in Requests /\ cl \in Requests
      /\ cu[1] = "cleanup" /\ cl[1] = "close" /\ cu[2] = f /\ cl[2] = f
  BY Kinds
<1>3. /\ f \in opened => pc[cr] \in Ended
      /\ pc[cu] # "none" => f \in opened
      /\ pc[cl] # "none" => f \in opened
  BY DEF FileInv, Ended
<1>4. r \in Creates => r = <<"create", r[2]>>
  BY Kinds
<1> HIDE DEF cr, cu, cl
<1>5. f \in opened' => pc'[cr] \in Ended
  <2>1. CASE f \in opened
    BY <1>2, <1>3, <2>1, FileMoves
  <2>2. CASE f \notin opened
    BY <1>2, <1>4, <2>2, FileMoves DEF cr
  <2> QED BY <2>1, <2>2
<1>6. pc'[cu] # "none" => f \in opened'
  BY <1>2, <1>3, FileMoves
<1>7. pc'[cl] # "none" => f \in opened'
  BY <1>2, <1>3, FileMoves
<1> QED BY <1>5, <1>6, <1>7 DEF cr, cu, cl

\* What the plug-and-play requests leave alone of the files.
LEMMA PnpLeavesFiles ==
  ASSUME IInv, NoStop, "query_stop" \notin Minors, PnpGoes \/ \E m \in Minors : PnpArrives(m)
  PROVE  /\ UNCHANGED <<opened, releasing, openCount, ring>>
         /\ \A u \in Requests : pc'[u] = pc[u] \/ (pc[u] = "pending" /\ pc'[u] = "complete"
                                                   /\ u \notin Creates \union Closes)
<1>1. CASE Kill
  <2>1. \A u \in Requests : pc[u] = "pending" => u \notin Creates \union Closes
    BY Kinds DEF IInv, KindInv
  <2> QED BY <1>1, <2>1 DEF Kill, Killed, IInv, TypeOK, RequestTypes, openVars
<1>2. ASSUME ~Kill PROVE UNCHANGED <<requestVars, openVars>>
  BY <1>2, PnpMoves DEF QueryRemove, Query, CancelRemove, BeginRemoval, Drain, DrainBase, Wait,
     Reincrement, Disconnect, RemoveDevObj, Leave, LeaveSetEvent, PnpArrives
<1> QED BY <1>1, <1>2 DEF requestVars, openVars

LEMMA FileStep ==
  ASSUME IInv, NoStop, FileInv, "query_stop" \notin Minors, Next
  PROVE  FileInv'
<1>1. ASSUME PnpGoes \/ \E m \in Minors : PnpArrives(m) PROVE FileInv'
  <2>1. /\ opened' = opened
        /\ \A u \in Requests :
             pc'[u] = pc[u] \/ (pc[u] = "pending" /\ u \notin Creates \union Closes)
    BY <1>1, PnpLeavesFiles
  <2> QED BY <2>1, Kinds DEF FileInv
<1> QED BY <1>1, RequestFiles DEF Next

Closing == {"none", "called", "counted", "admitted", "closing", "deleted"}

LEMMA OpenSets ==
  /\ IsFiniteSet(First) /\ Cardinality(First) \in Nat
  /\ IsFiniteSet(Denied) /\ Cardinality(Denied) \in Nat
<1>1. First \subseteq Requests /\ Denied \subseteq Requests
  BY Kinds DEF First, Denied
<1> QED BY <1>1, PnpAssumption, FS_Subset, FS_CardinalityType

LEMMA Holders ==
  /\ \A f \in Files : Holds(f) => <<"create", f>> \in First
  /\ (\A f \in Files : Holds(f) => <<"create", f>> \in First)'
<1>1. \A f \in Files : <<"create", f>> \in Creates /\ <<"create", f>>[2] = f
  BY Kinds
<1> QED BY <1>1 DEF First

LEMMA TheFirst ==
  ASSUME OpenInv, NEW p \in First
  PROVE  First = {p} /\ openCount = 1 + Cardinality(Denied)
<1>1. First = {p}
  BY DEF OpenInv
<1>2. Cardinality(First) = 1
  BY <1>1, FS_Singleton
<1> QED BY <1>1, <1>2 DEF OpenInv

\* The file of a close that is on its way holds the port.
LEMMA TheClosed ==
  ASSUME FileInv, NEW r \in Closes, pc[r] \in Closing \ {"none"} \/ (r \in releasing /\ pc[r] # "none")
  PROVE  Holds(r[2]) /\ <<"create", r[2]>> \in First
<1>1. r = <<"close", r[2]>> /\ r[2] \in Files /\ <<"create", r[2]>> \in Creates
  BY Kinds
<1>2. Holds(r[2])
  BY <1>1 DEF Holds, FileInv, Closing
<1> QED BY <1>1, <1>2 DEF First

LEMMA OpenFrame ==
  ASSUME OpenInv, First' = First, Denied' = Denied, openCount' = openCount,
         \A f \in Files : Holds(f)' /\ <<"close", f>> \notin releasing' => ring'
  PROVE  OpenInv'
  BY DEF OpenInv

\* Most steps change nothing of this.
LEMMA AsideStep ==
  ASSUME OpenInv, UNCHANGED <<opened, releasing, openCount>>, ring' <=> ring,
         \A u \in Creates : /\ pc'[u] = "failing" <=> pc[u] = "failing"
                            /\ pc'[u] = "denied" <=> pc[u] = "denied",
         \A u \in Closes \ releasing : pc'[u] \in Closing <=> pc[u] \in Closing
  PROVE  OpenInv'
<1>1. ASSUME NEW f \in Files PROVE Holds(f)' <=> Holds(f)
  BY Kinds DEF Holds, Closing
<1>2. First' = First /\ Denied' = Denied
  BY <1>1, Kinds DEF First, Denied
<1> QED BY <1>1, <1>2, OpenFrame DEF OpenInv

LEMMA CreateOpens ==
  ASSUME IInv, NoStop, FileInv, OpenInv, NEW r \in Requests,
         OpenDevice(r) \/ OpenFails(r) \/ OpenDenied(r) \/ UndoOpen(r)
  PROVE  OpenInv'
<1>1. r \in Creates /\ r = <<"create", r[2]>> /\ r[2] \in Files
  BY Kinds DEF OpenDevice, OpenFails, OpenDenied, UndoOpen, Admitted, IInv, KindInv
<1>2. r[2] \notin opened /\ ~Holds(r[2])
  BY <1>1 DEF OpenDevice, OpenFails, OpenDenied, UndoOpen, Admitted, FileInv, Holds
<1>3. pc \in [Requests -> Labels] /\ openCount \in Int
  BY DEF IInv, TypeOK, RequestTypes, OpenTypes
<1>4. ASSUME OpenDevice(r) \/ OpenFails(r) PROVE OpenInv'
  <2>1. openCount = 0 /\ openCount' = 1 /\ pc[r] = "admitted" /\ releasing' = releasing
    BY <1>3, <1>4 DEF OpenDevice, OpenFails, Admitted, FirstOpen
  <2>2. First = {} /\ Denied = {}
    <3>1. Cardinality(First) = 0 /\ Cardinality(Denied) = 0
      BY <2>1, OpenSets DEF OpenInv
    <3> QED BY <3>1, OpenSets, FS_EmptySet
  <2>3. \A f \in Files : ~Holds(f)
    BY <2>2, Holders
  <2>4. PICK l \in {"complete", "failing"} : pc' = [pc EXCEPT ![r] = l]
          /\ (l = "complete" => opened' = opened \union {r[2]} /\ ring')
          /\ (l = "failing" => opened' = opened)
    BY <1>4 DEF OpenDevice, OpenFails, Goto
  <2>5. \A u \in Creates : u # r => pc'[u] = pc[u] /\ u[2] # r[2]
    BY <1>1, <2>4, Kinds
  <2>6. pc'[r] = l /\ \A u \in Closes : pc'[u] = pc[u]
    BY <1>1, <1>3, <2>4, Kinds
  <2>7. \A f \in Files : f # r[2] => ~Holds(f)'
    BY <2>1, <2>3, <2>4, <2>6, Kinds DEF Holds
  <2>8. Holds(r[2])' <=> l = "complete"
    <3>1. pc[<<"close", r[2]>>] = "none"
      BY <1>1, <1>2 DEF FileInv
    <3> QED BY <1>1, <1>2, <2>4, <2>6, <3>1, Kinds DEF Holds
  <2>9. First' = {r}
    <3>1. \A u \in Creates : u # r => pc[u] # "failing"
      BY <2>2 DEF First
    <3> QED BY <1>1, <2>4, <2>5, <2>6, <2>7, <2>8, <3>1, Kinds DEF First
  <2>10. Denied' = {}
    BY <2>2, <2>4, <2>5, <2>6 DEF Denied
  <2>11. Cardinality(First') = 1 /\ Cardinality(Denied') = 0
    BY <2>9, <2>10, FS_Singleton, FS_EmptySet
  <2>12. \A f \in Files : Holds(f)' => ring'
    BY <2>4, <2>7, <2>8
  <2> QED BY <2>1, <2>9, <2>11, <2>12 DEF OpenInv
<1>5. ASSUME OpenDenied(r) \/ UndoOpen(r) PROVE OpenInv'
  <2>1. PICK l \in {"denied", "complete"} : pc' = [pc EXCEPT ![r] = l]
          /\ (l = "denied" => pc[r] = "admitted" /\ openCount' = openCount + 1 /\ ring' = ring)
          /\ (l = "complete" => /\ pc[r] \in {"denied", "failing"} /\ openCount' = openCount - 1
                                /\ (pc[r] = "denied" /\ ring => ring'))
    BY <1>5 DEF OpenDenied, UndoOpen, Admitted, Goto
  <2>2. UNCHANGED <<opened, releasing>>
    BY <1>5 DEF OpenDenied, UndoOpen
  <2>3. pc'[r] = l /\ (\A u \in Creates : u # r => pc'[u] = pc[u]) /\ \A u \in Closes : pc'[u] = pc[u]
    BY <1>1, <1>3, <2>1, Kinds
  <2>4. \A f \in Files : Holds(f)' <=> Holds(f)
    BY <2>2, <2>3, Kinds DEF Holds
  <2>5. First' = First \ {r}
    BY <1>1, <1>2, <2>1, <2>3, <2>4, Kinds DEF First
  <2>6. CASE l = "denied"
    <3>1. Denied' = Denied \union {r} /\ r \notin Denied /\ r \notin First
      BY <1>1, <1>2, <2>1, <2>3, <2>6 DEF Denied, First
    <3>2. Cardinality(Denied') = Cardinality(Denied) + 1
      BY <3>1, OpenSets, FS_AddElement
    <3>3. First' = First
      BY <2>5, <3>1
    <3>4. openCount' = openCount + 1 /\ ring' = ring
      BY <2>1, <2>6
    <3> QED BY <1>3, <2>2, <2>4, <3>2, <3>3, <3>4, OpenSets DEF OpenInv
  <2>7. CASE l = "complete" /\ pc[r] = "denied"
    <3>1. Denied' = Denied \ {r} /\ r \in Denied /\ r \notin First
      BY <1>1, <1>2, <2>1, <2>3, <2>7 DEF Denied, First
    <3>2. Cardinality(Denied') = Cardinality(Denied) - 1
      BY <3>1, OpenSets, FS_RemoveElement
    <3>3. First' = First
      BY <2>5, <3>1
    <3>4. openCount' = openCount - 1 /\ (ring => ring')
      BY <2>1, <2>7
    <3> QED BY <1>3, <2>2, <2>4, <3>2, <3>3, <3>4, OpenSets DEF OpenInv
  <2>8. CASE l = "complete" /\ pc[r] = "failing"
    <3>1. Denied' = Denied /\ r \in First
      BY <1>1, <2>1, <2>3, <2>8 DEF Denied, First
    <3>2. First' = {} /\ openCount = 1 + Cardinality(Denied)
      BY <2>5, <3>1, TheFirst
    <3>3. Cardinality(First') = 0 /\ Cardinality(Denied') = Cardinality(Denied)
      BY <3>1, <3>2, FS_EmptySet
    <3>4. \A f \in Files : ~Holds(f)'
      BY <3>2, Holders
    <3>5. openCount' = Cardinality(First') + Cardinality(Denied')
      BY <2>1, <2>8, <3>2, <3>3, OpenSets
    <3> QED BY <3>2, <3>4, <3>5 DEF OpenInv
  <2> QED BY <2>1, <2>6, <2>7, <2>8
<1> QED BY <1>4, <1>5

LEMMA CloseOpens ==
  ASSUME IInv, NoStop, FileInv, OpenInv, NEW r \in Requests,
         BeginClose(r) \/ EndClose(r) \/ ReleaseOpen(r) \/ (Reject(r) /\ r \in Closes)
  PROVE  OpenInv'
<1>1. r \in Closes /\ r = <<"close", r[2]>> /\ r[2] \in Files
  BY Kinds DEF BeginClose, EndClose, ReleaseOpen, Admitted, IInv, KindInv
<1>2. pc \in [Requests -> Labels] /\ openCount \in Int /\ (pc[r] = "release" => r \in releasing)
  BY DEF IInv, TypeOK, RequestTypes, OpenTypes, KindInv
<1>3. (pc[r] \in {"admitted", "closing", "deleted"} /\ r \notin releasing)
      \/ (pc[r] = "release" /\ r \in releasing)
  BY <1>2 DEF BeginClose, EndClose, ReleaseOpen, Reject, NoStop, Admitted, IInv, KindInv
<1>4. Holds(r[2]) /\ <<"create", r[2]>> \in First
  BY <1>1, <1>3, TheClosed DEF Closing
<1>5. First = {<<"create", r[2]>>} /\ openCount = 1 + Cardinality(Denied)
  BY <1>4, TheFirst
<1>6. \A f \in Files : f # r[2] => ~Holds(f)
  BY <1>1, <1>5, Kinds DEF First
<1>7. PICK l : /\ pc' = [pc EXCEPT ![r] = l] /\ opened' = opened
               /\ \/ l = "closing" /\ pc[r] = "admitted" /\ UNCHANGED <<releasing, openCount, ring>>
                  \/ l = "complete" /\ pc[r] = "admitted" /\ UNCHANGED <<releasing, openCount, ring>>
                  \/ l \in {"complete", "epilogue"} /\ releasing' = releasing \union {r}
                     /\ openCount' = openCount
                  \/ l = "done" /\ releasing' = releasing \ {r} /\ openCount' = openCount - 1
  <2>1. CASE BeginClose(r)
    BY <2>1 DEF BeginClose, Admitted, Goto
  <2>2. CASE EndClose(r)
    BY <2>2 DEF EndClose, Goto
  <2>3. CASE ReleaseOpen(r)
    BY <2>3 DEF ReleaseOpen, Goto
  <2>4. CASE Reject(r) /\ r \in Closes
    BY <2>4 DEF Reject, IfClose, Goto
  <2> QED BY <2>1, <2>2, <2>3, <2>4
<1>8. pc'[r] = l /\ \A u \in Requests : u # r => pc'[u] = pc[u]
  BY <1>2, <1>7
<1>9. Denied' = Denied
  BY <1>1, <1>8, Kinds DEF Denied
<1>10. \A u \in Creates : pc'[u] = pc[u]
  BY <1>1, <1>8, Kinds
<1>11. \A f \in Files : f # r[2] => <<"close", f>> # r /\ <<"close", f>> \in Requests
  BY <1>1, Kinds
<1>12. \A f \in Files : f # r[2] => ~Holds(f)'
  BY <1>1, <1>6, <1>7, <1>8, <1>11 DEF Holds
<1>13. ASSUME Holds(r[2])' PROVE First' = First
  <2>1. \A f \in Files : Holds(f)' <=> Holds(f)
    BY <1>4, <1>6, <1>12, <1>13
  <2> QED BY <1>10, <2>1, Kinds DEF First
<1>14. ASSUME ~Holds(r[2])' PROVE First' = {}
  <2>1. \A f \in Files : ~Holds(f)'
    BY <1>12, <1>14
  <2>2. \A u \in Creates : pc[u] # "failing"
    <3>1. ASSUME NEW u \in Creates, pc[u] = "failing" PROVE FALSE
      <4>1. u = <<"create", r[2]>>
        BY <1>5, <3>1 DEF First
      <4> QED BY <1>1, <1>4, <3>1, <4>1 DEF Holds, FileInv
    <3> QED BY <3>1
  <2> QED BY <1>10, <2>1, <2>2, Kinds DEF First
<1>15. CASE l = "closing" /\ pc[r] = "admitted" /\ UNCHANGED <<releasing, openCount, ring>>
  <2>1. Holds(r[2])'
    BY <1>1, <1>4, <1>7, <1>8, <1>15 DEF Holds
  <2>2. ring'
    <3>1. r \notin releasing
      BY <1>3, <1>15
    <3> QED BY <1>1, <1>4, <1>15, <3>1 DEF OpenInv
  <2> QED BY <1>9, <1>13, <1>15, <2>1, <2>2, OpenFrame
<1>16. CASE l = "complete" /\ pc[r] = "admitted" /\ UNCHANGED <<releasing, openCount, ring>>
  <2>1. ~Holds(r[2])'
    BY <1>1, <1>3, <1>8, <1>16 DEF Holds
  <2>2. First' = {} /\ openCount' = 1 + Cardinality(Denied')
    BY <1>5, <1>9, <1>14, <1>16, <2>1
  <2> QED BY <1>12, <2>1, <2>2 DEF OpenInv
<1>17. CASE l \in {"complete", "epilogue"} /\ releasing' = releasing \union {r} /\ openCount' = openCount
  <2>1. Holds(r[2])' /\ r \in releasing'
    BY <1>1, <1>4, <1>7, <1>17 DEF Holds
  <2>2. First' = First
    BY <1>13, <2>1
  <2>3. \A f \in Files : Holds(f)' /\ <<"close", f>> \notin releasing' => ring'
    BY <1>1, <1>12, <2>1
  <2> QED BY <1>9, <1>17, <2>2, <2>3, OpenFrame
<1>18. CASE l = "done" /\ releasing' = releasing \ {r} /\ openCount' = openCount - 1
  <2>1. ~Holds(r[2])'
    BY <1>1, <1>8, <1>18 DEF Holds
  <2>2. First' = {} /\ Cardinality(Denied') = Cardinality(Denied)
    BY <1>9, <1>14, <2>1
  <2>3. openCount' = Cardinality(First') + Cardinality(Denied')
    BY <1>5, <1>18, <2>2, OpenSets, FS_EmptySet
  <2> QED BY <1>12, <2>1, <2>2, <2>3 DEF OpenInv
<1> QED BY <1>7, <1>15, <1>16, <1>17, <1>18

LEMMA RequestOpens ==
  ASSUME IInv, NoStop, FileInv, OpenInv, NEW r \in Requests, Arrive(r) \/ FinishRead(r) \/ Goes(r)
  PROVE  OpenInv'
<1>0. pc \in [Requests -> Labels] /\ Creates \subseteq Requests /\ Closes \subseteq Requests
      /\ Creates \intersect Closes = {}
  BY Kinds DEF IInv, TypeOK, RequestTypes
<1>1. ASSUME Arrive(r) \/ CheckState(r) \/ LockOpen(r) \/ Enter(r) \/ Filter(r) PROVE OpenInv'
  <2>1. PICK l \in {"called", "checked", "done", "locked", "counted", "admitted", "deleted"} :
          /\ pc' = [pc EXCEPT ![r] = l]
          /\ pc[r] \in {"none", "called", "checked", "locked", "counted"}
          /\ r \in Closes => l \in Closing
    <3>1. CASE Filter(r)
      BY <3>1 DEF Filter, Goto, Verdict, NoStop, Closing
    <3>2. ASSUME ~Filter(r)
          PROVE  /\ \E l \in {"called", "checked", "done", "locked", "counted"} :
                      pc' = [pc EXCEPT ![r] = l] /\ (r \in Closes => l \in Closing)
                 /\ pc[r] \in {"none", "called", "checked", "locked"}
      BY <1>0, <1>1, <3>2 DEF Arrive, CheckState, LockOpen, Enter, Goto, Closing, IInv, KindInv
    <3> QED BY <3>1, <3>2
  <2>2. UNCHANGED <<opened, releasing, openCount, ring>>
    BY <1>1 DEF Arrive, CheckState, LockOpen, Enter, Filter, openVars
  <2>3. pc'[r] = l /\ \A u \in Requests : u # r => pc'[u] = pc[u]
    BY <1>0, <2>1
  <2>4. r \in Closes => pc[r] \in Closing
    BY <1>0, <2>1 DEF Closing, IInv, KindInv
  <2> QED BY <1>0, <2>1, <2>2, <2>3, <2>4, AsideStep
<1>2. ASSUME CompleteRequest(r) \/ Epilogue(r) \/ SetEvent(r) PROVE OpenInv'
  <2>1. PICK l \in {"epilogue", "signal", "release", "done"} :
          pc' = [pc EXCEPT ![r] = l] /\ pc[r] \in {"complete", "epilogue", "signal"}
    BY <1>2 DEF CompleteRequest, Epilogue, SetEvent, AfterEpilogue, Goto
  <2>2. UNCHANGED <<opened, releasing, openCount, ring>>
    BY <1>2 DEF CompleteRequest, Epilogue, SetEvent, openVars
  <2>3. pc'[r] = l /\ \A u \in Requests : u # r => pc'[u] = pc[u]
    BY <1>0, <2>1
  <2> QED BY <1>0, <2>1, <2>2, <2>3, AsideStep DEF Closing
<1>3. ASSUME StartRead(r) \/ FinishRead(r) \/ ControlDevice(r) \/ Cleanup(r) PROVE OpenInv'
  <2>1. r \notin Creates /\ r \notin Closes
    BY <1>3, Kinds DEF StartRead, FinishRead, ControlDevice, Cleanup, Admitted, IInv, KindInv
  <2>2. \A u \in Creates \union Closes : pc'[u] = pc[u]
    <3>1. CASE Cleanup(r)
      <4>1. \A u \in Creates \union Closes : u # r /\ pc[u] # "pending"
        BY <2>1, Kinds DEF IInv, KindInv
      <4> QED BY <1>0, <3>1, <4>1 DEF Cleanup, Killed
    <3>2. CASE StartRead(r) \/ FinishRead(r) \/ ControlDevice(r)
      BY <1>0, <2>1, <3>2 DEF StartRead, FinishRead, ControlDevice, Goto
    <3> QED BY <1>3, <3>1, <3>2
  <2>3. UNCHANGED <<opened, releasing, openCount, ring>>
    BY <1>3 DEF StartRead, FinishRead, ControlDevice, Cleanup, openVars
  <2> QED BY <2>2, <2>3, AsideStep
<1>4. ASSUME Reject(r), r \notin Closes PROVE OpenInv'
  <2>1. pc[r] = "deleted" /\ pc' = [pc EXCEPT ![r] = "epilogue"] /\ UNCHANGED <<opened, openCount>>
        /\ releasing' = releasing \union IfClose(r) /\ ring' = (ring /\ ~FreesRing(r))
    BY <1>4 DEF Reject, Goto, NoStop
  <2>2. releasing' = releasing
    BY <1>4, <2>1 DEF IfClose
  <2>3. ring' <=> ring
    BY <1>4, <2>1 DEF FreesRing
  <2>4. pc'[r] = "epilogue" /\ \A u \in Requests : u # r => pc'[u] = pc[u]
    BY <1>0, <2>1
  <2> QED BY <1>0, <1>4, <2>1, <2>2, <2>3, <2>4, AsideStep
<1>5. ~Stall(r)
  BY DEF Stall, NoStop
<1> QED BY <1>1, <1>2, <1>3, <1>4, <1>5, CreateOpens, CloseOpens DEF Goes

LEMMA OpenStep ==
  ASSUME IInv, NoStop, FileInv, OpenInv, "query_stop" \notin Minors, Next
  PROVE  OpenInv'
<1>1. ASSUME PnpGoes \/ \E m \in Minors : PnpArrives(m) PROVE OpenInv'
  <2>1. UNCHANGED <<opened, releasing, openCount, ring>>
    BY <1>1, PnpLeavesFiles
  <2>2. \A u \in Creates \union Closes : pc'[u] = pc[u]
    BY <1>1, PnpLeavesFiles, Kinds
  <2> QED BY <2>1, <2>2, AsideStep
<1> QED BY <1>1, RequestOpens DEF Next

LEMMA InitRemovals == Init => RemovalsOnly
<1> SUFFICES ASSUME Init PROVE RemovalsOnly
  OBVIOUS
<1>1. NoStop
  BY PnpAssumption DEF Init, NoStop, MinorFunctions
<1>2. RemovalInv
  BY DEF Init, RemovalInv, Going, Over, Signaled
<1>3. FileInv
  BY Kinds DEF Init, FileInv
<1>4. OpenInv
  <2>1. \A u \in Requests : pc[u] = "none"
    BY DEF Init
  <2>2. (\A f \in Files : ~Holds(f)) /\ \A u \in Creates : u[2] \in Files
    BY Kinds DEF Init, Holds
  <2>3. First = {} /\ Denied = {}
    BY <2>1, <2>2, Kinds DEF First, Denied
  <2>4. openCount = Cardinality(First) + Cardinality(Denied)
    BY <2>3, FS_EmptySet DEF Init
  <2> QED BY <2>2, <2>3, <2>4 DEF OpenInv
<1> QED BY <1>1, <1>2, <1>3, <1>4 DEF RemovalsOnly

LEMMA NextRemovals ==
  ASSUME "query_stop" \notin Minors
  PROVE  IInv /\ RemovalsOnly /\ [Next]_vars => RemovalsOnly'
<1> SUFFICES ASSUME IInv, RemovalsOnly, [Next]_vars PROVE RemovalsOnly'
  OBVIOUS
<1>1. CASE Next
  BY <1>1, NoStopStep, RemovalStep, FileStep, OpenStep DEF RemovalsOnly
<1>2. CASE UNCHANGED vars
  <2>1. UNCHANGED <<pc, opened, releasing, openCount, ring, accept, manager, minor, step, pendingIRPEvent>>
    BY <1>2 DEF vars, requestVars, openVars, pnpVars, countVars
  <2>2. NoStop' /\ RemovalInv' /\ FileInv'
    BY <2>1 DEF RemovalsOnly, NoStop, RemovalInv, Going, Over, Signaled, Quiet, FileInv
  <2>3. OpenInv'
    BY <2>1, AsideStep DEF RemovalsOnly
  <2> QED BY <2>2, <2>3 DEF RemovalsOnly
<1> QED BY <1>1, <1>2

\* Removal without a stop before it: once SerialIRPPrologue's gate is shut and
\* the wait for PendingIRPEvent is over, no request is at work on the device.
THEOREM RemovalWaitsForAll ==
  ASSUME "query_stop" \notin Minors
  PROVE  Spec => []RemovedIsQuiet
<1>1. RemovalsOnly => RemovedIsQuiet
  BY DEF RemovalsOnly, RemovalInv, Over, Quiet, RemovedIsQuiet, Drained
<1>2. IInv /\ RemovalsOnly /\ [Next]_vars => RemovalsOnly'
  BY NextRemovals
<1> QED BY InitIInv, NextIInv, InitRemovals, <1>1, <1>2, PTL DEF Spec

\* OpenCount makes the port exclusive, whatever creates, failing creates and
\* closes do at the same time.
THEOREM OpenCountExcludes ==
  ASSUME "query_stop" \notin Minors
  PROVE  Spec => []OpensExclude
<1>1. IInv /\ RemovalsOnly => OpensExclude
  <2> SUFFICES ASSUME IInv, RemovalsOnly PROVE OpensExclude
    OBVIOUS
  <2>1. ASSUME NEW f \in Files, FileOpen(f)
        PROVE  Holds(f) /\ <<"create", f>> \in First /\ ring
    <3>1. <<"close", f>> \notin releasing /\ Holds(f)
      BY <2>1, Kinds DEF FileOpen, Holds, IInv, KindInv
    <3> QED BY <3>1, Holders DEF RemovalsOnly, OpenInv
  <2>2. OneOpen
    BY <2>1 DEF OneOpen, RemovalsOnly, OpenInv
  <2>3. ASSUME NEW r \in Closes, pc[r] = "admitted", openCount # 1
        PROVE  openCount > 1 /\ \E q \in Creates : pc[q] = "denied"
    <3>1. <<"create", r[2]>> \in First
      BY <2>3, TheClosed DEF RemovalsOnly, Closing
    <3>2. openCount = 1 + Cardinality(Denied)
      BY <3>1, TheFirst DEF RemovalsOnly
    <3>3. Cardinality(Denied) > 0
      BY <2>3, <3>2, OpenSets
    <3>4. Denied # {}
      BY <3>3, FS_EmptySet
    <3> QED BY <3>2, <3>3, <3>4, OpenSets DEF Denied
  <2> QED BY <2>2, <2>3 DEF OpensExclude, CloseRefused
<1>2. IInv /\ RemovalsOnly /\ [Next]_vars => RemovalsOnly'
  BY NextRemovals
<1> QED BY InitIInv, NextIInv, InitRemovals, <1>1, <1>2, PTL DEF Spec
=============================================================================
