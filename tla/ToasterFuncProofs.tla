-------------------------- MODULE ToasterFuncProofs --------------------------
(***************************************************************************)
(* Proofs about ToasterFunc, for any finite sets of files and reads: a     *)
(* queued read has one owner and is completed once, the count is exact and *)
(* protects the device object, and StopEvent tells what it says.           *)
(*                                                                         *)
(* The inductive invariant adds three things to these properties.  Where a *)
(* read is in its thread tells whether it was completed; the requests of a *)
(* file come in the order the I/O manager sends them, so that a removal    *)
(* meets none that will still come in; and the count reaches zero once, so *)
(* that the one who finds it there sets RemoveEvent once.                  *)
(***************************************************************************)
EXTENDS ToasterFunc, FiniteSetTheorems, TLAPS

-----------------------------------------------------------------------------
(* The inductive invariant. *)

\* Where the threads of each kind may be.
Coming  == {"none", "enter", "clear", "inside"}
Leaving == {"leave", "setstop", "setremove", "done"}
LastLabels == {"leavelast", "setstoplast", "setremove", "waitremove", "removed"}
LabelsOf(t) ==
  IF t = Pnp THEN {"idle", "enter", "clear", "inside", "process", "flush", "leave", "setstop",
                   "waitstop"} \union LastLabels
  ELSE Coming \union Leaving
       \union (IF t \in Reads THEN {"called", "queue"} ELSE {})
       \union (IF t \in Cleanups THEN {"flush"} ELSE {})
KindInv == \A t \in Threads : pc[t] \in LabelsOf(t)

\* A queued read, one that its cancel routine has, and one on a list.
Waiting(r) == pc[r] = "done" /\ completions[r] = 0
Held(r) == r \in queue \/ canceller[r] = "routine"
ReadInv ==
  \A r \in Reads :
    /\ completions[r] <= 1
    /\ r \in routine <=> (r \in queue /\ canceller[r] # "routine")
    /\ Held(r) => Waiting(r)
    /\ pc[r] \in Coming \union {"called", "queue"} => completions[r] = 0
    /\ pc[r] \in {"leave", "setstop", "setremove"} => completions[r] = 1
    /\ Waiting(r) => Held(r) \/ \E t \in Threads : r \in doomed[t]

ListInv ==
  \A t \in Threads :
    /\ \A r \in doomed[t] :
         /\ Waiting(r) /\ ~Held(r)
         /\ \A u \in Threads : r \in doomed[u] => u = t
    /\ doomed[t] # {} =>
         \/ t = Pnp /\ pc[t] \in {"process", "flush"}
         \/ t \in Cleanups /\ pc[t] = "flush"

\* A file is created before anything else, cleaned up before it is closed, and
\* closed when its reads are completed.
CreateOf(f)  == <<"create", f>>
CleanupOf(f) == <<"cleanup", f>>
CloseOf(f)   == <<"close", f>>
FileInv ==
  /\ \A r \in Reads : pc[r] # "none" => pc[CreateOf(FileOf(r))] = "done"
  /\ \A f \in Files :
       /\ pc[CleanupOf(f)] # "none" => pc[CreateOf(f)] = "done"
       /\ pc[CloseOf(f)] # "none" =>
            /\ pc[CleanupOf(f)] = "done"
            /\ \A r \in Reads : FileOf(r) = f => pc[r] = "none" \/ completions[r] > 0

\* A removal: the files are gone before, and the state is Deleted before the
\* thread takes the last counts off.
RemovalInv ==
  /\ minor = "remove" => \A f \in Files : FileGone(f)
  /\ pc[Pnp] \in LastLabels => minor = "remove"
  /\ minor = "remove" /\ pc[Pnp] \in {"leave", "setstop"} \union LastLabels =>
       pnpState = "Deleted"

\* Who found the count at zero, or has said so.
Told == removeEvent \/ pc[Pnp] = "removed"
ZeroInv ==
  /\ Told \/ (\E t \in Threads : pc[t] = "setremove") => outstandingIO = 0
  /\ \A t \in Threads : pc[t] = "setremove" =>
       ~Told /\ \A u \in Threads : pc[u] = "setremove" => u = t

IInv ==
  /\ TypeOK /\ KindInv /\ ReadInv /\ ListInv /\ FileInv /\ RemovalInv
  /\ CountExact /\ ZeroInv /\ StopEventTruth

-----------------------------------------------------------------------------
(* The threads. *)

LEMMA Kinds ==
  /\ Reads \intersect Creates = {} /\ Reads \intersect Cleanups = {} /\ Reads \intersect Closes = {}
  /\ Creates \intersect Cleanups = {} /\ Creates \intersect Closes = {}
  /\ Cleanups \intersect Closes = {}
  /\ Pnp \notin Requests /\ Pnp \notin Reads /\ Pnp \notin Creates /\ Pnp \notin Cleanups /\ Pnp \notin Closes
BY ThreadsAssumption DEF Requests, Reads, Creates, Cleanups, Closes

LEMMA FileNames ==
  /\ \A r \in Requests : FileOf(r) \in Files
  /\ \A f \in Files : CreateOf(f) \in Creates /\ CleanupOf(f) \in Cleanups /\ CloseOf(f) \in Closes
  /\ \A r \in Creates : r = CreateOf(FileOf(r))
  /\ \A r \in Cleanups : r = CleanupOf(FileOf(r))
  /\ \A r \in Closes : r = CloseOf(FileOf(r))
  /\ \A f, g \in Files :
       /\ CreateOf(f) = CreateOf(g) => f = g
       /\ CleanupOf(f) = CleanupOf(g) => f = g
       /\ CloseOf(f) = CloseOf(g) => f = g
BY DEF Requests, Reads, Creates, Cleanups, Closes, FileOf, CreateOf, CleanupOf, CloseOf

LEMMA ThreadSets ==
  /\ Threads = Requests \union {Pnp}
  /\ Requests = Reads \union Creates \union Cleanups \union Closes
BY DEF Threads, Requests

LEMMA ThreadsAreFinite == IsFiniteSet(Threads)
BY ThreadsAssumption, FS_AddElement DEF Threads

-----------------------------------------------------------------------------
(* The count. *)

LEMMA InsideIsFinite ==
  /\ IsFiniteSet(Inside) /\ Cardinality(Inside) \in Nat
  /\ \A t \in Inside : Cardinality(Inside) >= 1
<1>1. IsFiniteSet(Inside)
  BY ThreadsAreFinite, FS_Subset DEF Inside
<1>2. ASSUME NEW t \in Inside PROVE Cardinality(Inside) >= 1
  BY <1>1, FS_EmptySet, FS_CardinalityType
<1> QED BY <1>1, <1>2, FS_CardinalityType

\* Whoever is inside is counted.
LEMMA CountedIsCounted ==
  ASSUME CountExact
  PROVE  /\ \A t \in Threads : pc[t] \in Counted => outstandingIO >= Base + 1
         /\ outstandingIO >= Base /\ Base \in {0, 1}
BY InsideIsFinite DEF CountExact, Inside, Base

In(label) == IF label \in Counted THEN 1 ELSE 0

\* A thread that moves changes the number of those inside as its labels say.
LEMMA InsideMoves ==
  ASSUME TypeOK, NEW t \in Threads, NEW l, pc' = [pc EXCEPT ![t] = l]
  PROVE  Cardinality(Inside)' = Cardinality(Inside) + In(l) - In(pc[t])
<1>1. pc'[t] = l /\ \A u \in Threads : u # t => pc'[u] = pc[u]
  BY DEF TypeOK
<1>2. CASE pc[t] \in Counted <=> l \in Counted
  <2>1. Inside' = Inside
    BY <1>1, <1>2 DEF Inside
  <2> QED BY <2>1, <1>2, InsideIsFinite DEF In
<1>3. CASE pc[t] \in Counted /\ l \notin Counted
  <2>1. Inside' = Inside \ {t} /\ t \in Inside
    BY <1>1, <1>3 DEF Inside
  <2>2. Cardinality(Inside') = Cardinality(Inside) - 1
    BY <2>1, InsideIsFinite, FS_RemoveElement
  <2> QED BY <2>2, <1>3, InsideIsFinite DEF In
<1>4. CASE pc[t] \notin Counted /\ l \in Counted
  <2>1. Inside' = Inside \union {t} /\ t \notin Inside
    BY <1>1, <1>4 DEF Inside
  <2>2. Cardinality(Inside') = Cardinality(Inside) + 1
    BY <2>1, InsideIsFinite, FS_AddElement
  <2> QED BY <2>2, <1>4, InsideIsFinite DEF In
<1> QED BY <1>2, <1>3, <1>4

LEMMA CountKept ==
  ASSUME TypeOK, CountExact, NEW t \in Threads, NEW l, pc' = [pc EXCEPT ![t] = l],
         outstandingIO' = outstandingIO + In(l) - In(pc[t]) + Base' - Base
  PROVE  CountExact'
<1>1. Cardinality(Inside)' = Cardinality(Inside) + In(l) - In(pc[t])
  BY InsideMoves
<1>2. In(l) \in {0, 1} /\ In(pc[t]) \in {0, 1} /\ Base \in {0, 1} /\ Base' \in {0, 1}
  BY DEF In, Base
<1> QED BY <1>1, <1>2, InsideIsFinite DEF CountExact

\* With nobody counted a removal has taken its counts off, and nobody is inside.
LEMMA ZeroMeansGone ==
  ASSUME TypeOK, KindInv, CountExact, outstandingIO = 0
  PROVE  /\ pc[Pnp] \in LastLabels \ {"leavelast"}
         /\ \A t \in Threads : pc[t] \notin Counted
BY CountedIsCounted DEF Base, LastLabels, LabelsOf

-----------------------------------------------------------------------------
(* What the steps of the threads do to their labels. *)

\* When a removal has been sent nobody comes in any more, and no read waits.
LEMMA RemovalIsQuiet ==
  ASSUME TypeOK, KindInv, ReadInv, FileInv, RemovalInv, minor = "remove"
  PROVE  /\ \A r \in Requests : pc[r] \in {"none"} \union Leaving
         /\ \A r \in Reads : ~Waiting(r) /\ ~Held(r)
<1>1. ASSUME NEW r \in Reads
      PROVE  pc[r] \in {"none"} \union Leaving /\ ~Waiting(r) /\ ~Held(r)
  <2>1. FileOf(r) \in Files /\ r \in Threads /\ r # Pnp /\ r \notin Cleanups
    BY Kinds, FileNames, ThreadSets
  <2>2. pc[r] = "none" \/ completions[r] > 0
    BY <2>1 DEF RemovalInv, FileGone, FileInv, CreateOf, CloseOf, CleanupOf, Done
  <2>3. pc[r] \in LabelsOf(r)
    BY <2>1 DEF KindInv
  <2> QED BY <2>1, <2>2, <2>3 DEF ReadInv, Waiting, LabelsOf, Coming, Leaving, TypeOK
<1>2. ASSUME NEW f \in Files
      PROVE  /\ pc[CreateOf(f)] \in {"none", "done"} /\ pc[CleanupOf(f)] \in {"none", "done"}
             /\ pc[CloseOf(f)] \in {"none", "done"}
  BY DEF RemovalInv, FileGone, FileInv, CreateOf, CloseOf, CleanupOf, Done
<1>3. ASSUME NEW r \in Creates \union Cleanups \union Closes
      PROVE  pc[r] \in {"none"} \union Leaving
  <2>1. FileOf(r) \in Files /\ r \in {CreateOf(FileOf(r)), CleanupOf(FileOf(r)), CloseOf(FileOf(r))}
    BY FileNames, ThreadSets
  <2> QED BY <2>1, <1>2 DEF Leaving
<1> QED BY <1>1, <1>3, ThreadSets

\* A step of the counting, of a request or of the plug-and-play thread.
CountMove(t, l) ==
  /\ pc' = [pc EXCEPT ![t] = l] /\ l \in LabelsOf(t)
  /\ outstandingIO' = outstandingIO + In(l) - In(pc[t]) + Base' - Base
  /\ \/ pc[t] = "enter" /\ l \in {"clear", "inside"}
     \/ pc[t] = "clear" /\ l = "inside"
     \/ t # Pnp /\ pc[t] \in Leaving \ {"done"} /\ l \in Leaving \ {"leave"}
     \/ /\ t = Pnp /\ pc[t] \in {"leave", "setstop"} \union LastLabels
        /\ l \in {"setstop", "waitstop", "idle"} \union LastLabels
        /\ l \in LastLabels => minor = "remove"

LEMMA CountMoves ==
  ASSUME TypeOK, KindInv, CountExact, RemovalInv, NEW t \in Threads, Count(t)
  PROVE  UNCHANGED <<queueVars, pnpVars>> /\ \E l \in Labels : CountMove(t, l)
<1>0. pc[t] \in LabelsOf(t) /\ pc[t] \in Labels /\ pc \in [Threads -> Labels] /\ Pnp \in Threads
  BY DEF KindInv, TypeOK, Threads
<1>1. CASE Increment(t)
  <2> DEFINE l == IF FirstIn(outstandingIO + 1) THEN "clear" ELSE "inside"
  <2>1. pc' = [pc EXCEPT ![t] = l] /\ pc[t] = "enter" /\ l \in {"clear", "inside"}
        /\ outstandingIO' = outstandingIO + 1
    BY <1>1 DEF Increment, Goto
  <2> HIDE DEF l
  <2>2. Base' = Base /\ Base \in {0, 1} /\ In(l) = 1 /\ In(pc[t]) = 0
    BY <1>0, <2>1 DEF Base, In, Counted
  <2>3. l \in LabelsOf(t) /\ l \in Labels
    BY <2>1 DEF LabelsOf, Labels, Coming
  <2>4. CountMove(t, l)
    BY <2>1, <2>2, <2>3 DEF CountMove, TypeOK
  <2> QED BY <2>3, <2>4, <1>1 DEF Increment
<1>2. CASE ClearStopEvent(t)
  <2>1. pc' = [pc EXCEPT ![t] = "inside"] /\ pc[t] = "clear" /\ outstandingIO' = outstandingIO
    BY <1>2 DEF ClearStopEvent, Goto
  <2>2. Base' = Base /\ Base \in {0, 1} /\ In("inside") = 1 /\ In(pc[t]) = 1
    BY <1>0, <2>1 DEF Base, In, Counted
  <2>3. "inside" \in LabelsOf(t) /\ "inside" \in Labels
    BY <2>1 DEF LabelsOf, Labels, Coming
  <2>4. CountMove(t, "inside")
    BY <2>1, <2>2, <2>3 DEF CountMove, TypeOK
  <2> QED BY <2>3, <2>4, <1>2 DEF ClearStopEvent
<1>3. CASE Decrement(t)
  <2> DEFINE last == pc[t] = "leavelast"
             n == outstandingIO - 1
             l == IF Alone(n) /\ ~last THEN "setstop"
                  ELSE IF NobodyInside(n) THEN "setremove"
                  ELSE IF Alone(n) THEN "setstoplast"
                  ELSE IF last THEN "waitremove"
                  ELSE AfterLeaving(t)
  <2>1. pc' = [pc EXCEPT ![t] = l] /\ pc[t] \in {"leave", "leavelast"} /\ outstandingIO' = n
    BY <1>3 DEF Decrement, Goto
  <2>2. CASE t # Pnp
    <3>1. pc[t] = "leave"
      BY <2>1, <2>2, <1>0 DEF LabelsOf, Coming, Leaving
    <3>2. l \in {"setstop", "setremove", "done"}
      BY <3>1, <2>2 DEF AfterLeaving, Alone, NobodyInside
    <3> HIDE DEF l
    <3>3. Base' = Base /\ Base \in {0, 1} /\ In(l) = 0 /\ In(pc[t]) = 1
      BY <1>0, <2>1, <2>2, <3>1, <3>2 DEF Base, In, Counted
    <3>4. l \in LabelsOf(t) /\ l \in Labels
      BY <3>2, <2>2 DEF LabelsOf, Labels, Coming, Leaving
    <3>5. CountMove(t, l)
      BY <2>1, <2>2, <3>1, <3>2, <3>3, <3>4 DEF CountMove, TypeOK, Leaving
    <3> QED BY <3>4, <3>5, <1>3 DEF Decrement
  <2>3. CASE t = Pnp /\ pc[t] = "leave"
    <3>1. outstandingIO >= 2 /\ Base = 1
      BY <2>3, <1>0, CountedIsCounted DEF Counted, Base, TypeOK
    <3>2. l \in {"setstop", "waitstop", "idle", "leavelast"} /\ (l = "leavelast" => minor = "remove")
      BY <3>1, <2>3 DEF AfterLeaving, Alone, NobodyInside, TypeOK
    <3> HIDE DEF l
    <3>3. Base' = 1 /\ In(l) = 0 /\ In(pc[t]) = 1
      BY <1>0, <2>1, <2>3, <3>1, <3>2 DEF Base, In, Counted
    <3>4. l \in LabelsOf(t) /\ l \in Labels
      BY <3>2, <2>3 DEF LabelsOf, Labels, LastLabels
    <3>5. CountMove(t, l)
      BY <2>1, <2>3, <3>1, <3>2, <3>3, <3>4 DEF CountMove, TypeOK, LastLabels
    <3> QED BY <3>4, <3>5, <1>3 DEF Decrement
  <2>4. CASE t = Pnp /\ pc[t] = "leavelast"
    <3>1. minor = "remove" /\ Base = 1
      BY <2>4 DEF RemovalInv, LastLabels, Base
    <3>2. l \in {"setremove", "setstoplast", "waitremove"}
      BY <2>4 DEF Alone, NobodyInside
    <3> HIDE DEF l
    <3>3. Base' = 0 /\ In(l) = 0 /\ In(pc[t]) = 0
      BY <1>0, <2>1, <2>4, <3>2 DEF Base, In, Counted
    <3>4. l \in LabelsOf(t) /\ l \in Labels
      BY <3>2, <2>4 DEF LabelsOf, Labels, LastLabels
    <3>5. CountMove(t, l)
      BY <2>1, <2>4, <3>1, <3>2, <3>3, <3>4 DEF CountMove, TypeOK, LastLabels
    <3> QED BY <3>4, <3>5, <1>3 DEF Decrement
  <2> QED BY <2>1, <2>2, <2>3, <2>4
<1>4. CASE SetStopEvent(t)
  <2> DEFINE l == IF pc[t] = "setstoplast" THEN "waitremove" ELSE AfterLeaving(t)
  <2>1. pc' = [pc EXCEPT ![t] = l] /\ pc[t] \in {"setstop", "setstoplast"}
        /\ outstandingIO' = outstandingIO
    BY <1>4 DEF SetStopEvent, Goto
  <2>2. CASE t # Pnp
    <3>1. pc[t] = "setstop" /\ l = "done"
      BY <2>1, <2>2, <1>0 DEF LabelsOf, Coming, Leaving, AfterLeaving
    <3>2. Base' = Base /\ Base \in {0, 1} /\ In(l) = 0 /\ In(pc[t]) = 0
      BY <1>0, <2>1, <2>2, <3>1 DEF Base, In, Counted
    <3>3. CountMove(t, l) /\ l \in Labels
      BY <2>1, <2>2, <3>1, <3>2 DEF CountMove, TypeOK, Leaving, LabelsOf, Labels
    <3> QED BY <3>3, <1>4 DEF SetStopEvent
  <2>3. CASE t = Pnp
    <3>1. /\ l \in {"waitremove", "waitstop", "idle", "leavelast"}
          /\ l \in LastLabels => minor = "remove"
          /\ l = "waitremove" <=> pc[t] = "setstoplast"
      BY <2>1, <2>3 DEF AfterLeaving, RemovalInv, LastLabels
    <3> HIDE DEF l
    <3>2. Base' = Base /\ Base \in {0, 1} /\ In(l) = 0 /\ In(pc[t]) = 0
      BY <1>0, <2>1, <2>3, <3>1 DEF Base, In, Counted
    <3>3. l \in LabelsOf(t) /\ l \in Labels
      BY <3>1, <2>3 DEF LabelsOf, Labels, LastLabels
    <3>4. CountMove(t, l)
      BY <2>1, <2>3, <3>1, <3>2, <3>3 DEF CountMove, TypeOK, LastLabels
    <3> QED BY <3>3, <3>4, <1>4 DEF SetStopEvent
  <2> QED BY <2>2, <2>3
<1>5. CASE SetRemoveEvent(t)
  <2> DEFINE l == IF t = Pnp THEN "waitremove" ELSE "done"
  <2>1. pc' = [pc EXCEPT ![t] = l] /\ pc[t] = "setremove" /\ outstandingIO' = outstandingIO
    BY <1>5 DEF SetRemoveEvent, Goto
  <2>2. Base' = Base /\ Base \in {0, 1} /\ In(l) = 0 /\ In(pc[t]) = 0
    BY <1>0, <2>1 DEF Base, In, Counted
  <2>3. CountMove(t, l) /\ l \in Labels
    BY <2>1, <2>2 DEF CountMove, TypeOK, Leaving, LabelsOf, Labels, LastLabels, RemovalInv
  <2> QED BY <2>3, <1>5 DEF SetRemoveEvent
<1> QED BY <1>1, <1>2, <1>3, <1>4, <1>5 DEF Count

\* The steps of the plug-and-play thread that leave the reads alone.
PnpTurn ==
  \/ \E m \in Minors : PnpArrives(m)
  \/ StartDevice \/ QueryStop \/ QueryRemove \/ CancelStop \/ CancelRemove
  \/ StopDevice \/ SurpriseRemoval \/ RemoveDevice
  \/ QueueIsEmpty \/ WaitForStop \/ WaitForRemove

PnpMove(l) ==
  /\ pc' = [pc EXCEPT ![Pnp] = l] /\ l \in LabelsOf(Pnp)
  /\ UNCHANGED <<outstandingIO, queueVars>>
  /\ \/ /\ pc[Pnp] = "idle" /\ l = "enter" /\ UNCHANGED eventVars
        /\ minor' = "remove" => \A f \in Files : FileGone(f)
     \/ /\ pc[Pnp] = "inside" /\ l \in {"process", "flush", "leave"}
        /\ l = "leave" => minor # "remove"
        /\ UNCHANGED <<minor, eventVars>>
     \/ pc[Pnp] = "process" /\ l = "flush" /\ queue = {} /\ UNCHANGED <<pnpVars, eventVars>>
     \/ /\ pc[Pnp] = "waitstop" /\ l = "idle" /\ stopEvent' = FALSE
        /\ UNCHANGED <<removeEvent, pnpVars>>
     \/ /\ pc[Pnp] = "waitremove" /\ l = "removed" /\ removeEvent /\ removeEvent' = FALSE
        /\ UNCHANGED <<stopEvent, overtaken, minor, pnpState>>

LEMMA PnpMoves ==
  ASSUME TypeOK, PnpTurn
  PROVE  \E l \in Labels : PnpMove(l)
<1> USE DEF PnpMove, LabelsOf, Labels, LastLabels, queueVars, eventVars, pnpVars, Goto
<1>1. ASSUME NEW m \in Minors, PnpArrives(m) PROVE PnpMove("enter")
  BY <1>1 DEF PnpArrives, Legal
<1>2. CASE StartDevice
  <2>1. PnpMove("process") \/ PnpMove("leave")
    BY <1>2 DEF StartDevice, Serving
  <2> QED BY <2>1
<1>3. CASE QueryStop
  <2>1. PnpMove("leave")
    BY <1>3 DEF QueryStop, Query, Serving
  <2> QED BY <2>1
<1>4. CASE QueryRemove
  <2>1. PnpMove("leave")
    BY <1>4 DEF QueryRemove, Query, Serving
  <2> QED BY <2>1
<1>5. CASE CancelStop
  <2>1. PnpMove("process") \/ PnpMove("leave")
    BY <1>5 DEF CancelStop, Cancel, Serving
  <2> QED BY <2>1
<1>6. CASE CancelRemove
  <2>1. PnpMove("process") \/ PnpMove("leave")
    BY <1>6 DEF CancelRemove, Cancel, Serving
  <2> QED BY <2>1
<1>7. CASE StopDevice
  <2>1. PnpMove("leave")
    BY <1>7 DEF StopDevice, Serving
  <2> QED BY <2>1
<1>8. CASE SurpriseRemoval
  <2>1. PnpMove("process")
    BY <1>8 DEF SurpriseRemoval, Serving
  <2> QED BY <2>1
<1>9. CASE RemoveDevice
  <2>1. PnpMove("process") \/ PnpMove("flush")
    BY <1>9 DEF RemoveDevice, Serving
  <2> QED BY <2>1
<1>10. CASE QueueIsEmpty
  <2>1. PnpMove("flush")
    BY <1>10 DEF QueueIsEmpty
  <2> QED BY <2>1
<1>11. CASE WaitForStop
  <2>1. PnpMove("idle")
    BY <1>11 DEF WaitForStop
  <2> QED BY <2>1
<1>12. CASE WaitForRemove
  <2>1. PnpMove("removed")
    BY <1>12 DEF WaitForRemove
  <2> QED BY <2>1
<1>13. "enter" \in Labels
  OBVIOUS
<1> QED BY <1>1, <1>2, <1>3, <1>4, <1>5, <1>6, <1>7, <1>8, <1>9, <1>10, <1>11, <1>12, <1>13
        DEF PnpTurn

\* The steps of a request that is not counting.
RequestTurn(r) ==
  Gate(r) \/ QueueRequest(r) \/ Work(r) \/ SweepQueue(r) \/ FlushCleanup(r)

LEMMA Steps ==
  ASSUME [Next]_vars
  PROVE  \/ \E t \in Threads : Count(t)
         \/ PnpTurn
         \/ \E r \in Requests : Arrive(r) \/ RequestTurn(r)
         \/ \E r \in Reads : IoCancelIrp(r) \/ CancelGoes(r)
         \/ ProcessQueued \/ FinishPnp
         \/ UNCHANGED vars
<1>1. Requests \subseteq Threads /\ Pnp \in Threads
  BY DEF Threads
<1> QED BY <1>1 DEF Next, PnpGoes, RequestGoes, PnpTurn, RequestTurn

\* Where the other steps leave a thread.
LEMMA RequestMoves ==
  ASSUME TypeOK, KindInv, NEW r \in Requests, Arrive(r) \/ RequestTurn(r)
  PROVE  /\ UNCHANGED <<outstandingIO, eventVars, pnpVars, canceller>>
         /\ \E l \in Labels :
              /\ pc' = [pc EXCEPT ![r] = l] /\ l \in LabelsOf(r) /\ In(l) = In(pc[r])
              /\ \/ pc[r] = "none" /\ MayArrive(r) /\ l \in {"called", "enter"}
                 \/ r \in Reads /\ pc[r] = "called" /\ l \in {"queue", "enter"}
                 \/ r \in Reads /\ pc[r] = "queue" /\ l = "done"
                 \/ r \notin Cleanups /\ pc[r] = "inside" /\ l = "leave"
                 \/ r \in Cleanups /\ pc[r] = "inside" /\ l = "flush"
                 \/ r \in Cleanups /\ pc[r] = "flush" /\ l = "leave"
<1>0. r # Pnp /\ r \in Threads
  BY ThreadsAssumption DEF Threads
<1> USE <1>0 DEF queueVars, eventVars, pnpVars, Goto, Labels, LabelsOf, Coming, Leaving, In, Counted
<1>1. CASE Arrive(r)
  BY <1>1, Kinds DEF Arrive
<1>2. CASE Gate(r)
  BY <1>2, Kinds DEF Gate
<1>3. CASE QueueRequest(r)
  <2>1. r \in Reads
    BY <1>3 DEF QueueRequest, KindInv
  <2> QED BY <1>3, <2>1 DEF QueueRequest
<1>4. CASE Work(r)
  BY <1>4 DEF Work
<1>5. CASE SweepQueue(r)
  BY <1>5 DEF SweepQueue
<1>6. CASE FlushCleanup(r)
  BY <1>6 DEF FlushCleanup
<1> QED BY <1>1, <1>2, <1>3, <1>4, <1>5, <1>6 DEF RequestTurn

-----------------------------------------------------------------------------
(* Each part of the invariant is preserved. *)

LEMMA CountPreserved ==
  ASSUME IInv, [Next]_vars
  PROVE  CountExact'
<1> USE DEF IInv
<1>0. Pnp \in Threads /\ Requests \subseteq Threads /\ pc \in [Threads -> Labels]
      /\ outstandingIO \in Nat
  BY DEF Threads, TypeOK
<1>1. ASSUME NEW t \in Threads, Count(t) PROVE CountExact'
  <2>1. PICK l \in Labels : CountMove(t, l)
    BY <1>1, CountMoves
  <2> QED BY <2>1, CountKept DEF CountMove
<1>2. CASE PnpTurn
  <2>1. PICK l \in Labels : PnpMove(l)
    BY <1>2, PnpMoves
  <2>2. pc'[Pnp] = l
    BY <2>1, <1>0 DEF PnpMove
  <2>3. Base' = Base /\ In(l) = In(pc[Pnp]) /\ outstandingIO' = outstandingIO
        /\ pc' = [pc EXCEPT ![Pnp] = l]
    BY <2>1, <2>2 DEF PnpMove, Base, In, Counted
  <2>4. outstandingIO' = outstandingIO + In(l) - In(pc[Pnp]) + Base' - Base
    BY <2>3, <1>0 DEF In, Base
  <2> QED BY <2>3, <2>4, <1>0, CountKept
<1>3. ASSUME NEW r \in Requests, Arrive(r) \/ RequestTurn(r) PROVE CountExact'
  <2>1. PICK l \in Labels : pc' = [pc EXCEPT ![r] = l] /\ In(l) = In(pc[r])
    BY <1>3, RequestMoves
  <2>2. outstandingIO' = outstandingIO
    BY <1>3, RequestMoves
  <2>3. Base' = Base
    BY <2>1, <1>0, ThreadsAssumption DEF Base
  <2>4. outstandingIO' = outstandingIO + In(l) - In(pc[r]) + Base' - Base
    BY <2>1, <2>2, <2>3, <1>0 DEF In, Base
  <2> QED BY <2>1, <2>4, <1>0, CountKept
<1>4. ASSUME NEW r \in Reads, IoCancelIrp(r) \/ CancelGoes(r) PROVE CountExact'
  <2>1. pc' = pc /\ outstandingIO' = outstandingIO
    BY <1>4 DEF IoCancelIrp, CancelGoes, TakeCancelRoutine, CancelQueued
  <2>2. Inside' = Inside /\ Base' = Base
    BY <2>1 DEF Inside, Base
  <2> QED BY <2>1, <2>2 DEF CountExact
<1>5. CASE ProcessQueued \/ UNCHANGED vars
  <2>1. pc' = pc /\ outstandingIO' = outstandingIO
    BY <1>5 DEF ProcessQueued, vars
  <2>2. Inside' = Inside /\ Base' = Base
    BY <2>1 DEF Inside, Base
  <2> QED BY <2>1, <2>2 DEF CountExact
<1>6. CASE FinishPnp
  <2>1. pc' = [pc EXCEPT ![Pnp] = "leave"] /\ pc[Pnp] = "flush" /\ outstandingIO' = outstandingIO
    BY <1>6 DEF FinishPnp, Goto
  <2>2. Base' = Base /\ In("leave") = In(pc[Pnp])
    BY <2>1, <1>0 DEF Base, In, Counted
  <2>3. outstandingIO' = outstandingIO + In("leave") - In(pc[Pnp]) + Base' - Base
    BY <2>1, <2>2, <1>0 DEF In, Base
  <2> QED BY <2>1, <2>3, <1>0, CountKept
<1> QED BY <1>1, <1>2, <1>3, <1>4, <1>5, <1>6, Steps

LEMMA KindPreserved ==
  ASSUME IInv, [Next]_vars
  PROVE  KindInv'
<1> USE DEF IInv
<1>0. Pnp \in Threads /\ Requests \subseteq Threads /\ pc \in [Threads -> Labels]
  BY DEF Threads, TypeOK
<1>a. ASSUME NEW t \in Threads, NEW l \in LabelsOf(t), pc' = [pc EXCEPT ![t] = l]
      PROVE  KindInv'
  BY <1>a, <1>0 DEF KindInv, LabelsOf
<1>1. ASSUME NEW t \in Threads, Count(t) PROVE KindInv'
  <2>1. PICK l \in Labels : CountMove(t, l)
    BY <1>1, CountMoves
  <2> QED BY <2>1, <1>a DEF CountMove
<1>2. CASE PnpTurn
  <2>1. PICK l \in Labels : PnpMove(l)
    BY <1>2, PnpMoves
  <2> QED BY <2>1, <1>0, <1>a DEF PnpMove
<1>3. ASSUME NEW r \in Requests, Arrive(r) \/ RequestTurn(r) PROVE KindInv'
  <2>1. PICK l \in Labels : pc' = [pc EXCEPT ![r] = l] /\ l \in LabelsOf(r)
    BY <1>3, RequestMoves
  <2> QED BY <2>1, <1>0, <1>a
<1>4. ASSUME NEW r \in Reads, IoCancelIrp(r) \/ CancelGoes(r) PROVE KindInv'
  BY <1>4 DEF IoCancelIrp, CancelGoes, TakeCancelRoutine, CancelQueued, KindInv, LabelsOf
<1>5. CASE ProcessQueued \/ UNCHANGED vars
  BY <1>5 DEF ProcessQueued, vars, KindInv, LabelsOf
<1>6. CASE FinishPnp
  <2>1. pc' = [pc EXCEPT ![Pnp] = "leave"] /\ "leave" \in LabelsOf(Pnp)
    BY <1>6 DEF FinishPnp, Goto, LabelsOf
  <2> QED BY <2>1, <1>0, <1>a
<1> QED BY <1>1, <1>2, <1>3, <1>4, <1>5, <1>6, Steps

LEMMA Completed ==
  ASSUME completions \in [Reads -> Nat], NEW S, Complete(S)
  PROVE  /\ completions' \in [Reads -> Nat]
         /\ \A r \in Reads : completions'[r] = IF r \in S THEN completions[r] + 1 ELSE completions[r]
<1>1. ASSUME NEW r \in Reads PROVE completions[r] + (IF r \in S THEN 1 ELSE 0) \in Nat
  OBVIOUS
<1> QED BY <1>1 DEF Complete

LEMMA TypePreserved ==
  ASSUME IInv, [Next]_vars
  PROVE  TypeOK'
<1> USE DEF IInv, queueVars, eventVars, pnpVars
<1>0. Pnp \in Threads /\ Requests \subseteq Threads /\ Reads \subseteq Requests
  BY ThreadSets
<1>1. ASSUME NEW t \in Threads, Count(t) PROVE TypeOK'
  <2>1. PICK l \in Labels : CountMove(t, l)
    BY <1>1, CountMoves
  <2>2. UNCHANGED <<queueVars, pnpVars>>
    BY <1>1, CountMoves
  <2>3. outstandingIO' \in Nat
    BY CountPreserved, CountMoves, InsideIsFinite, <1>1, <2>1, CountedIsCounted DEF CountMove, TypeOK, In, Base
  <2>4. {stopEvent, removeEvent, overtaken}' \subseteq BOOLEAN
    <3>1. CASE Increment(t) \/ Decrement(t)
      BY <3>1 DEF Increment, Decrement, TypeOK
    <3>2. CASE ClearStopEvent(t)
      BY <3>2 DEF ClearStopEvent, TypeOK
    <3>3. CASE SetRemoveEvent(t)
      BY <3>3 DEF SetRemoveEvent, TypeOK
    <3>4. CASE SetStopEvent(t)
      <4>1. overtaken' = (outstandingIO > 1) /\ stopEvent' = TRUE /\ removeEvent' = removeEvent
        BY <3>4 DEF SetStopEvent
      <4>2. (outstandingIO > 1) \in BOOLEAN
        OBVIOUS
      <4> QED BY <4>1, <4>2 DEF TypeOK
    <3> QED BY <1>1, <3>1, <3>2, <3>3, <3>4 DEF Count
  <2> QED BY <2>1, <2>2, <2>3, <2>4 DEF TypeOK, CountMove
<1>2. CASE PnpTurn
  <2>1. PICK l \in Labels : PnpMove(l)
    BY <1>2, PnpMoves
  <2>2. /\ {stopEvent, removeEvent, overtaken}' \subseteq BOOLEAN
        /\ queueState' \in {"hold", "allow", "fail"}
        /\ {pnpState, previousState}' \subseteq {"NotStarted", "Started", "StopPending", "Stopped",
                                                 "RemovePending", "SurpriseRemovePending", "Deleted"}
        /\ manager' \in {"started", "stop_asked", "stopped", "failed", "remove_asked", "surprised",
                         "removed"}
        /\ minor' \in Minors \union {None}
    BY <1>2 DEF PnpTurn, PnpArrives, StartDevice, QueryStop, QueryRemove, Query, CancelStop,
                CancelRemove, Cancel, StopDevice, SurpriseRemoval, RemoveDevice, QueueIsEmpty,
                WaitForStop, WaitForRemove, Enter, RestoreState, TypeOK
  <2> QED BY <2>1, <2>2 DEF TypeOK, PnpMove
<1>3. ASSUME NEW r \in Requests, Arrive(r) \/ RequestTurn(r) PROVE TypeOK'
  <2>1. PICK l \in Labels : pc' = [pc EXCEPT ![r] = l]
    BY <1>3, RequestMoves
  <2>2. UNCHANGED <<outstandingIO, eventVars, pnpVars, canceller>>
    BY <1>3, RequestMoves
  <2>3. CASE Arrive(r) \/ Gate(r)
    BY <2>1, <2>2, <2>3, <1>0 DEF Arrive, Gate, TypeOK
  <2>4. CASE QueueRequest(r)
    <3>1. r \in Reads
      BY <2>4, <1>0 DEF QueueRequest, KindInv, LabelsOf, Coming, Leaving, LastLabels
    <3> QED BY <2>1, <2>2, <2>4, <3>1 DEF QueueRequest, Missed, TypeOK
  <2>5. CASE Work(r)
    <3>1. completions' \in [Reads -> Nat]
      BY <2>5, Completed DEF Work, TypeOK
    <3> QED BY <2>1, <2>2, <2>5, <3>1 DEF Work, TypeOK
  <2>6. CASE SweepQueue(r)
    BY <2>1, <2>2, <2>6, <1>0 DEF SweepQueue, Mine, Swept, TypeOK
  <2>7. CASE FlushCleanup(r)
    BY <2>1, <2>2, <2>7, <1>0 DEF FlushCleanup, Complete, TypeOK
  <2> QED BY <1>3, <2>3, <2>4, <2>5, <2>6, <2>7 DEF RequestTurn
<1>4. ASSUME NEW r \in Reads, IoCancelIrp(r) \/ CancelGoes(r) PROVE TypeOK'
  BY <1>4 DEF IoCancelIrp, CancelGoes, TakeCancelRoutine, CancelQueued, Complete, TypeOK
<1>5. CASE ProcessQueued
  BY <1>5, <1>0 DEF ProcessQueued, Complete, TypeOK
<1>6. CASE FinishPnp
  BY <1>6, <1>0 DEF FinishPnp, Goto, Complete, Enter, TypeOK, Labels
<1>7. CASE UNCHANGED vars
  BY <1>7 DEF vars, TypeOK
<1> QED BY <1>1, <1>2, <1>3, <1>4, <1>5, <1>6, <1>7, Steps

\* Steps that only move a thread outside the hands of the queue.
LEMMA ReadsUntouched ==
  ASSUME TypeOK, KindInv, ReadInv, ListInv, UNCHANGED queueVars,
         NEW t \in Threads, NEW l \in Labels, pc' = [pc EXCEPT ![t] = l],
         t \in Reads =>
           \/ pc[t] \in Coming \union {"called"} /\ l \in Coming \union {"called", "queue"}
           \/ pc[t] \in Leaving \ {"done"} /\ l \in Leaving,
         t \in Cleanups => pc[t] # "flush",
         (t = Pnp /\ pc[t] = "process") => l = "flush",
         t = Pnp => pc[t] # "flush"
  PROVE  ReadInv' /\ ListInv'
<1>0. /\ pc \in [Threads -> Labels] /\ completions \in [Reads -> Nat]
      /\ doomed \in [Threads -> SUBSET Reads] /\ Reads \subseteq Threads /\ Pnp \in Threads
  BY ThreadSets DEF TypeOK
<1>1. pc'[t] = l /\ \A u \in Threads : u # t => pc'[u] = pc[u]
  BY <1>0
<1>2. UNCHANGED <<queue, routine, canceller, doomed, completions>>
  BY DEF queueVars
<1>3. ASSUME NEW r \in Reads PROVE Waiting(r)' <=> Waiting(r)
  BY <1>0, <1>1, <1>2 DEF Waiting, ReadInv, Coming, Leaving
<1>4. ASSUME NEW r \in Reads PROVE Held(r)' <=> Held(r)
  BY <1>2 DEF Held
<1>5. ReadInv'
  BY <1>0, <1>1, <1>2, <1>3, <1>4 DEF ReadInv, Coming, Leaving
<1>6. ListInv'
  BY <1>0, <1>1, <1>2, <1>3, <1>4 DEF ListInv
<1> QED BY <1>5, <1>6

LEMMA QueuePreserved ==
  ASSUME IInv, NEW r \in Requests, QueueRequest(r)
  PROVE  ReadInv' /\ ListInv'
<1> USE DEF IInv
<1>0. /\ pc \in [Threads -> Labels] /\ completions \in [Reads -> Nat]
      /\ doomed \in [Threads -> SUBSET Reads] /\ Reads \subseteq Threads /\ Pnp \in Threads
      /\ Requests \subseteq Threads
  BY ThreadSets DEF TypeOK
<1>1. r \in Reads /\ pc[r] = "queue"
  BY <1>0 DEF QueueRequest, KindInv, LabelsOf, Coming, Leaving, LastLabels
<1>2. /\ pc' = [pc EXCEPT ![r] = "done"] /\ queue' = queue \union {r}
      /\ routine' = routine \union {r} /\ UNCHANGED <<canceller, doomed, completions>>
  BY DEF QueueRequest, Goto
<1>3. pc'[r] = "done" /\ \A u \in Threads : u # r => pc'[u] = pc[u]
  BY <1>0, <1>1, <1>2
<1>4. completions[r] = 0 /\ ~Held(r) /\ ~Waiting(r) /\ Waiting(r)' /\ Held(r)'
  BY <1>0, <1>1, <1>2, <1>3 DEF ReadInv, Held, Waiting
<1>5. ASSUME NEW q \in Reads, q # r PROVE (Waiting(q)' <=> Waiting(q)) /\ (Held(q)' <=> Held(q))
  BY <1>0, <1>2, <1>3, <1>5 DEF Waiting, Held
<1>6. ReadInv'
  <2> SUFFICES ASSUME NEW q \in Reads
               PROVE  /\ completions[q]' <= 1
                      /\ (q \in routine)' <=> (q \in queue /\ canceller[q] # "routine")'
                      /\ Held(q)' => Waiting(q)'
                      /\ pc'[q] \in Coming \union {"called", "queue"} => completions'[q] = 0
                      /\ pc'[q] \in {"leave", "setstop", "setremove"} => completions'[q] = 1
                      /\ Waiting(q)' => Held(q)' \/ \E t \in Threads : q \in doomed'[t]
    BY DEF ReadInv
  <2>1. CASE q = r
    BY <2>1, <1>2, <1>3, <1>4 DEF Coming, Held
  <2>2. CASE q # r
    BY <2>2, <1>0, <1>2, <1>3, <1>5 DEF ReadInv
  <2> QED BY <2>1, <2>2
<1>7. ListInv'
  <2>1. \A t \in Threads : r \notin doomed[t]
    BY <1>4 DEF ListInv
  <2>2. r \notin Cleanups /\ r # Pnp
    BY <1>1, Kinds
  <2> QED BY <2>1, <2>2, <1>0, <1>2, <1>3, <1>5 DEF ListInv
<1> QED BY <1>6, <1>7

LEMMA WorkPreserved ==
  ASSUME IInv, NEW r \in Requests, Work(r)
  PROVE  ReadInv' /\ ListInv'
<1> USE DEF IInv
<1>0. /\ pc \in [Threads -> Labels] /\ completions \in [Reads -> Nat]
      /\ doomed \in [Threads -> SUBSET Reads] /\ Reads \subseteq Threads /\ Pnp \in Threads
      /\ Requests \subseteq Threads /\ r \notin Cleanups /\ r # Pnp
  BY ThreadSets, Kinds DEF TypeOK, Work
<1>1. /\ pc' = [pc EXCEPT ![r] = "leave"] /\ pc[r] = "inside"
      /\ UNCHANGED <<queue, routine, canceller, doomed>>
  BY DEF Work, Goto
<1>2. \A q \in Reads : completions'[q] = IF q = r THEN completions[q] + 1 ELSE completions[q]
  BY <1>0, Completed DEF Work
<1>3. pc'[r] = "leave" /\ \A u \in Threads : u # r => pc'[u] = pc[u]
  BY <1>0, <1>1
<1>4. ASSUME NEW q \in Reads PROVE (Waiting(q)' <=> Waiting(q)) /\ (Held(q)' <=> Held(q))
  BY <1>0, <1>1, <1>2, <1>3 DEF Waiting, Held
<1>5. r \in Reads => completions[r] = 0
  BY <1>1 DEF ReadInv, Coming
<1>6. ReadInv'
  BY <1>0, <1>1, <1>2, <1>3, <1>4, <1>5 DEF ReadInv, Coming
<1>7. ListInv'
  BY <1>0, <1>1, <1>3, <1>4 DEF ListInv
<1> QED BY <1>6, <1>7

LEMMA SweepPreserved ==
  ASSUME IInv, NEW r \in Requests, SweepQueue(r)
  PROVE  ReadInv' /\ ListInv'
<1> USE DEF IInv
<1>0. /\ pc \in [Threads -> Labels] /\ completions \in [Reads -> Nat] /\ queue \subseteq Reads
      /\ doomed \in [Threads -> SUBSET Reads] /\ Reads \subseteq Threads /\ Pnp \in Threads
      /\ Requests \subseteq Threads /\ r \in Cleanups /\ r # Pnp /\ r \notin Reads
  BY ThreadSets, Kinds DEF TypeOK, SweepQueue
<1>1. /\ pc' = [pc EXCEPT ![r] = "flush"] /\ pc[r] = "inside"
      /\ queue' = queue \ Mine(r) /\ routine' = routine \ Mine(r)
      /\ doomed' = [doomed EXCEPT ![r] = Swept(r)] /\ UNCHANGED <<canceller, completions>>
  BY DEF SweepQueue, Goto
<1>2. pc'[r] = "flush" /\ \A u \in Threads : u # r => pc'[u] = pc[u]
  BY <1>0, <1>1
<1>3. doomed'[r] = Swept(r) /\ doomed[r] = {} /\ \A u \in Threads : u # r => doomed'[u] = doomed[u]
  BY <1>0, <1>1 DEF ListInv
<1>4. ASSUME NEW q \in Reads
      PROVE  /\ Waiting(q)' <=> Waiting(q)
             /\ q \in Swept(r) <=> q \in Mine(r) /\ canceller[q] # "routine"
             /\ Held(q)' <=> Held(q) /\ q \notin Swept(r)
  <2>1. Waiting(q)' <=> Waiting(q)
    BY <1>0, <1>1, <1>2 DEF Waiting
  <2>2. q \in Swept(r) <=> q \in Mine(r) /\ canceller[q] # "routine"
    BY DEF Swept, Mine, ReadInv
  <2> QED BY <2>1, <2>2, <1>1 DEF Held, Mine
<1>5. Swept(r) \subseteq queue /\ Swept(r) \subseteq Reads
  BY <1>0 DEF Swept, Mine
<1>6. ReadInv'
  <2>1. ASSUME NEW q \in Reads, Waiting(q)
        PROVE  Held(q)' \/ \E t \in Threads : q \in doomed'[t]
    BY <2>1, <1>0, <1>3, <1>4 DEF ReadInv
  <2>2. ASSUME NEW q \in Reads PROVE (q \in routine)' <=> (q \in queue /\ canceller[q] # "routine")'
    BY <1>1 DEF ReadInv
  <2> QED BY <2>1, <2>2, <1>0, <1>1, <1>2, <1>4 DEF ReadInv
<1>7. ListInv'
  <2>1. \A u \in Threads : Swept(r) \intersect doomed[u] = {}
    BY <1>5 DEF ListInv, Held
  <2>2. \A q \in Swept(r) : Waiting(q)
    BY <1>5 DEF ReadInv, Held
  <2> QED BY <2>1, <2>2, <1>0, <1>2, <1>3, <1>4, <1>5 DEF ListInv
<1> QED BY <1>6, <1>7

\* A cleanup, or the plug-and-play thread, completes its list.
LEMMA FlushPreserved ==
  ASSUME IInv, NEW t \in Threads, t \in Cleanups \/ t = Pnp, pc[t] = "flush",
         Complete(doomed[t]), doomed' = [doomed EXCEPT ![t] = {}],
         pc' = [pc EXCEPT ![t] = "leave"], UNCHANGED <<queue, routine, canceller>>
  PROVE  ReadInv' /\ ListInv'
<1> USE DEF IInv
<1>0. /\ pc \in [Threads -> Labels] /\ completions \in [Reads -> Nat]
      /\ doomed \in [Threads -> SUBSET Reads] /\ Reads \subseteq Threads /\ t \notin Reads
  BY ThreadSets, Kinds DEF TypeOK
<1>1. pc'[t] = "leave" /\ \A u \in Threads : u # t => pc'[u] = pc[u]
  BY <1>0
<1>2. doomed'[t] = {} /\ \A u \in Threads : u # t => doomed'[u] = doomed[u]
  BY <1>0
<1>3. \A q \in Reads : completions'[q] = IF q \in doomed[t] THEN completions[q] + 1 ELSE completions[q]
  BY <1>0, Completed
<1>4. ASSUME NEW q \in Reads
      PROVE  /\ Waiting(q)' <=> Waiting(q) /\ q \notin doomed[t]
             /\ Held(q)' <=> Held(q)
             /\ q \in doomed[t] => Waiting(q) /\ ~Held(q)
  BY <1>0, <1>1, <1>3 DEF Waiting, Held, ListInv
<1>5. ReadInv'
  <2>1. ASSUME NEW q \in Reads, Waiting(q)'
        PROVE  Held(q)' \/ \E u \in Threads : q \in doomed'[u]
    BY <2>1, <1>2, <1>4 DEF ReadInv
  <2>2. ASSUME NEW q \in Reads
        PROVE  /\ completions'[q] <= 1
               /\ pc'[q] \in Coming \union {"called", "queue"} => completions'[q] = 0
               /\ pc'[q] \in {"leave", "setstop", "setremove"} => completions'[q] = 1
    BY <1>0, <1>1, <1>3, <1>4 DEF ReadInv, Waiting, Coming
  <2> QED BY <2>1, <2>2, <1>4 DEF ReadInv
<1>6. ListInv'
  <2>1. ASSUME NEW u \in Threads, u # t, NEW q \in doomed[u] PROVE q \notin doomed[t]
    BY <2>1 DEF ListInv
  <2> QED BY <2>1, <1>0, <1>1, <1>2, <1>4 DEF ListInv
<1> QED BY <1>5, <1>6

LEMMA CancelPreserved ==
  ASSUME IInv, NEW r \in Reads, IoCancelIrp(r) \/ CancelGoes(r)
  PROVE  ReadInv' /\ ListInv'
<1> USE DEF IInv
<1>0. /\ completions \in [Reads -> Nat] /\ Reads \subseteq Threads
      /\ doomed \in [Threads -> SUBSET Reads]
      /\ canceller \in [Reads -> {"none", "flagged", "routine", "over"}]
      /\ UNCHANGED <<pc, doomed>>
  BY ThreadSets DEF TypeOK, IoCancelIrp, CancelGoes, TakeCancelRoutine, CancelQueued
<1>1. CASE IoCancelIrp(r)
  <2>1. /\ UNCHANGED <<queue, routine, completions>> /\ canceller[r] = "none"
        /\ \A q \in Reads : canceller'[q] = IF q = r THEN "flagged" ELSE canceller[q]
    BY <1>0, <1>1 DEF IoCancelIrp
  <2>2. ASSUME NEW q \in Reads PROVE (Waiting(q)' <=> Waiting(q)) /\ (Held(q)' <=> Held(q))
    BY <1>0, <2>1 DEF Waiting, Held
  <2>3. ReadInv'
    BY <1>0, <2>1, <2>2 DEF ReadInv, Coming
  <2>4. ListInv'
    BY <1>0, <2>1, <2>2 DEF ListInv
  <2> QED BY <2>3, <2>4
<1>2. CASE TakeCancelRoutine(r)
  <2>1. /\ UNCHANGED <<queue, completions>> /\ routine' = routine \ {r} /\ canceller[r] = "flagged"
        /\ \A q \in Reads : canceller'[q] =
             IF q # r THEN canceller[q] ELSE IF r \in routine THEN "routine" ELSE "over"
    BY <1>0, <1>2 DEF TakeCancelRoutine
  <2>2. ASSUME NEW q \in Reads PROVE (Waiting(q)' <=> Waiting(q)) /\ (Held(q)' <=> Held(q))
    BY <1>0, <2>1 DEF Waiting, Held, ReadInv
  <2>3. ReadInv'
    BY <1>0, <2>1, <2>2 DEF ReadInv, Coming
  <2>4. ListInv'
    BY <1>0, <2>1, <2>2 DEF ListInv
  <2> QED BY <2>3, <2>4
<1>3. CASE CancelQueued(r)
  <2>1. /\ UNCHANGED routine /\ queue' = queue \ {r} /\ canceller[r] = "routine"
        /\ \A q \in Reads : canceller'[q] = IF q = r THEN "over" ELSE canceller[q]
        /\ \A q \in Reads : completions'[q] = IF q = r THEN completions[q] + 1 ELSE completions[q]
    BY <1>0, <1>3, Completed DEF CancelQueued
  <2>2. Waiting(r) /\ Held(r) /\ ~Held(r)' /\ ~Waiting(r)' /\ completions'[r] = 1 /\ pc[r] = "done"
    BY <1>0, <2>1 DEF Waiting, Held, ReadInv
  <2>3. ASSUME NEW q \in Reads, q # r PROVE (Waiting(q)' <=> Waiting(q)) /\ (Held(q)' <=> Held(q))
    BY <1>0, <2>1, <2>3 DEF Waiting, Held
  <2>4. ReadInv'
    <3> SUFFICES ASSUME NEW q \in Reads
                 PROVE  /\ completions'[q] <= 1
                        /\ (q \in routine)' <=> (q \in queue /\ canceller[q] # "routine")'
                        /\ Held(q)' => Waiting(q)'
                        /\ pc'[q] \in Coming \union {"called", "queue"} => completions'[q] = 0
                        /\ pc'[q] \in {"leave", "setstop", "setremove"} => completions'[q] = 1
                        /\ Waiting(q)' => Held(q)' \/ \E t \in Threads : q \in doomed'[t]
      BY DEF ReadInv
    <3>1. CASE q = r
      BY <3>1, <1>0, <2>1, <2>2 DEF ReadInv, Coming
    <3>2. CASE q # r
      BY <3>2, <1>0, <2>1, <2>3 DEF ReadInv
    <3> QED BY <3>1, <3>2
  <2>5. ListInv'
    <3>1. \A t \in Threads : r \notin doomed[t]
      BY <2>2 DEF ListInv
    <3> QED BY <3>1, <1>0, <2>3 DEF ListInv
  <2> QED BY <2>4, <2>5
<1> QED BY <1>1, <1>2, <1>3 DEF CancelGoes

LEMMA ProcessPreserved ==
  ASSUME IInv, ProcessQueued
  PROVE  ReadInv' /\ ListInv'
<1> USE DEF IInv
<1>0. /\ pc \in [Threads -> Labels] /\ completions \in [Reads -> Nat] /\ queue \subseteq Reads
      /\ doomed \in [Threads -> SUBSET Reads] /\ Reads \subseteq Threads /\ Pnp \in Threads
      /\ UNCHANGED <<pc, canceller>> /\ pc[Pnp] = "process"
  BY ThreadSets DEF TypeOK, ProcessQueued
<1>1. PICK r \in queue :
        /\ queue' = queue \ {r} /\ routine' = routine \ {r}
        /\ IF IsCancelled(r)
             THEN /\ doomed' = [doomed EXCEPT ![Pnp] = @ \union ({r} \intersect routine)]
                  /\ UNCHANGED completions
             ELSE Complete({r}) /\ UNCHANGED doomed
  BY DEF ProcessQueued
<1>2. r \in Reads /\ Held(r) /\ Waiting(r) /\ \A t \in Threads : r \notin doomed[t]
  BY <1>0 DEF ReadInv, ListInv, Held
<1>3. CASE canceller[r] = "routine"
  <2>1. r \notin routine /\ UNCHANGED <<doomed, completions, routine>>
    <3>1. r \notin routine /\ IsCancelled(r)
      BY <1>2, <1>3 DEF ReadInv, IsCancelled
    <3>2. doomed' = [doomed EXCEPT ![Pnp] = @] /\ UNCHANGED completions
      BY <1>1, <3>1
    <3> QED BY <1>0, <1>1, <3>1, <3>2
  <2>2. ASSUME NEW q \in Reads PROVE (Waiting(q)' <=> Waiting(q)) /\ (Held(q)' <=> Held(q))
    BY <1>0, <1>1, <1>3, <2>1 DEF Waiting, Held
  <2>3. ReadInv'
    BY <1>0, <1>1, <1>3, <2>1, <2>2 DEF ReadInv
  <2>4. ListInv'
    BY <1>0, <2>1, <2>2 DEF ListInv
  <2> QED BY <2>3, <2>4
<1>4. CASE canceller[r] # "routine" /\ IsCancelled(r)
  <2>1. /\ UNCHANGED completions /\ r \in routine
        /\ doomed'[Pnp] = doomed[Pnp] \union {r}
        /\ \A u \in Threads : u # Pnp => doomed'[u] = doomed[u]
    BY <1>0, <1>1, <1>2, <1>4 DEF ReadInv
  <2>2. ASSUME NEW q \in Reads
        PROVE  (Waiting(q)' <=> Waiting(q)) /\ (Held(q)' <=> Held(q) /\ q # r)
    BY <1>0, <1>1, <1>4, <2>1 DEF Waiting, Held
  <2>3. ReadInv'
    <3>1. ASSUME NEW q \in Reads, Waiting(q)
          PROVE  Held(q)' \/ \E t \in Threads : q \in doomed'[t]
      BY <3>1, <1>0, <2>1, <2>2 DEF ReadInv
    <3> QED BY <3>1, <1>0, <1>1, <2>1, <2>2 DEF ReadInv
  <2>4. ListInv'
    BY <1>0, <1>2, <2>1, <2>2 DEF ListInv
  <2> QED BY <2>3, <2>4
<1>5. CASE ~IsCancelled(r)
  <2>1. /\ UNCHANGED doomed
        /\ \A q \in Reads : completions'[q] = IF q = r THEN completions[q] + 1 ELSE completions[q]
    <3>1. Complete({r}) /\ UNCHANGED doomed
      BY <1>1, <1>5
    <3> QED BY <3>1, <1>0, Completed
  <2>2. canceller[r] # "routine" /\ pc[r] = "done" /\ completions'[r] = 1 /\ ~Held(r)' /\ ~Waiting(r)'
    BY <1>0, <1>1, <1>2, <1>5, <2>1 DEF IsCancelled, Held, Waiting
  <2>3. ASSUME NEW q \in Reads, q # r PROVE (Waiting(q)' <=> Waiting(q)) /\ (Held(q)' <=> Held(q))
    BY <1>0, <1>1, <2>1, <2>3 DEF Waiting, Held
  <2>4. ReadInv'
    <3> SUFFICES ASSUME NEW q \in Reads
                 PROVE  /\ completions'[q] <= 1
                        /\ (q \in routine)' <=> (q \in queue /\ canceller[q] # "routine")'
                        /\ Held(q)' => Waiting(q)'
                        /\ pc'[q] \in Coming \union {"called", "queue"} => completions'[q] = 0
                        /\ pc'[q] \in {"leave", "setstop", "setremove"} => completions'[q] = 1
                        /\ Waiting(q)' => Held(q)' \/ \E t \in Threads : q \in doomed'[t]
      BY DEF ReadInv
    <3>1. CASE q = r
      BY <3>1, <1>0, <1>1, <2>1, <2>2 DEF ReadInv, Coming
    <3>2. CASE q # r
      BY <3>2, <1>0, <1>1, <2>1, <2>3 DEF ReadInv
    <3> QED BY <3>1, <3>2
  <2>5. ListInv'
    BY <1>0, <1>2, <2>1, <2>3 DEF ListInv
  <2> QED BY <2>4, <2>5
<1> QED BY <1>3, <1>4, <1>5

LEMMA ReadsPreserved ==
  ASSUME IInv, [Next]_vars
  PROVE  ReadInv' /\ ListInv'
<1> USE DEF IInv
<1>0. Pnp \in Threads /\ Requests \subseteq Threads /\ Reads \subseteq Requests
  BY ThreadSets
<1>1. ASSUME NEW t \in Threads, Count(t) PROVE ReadInv' /\ ListInv'
  <2>1. PICK l \in Labels : CountMove(t, l)
    BY <1>1, CountMoves
  <2>2. UNCHANGED queueVars
    BY <1>1, CountMoves
  <2>3. t \in Reads => t # Pnp
    BY Kinds
  <2> QED BY <2>1, <2>2, <2>3, ReadsUntouched DEF CountMove, Coming, Leaving, LastLabels
<1>2. CASE PnpTurn
  <2>1. PICK l \in Labels : PnpMove(l)
    BY <1>2, PnpMoves
  <2> QED BY <2>1, <1>0, Kinds, ReadsUntouched DEF PnpMove
<1>3. ASSUME NEW r \in Requests, Arrive(r) \/ RequestTurn(r) PROVE ReadInv' /\ ListInv'
  <2>1. CASE Arrive(r) \/ Gate(r)
    <3>1. PICK l \in Labels : pc' = [pc EXCEPT ![r] = l] /\ l \in {"called", "enter", "queue"}
                              /\ pc[r] \in {"none", "called"}
      BY <2>1, Kinds DEF Arrive, Gate, Goto, Labels
    <3>2. UNCHANGED queueVars
      BY <2>1 DEF Arrive, Gate
    <3> QED BY <3>1, <3>2, <1>0, Kinds, ReadsUntouched DEF Coming
  <2>2. CASE FlushCleanup(r)
    BY <2>2, <1>0, FlushPreserved DEF FlushCleanup, Goto
  <2> QED BY <1>3, <2>1, <2>2, QueuePreserved, WorkPreserved, SweepPreserved DEF RequestTurn
<1>4. CASE ProcessQueued
  BY <1>4, ProcessPreserved
<1>5. CASE FinishPnp
  BY <1>5, <1>0, FlushPreserved DEF FinishPnp, Goto
<1>6. CASE UNCHANGED vars
  BY <1>6 DEF vars, queueVars, ReadInv, ListInv, Waiting, Held
<1> QED BY <1>1, <1>2, <1>3, <1>4, <1>5, <1>6, CancelPreserved, Steps

LEMMA FilePreserved ==
  ASSUME IInv, [Next]_vars
  PROVE  FileInv'
<1> USE DEF IInv
<1>0. /\ Pnp \in Threads /\ Requests \subseteq Threads /\ Reads \subseteq Requests
      /\ Creates \subseteq Requests /\ Cleanups \subseteq Requests /\ Closes \subseteq Requests
      /\ pc \in [Threads -> Labels] /\ completions \in [Reads -> Nat]
      /\ completions' \in [Reads -> Nat]
  BY ThreadSets, TypePreserved DEF TypeOK
<1>a. ASSUME NEW t \in Threads, NEW l \in Labels, pc' = [pc EXCEPT ![t] = l],
             pc[t] \notin {"none", "done"} \/ t = Pnp,
             \A r \in Reads : completions'[r] >= completions[r]
      PROVE  FileInv'
  <2>1. \A u \in Threads : pc'[u] # "none" \/ u = Pnp => pc[u] # "none" \/ u = Pnp
    BY <1>a, <1>0
  <2>2. \A u \in Requests : (pc[u] = "done" => pc'[u] = "done") /\ (pc'[u] # "none" => pc[u] # "none")
    BY <1>a, <1>0, ThreadsAssumption
  <2>3. \A r \in Reads : completions[r] > 0 => completions'[r] > 0
    BY <1>a, <1>0
  <2>4. \A r \in Requests : pc[r] = "none" => pc'[r] = "none"
    BY <2>2
  <2> QED BY <2>2, <2>3, <2>4, <1>0, FileNames DEF FileInv
<1>b. ASSUME pc' = pc, \A r \in Reads : completions'[r] >= completions[r]
      PROVE  FileInv'
  <2>1. \A r \in Reads : completions[r] > 0 => completions'[r] > 0
    BY <1>b, <1>0
  <2> QED BY <1>b, <2>1 DEF FileInv
<1>1. ASSUME NEW t \in Threads, Count(t) PROVE FileInv'
  <2>1. PICK l \in Labels : CountMove(t, l)
    BY <1>1, CountMoves
  <2>2. completions' = completions
    BY <1>1, CountMoves DEF queueVars
  <2>3. \A r \in Reads : completions'[r] >= completions[r]
    BY <2>2, <1>0
  <2>4. pc' = [pc EXCEPT ![t] = l] /\ (pc[t] \notin {"none", "done"} \/ t = Pnp)
    BY <2>1 DEF CountMove, Leaving
  <2> QED BY <2>3, <2>4, <1>a
<1>2. CASE PnpTurn
  <2>1. PICK l \in Labels : PnpMove(l)
    BY <1>2, PnpMoves
  <2>2. completions' = completions /\ pc' = [pc EXCEPT ![Pnp] = l]
    BY <2>1 DEF PnpMove, queueVars
  <2>3. \A r \in Reads : completions'[r] >= completions[r]
    BY <2>2, <1>0
  <2> QED BY <2>2, <2>3, <1>0, <1>a
<1>3. ASSUME NEW r \in Requests, Arrive(r) PROVE FileInv'
  <2>1. PICK l \in Labels : pc' = [pc EXCEPT ![r] = l] /\ l \notin {"none", "done"} /\ pc[r] = "none"
                            /\ MayArrive(r)
    BY <1>3 DEF Arrive, Goto, Labels
  <2>2. completions' = completions
    BY <1>3 DEF Arrive, queueVars
  <2>3. \A u \in Threads : pc'[u] = IF u = r THEN l ELSE pc[u]
    BY <2>1, <1>0
  <2>4. CASE r \in Creates
    <3>1. \A u \in Requests \ Creates : pc'[u] = pc[u]
      BY <2>3, <2>4, <1>0
    <3>2. \A u \in Creates : pc[u] = "done" => pc'[u] = "done"
      BY <2>1, <2>3, <1>0
    <3> QED BY <3>1, <3>2, <2>2, <1>0, Kinds, FileNames DEF FileInv
  <2>5. CASE r \in Reads
    <3>1. pc[CreateOf(FileOf(r))] = "done" /\ pc[CleanupOf(FileOf(r))] = "none"
      BY <2>1, <2>5, Kinds DEF MayArrive, Done, CreateOf, CleanupOf
    <3>2. \A u \in Requests \ Reads : pc'[u] = pc[u]
      BY <2>3, <2>5, <1>0
    <3>3. \A u \in Reads : u # r => pc'[u] = pc[u]
      BY <2>3, <1>0
    <3>4. pc[CloseOf(FileOf(r))] = "none"
      BY <3>1, <2>5, FileNames, <1>0 DEF FileInv
    <3> QED BY <3>1, <3>2, <3>3, <3>4, <2>2, <1>0, Kinds, FileNames DEF FileInv
  <2>6. CASE r \in Cleanups
    <3>1. pc[CreateOf(FileOf(r))] = "done" /\ r = CleanupOf(FileOf(r))
      BY <2>1, <2>6, Kinds, FileNames DEF MayArrive, Done, CreateOf
    <3>2. \A u \in Requests \ Cleanups : pc'[u] = pc[u]
      BY <2>3, <2>6, <1>0
    <3>3. \A f \in Files : f # FileOf(r) => pc'[CleanupOf(f)] = pc[CleanupOf(f)]
      BY <2>3, <3>1, FileNames, <1>0
    <3>4. pc[CloseOf(FileOf(r))] = "none"
      BY <2>1, <3>1, <2>6, FileNames, <1>0 DEF FileInv
    <3> QED BY <3>1, <3>2, <3>3, <3>4, <2>2, <1>0, Kinds, FileNames DEF FileInv
  <2>7. CASE r \in Closes
    <3>1. /\ pc[CleanupOf(FileOf(r))] = "done" /\ r = CloseOf(FileOf(r))
          /\ \A q \in Reads : FileOf(q) = FileOf(r) => pc[q] = "none" \/ completions[q] > 0
      BY <2>1, <2>7, Kinds, FileNames DEF MayArrive, Done, CleanupOf, Ended
    <3>2. \A u \in Requests \ Closes : pc'[u] = pc[u]
      BY <2>3, <2>7, <1>0
    <3>3. \A f \in Files : f # FileOf(r) => pc'[CloseOf(f)] = pc[CloseOf(f)]
      BY <2>3, <3>1, FileNames, <1>0
    <3> QED BY <3>1, <3>2, <3>3, <2>2, <1>0, Kinds, FileNames DEF FileInv
  <2> QED BY <2>4, <2>5, <2>6, <2>7, ThreadSets
<1>4. ASSUME NEW r \in Requests, RequestTurn(r) PROVE FileInv'
  <2>1. PICK l \in Labels : pc' = [pc EXCEPT ![r] = l] /\ pc[r] \notin {"none", "done"}
    BY <1>4 DEF RequestTurn, Gate, QueueRequest, Work, SweepQueue, FlushCleanup, Goto, Labels
  <2>2. \A q \in Reads : completions'[q] >= completions[q]
    BY <1>4, <1>0, Completed DEF RequestTurn, Gate, QueueRequest, Work, SweepQueue, FlushCleanup, queueVars
  <2> QED BY <2>1, <2>2, <1>0, <1>a
<1>5. ASSUME NEW r \in Reads, IoCancelIrp(r) \/ CancelGoes(r) PROVE FileInv'
  <2>1. pc' = pc
    BY <1>5 DEF CancelGoes, IoCancelIrp, TakeCancelRoutine, CancelQueued
  <2>2. \A q \in Reads : completions'[q] >= completions[q]
    BY <1>5, <1>0, Completed DEF CancelGoes, IoCancelIrp, TakeCancelRoutine, CancelQueued
  <2> QED BY <2>1, <2>2, <1>b
<1>6. CASE ProcessQueued
  <2>1. pc' = pc
    BY <1>6 DEF ProcessQueued
  <2>2. \A q \in Reads : completions'[q] >= completions[q]
    BY <1>6, <1>0, Completed DEF ProcessQueued
  <2> QED BY <2>1, <2>2, <1>b
<1>7. CASE FinishPnp
  <2>1. pc' = [pc EXCEPT ![Pnp] = "leave"] /\ "leave" \in Labels
    BY <1>7 DEF FinishPnp, Goto, Labels
  <2>2. \A q \in Reads : completions'[q] >= completions[q]
    BY <1>7, <1>0, Completed DEF FinishPnp
  <2> QED BY <2>1, <2>2, <1>0, <1>a
<1>8. CASE UNCHANGED vars
  BY <1>8, <1>0, <1>b DEF vars, queueVars
<1> QED BY <1>1, <1>2, <1>3, <1>4, <1>5, <1>6, <1>7, <1>8, Steps

LEMMA RemovalPreserved ==
  ASSUME IInv, [Next]_vars
  PROVE  RemovalInv'
<1> USE DEF IInv, pnpVars
<1>0. /\ Pnp \in Threads /\ Requests \subseteq Threads /\ Pnp \notin Requests
      /\ Creates \subseteq Requests /\ Closes \subseteq Requests
      /\ pc \in [Threads -> Labels]
  BY ThreadSets, Kinds DEF TypeOK
<1>a. ASSUME NEW t \in Threads, NEW l \in Labels, pc' = [pc EXCEPT ![t] = l],
             t \in Requests => pc[t] # "done",
             t \in Creates => pc[t] # "none", NEW f \in Files, FileGone(f)
      PROVE  FileGone(f)'
  <2>1. CreateOf(f) \in Threads /\ CloseOf(f) \in Threads
        /\ CreateOf(f) \in Creates /\ CloseOf(f) \in Requests
    BY <1>0, FileNames
  <2>2. pc[CreateOf(f)] = "none" \/ pc[CloseOf(f)] = "done"
    BY <1>a DEF FileGone, Done, CreateOf, CloseOf
  <2>3. pc'[CreateOf(f)] = "none" \/ pc'[CloseOf(f)] = "done"
    BY <1>a, <1>0, <2>1, <2>2
  <2> QED BY <2>3 DEF FileGone, Done, CreateOf, CloseOf
<1>1. ASSUME NEW t \in Threads, Count(t) PROVE RemovalInv'
  <2>1. PICK l \in Labels : CountMove(t, l)
    BY <1>1, CountMoves
  <2>2. UNCHANGED <<minor, pnpState>> /\ pc' = [pc EXCEPT ![t] = l]
    BY <1>1, <2>1, CountMoves DEF CountMove
  <2>3. (t \in Requests => pc[t] \notin {"none", "done"})
    BY <2>1, <1>0 DEF CountMove, Leaving
  <2>4. \A f \in Files : FileGone(f) => FileGone(f)'
    BY <2>2, <2>3, <1>0, <1>a
  <2>5. CASE t = Pnp
    <3>1. pc'[Pnp] = l
      BY <2>2, <2>5, <1>0
    <3>2. \/ l \in {"clear", "inside"}
          \/ /\ pc[Pnp] \in {"leave", "setstop"} \union LastLabels
             /\ l \in LastLabels => minor = "remove"
      BY <2>1, <2>5 DEF CountMove
    <3> QED BY <2>2, <2>4, <3>1, <3>2 DEF RemovalInv, LastLabels
  <2>6. CASE t # Pnp
    <3>1. pc'[Pnp] = pc[Pnp]
      BY <2>2, <2>6, <1>0
    <3> QED BY <2>2, <2>4, <3>1 DEF RemovalInv
  <2> QED BY <2>5, <2>6
<1>2. CASE PnpTurn
  <2>1. PICK l \in Labels : PnpMove(l)
    BY <1>2, PnpMoves
  <2>2. pc' = [pc EXCEPT ![Pnp] = l] /\ pc'[Pnp] = l
    BY <2>1, <1>0 DEF PnpMove
  <2>3. \A f \in Files : FileGone(f) => FileGone(f)'
    BY <2>2, <1>0, <1>a
  <2> QED BY <2>1, <2>2, <2>3 DEF PnpMove, RemovalInv, LastLabels
<1>3. ASSUME NEW r \in Requests, Arrive(r) \/ RequestTurn(r) PROVE RemovalInv'
  <2>1. PICK l \in Labels :
          /\ pc' = [pc EXCEPT ![r] = l] /\ pc[r] # "done"
          /\ pc[r] = "none" => MayArrive(r)
    BY <1>3, RequestMoves
  <2>2. UNCHANGED <<minor, pnpState>>
    BY <1>3, RequestMoves
  <2>3. pc'[Pnp] = pc[Pnp]
    BY <2>1, <1>0
  <2>4. (minor = "remove" /\ r \in Creates) => pc[r] # "none"
    BY <2>1, Kinds DEF MayArrive, MayOpen
  <2>5. minor = "remove" => \A f \in Files : FileGone(f) => FileGone(f)'
    BY <2>1, <2>4, <1>0, <1>a
  <2> QED BY <2>2, <2>3, <2>5 DEF RemovalInv
<1>4. CASE \E r \in Reads : IoCancelIrp(r) \/ CancelGoes(r)
  BY <1>4 DEF IoCancelIrp, CancelGoes, TakeCancelRoutine, CancelQueued, RemovalInv, FileGone, Done
<1>5. CASE ProcessQueued \/ UNCHANGED vars
  BY <1>5 DEF ProcessQueued, vars, RemovalInv, FileGone, Done
<1>6. CASE FinishPnp
  <2>1. pc' = [pc EXCEPT ![Pnp] = "leave"] /\ pc'[Pnp] = "leave" /\ UNCHANGED minor
        /\ "leave" \in Labels
    BY <1>6, <1>0 DEF FinishPnp, Goto, Labels
  <2>2. minor = "remove" => pnpState' = "Deleted"
    BY <1>6 DEF FinishPnp, Enter
  <2>3. \A f \in Files : FileGone(f) => FileGone(f)'
    BY <2>1, <1>0, <1>a
  <2> QED BY <2>1, <2>2, <2>3 DEF RemovalInv, LastLabels
<1> QED BY <1>1, <1>2, <1>3, <1>4, <1>5, <1>6, Steps

\* Once the count is zero nobody takes part in it any more.
LEMMA ZeroIsFinal ==
  ASSUME IInv, outstandingIO = 0, NEW t \in Threads
  PROVE  pc[t] \notin {"enter", "clear", "inside", "leave", "leavelast"}
<1> USE DEF IInv
<1>1. pc[Pnp] \in LastLabels \ {"leavelast"} /\ pc[t] \notin Counted
  BY ZeroMeansGone
<1>2. minor = "remove"
  BY <1>1 DEF RemovalInv
<1>3. CASE t = Pnp
  BY <1>1, <1>3 DEF LastLabels
<1>4. CASE t \in Requests
  BY <1>1, <1>2, <1>4, RemovalIsQuiet DEF Leaving, Counted
<1> QED BY <1>3, <1>4 DEF Threads

LEMMA ZeroPreserved ==
  ASSUME IInv, [Next]_vars
  PROVE  ZeroInv'
<1> USE DEF IInv
<1>0. /\ Pnp \in Threads /\ Requests \subseteq Threads /\ Pnp \notin Requests
      /\ pc \in [Threads -> Labels] /\ outstandingIO \in Nat
  BY ThreadSets, Kinds DEF TypeOK
<1>a. ASSUME NEW t \in Threads, NEW l \in Labels \ {"setremove", "removed"},
             pc' = [pc EXCEPT ![t] = l], pc[t] # "setremove", removeEvent' = removeEvent,
             outstandingIO' = outstandingIO \/ (outstandingIO # 0)
      PROVE  ZeroInv'
  <2>1. \A u \in Threads : pc'[u] = IF u = t THEN l ELSE pc[u]
    BY <1>a, <1>0
  <2>2. Told' => Told
    BY <1>a, <2>1, <1>0 DEF Told
  <2> QED BY <1>a, <2>1, <2>2 DEF ZeroInv
<1>b. ASSUME pc' = pc, UNCHANGED <<outstandingIO, removeEvent>>
      PROVE  ZeroInv'
  BY <1>b DEF ZeroInv, Told
<1>1. ASSUME NEW t \in Threads, Increment(t) PROVE ZeroInv'
  <2>1. PICK l \in {"clear", "inside"} : pc' = [pc EXCEPT ![t] = l]
    BY <1>1 DEF Increment, Goto
  <2>2. pc[t] = "enter" /\ removeEvent' = removeEvent /\ outstandingIO # 0
    BY <1>1, ZeroIsFinal DEF Increment, eventVars
  <2> QED BY <2>1, <2>2, <1>a DEF Labels
<1>2. ASSUME NEW t \in Threads, ClearStopEvent(t) PROVE ZeroInv'
  BY <1>2, <1>a DEF ClearStopEvent, Goto, Labels
<1>3. ASSUME NEW t \in Threads, Decrement(t) PROVE ZeroInv'
  <2> DEFINE n == outstandingIO - 1
  <2>1. /\ outstandingIO # 0 /\ outstandingIO' = n /\ UNCHANGED removeEvent
    BY <1>3, ZeroIsFinal DEF Decrement, eventVars
  <2>2. PICK l \in Labels : pc' = [pc EXCEPT ![t] = l] /\ (l = "setremove" => n = 0) /\ l # "removed"
    <3>1. AfterLeaving(t) \in {"done", "waitstop", "leavelast", "idle"}
      BY DEF AfterLeaving
    <3> QED BY <3>1, <1>3 DEF Decrement, Goto, NobodyInside, Labels
  <2>3. ~Told /\ \A u \in Threads : pc[u] # "setremove"
    BY <2>1 DEF ZeroInv
  <2>4. \A u \in Threads : pc'[u] = IF u = t THEN l ELSE pc[u]
    BY <2>2, <1>0
  <2>5. ~Told'
    BY <2>1, <2>2, <2>3, <2>4, <1>0 DEF Told
  <2> QED BY <2>1, <2>2, <2>3, <2>4, <2>5 DEF ZeroInv
<1>4. ASSUME NEW t \in Threads, SetStopEvent(t) PROVE ZeroInv'
  <2>1. AfterLeaving(t) \in {"done", "waitstop", "leavelast", "idle"}
    BY DEF AfterLeaving
  <2> QED BY <2>1, <1>4, <1>a DEF SetStopEvent, Goto, Labels
<1>5. ASSUME NEW t \in Threads, SetRemoveEvent(t) PROVE ZeroInv'
  <2>1. pc[t] = "setremove" /\ removeEvent' /\ outstandingIO' = outstandingIO
        /\ pc' = [pc EXCEPT ![t] = IF t = Pnp THEN "waitremove" ELSE "done"]
    BY <1>5 DEF SetRemoveEvent, Goto
  <2>2. \A u \in Threads : u # t => pc[u] # "setremove"
    BY <2>1 DEF ZeroInv
  <2>3. \A u \in Threads : pc'[u] # "setremove"
    BY <2>1, <2>2, <1>0
  <2> QED BY <2>1, <2>3 DEF ZeroInv
<1>6. CASE PnpTurn
  <2>1. PICK l \in Labels : PnpMove(l)
    BY <1>6, PnpMoves
  <2>2. pc' = [pc EXCEPT ![Pnp] = l] /\ outstandingIO' = outstandingIO
    BY <2>1 DEF PnpMove
  <2>3. CASE l = "removed"
    <3>1. removeEvent
      BY <2>1, <2>3 DEF PnpMove
    <3>2. outstandingIO = 0 /\ \A u \in Threads : pc[u] # "setremove"
      BY <3>1 DEF ZeroInv, Told
    <3> QED BY <2>2, <2>3, <3>2, <1>0 DEF ZeroInv
  <2>4. CASE l # "removed"
    <3>1. l # "setremove" /\ pc[Pnp] # "setremove" /\ removeEvent' = removeEvent
      BY <2>1, <2>4 DEF PnpMove, eventVars
    <3> QED BY <2>2, <2>4, <3>1, <1>0, <1>a
  <2> QED BY <2>3, <2>4
<1>7. ASSUME NEW r \in Requests, Arrive(r) \/ RequestTurn(r) PROVE ZeroInv'
  <2>1. PICK l \in Labels : pc' = [pc EXCEPT ![r] = l] /\ l \notin {"setremove", "removed"}
                            /\ pc[r] # "setremove"
    BY <1>7, RequestMoves
  <2>2. UNCHANGED <<outstandingIO, removeEvent>>
    BY <1>7, RequestMoves DEF eventVars
  <2> QED BY <2>1, <2>2, <1>0, <1>a
<1>8. CASE \E r \in Reads : IoCancelIrp(r) \/ CancelGoes(r)
  BY <1>8, <1>b DEF IoCancelIrp, CancelGoes, TakeCancelRoutine, CancelQueued, eventVars
<1>9. CASE ProcessQueued \/ UNCHANGED vars
  BY <1>9, <1>b DEF ProcessQueued, vars, eventVars
<1>10. CASE FinishPnp
  BY <1>10, <1>0, <1>a DEF FinishPnp, Goto, Labels, eventVars
<1> QED BY <1>1, <1>2, <1>3, <1>4, <1>5, <1>6, <1>7, <1>8, <1>9, <1>10, Steps DEF Count

LEMMA StopPreserved ==
  ASSUME IInv, [Next]_vars
  PROVE  StopEventTruth'
<1> USE DEF IInv
<1>0. /\ Pnp \in Threads /\ Requests \subseteq Threads /\ Pnp \notin Requests
      /\ pc \in [Threads -> Labels] /\ outstandingIO \in Nat
  BY ThreadSets, Kinds DEF TypeOK
<1>a. ASSUME NEW t \in Threads, NEW l \in Labels \ {"waitstop"}, pc' = [pc EXCEPT ![t] = l],
             pc[t] \notin {"clear", "setstop"}, UNCHANGED <<stopEvent, overtaken, outstandingIO>>
      PROVE  StopEventTruth'
  <2>1. \A u \in Threads : pc'[u] = IF u = t THEN l ELSE pc[u]
    BY <1>a, <1>0
  <2> QED BY <1>a, <2>1, <1>0 DEF StopEventTruth
<1>b. ASSUME pc' = pc, UNCHANGED <<stopEvent, overtaken, outstandingIO>>
      PROVE  StopEventTruth'
  BY <1>b DEF StopEventTruth
<1>1. ASSUME NEW t \in Threads, Increment(t) PROVE StopEventTruth'
  <2>1. /\ pc[t] = "enter" /\ outstandingIO' = outstandingIO + 1 /\ UNCHANGED <<stopEvent, overtaken>>
        /\ pc' = [pc EXCEPT ![t] = IF outstandingIO + 1 = 2 THEN "clear" ELSE "inside"]
    BY <1>1 DEF Increment, Goto, FirstIn, eventVars
  <2>2. \A u \in Threads : u # t => pc'[u] = pc[u]
    BY <2>1, <1>0
  <2>3. outstandingIO + 1 = 2 => pc'[t] = "clear"
    BY <2>1, <1>0
  <2>4. pc'[t] \in {"clear", "inside"}
    BY <2>1, <1>0
  <2>5. outstandingIO # 0
    BY <2>1, ZeroIsFinal
  <2>6. stopEvent' => outstandingIO' <= 1 \/ overtaken' \/ \E u \in Threads : pc'[u] = "clear"
    <3>1. CASE outstandingIO <= 1
      BY <3>1, <2>1, <2>3, <2>5, <1>0
    <3>2. CASE outstandingIO > 1
      BY <3>2, <2>1, <2>2, <1>0 DEF StopEventTruth
    <3> QED BY <3>1, <3>2, <1>0
  <2>7. outstandingIO' # 1
    BY <2>1, <2>5, <1>0
  <2> QED BY <2>6, <2>7 DEF StopEventTruth
<1>2. ASSUME NEW t \in Threads, ClearStopEvent(t) PROVE StopEventTruth'
  <2>1. /\ pc[t] = "clear" /\ outstandingIO' = outstandingIO /\ stopEvent' = FALSE
        /\ pc' = [pc EXCEPT ![t] = "inside"]
    BY <1>2 DEF ClearStopEvent, Goto
  <2>2. pc'[Pnp] = "waitstop" => pc[Pnp] = "waitstop" /\ outstandingIO >= 2
    BY <2>1, <1>0, CountedIsCounted DEF Counted, Base
  <2> QED BY <2>1, <2>2, <1>0 DEF StopEventTruth
<1>3. ASSUME NEW t \in Threads, Decrement(t) PROVE StopEventTruth'
  <2> DEFINE n == outstandingIO - 1
  <2>1. /\ pc[t] \in {"leave", "leavelast"} /\ outstandingIO' = n /\ UNCHANGED <<stopEvent, overtaken>>
        /\ outstandingIO # 0
    BY <1>3, ZeroIsFinal DEF Decrement, eventVars
  <2>2. PICK l \in Labels : /\ pc' = [pc EXCEPT ![t] = l]
                            /\ n = 1 => l \in {"setstop", "setstoplast"}
                            /\ n = 1 /\ pc[t] = "leave" => l = "setstop"
    <3>1. AfterLeaving(t) \in {"done", "waitstop", "leavelast", "idle"}
      BY DEF AfterLeaving
    <3> DEFINE k == IF n = 1 /\ pc[t] # "leavelast" THEN "setstop"
                    ELSE IF n = 0 THEN "setremove"
                    ELSE IF n = 1 THEN "setstoplast"
                    ELSE IF pc[t] = "leavelast" THEN "waitremove"
                    ELSE AfterLeaving(t)
    <3>2. pc' = [pc EXCEPT ![t] = k]
      BY <1>3 DEF Decrement, Goto, NobodyInside, Alone
    <3>3. k \in Labels /\ (n = 1 => k \in {"setstop", "setstoplast"})
          /\ (n = 1 /\ pc[t] = "leave" => k = "setstop")
      BY <3>1, <1>0 DEF Labels
    <3> HIDE DEF k
    <3> QED BY <3>2, <3>3
  <2>3. \A u \in Threads : pc'[u] = IF u = t THEN l ELSE pc[u]
    BY <2>2, <1>0
  <2>4. stopEvent' => outstandingIO' <= 1 \/ overtaken' \/ \E u \in Threads : pc'[u] = "clear"
    <3>1. CASE outstandingIO <= 1
      BY <3>1, <2>1, <1>0
    <3>2. CASE \E u \in Threads : pc[u] = "clear"
      BY <3>2, <2>1, <2>3
    <3> QED BY <3>1, <3>2, <2>1, <1>0 DEF StopEventTruth
  <2>5. ASSUME pc'[Pnp] = "waitstop", outstandingIO' = 1
        PROVE  \E u \in Threads : pc'[u] = "setstop"
    <3>1. t # Pnp
      BY <2>5, <2>1, <2>2, <2>3, <1>0
    <3>2. pc[t] = "leave"
      BY <3>1, <2>1, <1>0 DEF KindInv, LabelsOf, Coming, Leaving
    <3> QED BY <3>2, <2>1, <2>2, <2>3, <2>5
  <2> QED BY <2>4, <2>5 DEF StopEventTruth
<1>4. ASSUME NEW t \in Threads, SetStopEvent(t) PROVE StopEventTruth'
  <2>1. /\ stopEvent' = TRUE /\ outstandingIO' = outstandingIO /\ overtaken' = (outstandingIO > 1)
    BY <1>4 DEF SetStopEvent
  <2>2. outstandingIO > 1 \/ outstandingIO <= 1
    BY <1>0
  <2> QED BY <2>1, <2>2 DEF StopEventTruth
<1>5. ASSUME NEW t \in Threads, SetRemoveEvent(t) PROVE StopEventTruth'
  BY <1>5, <1>a DEF SetRemoveEvent, Goto, Labels
<1>6. CASE PnpTurn
  <2>1. PICK l \in Labels : PnpMove(l)
    BY <1>6, PnpMoves
  <2>2. pc' = [pc EXCEPT ![Pnp] = l] /\ outstandingIO' = outstandingIO
    BY <2>1 DEF PnpMove
  <2>3. CASE pc[Pnp] = "waitstop"
    <3>1. stopEvent' = FALSE /\ l = "idle"
      BY <2>1, <2>3 DEF PnpMove
    <3> QED BY <2>2, <3>1, <1>0 DEF StopEventTruth
  <2>4. CASE pc[Pnp] # "waitstop"
    <3>1. UNCHANGED <<stopEvent, overtaken>> /\ l # "waitstop" /\ pc[Pnp] \notin {"clear", "setstop"}
      BY <2>1, <2>4 DEF PnpMove, eventVars
    <3> QED BY <2>2, <3>1, <1>0, <1>a
  <2> QED BY <2>3, <2>4
<1>7. ASSUME NEW r \in Requests, Arrive(r) \/ RequestTurn(r) PROVE StopEventTruth'
  <2>1. PICK l \in Labels : pc' = [pc EXCEPT ![r] = l] /\ l # "waitstop"
                            /\ pc[r] \notin {"clear", "setstop"}
    BY <1>7, RequestMoves
  <2>2. UNCHANGED <<outstandingIO, stopEvent, overtaken>>
    BY <1>7, RequestMoves DEF eventVars
  <2> QED BY <2>1, <2>2, <1>0, <1>a
<1>8. CASE \E r \in Reads : IoCancelIrp(r) \/ CancelGoes(r)
  BY <1>8, <1>b DEF IoCancelIrp, CancelGoes, TakeCancelRoutine, CancelQueued, eventVars
<1>9. CASE ProcessQueued \/ UNCHANGED vars
  BY <1>9, <1>b DEF ProcessQueued, vars, eventVars
<1>10. CASE FinishPnp
  BY <1>10, <1>0, <1>a DEF FinishPnp, Goto, Labels, eventVars
<1> QED BY <1>1, <1>2, <1>3, <1>4, <1>5, <1>6, <1>7, <1>8, <1>9, <1>10, Steps DEF Count

-----------------------------------------------------------------------------
(* The theorems. *)

LEMMA InitIInv == Init => IInv
<1> SUFFICES ASSUME Init PROVE IInv
  OBVIOUS
<1>0. Pnp \in Threads /\ Pnp \notin Requests /\ Reads \subseteq Requests
      /\ \A t \in Threads : pc[t] = IF t = Pnp THEN "idle" ELSE "none"
  BY ThreadSets, Kinds DEF Init
<1>1. TypeOK
  BY DEF Init, TypeOK, Labels
<1>2. KindInv
  BY <1>0 DEF KindInv, LabelsOf, Coming
<1>3. ReadInv /\ ListInv
  BY <1>0, ThreadSets DEF Init, ReadInv, ListInv, Waiting, Held, Coming
<1>4. FileInv
  BY <1>0, Kinds, FileNames, ThreadSets DEF FileInv
<1>5. RemovalInv /\ ZeroInv
  BY <1>0, ThreadsAssumption DEF Init, RemovalInv, ZeroInv, Told, LastLabels, Minors
<1>6. CountExact
  <2>1. Inside = {} /\ Base = 1
    BY <1>0 DEF Inside, Counted, Base
  <2> QED BY <2>1, FS_EmptySet DEF CountExact, Init
<1>7. StopEventTruth
  BY <1>0 DEF Init, StopEventTruth
<1> QED BY <1>1, <1>2, <1>3, <1>4, <1>5, <1>6, <1>7 DEF IInv

LEMMA Inductive == Spec => []IInv
<1>1. IInv /\ [Next]_vars => IInv'
  <2> SUFFICES ASSUME IInv, [Next]_vars PROVE IInv'
    OBVIOUS
  <2> QED BY TypePreserved, KindPreserved, ReadsPreserved, FilePreserved, RemovalPreserved,
             CountPreserved, ZeroPreserved, StopPreserved DEF IInv
<1> QED BY <1>1, InitIInv, PTL DEF Spec

(***************************************************************************)
(* ToasterQueueRequest, ToasterCancelQueued, ToasterCleanup and            *)
(* ToasterProcessQueuedRequests: a read that waits has exactly one owner   *)
(* and every read is completed at most once.                               *)
(***************************************************************************)
THEOREM ReadsHaveOneOwner == Spec => []QueueProtocol
<1>1. IInv => QueueProtocol
  <2> SUFFICES ASSUME IInv, NEW r \in Reads
               PROVE  /\ completions[r] <= 1
                      /\ r \in routine <=> (r \in queue /\ canceller[r] # "routine")
                      /\ pc[r] = "done" /\ Open(r) => Cardinality(Owners(r)) = 1
                      /\ pc[r] # "done" \/ Ended(r) => Owners(r) = {}
    BY DEF QueueProtocol, IInv
  <2>0. completions[r] \in Nat
    BY DEF IInv, TypeOK
  <2>1. completions[r] <= 1 /\ (r \in routine <=> (r \in queue /\ canceller[r] # "routine"))
    BY DEF IInv, ReadInv
  <2>2. ASSUME pc[r] = "done", Open(r) PROVE Cardinality(Owners(r)) = 1
    <3>1. Waiting(r)
      BY <2>0, <2>2 DEF Waiting, Open, Ended
    <3>2. CASE Held(r)
      <4>1. \A t \in Threads : r \notin doomed[t]
        BY <3>2 DEF IInv, ListInv
      <4>2. Owners(r) = {"queue"} \/ Owners(r) = {"cancel"}
        BY <3>2, <4>1 DEF Owners, Held
      <4> QED BY <4>2, FS_Singleton
    <3>3. CASE ~Held(r)
      <4>1. PICK t \in Threads : r \in doomed[t]
        BY <3>1, <3>3 DEF IInv, ReadInv
      <4>2. {u \in Threads : r \in doomed[u]} = {t}
        BY <4>1 DEF IInv, ListInv
      <4>3. Owners(r) = {t}
        BY <3>3, <4>2 DEF Owners, Held
      <4> QED BY <4>3, FS_Singleton
    <3> QED BY <3>2, <3>3
  <2>3. ASSUME pc[r] # "done" \/ Ended(r) PROVE Owners(r) = {}
    <3>1. ~Waiting(r)
      BY <2>0, <2>3 DEF Waiting, Ended
    <3>2. ~Held(r) /\ \A t \in Threads : r \notin doomed[t]
      BY <3>1 DEF IInv, ReadInv, ListInv
    <3> QED BY <3>2 DEF Owners, Held
  <2> QED BY <2>1, <2>2, <2>3
<1> QED BY <1>1, Inductive, PTL

(***************************************************************************)
(* ToasterIoIncrement and ToasterIoDecrement: the count is exact, and when *)
(* a removal's wait for RemoveEvent is over nobody is inside and nothing   *)
(* is queued.                                                              *)
(***************************************************************************)
THEOREM CountProtectsDevice == Spec => []CountProtects
<1>1. IInv => CountProtects
  <2> SUFFICES ASSUME IInv PROVE RemovedIsQuiet
    BY DEF CountProtects, IInv
  <2> USE DEF IInv
  <2>1. ASSUME pc[Pnp] = "removed"
        PROVE  /\ \A r \in Requests : pc[r] \in {"none", "done", "setstop"}
               /\ queue = {} /\ \A r \in Reads : canceller[r] # "routine"
    <3>1. minor = "remove"
      BY <2>1 DEF RemovalInv, LastLabels
    <3>2. outstandingIO = 0 /\ \A t \in Threads : pc[t] # "setremove"
      BY <2>1 DEF ZeroInv, Told
    <3>3. \A r \in Requests : pc[r] \in {"none"} \union Leaving /\ pc[r] \notin {"leave", "setremove"}
      BY <3>1, <3>2, RemovalIsQuiet, ZeroIsFinal DEF Threads
    <3>4. \A r \in Reads : ~Held(r)
      BY <3>1, RemovalIsQuiet
    <3> QED BY <3>3, <3>4 DEF Leaving, Held, TypeOK
  <2>2. outstandingIO = 0 => pnpState = "Deleted"
    BY ZeroMeansGone DEF RemovalInv
  <2> QED BY <2>1, <2>2 DEF RemovedIsQuiet
<1> QED BY <1>1, Inductive, PTL

(***************************************************************************)
(* StopEvent says that the plug-and-play thread is alone, up to a request  *)
(* that is about to clear it or came in before it was set; a wait for it   *)
(* with nobody inside finds it set or about to be.                         *)
(***************************************************************************)
THEOREM StopEventIsTrue == Spec => []StopEventTruth
<1>1. IInv => StopEventTruth
  BY DEF IInv
<1> QED BY <1>1, Inductive, PTL
=============================================================================
