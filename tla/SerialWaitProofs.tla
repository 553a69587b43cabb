-------------------------- MODULE SerialWaitProofs --------------------------
(***************************************************************************)
(* Proofs about the events and wait requests, for any requests, workers,   *)
(* processors that clean up and event bits: the reference protocol of the  *)
(* mask queue and of CurrentWaitIrp, that no event is missed, and that the *)
(* mask queue is a request queue.                                          *)
(***************************************************************************)
EXTENDS SerialWait, QueueLemmas

-----------------------------------------------------------------------------
(* The inductive invariant. *)

QueueDistinct == \A k, m \in DOMAIN queue : queue[k] = queue[m] => k = m

(***************************************************************************)
(* Every open request is in one place, which its cancel routine tells: in  *)
(* the queue, current, or CurrentWaitIrp.  Only the last holds references. *)
(***************************************************************************)
InPlace ==
  \A i \in Irps :
    /\ Queued(i) <=> routine[i] = "queued"
    /\ routine[i] = "wait" => i = wait
    /\ i = wait => routine[i] # "queued"
    /\ i = current => routine[i] = "null" /\ i # wait
    /\ refs[i] # {} => i = wait
    /\ Open(i) <=> Queued(i) \/ i = current \/ i = wait
    /\ completions[i] \in {0, 1}
    /\ completions[i] = 1 => i \in arrived

\* A queue waits for somebody, and the wait that passed the test is current.
Served ==
  /\ queue # <<>> => current # None
  /\ \A w \in Workers : pc[w] = "tested" => current \in Waits

\* A buffer with events is that of a wait whose completion is queued, or of one
\* that succeeded.
Written ==
  \A i \in Waits : buffer[i] # {} =>
    \/ i = wait /\ irpMaskLocation = None
    \/ completions[i] = 1 /\ status[i] = "success"

IInv ==
  /\ TypeOK /\ QueueDistinct /\ InPlace /\ Served /\ Written
  /\ StarterMayTrustItsTest /\ WaitReferences /\ NoMissedEvent

-----------------------------------------------------------------------------
(* Facts about the constants and the queue. *)

LEMMA Names ==
  /\ None \notin Irps /\ None \notin Workers
  /\ SetMasks \subseteq Irps /\ Waits \subseteq Irps
  /\ \A i \in Irps : i \in SetMasks <=> i \notin Waits
BY WaitAssumption DEF Irps

LEMMA Enqueued ==
  ASSUME queue \in Seq(Irps), QueueDistinct, NEW i \in Irps, ~Queued(i),
         queue' = Append(queue, i)
  PROVE  /\ queue' \in Seq(Irps) /\ QueueDistinct'
         /\ \A j \in Irps : Queued(j)' <=> Queued(j) \/ j = i
BY Joined DEF QueueDistinct, Queued, Distinct, Among

LEMMA Dequeued ==
  ASSUME queue \in Seq(Irps), QueueDistinct, queue # <<>>, queue' = Tail(queue)
  PROVE  /\ queue' \in Seq(Irps) /\ QueueDistinct'
         /\ Head(queue) \in Irps /\ Queued(Head(queue))
         /\ \A j \in Irps : Queued(j)' <=> Queued(j) /\ j # Head(queue)
BY HeadLeft DEF QueueDistinct, Queued, Distinct, Among

LEMMA Withdrawn ==
  ASSUME queue \in Seq(Irps), QueueDistinct, NEW k \in DOMAIN queue,
         queue' = RemoveAt(queue, k)
  PROVE  /\ queue' \in Seq(Irps) /\ QueueDistinct'
         /\ queue[k] \in Irps /\ Queued(queue[k]) /\ queue # <<>>
         /\ \A j \in Irps : Queued(j)' <=> Queued(j) /\ j # queue[k]
<1>1. Distinct(queue)
  BY DEF QueueDistinct, Distinct
<1>2. /\ queue' \in Seq(Irps) /\ Distinct(queue')
      /\ queue[k] \in Irps /\ Among(queue[k], queue) /\ queue # <<>>
      /\ \A x : Among(x, queue') <=> Among(x, queue) /\ x # queue[k]
  BY <1>1, OneLeft
<1> QED BY <1>2 DEF QueueDistinct, Queued, Distinct, Among

-----------------------------------------------------------------------------
(* The invariant holds at the start. *)

LEMMA InitIInv == Init => IInv
<1> SUFFICES ASSUME Init PROVE IInv
  OBVIOUS
<1>1. queue = <<>> /\ DOMAIN queue = {} /\ current = None /\ wait = None
  BY DEF Init
<1>2. TypeOK
  <2>1. /\ queue \in Seq(Irps) /\ current \in Irps \union {None}
        /\ wait \in Waits \union {None} /\ cancelLock \in Workers \union {None}
        /\ arrived \subseteq Irps /\ cancelled \subseteq Irps
    BY <1>1 DEF Init
  <2>2. /\ buffer \in [Irps -> SUBSET Events]
        /\ status \in [Irps -> {"none", "pending", "success", "cancelled", "invalid"}]
        /\ routine \in [Irps -> {"null", "queued", "wait"}]
        /\ refs \in [Irps -> SUBSET {"ISR", "CANCEL"}] /\ completions \in [Irps -> Nat]
    BY DEF Init
  <2>3. /\ isrWaitMask \subseteq Events /\ historyMask \subseteq Events
        /\ irpMaskLocation \in Waits \union {None} /\ dpcQueued \in BOOLEAN
        /\ pc \in [Workers -> {"idle", "start", "tested", "getnext", "kill", "killwait"}]
    BY DEF Init
  <2> QED BY <2>1, <2>2, <2>3 DEF TypeOK
<1>3. QueueDistinct /\ InPlace /\ Served /\ Written
  BY <1>1, Names DEF Init, QueueDistinct, InPlace, Served, Written, Queued, Open
<1>4. StarterMayTrustItsTest /\ WaitReferences /\ NoMissedEvent
  BY <1>1 DEF Init, StarterMayTrustItsTest, WaitReferences, NoMissedEvent, Working
<1> QED BY <1>2, <1>3, <1>4 DEF IInv

\* The starter has the current request to itself.
LEMMA WorkingFacts ==
  ASSUME IInv, NEW w \in Workers, Working(w)
  PROVE  /\ current \in Irps /\ current # None /\ current # wait /\ ~Queued(current)
         /\ current \in arrived /\ completions[current] = 0
         /\ routine[current] = "null" /\ refs[current] = {}
         /\ current \in Waits => buffer[current] = {}
         /\ \A v \in Workers : Working(v) => v = w
<1>1. current \in Irps /\ current # None
  BY DEF IInv, TypeOK, StarterMayTrustItsTest
<1>2. /\ routine[current] = "null" /\ current # wait /\ refs[current] = {}
      /\ Open(current) /\ ~Queued(current)
  BY <1>1 DEF IInv, InPlace
<1>3. \A v \in Workers : Working(v) => v = w
  BY DEF IInv, StarterMayTrustItsTest
<1> QED BY <1>1, <1>2, <1>3 DEF IInv, Open, Written

\* What is known of a wait that is there.
LEMMA WaitFacts ==
  ASSUME IInv, wait # None
  PROVE  /\ wait \in Waits /\ wait \in Irps /\ wait # current /\ ~Queued(wait)
         /\ wait \in arrived /\ completions[wait] = 0 /\ routine[wait] \in {"null", "wait"}
         /\ \A w \in Workers : pc[w] # "tested"
<1>1. wait \in Waits /\ wait \in Irps
  BY Names DEF IInv, TypeOK
<1>2. /\ wait # current /\ ~Queued(wait) /\ Open(wait) /\ routine[wait] # "queued"
  BY <1>1 DEF IInv, InPlace
<1>3. routine[wait] \in {"null", "wait"}
  BY <1>1, <1>2 DEF IInv, TypeOK
<1>4. \A w \in Workers : pc[w] # "tested"
  BY DEF IInv, StarterMayTrustItsTest
<1> QED BY <1>1, <1>2, <1>3, <1>4 DEF Open

-----------------------------------------------------------------------------
(* A request arrives. *)

LEMMA RequestStep ==
  ASSUME IInv, NEW w \in Workers, NEW i \in Irps, Request(w, i)
  PROVE  IInv'
<1>1. /\ pc[w] = "idle" /\ i \notin arrived /\ arrived' = arrived \union {i}
      /\ UNCHANGED <<wait, cancelled, refs, isrWaitMask, historyMask, irpMaskLocation,
                     dpcQueued, cancelLock>>
  BY DEF Request, isrVars
<1>2. /\ buffer' \in [Irps -> SUBSET Events]
      /\ \A j \in Waits : j # i => buffer'[j] = buffer[j]
      /\ i \in Waits => buffer'[i] = {}
  BY Names DEF Request, IInv, TypeOK
<1>3. /\ i # current /\ i # wait /\ ~Queued(i) /\ completions[i] = 0
      /\ routine[i] = "null" /\ refs[i] = {}
  <2>1. ~Open(i)
    BY <1>1 DEF Open
  <2>2. i # current /\ i # wait /\ ~Queued(i) /\ completions[i] = 0
    BY <1>1, <2>1 DEF IInv, InPlace
  <2> QED BY <2>2 DEF IInv, InPlace, TypeOK
<1>4. (wait # None => ("CANCEL" \in refs[wait] <=> routine'[wait] = "wait"))
        => WaitReferences' /\ NoMissedEvent'
  BY <1>1 DEF IInv, WaitReferences, NoMissedEvent
<1>5. CASE /\ MayStart /\ current' = i /\ pc' = [pc EXCEPT ![w] = "start"]
           /\ UNCHANGED <<queue, status, routine, completions>>
  <2>0. queue = <<>> /\ current = None /\ \A j \in Irps : Queued(j)' = Queued(j)
    BY <1>5 DEF MayStart, Queued
  <2>1. TypeOK'
    BY <1>1, <1>2, <1>5, Names DEF IInv, TypeOK
  <2>2. QueueDistinct' /\ Served'
    BY <1>1, <1>5, <2>0 DEF IInv, TypeOK, StarterMayTrustItsTest, Working, QueueDistinct, Served
  <2>3. InPlace'
    BY <1>1, <1>3, <1>5, <2>0, Names DEF IInv, InPlace, Open
  <2>4. Written'
    BY <1>1, <1>2, <1>5, Names DEF IInv, Written
  <2>5. StarterMayTrustItsTest'
    BY <1>1, <1>3, <1>5, <2>0, Names DEF IInv, TypeOK, StarterMayTrustItsTest, Working
  <2>6. WaitReferences' /\ NoMissedEvent'
    BY <1>4, <1>5 DEF IInv, WaitReferences
  <2> QED BY <2>1, <2>2, <2>3, <2>4, <2>5, <2>6 DEF IInv
<1>6. CASE /\ status' = [status EXCEPT ![i] = "cancelled"]
           /\ Complete(i) /\ UNCHANGED <<queue, current, routine, pc>>
  <2>0. /\ completions' \in [Irps -> Nat] /\ completions'[i] = 1
        /\ \A j \in Irps : j # i => completions'[j] = completions[j]
        /\ \A j \in Irps : Queued(j)' = Queued(j)
    BY <1>3, <1>6 DEF Complete, IInv, TypeOK, Queued
  <2>1. TypeOK'
    BY <1>1, <1>2, <1>6, <2>0 DEF IInv, TypeOK
  <2>2. QueueDistinct' /\ Served'
    BY <1>1, <1>6 DEF IInv, QueueDistinct, Served
  <2>3. InPlace'
    BY <1>1, <1>3, <1>6, <2>0, Names DEF IInv, InPlace, Open
  <2>4. Written'
    BY <1>1, <1>2, <1>6, <2>0, Names DEF IInv, TypeOK, Written
  <2>5. StarterMayTrustItsTest'
    BY <1>1, <1>3, <1>6, <2>0, Names DEF IInv, TypeOK, StarterMayTrustItsTest, Working
  <2>6. WaitReferences' /\ NoMissedEvent'
    BY <1>4, <1>6 DEF IInv, WaitReferences
  <2> QED BY <2>1, <2>2, <2>3, <2>4, <2>5, <2>6 DEF IInv
<1>7. CASE /\ ~MayStart /\ status' = [status EXCEPT ![i] = "pending"]
           /\ queue' = Append(queue, i)
           /\ routine' = [routine EXCEPT ![i] = "queued"]
           /\ UNCHANGED <<current, completions, pc>>
  <2>0. /\ queue' \in Seq(Irps) /\ QueueDistinct'
        /\ \A j \in Irps : Queued(j)' <=> Queued(j) \/ j = i
    BY <1>3, <1>7, Enqueued DEF IInv, TypeOK
  <2>1. TypeOK'
    BY <1>1, <1>2, <1>7, <2>0 DEF IInv, TypeOK
  <2>2. Served'
    BY <1>1, <1>7 DEF IInv, MayStart, Served
  <2>3. InPlace'
    BY <1>1, <1>3, <1>7, <2>0, Names DEF IInv, TypeOK, InPlace, Open
  <2>4. Written'
    BY <1>1, <1>2, <1>3, <1>7, Names DEF IInv, TypeOK, Written
  <2>5. StarterMayTrustItsTest'
    BY <1>1, <1>7 DEF IInv, StarterMayTrustItsTest, Working
  <2>6. WaitReferences' /\ NoMissedEvent'
    BY <1>3, <1>4, <1>7 DEF IInv, TypeOK, WaitReferences
  <2> QED BY <2>0, <2>1, <2>2, <2>3, <2>4, <2>5, <2>6 DEF IInv
<1> QED BY <1>5, <1>6, <1>7 DEF Request, Goto

-----------------------------------------------------------------------------
(* The starter. *)

LEMMA SetWaitMaskStep ==
  ASSUME IInv, NEW w \in Workers, SetWaitMask(w)
  PROVE  IInv'
<1>1. /\ pc[w] = "start" /\ current \in SetMasks
      /\ irpMaskLocation' = None /\ dpcQueued' = (dpcQueued \/ irpMaskLocation # None)
      /\ historyMask' = historyMask \intersect buffer[current]
      /\ isrWaitMask' = buffer[current]
      /\ status' = [status EXCEPT ![current] = "success"]
      /\ pc' = [pc EXCEPT ![w] = "getnext"]
      /\ UNCHANGED <<queue, current, wait, arrived, buffer, cancelled, routine, refs,
                     completions, cancelLock>>
  BY DEF SetWaitMask, FinishOldWait, Goto
<1>2. Working(w) /\ current \in Irps /\ current \notin Waits
  BY <1>1, Names DEF Working
<1>3. \A j \in Irps : Queued(j)' = Queued(j) /\ Open(j)' = Open(j)
  BY <1>1 DEF Queued, Open
<1>4. TypeOK'
  BY <1>1, <1>2 DEF IInv, TypeOK
<1>5. QueueDistinct' /\ Served'
  BY <1>1, <1>2 DEF IInv, TypeOK, StarterMayTrustItsTest, Working, QueueDistinct, Served
<1>6. InPlace'
  BY <1>1, <1>3 DEF IInv, InPlace
<1>7. Written'
  BY <1>1, <1>2, Names DEF IInv, TypeOK, Written
<1>8. StarterMayTrustItsTest'
  BY <1>1, <1>2 DEF IInv, TypeOK, StarterMayTrustItsTest, Working
<1>9. WaitReferences' /\ NoMissedEvent'
  BY <1>1 DEF IInv, TypeOK, WaitReferences, NoMissedEvent
<1> QED BY <1>4, <1>5, <1>6, <1>7, <1>8, <1>9 DEF IInv

\* The starter gives the current request a status, or finds nothing wrong.
LEMMA TestStep ==
  ASSUME IInv, NEW w \in Workers, TestWait(w) \/ CancelledWait(w)
  PROVE  IInv'
<1>1. /\ pc[w] \in {"start", "tested"} /\ current \in Irps /\ current \in Waits
      /\ UNCHANGED <<queue, current, wait, arrived, buffer, cancelled, routine, refs,
                     completions, isrWaitMask, historyMask, irpMaskLocation, dpcQueued,
                     cancelLock>>
      /\ \/ pc' = [pc EXCEPT ![w] = "getnext"]
         \/ pc' = [pc EXCEPT ![w] = "tested"] /\ isrWaitMask # {} /\ wait = None
      /\ \/ status' = status
         \/ status' = [status EXCEPT ![current] = "invalid"]
         \/ status' = [status EXCEPT ![current] = "cancelled"]
  BY Names DEF TestWait, CancelledWait, Goto, isrVars, IInv, Served
<1>2. Working(w)
  BY <1>1 DEF Working
<1>3. \A j \in Irps : Queued(j)' = Queued(j) /\ Open(j)' = Open(j)
  BY <1>1 DEF Queued, Open
<1>4. TypeOK'
  BY <1>1 DEF IInv, TypeOK
<1>5. QueueDistinct' /\ Served'
  BY <1>1 DEF IInv, TypeOK, QueueDistinct, Served
<1>6. InPlace'
  BY <1>1, <1>3 DEF IInv, InPlace
<1>7. Written'
  BY <1>1, <1>2, WorkingFacts, Names DEF IInv, TypeOK, Written
<1>8. StarterMayTrustItsTest'
  <2>1. wait = None => irpMaskLocation = None
    BY DEF IInv, WaitReferences
  <2>2. pc' = [pc EXCEPT ![w] = "getnext"] \/ pc' = [pc EXCEPT ![w] = "tested"]
    BY <1>1
  <2>3. \A v \in Workers : Working(v)' <=> Working(v)
    BY <1>2, <2>2 DEF IInv, TypeOK, Working
  <2>4. \A v \in Workers :
          /\ (pc[v] = "tested")' => wait = None /\ irpMaskLocation = None /\ isrWaitMask # {}
          /\ (pc[v] = "getnext")' => v = w \/ pc[v] = "getnext"
    BY <1>1, <2>1 DEF IInv, TypeOK, StarterMayTrustItsTest
  <2>5. current \notin SetMasks
    BY <1>1, Names
  <2> QED BY <1>1, <2>3, <2>4, <2>5 DEF IInv, StarterMayTrustItsTest
<1>9. WaitReferences' /\ NoMissedEvent'
  BY <1>1 DEF IInv, WaitReferences, NoMissedEvent
<1> QED BY <1>4, <1>5, <1>6, <1>7, <1>8, <1>9 DEF IInv

\* The rest of the queue when the current request is done with it.
LEMMA SuccessorFacts ==
  ASSUME IInv, NEW w \in Workers, Working(w),
         \/ /\ queue = <<>> /\ current' = None /\ queue' = queue
            /\ pc' = [pc EXCEPT ![w] = "idle"]
         \/ /\ queue # <<>> /\ current' = Head(queue) /\ queue' = Tail(queue)
            /\ pc' = [pc EXCEPT ![w] = "start"]
  PROVE  /\ queue' \in Seq(Irps) /\ QueueDistinct' /\ Served'
         /\ current' \in Irps \union {None} /\ current' # current
         /\ \A j \in Irps : Queued(j)' <=> Queued(j) /\ j # current'
         /\ \A j \in Irps : j = current' => Queued(j)
         /\ pc' \in [Workers -> {"idle", "start", "tested", "getnext", "kill", "killwait"}]
         /\ \A v \in Workers : Working(v)' => v = w /\ current' \in Irps /\ Queued(current')
         /\ \A v \in Workers : pc'[v] \notin {"tested", "getnext"}
<1>1. /\ current \in Irps /\ current # None /\ ~Queued(current)
      /\ \A v \in Workers : Working(v) => v = w
  BY WorkingFacts
<1>2. pc \in [Workers -> {"idle", "start", "tested", "getnext", "kill", "killwait"}]
  BY DEF IInv, TypeOK
<1>3. CASE /\ queue = <<>> /\ current' = None /\ queue' = queue
           /\ pc' = [pc EXCEPT ![w] = "idle"]
  <2>1. \A j \in Irps : ~Queued(j) /\ ~Queued(j)'
    BY <1>3 DEF Queued
  <2>2. \A v \in Workers : ~Working(v)' /\ pc'[v] \notin {"tested", "getnext"}
    BY <1>1, <1>2, <1>3 DEF Working
  <2>3. QueueDistinct' /\ Served' /\ queue' \in Seq(Irps)
    BY <1>3, <2>2 DEF QueueDistinct, Served
  <2> QED BY <1>1, <1>2, <1>3, <2>1, <2>2, <2>3, Names
<1>4. CASE /\ queue # <<>> /\ current' = Head(queue) /\ queue' = Tail(queue)
           /\ pc' = [pc EXCEPT ![w] = "start"]
  <2>1. /\ queue' \in Seq(Irps) /\ QueueDistinct'
        /\ Head(queue) \in Irps /\ Queued(Head(queue))
        /\ \A j \in Irps : Queued(j)' <=> Queued(j) /\ j # Head(queue)
    BY <1>4, Dequeued DEF IInv, TypeOK
  <2>2. \A v \in Workers : /\ Working(v)' => v = w
                           /\ pc'[v] \notin {"tested", "getnext"}
    BY <1>1, <1>2, <1>4 DEF Working
  <2>3. Served'
    BY <1>4, <2>1, <2>2, Names DEF Served
  <2> QED BY <1>1, <1>2, <1>4, <2>1, <2>2, <2>3
<1> QED BY <1>3, <1>4

LEMMA BeginWaitStep ==
  ASSUME IInv, NEW w \in Workers, BeginWait(w)
  PROVE  IInv'
<1>1. /\ pc[w] = "tested" /\ Working(w) /\ wait' = current
      /\ refs' = [refs EXCEPT ![current] = {"CANCEL", "ISR"}]
      /\ GiveWaitToIsr(current)
      /\ UNCHANGED <<arrived, cancelled, completions, isrWaitMask, cancelLock>>
  BY DEF BeginWait, Working
<1>2. /\ current \in Irps /\ current \in Waits /\ current # None /\ ~Queued(current)
      /\ current \in arrived /\ completions[current] = 0
      /\ buffer[current] = {}
  BY <1>1, WorkingFacts DEF IInv, Served
<1>3. wait = None /\ irpMaskLocation = None /\ ~dpcQueued /\ isrWaitMask # {}
  BY <1>1 DEF IInv, StarterMayTrustItsTest, WaitReferences
<1>4. /\ historyMask' = {} /\ irpMaskLocation' \in {None, current}
      /\ dpcQueued' \in BOOLEAN /\ (dpcQueued' <=> irpMaskLocation' = None)
      /\ buffer' \in [Irps -> SUBSET Events]
      /\ buffer'[current] # {} => irpMaskLocation' = None
      /\ status' \in [Irps -> {"none", "pending", "success", "cancelled", "invalid"}]
      /\ \A j \in Irps : j # current => buffer'[j] = buffer[j] /\ status'[j] = status[j]
  <2>0. /\ buffer \in [Irps -> SUBSET Events] /\ historyMask \subseteq Events
        /\ dpcQueued \in BOOLEAN
        /\ status \in [Irps -> {"none", "pending", "success", "cancelled", "invalid"}]
    BY DEF IInv, TypeOK
  <2>1. CASE historyMask = {}
    <3>1. /\ irpMaskLocation' = current /\ current # None
          /\ UNCHANGED <<buffer, status, historyMask, dpcQueued>>
      BY <1>1, <1>2, <2>1 DEF GiveWaitToIsr
    <3> QED BY <1>2, <1>3, <2>0, <2>1, <3>1
  <2>2. CASE historyMask # {}
    <3>1. /\ buffer' = [buffer EXCEPT ![current] = historyMask] /\ historyMask' = {}
          /\ status' = [status EXCEPT ![current] = "success"]
          /\ dpcQueued' = TRUE /\ irpMaskLocation' = irpMaskLocation
      BY <1>1, <2>2 DEF GiveWaitToIsr
    <3> QED BY <1>2, <1>3, <2>0, <3>1
  <2> QED BY <2>1, <2>2
<1>5. \/ /\ queue = <<>> /\ current' = None /\ queue' = queue
         /\ pc' = [pc EXCEPT ![w] = "idle"]
         /\ routine' = [routine EXCEPT ![current] = "wait"]
      \/ /\ queue # <<>> /\ current' = Head(queue) /\ queue' = Tail(queue)
         /\ pc' = [pc EXCEPT ![w] = "start"]
         /\ routine' = [routine EXCEPT ![current] = "wait", ![Head(queue)] = "null"]
  BY DEF BeginWait, Goto
<1>6. /\ queue' \in Seq(Irps) /\ QueueDistinct' /\ Served'
      /\ current' \in Irps \union {None} /\ current' # current
      /\ \A j \in Irps : Queued(j)' <=> Queued(j) /\ j # current'
      /\ \A j \in Irps : j = current' => Queued(j)
      /\ pc' \in [Workers -> {"idle", "start", "tested", "getnext", "kill", "killwait"}]
      /\ \A v \in Workers : Working(v)' => v = w /\ current' \in Irps /\ Queued(current')
      /\ \A v \in Workers : pc'[v] \notin {"tested", "getnext"}
  BY <1>1, <1>5, SuccessorFacts
<1>7. /\ routine' \in [Irps -> {"null", "queued", "wait"}]
      /\ routine'[current] = "wait"
      /\ \A j \in Irps : j # current =>
           routine'[j] = IF j = current' THEN "null" ELSE routine[j]
  <2>0. routine \in [Irps -> {"null", "queued", "wait"}]
    BY DEF IInv, TypeOK
  <2>1. CASE current' = None /\ routine' = [routine EXCEPT ![current] = "wait"]
    BY <1>2, <2>0, <2>1, Names
  <2>2. CASE /\ current' = Head(queue) /\ queue # <<>>
             /\ routine' = [routine EXCEPT ![current] = "wait", ![Head(queue)] = "null"]
    <3>1. current' \in Irps
      BY <2>2, HeadTail DEF IInv, TypeOK
    <3> QED BY <1>2, <1>6, <2>0, <2>2, <3>1
  <2> QED BY <1>5, <2>1, <2>2
<1>8. /\ refs' \in [Irps -> SUBSET {"ISR", "CANCEL"}]
      /\ refs'[current] = {"CANCEL", "ISR"}
      /\ \A j \in Irps : j # current => refs'[j] = refs[j]
  BY <1>1, <1>2 DEF IInv, TypeOK
<1>9. TypeOK'
  BY <1>1, <1>2, <1>4, <1>6, <1>7, <1>8 DEF IInv, TypeOK
<1>10. InPlace'
  <2> SUFFICES ASSUME NEW i \in Irps
               PROVE  /\ Queued(i)' <=> routine'[i] = "queued"
                      /\ routine'[i] = "wait" => i = wait'
                      /\ i = wait' => routine'[i] # "queued"
                      /\ i = current' => routine'[i] = "null" /\ i # wait'
                      /\ refs'[i] # {} => i = wait'
                      /\ Open(i)' <=> Queued(i)' \/ i = current' \/ i = wait'
                      /\ completions'[i] \in {0, 1}
                      /\ completions'[i] = 1 => i \in arrived'
    BY DEF InPlace
  <2>1. /\ Open(i)' = Open(i) /\ wait' = current /\ completions' = completions
        /\ arrived' = arrived
    BY <1>1 DEF Open
  <2>2. i # wait
    BY <1>3, Names
  <2>3. CASE i = current
    BY <1>2, <1>6, <1>7, <1>8, <2>1, <2>3 DEF IInv, InPlace
  <2>4. CASE i # current
    BY <1>2, <1>6, <1>7, <1>8, <2>1, <2>2, <2>4 DEF IInv, InPlace
  <2> QED BY <2>3, <2>4
<1>11. Written'
  BY <1>1, <1>2, <1>3, <1>4, Names DEF IInv, Written
<1>12. StarterMayTrustItsTest'
  <2>1. \A v \in Workers : Working(v)' => current' # None /\ completions'[current'] = 0
    BY <1>1, <1>6, Names DEF IInv, InPlace, Open
  <2> QED BY <1>6, <2>1 DEF StarterMayTrustItsTest
<1>13. WaitReferences' /\ NoMissedEvent'
  BY <1>1, <1>2, <1>3, <1>4, <1>7, <1>8 DEF WaitReferences, NoMissedEvent
<1> QED BY <1>6, <1>9, <1>10, <1>11, <1>12, <1>13 DEF IInv

LEMMA GetNextIrpStep ==
  ASSUME IInv, NEW w \in Workers, GetNextIrp(w)
  PROVE  IInv'
<1>1. /\ pc[w] = "getnext" /\ Working(w)
      /\ completions' = [completions EXCEPT ![current] = @ + 1]
      /\ UNCHANGED <<wait, arrived, buffer, status, cancelled, refs, isrWaitMask,
                     historyMask, irpMaskLocation, dpcQueued, cancelLock>>
  BY DEF GetNextIrp, Complete, Working, isrVars
<1>2. /\ current \in Irps /\ current # None /\ current # wait /\ ~Queued(current)
      /\ current \in arrived /\ completions[current] = 0
      /\ routine[current] = "null" /\ refs[current] = {}
      /\ current \in Waits => buffer[current] = {}
  BY <1>1, WorkingFacts
<1>3. \/ /\ queue = <<>> /\ current' = None /\ queue' = queue
         /\ pc' = [pc EXCEPT ![w] = "idle"]
         /\ routine' = routine
      \/ /\ queue # <<>> /\ current' = Head(queue) /\ queue' = Tail(queue)
         /\ pc' = [pc EXCEPT ![w] = "start"]
         /\ routine' = [routine EXCEPT ![Head(queue)] = "null"]
  BY DEF GetNextIrp, Goto
<1>4. /\ queue' \in Seq(Irps) /\ QueueDistinct' /\ Served'
      /\ current' \in Irps \union {None} /\ current' # current
      /\ \A j \in Irps : Queued(j)' <=> Queued(j) /\ j # current'
      /\ \A j \in Irps : j = current' => Queued(j)
      /\ pc' \in [Workers -> {"idle", "start", "tested", "getnext", "kill", "killwait"}]
      /\ \A v \in Workers : Working(v)' => v = w /\ current' \in Irps /\ Queued(current')
      /\ \A v \in Workers : pc'[v] \notin {"tested", "getnext"}
  BY <1>1, <1>3, SuccessorFacts
<1>5. /\ routine' \in [Irps -> {"null", "queued", "wait"}]
      /\ \A j \in Irps : routine'[j] = IF j = current' THEN "null" ELSE routine[j]
  <2>0. routine \in [Irps -> {"null", "queued", "wait"}]
    BY DEF IInv, TypeOK
  <2>1. CASE current' = None /\ routine' = routine
    BY <2>0, <2>1, Names
  <2>2. CASE /\ current' = Head(queue) /\ queue # <<>>
             /\ routine' = [routine EXCEPT ![Head(queue)] = "null"]
    <3>1. current' \in Irps
      BY <2>2, HeadTail DEF IInv, TypeOK
    <3> QED BY <2>0, <2>2, <3>1
  <2> QED BY <1>3, <2>1, <2>2
<1>6. /\ completions' \in [Irps -> Nat] /\ completions'[current] = 1
      /\ \A j \in Irps : j # current => completions'[j] = completions[j]
  BY <1>1, <1>2 DEF IInv, TypeOK
<1>7. TypeOK'
  BY <1>1, <1>4, <1>5, <1>6 DEF IInv, TypeOK
<1>8. InPlace'
  <2> SUFFICES ASSUME NEW i \in Irps
               PROVE  /\ Queued(i)' <=> routine'[i] = "queued"
                      /\ routine'[i] = "wait" => i = wait'
                      /\ i = wait' => routine'[i] # "queued"
                      /\ i = current' => routine'[i] = "null" /\ i # wait'
                      /\ refs'[i] # {} => i = wait'
                      /\ Open(i)' <=> Queued(i)' \/ i = current' \/ i = wait'
                      /\ completions'[i] \in {0, 1}
                      /\ completions'[i] = 1 => i \in arrived'
    BY DEF InPlace
  <2>1. CASE i = current
    BY <1>1, <1>2, <1>4, <1>5, <1>6, <2>1 DEF InPlace, Open
  <2>2. CASE i # current
    BY <1>1, <1>4, <1>5, <1>6, <2>2 DEF IInv, InPlace, Open
  <2> QED BY <2>1, <2>2
<1>9. Written'
  BY <1>1, <1>2, <1>6, Names DEF IInv, Written
<1>10. StarterMayTrustItsTest'
  <2>1. \A v \in Workers : Working(v)' => current' # None /\ completions'[current'] = 0
    BY <1>4, <1>6, Names DEF IInv, InPlace, Open
  <2> QED BY <1>4, <2>1 DEF StarterMayTrustItsTest
<1>11. WaitReferences' /\ NoMissedEvent'
  <2>1. wait # None => wait \in Irps /\ wait # current'
    BY <1>4, WaitFacts
  <2> QED BY <1>1, <1>5, <2>1 DEF IInv, WaitReferences, NoMissedEvent
<1> QED BY <1>4, <1>7, <1>8, <1>9, <1>10, <1>11 DEF IInv

-----------------------------------------------------------------------------
(* The interrupt. *)

LEMMA EventStep ==
  ASSUME IInv, NEW e \in Events, Event(e)
  PROVE  IInv'
<1>1. /\ e \in isrWaitMask
      /\ UNCHANGED <<queue, current, wait, arrived, status, cancelled, routine, refs,
                     completions, isrWaitMask, cancelLock, pc>>
  BY DEF Event
<1>2. irpMaskLocation # None => /\ irpMaskLocation = wait /\ wait \in Waits /\ wait \in Irps
                                /\ wait # None
  BY WaitFacts DEF IInv, WaitReferences
<1>3. /\ buffer' \in [Irps -> SUBSET Events] /\ dpcQueued' \in BOOLEAN
      /\ irpMaskLocation' = None /\ historyMask' \subseteq isrWaitMask
      /\ dpcQueued' <=> (dpcQueued \/ irpMaskLocation # None)
      /\ \A j \in Irps : j # wait => buffer'[j] = buffer[j]
      /\ irpMaskLocation = None => buffer' = buffer
  <2>0. /\ buffer \in [Irps -> SUBSET Events] /\ dpcQueued \in BOOLEAN
        /\ historyMask \subseteq isrWaitMask /\ isrWaitMask \subseteq Events
    BY DEF IInv, TypeOK, NoMissedEvent
  <2>1. CASE irpMaskLocation = None
    BY <1>1, <2>0, <2>1 DEF Event
  <2>2. CASE irpMaskLocation # None
    <3>1. /\ buffer' = [buffer EXCEPT ![wait] = historyMask \union {e}]
          /\ irpMaskLocation' = None /\ historyMask' = {} /\ dpcQueued' = TRUE
      BY <1>2, <2>2 DEF Event
    <3> QED BY <1>2, <2>0, <2>2, <3>1
  <2> QED BY <2>1, <2>2
<1>4. \A j \in Irps : Queued(j)' = Queued(j) /\ Open(j)' = Open(j)
  BY <1>1 DEF Queued, Open
<1>5. TypeOK'
  BY <1>1, <1>3 DEF IInv, TypeOK
<1>6. QueueDistinct' /\ Served' /\ InPlace'
  BY <1>1, <1>4 DEF IInv, QueueDistinct, Served, InPlace
<1>7. Written'
  BY <1>1, <1>3, Names DEF IInv, Written
<1>8. StarterMayTrustItsTest'
  BY <1>1, <1>3 DEF IInv, StarterMayTrustItsTest, Working
<1>9. WaitReferences' /\ NoMissedEvent'
  BY <1>1, <1>3 DEF IInv, TypeOK, WaitReferences, NoMissedEvent
<1> QED BY <1>5, <1>6, <1>7, <1>8, <1>9 DEF IInv

-----------------------------------------------------------------------------
(* Completion of the wait, cancellation and clean-up. *)

\* The starter, if there is one, is where it was.
StarterStays ==
  /\ pc' \in [Workers -> {"idle", "start", "tested", "getnext", "kill", "killwait"}]
  /\ \A v \in Workers : pc'[v] = pc[v] \/ (~Working(v) /\ ~Working(v)')

LEMMA StaysFacts ==
  ASSUME StarterStays
  PROVE  /\ \A v \in Workers : Working(v)' <=> Working(v)
         /\ \A v \in Workers : pc'[v] = "tested" <=> pc[v] = "tested"
         /\ \A v \in Workers : pc'[v] = "getnext" <=> pc[v] = "getnext"
BY DEF StarterStays, Working

LEMMA Staying ==
  ASSUME IInv, NEW w \in Workers, NEW x \in {"idle", "kill", "killwait"}, ~Working(w),
         pc' = pc \/ pc' = [pc EXCEPT ![w] = x]
  PROVE  StarterStays
BY DEF StarterStays, Working, IInv, TypeOK

(***************************************************************************)
(* Whoever drops the last reference ends the wait; the others leave it to  *)
(* the procedure that is queued.                                           *)
(***************************************************************************)
Ended(newStatus) ==
  /\ refs' = [refs EXCEPT ![wait] = {}]
  /\ completions' = [completions EXCEPT ![wait] = @ + 1]
  /\ status' = [status EXCEPT ![wait] = newStatus]
  /\ wait' = None /\ dpcQueued' = FALSE
  /\ buffer[wait] # {} => newStatus = "success"
LeftToDpc ==
  /\ refs' = [refs EXCEPT ![wait] = {"ISR"}]
  /\ irpMaskLocation = None /\ dpcQueued = TRUE
  /\ UNCHANGED <<status, completions, wait, dpcQueued>>

LEMMA WaitStep ==
  ASSUME IInv, wait # None, NEW newStatus \in {"success", "cancelled"},
         routine' = [routine EXCEPT ![wait] = "null"], irpMaskLocation' = None,
         UNCHANGED <<queue, current, arrived, buffer, isrWaitMask, historyMask>>,
         cancelled' = cancelled \/ cancelled' = cancelled \union {wait},
         cancelLock' = cancelLock, StarterStays,
         Ended(newStatus) \/ LeftToDpc
  PROVE  IInv'
<1>1. /\ wait \in Waits /\ wait \in Irps /\ wait # current /\ ~Queued(wait)
      /\ wait \in arrived /\ completions[wait] = 0
      /\ \A w \in Workers : pc[w] # "tested"
  BY WaitFacts
<1>2. /\ routine' \in [Irps -> {"null", "queued", "wait"}] /\ routine'[wait] = "null"
      /\ \A j \in Irps : j # wait => routine'[j] = routine[j]
  BY <1>1 DEF IInv, TypeOK
<1>3. /\ refs' \in [Irps -> SUBSET {"ISR", "CANCEL"}]
      /\ \A j \in Irps : j # wait => refs'[j] = refs[j]
      /\ \/ /\ refs'[wait] = {} /\ wait' = None /\ dpcQueued' = FALSE
            /\ completions'[wait] = 1
            /\ status'[wait] = newStatus /\ (buffer[wait] # {} => newStatus = "success")
         \/ /\ refs'[wait] = {"ISR"} /\ wait' = wait /\ dpcQueued' = TRUE
            /\ completions'[wait] = 0
      /\ completions' \in [Irps -> Nat]
      /\ status' \in [Irps -> {"none", "pending", "success", "cancelled", "invalid"}]
      /\ \A j \in Irps : j # wait => completions'[j] = completions[j] /\ status'[j] = status[j]
  <2>0. /\ refs \in [Irps -> SUBSET {"ISR", "CANCEL"}] /\ completions \in [Irps -> Nat]
        /\ status \in [Irps -> {"none", "pending", "success", "cancelled", "invalid"}]
    BY DEF IInv, TypeOK
  <2>1. CASE Ended(newStatus)
    BY <1>1, <2>0, <2>1 DEF Ended
  <2>2. CASE LeftToDpc
    BY <1>1, <2>0, <2>2 DEF LeftToDpc
  <2> QED BY <2>1, <2>2
<1>4. \A j \in Irps : Queued(j)' = Queued(j)
  BY DEF Queued
<1>5. TypeOK'
  <2>1. /\ queue' \in Seq(Irps) /\ current' \in Irps \union {None}
        /\ arrived' \subseteq Irps /\ buffer' \in [Irps -> SUBSET Events]
        /\ isrWaitMask' \subseteq Events /\ historyMask' \subseteq Events
        /\ irpMaskLocation' \in Waits \union {None}
        /\ cancelLock' \in Workers \union {None}
    BY DEF IInv, TypeOK
  <2>2. wait' \in Waits \union {None} /\ dpcQueued' \in BOOLEAN
    BY <1>1, <1>3
  <2>3. cancelled' \subseteq Irps
    BY <1>1 DEF IInv, TypeOK
  <2>4. pc' \in [Workers -> {"idle", "start", "tested", "getnext", "kill", "killwait"}]
    BY DEF StarterStays
  <2> QED BY <1>2, <1>3, <2>1, <2>2, <2>3, <2>4 DEF TypeOK
<1>6. QueueDistinct' /\ Served'
  BY StaysFacts DEF IInv, QueueDistinct, Served
<1>7. InPlace'
  BY <1>1, <1>2, <1>3, <1>4, Names DEF IInv, InPlace, Open
<1>8. Written'
  BY <1>1, <1>3, Names DEF IInv, Written
<1>9. StarterMayTrustItsTest'
  <2>1. current # None => current \in Irps
    BY DEF IInv, TypeOK
  <2> QED BY <1>1, <1>3, <2>1, StaysFacts DEF IInv, StarterMayTrustItsTest
<1>10. WaitReferences' /\ NoMissedEvent'
  BY <1>2, <1>3 DEF IInv, WaitReferences, NoMissedEvent
<1> QED BY <1>5, <1>6, <1>7, <1>8, <1>9, <1>10 DEF IInv

LEMMA CompleteWaitStep ==
  ASSUME IInv, NEW w \in Workers, CompleteWait(w)
  PROVE  IInv'
<1>1. dpcQueued /\ dpcQueued' = FALSE /\ TryWait("ISR", FALSE, "success")
      /\ UNCHANGED <<cancelled, cancelLock, pc>>
  BY DEF CompleteWait
<1>2. /\ wait # None /\ irpMaskLocation = None
      /\ "CANCEL" \in refs[wait] <=> routine[wait] = "wait"
  BY <1>1 DEF IInv, WaitReferences
<1>3. wait \in Irps /\ routine[wait] \in {"null", "wait"} /\ refs[wait] \subseteq {"ISR", "CANCEL"}
  BY <1>2, WaitFacts DEF IInv, TypeOK
<1> DEFINE left == refs[wait] \ ({"ISR"} \union (IF FALSE THEN {"ISR"} ELSE {})
                       \union (IF routine[wait] # "null" THEN {"CANCEL"} ELSE {}))
<1>4. left = {}
  BY <1>2, <1>3
<1>5. /\ refs' = [refs EXCEPT ![wait] = left]
      /\ LastReference(left) =>
           /\ status' = [status EXCEPT ![wait] = "success"]
           /\ completions' = [completions EXCEPT ![wait] = @ + 1] /\ wait' = None
      /\ routine' = [routine EXCEPT ![wait] = "null"] /\ irpMaskLocation' = irpMaskLocation
      /\ UNCHANGED <<queue, current, arrived, buffer, isrWaitMask, historyMask>>
  BY <1>1 DEF TryWait, Complete
<1> HIDE DEF left
<1>6. Ended("success")
  BY <1>1, <1>4, <1>5 DEF LastReference, Ended
<1>7. StarterStays
  BY <1>1 DEF StarterStays, IInv, TypeOK
<1> QED BY <1>1, <1>2, <1>5, <1>6, <1>7, WaitStep

LEMMA CancelWaitStep ==
  ASSUME IInv, NEW i \in Irps, routine[i] = "wait", CancelWait, StarterStays
  PROVE  IInv'
<1>1. TryWait("CANCEL", irpMaskLocation # None, "cancelled")
      /\ cancelled' = cancelled \union {wait} /\ UNCHANGED <<dpcQueued, cancelLock>>
  BY DEF CancelWait
<1>2. i = wait /\ wait # None
  BY Names DEF IInv, InPlace
<1>3. /\ wait \in Irps /\ wait \in Waits /\ completions[wait] = 0
      /\ refs[wait] = {"ISR", "CANCEL"} /\ dpcQueued \in BOOLEAN
      /\ dpcQueued <=> irpMaskLocation = None
  BY <1>2, WaitFacts DEF IInv, TypeOK, WaitReferences
<1> DEFINE left == refs[wait] \ ({"CANCEL"}
                       \union (IF irpMaskLocation # None THEN {"ISR"} ELSE {})
                       \union (IF routine[wait] # "null" THEN {"CANCEL"} ELSE {}))
<1>4. left = IF irpMaskLocation # None THEN {} ELSE {"ISR"}
  BY <1>3
<1>5. /\ refs' = [refs EXCEPT ![wait] = left]
      /\ routine' = [routine EXCEPT ![wait] = "null"]
      /\ irpMaskLocation' = IF irpMaskLocation # None THEN None ELSE irpMaskLocation
      /\ IF LastReference(left)
           THEN /\ status' = [status EXCEPT ![wait] = "cancelled"]
                /\ completions' = [completions EXCEPT ![wait] = @ + 1] /\ wait' = None
           ELSE UNCHANGED <<status, completions, wait>>
      /\ UNCHANGED <<queue, current, arrived, buffer, isrWaitMask, historyMask>>
  BY <1>1 DEF TryWait, Complete
<1> HIDE DEF left
<1>6. CASE irpMaskLocation # None
  <2>1. buffer[wait] = {}
    BY <1>3, <1>6 DEF IInv, Written
  <2>2. left = {} /\ dpcQueued = FALSE
    BY <1>3, <1>4, <1>6
  <2>3. Ended("cancelled")
    BY <1>1, <1>5, <2>1, <2>2 DEF LastReference, Ended
  <2> QED BY <1>1, <1>2, <1>5, <2>3, WaitStep
<1>7. CASE irpMaskLocation = None
  <2>1. left = {"ISR"} /\ left # {} /\ dpcQueued = TRUE
    BY <1>3, <1>4, <1>7
  <2>2. LeftToDpc
    BY <1>1, <1>5, <1>7, <2>1 DEF LastReference, LeftToDpc
  <2> QED BY <1>1, <1>2, <1>5, <1>7, <2>2, WaitStep
<1> QED BY <1>6, <1>7

LEMMA CancelQueuedStep ==
  ASSUME IInv, NEW k \in DOMAIN queue, CancelQueued(k), StarterStays
  PROVE  IInv'
<1> DEFINE i == queue[k]
<1>1. /\ queue' = RemoveAt(queue, k)
      /\ routine' = [routine EXCEPT ![i] = "null"]
      /\ cancelled' = cancelled \union {i}
      /\ status' = [status EXCEPT ![i] = "cancelled"]
      /\ completions' = [completions EXCEPT ![i] = @ + 1]
      /\ UNCHANGED <<current, wait, arrived, buffer, refs, isrWaitMask, historyMask,
                     irpMaskLocation, dpcQueued, cancelLock>>
  BY DEF CancelQueued, Complete, isrVars
<1>2. /\ queue' \in Seq(Irps) /\ QueueDistinct' /\ queue # <<>>
      /\ i \in Irps /\ Queued(i)
      /\ \A j \in Irps : Queued(j)' <=> Queued(j) /\ j # i
  BY <1>1, Withdrawn DEF IInv, TypeOK
<1> HIDE DEF i
<1>3. /\ i # current /\ i # wait /\ i \in arrived /\ completions[i] = 0 /\ refs[i] = {}
      /\ i \in Waits => buffer[i] = {}
  <2>1. i # current /\ i # wait /\ Open(i) /\ refs[i] = {}
    BY <1>2 DEF IInv, InPlace
  <2> QED BY <2>1 DEF IInv, Open, Written
<1>4. /\ routine' \in [Irps -> {"null", "queued", "wait"}] /\ routine'[i] = "null"
      /\ \A j \in Irps : j # i => routine'[j] = routine[j]
  BY <1>1, <1>2 DEF IInv, TypeOK
<1>5. /\ completions' \in [Irps -> Nat] /\ completions'[i] = 1
      /\ \A j \in Irps : j # i => completions'[j] = completions[j]
  BY <1>1, <1>2, <1>3 DEF IInv, TypeOK
<1>6. /\ status' \in [Irps -> {"none", "pending", "success", "cancelled", "invalid"}]
      /\ \A j \in Irps : j # i => status'[j] = status[j]
  BY <1>1, <1>2 DEF IInv, TypeOK
<1>7. TypeOK'
  BY <1>1, <1>2, <1>4, <1>5, <1>6 DEF IInv, TypeOK, StarterStays
<1>8. Served'
  BY <1>1, <1>2, StaysFacts DEF IInv, Served
<1>9. InPlace'
  BY <1>1, <1>2, <1>3, <1>4, <1>5 DEF IInv, InPlace, Open
<1>10. Written'
  BY <1>1, <1>3, <1>5, <1>6, Names DEF IInv, Written
<1>11. StarterMayTrustItsTest'
  <2>1. current # None => completions'[current] = completions[current]
    BY <1>3, <1>5 DEF IInv, TypeOK
  <2> QED BY <1>1, <2>1, StaysFacts DEF IInv, StarterMayTrustItsTest
<1>12. WaitReferences' /\ NoMissedEvent'
  <2>1. wait # None => routine'[wait] = routine[wait]
    BY <1>3, <1>4, WaitFacts
  <2> QED BY <1>1, <2>1 DEF IInv, WaitReferences, NoMissedEvent
<1> QED BY <1>2, <1>7, <1>8, <1>9, <1>10, <1>11, <1>12 DEF IInv

\* A request is marked, or a worker goes to another place than the starter's.
LEMMA MarkStep ==
  ASSUME IInv, cancelled' \subseteq Irps, cancelLock' \in Workers \union {None}, StarterStays,
         UNCHANGED <<queue, current, wait, arrived, buffer, status, routine, refs,
                     completions, isrVars>>
  PROVE  IInv'
<1>1. \A j \in Irps : Queued(j)' = Queued(j) /\ Open(j)' = Open(j)
  BY DEF Queued, Open
<1>2. TypeOK'
  BY DEF IInv, TypeOK, StarterStays, isrVars
<1>3. QueueDistinct' /\ InPlace' /\ Served' /\ Written'
  BY <1>1, StaysFacts DEF IInv, QueueDistinct, InPlace, Served, Written, isrVars
<1>4. StarterMayTrustItsTest' /\ WaitReferences' /\ NoMissedEvent'
  BY StaysFacts DEF IInv, StarterMayTrustItsTest, WaitReferences, NoMissedEvent, isrVars
<1> QED BY <1>2, <1>3, <1>4 DEF IInv

LEMMA IoCancelIrpStep ==
  ASSUME IInv, NEW w \in Workers, NEW i \in Irps, IoCancelIrp(w, i)
  PROVE  IInv'
<1>1. StarterStays
  BY DEF IoCancelIrp, StarterStays, IInv, TypeOK
<1>2. CASE \E k \in DOMAIN queue : queue[k] = i /\ CancelQueued(k)
  BY <1>1, <1>2, CancelQueuedStep
<1>3. CASE routine[i] = "wait" /\ CancelWait
  BY <1>1, <1>3, CancelWaitStep
<1>4. CASE /\ cancelled' = cancelled \union {i}
           /\ UNCHANGED <<queue, current, wait, arrived, buffer, status, routine, refs,
                          completions, isrVars, cancelLock>>
  <2>1. cancelled' \subseteq Irps /\ cancelLock' \in Workers \union {None}
    BY <1>4 DEF IInv, TypeOK
  <2> QED BY <1>1, <1>4, <2>1, MarkStep
<1> QED BY <1>2, <1>3, <1>4 DEF IoCancelIrp

LEMMA CleanupStep ==
  ASSUME IInv, NEW w \in Workers,
         Kill(w) \/ KillQueued(w) \/ KillCurrent(w) \/ KillWait(w)
  PROVE  IInv'
<1>1. ~Working(w)
  BY DEF Kill, KillQueued, KillCurrent, KillWait, Working
<1>2. StarterStays
  BY <1>1, Staying DEF Kill, KillQueued, KillCurrent, KillWait, Goto
<1>3. cancelled \subseteq Irps /\ cancelLock \in Workers \union {None}
  BY DEF IInv, TypeOK
<1>4. CASE Kill(w)
  <2>1. UNCHANGED <<queue, current, wait, arrived, buffer, status, routine, refs,
                    completions, isrVars, cancelled, cancelLock>>
    BY <1>4 DEF Kill, irpVars
  <2> QED BY <1>2, <1>3, <2>1, MarkStep
<1>5. CASE KillQueued(w)
  <2>1. CancelQueued(Len(queue)) /\ Len(queue) \in DOMAIN queue
    BY <1>5 DEF KillQueued, IInv, TypeOK
  <2> QED BY <1>2, <2>1, CancelQueuedStep
<1>6. CASE KillCurrent(w)
  <2>1. cancelled' \subseteq Irps /\ cancelLock' = cancelLock
    BY <1>3, <1>6 DEF KillCurrent, CurrentIfAny, IInv, TypeOK
  <2> QED BY <1>2, <1>3, <1>6, <2>1, MarkStep DEF KillCurrent
<1>7. CASE KillWait(w)
  <2>1. CASE UNCHANGED <<queue, current, wait, irpVars, isrVars, cancelLock>>
    <3>1. UNCHANGED <<queue, current, wait, arrived, buffer, status, routine, refs,
                      completions, isrVars, cancelled, cancelLock>>
      BY <2>1 DEF irpVars
    <3> QED BY <1>2, <1>3, <3>1, MarkStep
  <2>2. CASE (\E i \in Waits : wait = i /\ routine[i] = "wait") /\ CancelWait
    <3>1. PICK i \in Waits : routine[i] = "wait"
      BY <2>2
    <3> QED BY <1>2, <2>2, <3>1, Names, CancelWaitStep
  <2>3. CASE /\ \E i \in Waits : wait = i /\ routine[i] = "null"
             /\ cancelled' = cancelled \union {wait} /\ cancelLock' = w
             /\ UNCHANGED <<queue, current, wait, arrived, buffer, status, routine, refs,
                            completions, isrVars>>
    <3>1. cancelled' \subseteq Irps /\ cancelLock' \in Workers \union {None}
      BY <1>3, <2>3, Names
    <3> QED BY <1>2, <2>3, <3>1, MarkStep
  <2> QED BY <1>7, <2>1, <2>2, <2>3 DEF KillWait
<1> QED BY <1>4, <1>5, <1>6, <1>7

-----------------------------------------------------------------------------
(* The theorems. *)

LEMMA NextIInv == IInv /\ [Next]_vars => IInv'
<1> SUFFICES ASSUME IInv, [Next]_vars PROVE IInv'
  OBVIOUS
<1>1. CASE UNCHANGED vars
  <2>1. UNCHANGED <<queue, current, wait, arrived, buffer, status, routine, refs,
                    completions, isrVars, cancelled, cancelLock, pc>>
    BY <1>1 DEF vars, irpVars
  <2>2. StarterStays /\ cancelled' \subseteq Irps /\ cancelLock' \in Workers \union {None}
    BY <2>1 DEF StarterStays, IInv, TypeOK
  <2> QED BY <2>1, <2>2, MarkStep
<1>2. ASSUME NEW w \in Workers, NEW i \in Irps, Request(w, i) \/ IoCancelIrp(w, i)
      PROVE  IInv'
  BY <1>2, RequestStep, IoCancelIrpStep
<1>3. ASSUME NEW w \in Workers,
             \/ SetWaitMask(w) \/ TestWait(w) \/ CancelledWait(w) \/ BeginWait(w)
             \/ GetNextIrp(w) \/ CompleteWait(w)
      PROVE  IInv'
  BY <1>3, SetWaitMaskStep, TestStep, BeginWaitStep, GetNextIrpStep, CompleteWaitStep
<1>4. ASSUME NEW w \in Workers, Kill(w) \/ KillQueued(w) \/ KillCurrent(w) \/ KillWait(w)
      PROVE  IInv'
  BY <1>4, CleanupStep
<1>5. ASSUME NEW e \in Events, Event(e)
      PROVE  IInv'
  BY <1>5, EventStep
<1> QED BY <1>1, <1>2, <1>3, <1>4, <1>5 DEF Next

LEMMA Invariance == Spec => []IInv
<1> QED BY InitIInv, NextIInv, PTL DEF Spec

LEMMA CompletedFromPlaces == IInv => CompletedOnce
<1> SUFFICES ASSUME IInv, NEW i \in Irps
             PROVE  /\ completions[i] <= 1
                    /\ completions[i] = 1 =>
                         /\ ~Queued(i) /\ i \notin {current, wait, irpMaskLocation}
                         /\ refs[i] = {} /\ routine[i] = "null"
                    /\ Open(i) => Queued(i) \/ i \in {current, wait}
  BY DEF CompletedOnce
<1>1. completions[i] <= 1 /\ (Open(i) => Queued(i) \/ i \in {current, wait})
  BY DEF IInv, InPlace
<1>2. ASSUME completions[i] = 1
      PROVE  /\ ~Queued(i) /\ i \notin {current, wait, irpMaskLocation}
             /\ refs[i] = {} /\ routine[i] = "null"
  <2>1. ~Open(i)
    BY <1>2 DEF Open
  <2>2. ~Queued(i) /\ i # current /\ i # wait
    BY <2>1 DEF IInv, InPlace
  <2>3. irpMaskLocation \in {None, wait}
    BY DEF IInv, WaitReferences
  <2> QED BY <2>2, <2>3, Names DEF IInv, TypeOK, InPlace
<1> QED BY <1>1, <1>2

(***************************************************************************)
(* The mask queue has one starter, whose test without a lock stays true;   *)
(* the interrupt routine holds a reference on the buffer it points to; and *)
(* every request is completed at most once (waitmask.c, utils.c).          *)
(***************************************************************************)
THEOREM WaitProtocolIsKept == Spec => []ReferenceProtocol
<1>1. IInv => ReferenceProtocol
  BY CompletedFromPlaces DEF IInv, ReferenceProtocol
<1> QED BY Invariance, <1>1, PTL

(***************************************************************************)
(* An event that was asked for is either recorded for the next wait or in  *)
(* the buffer of the one that is there, and what is in a buffer is         *)
(* reported with success, cancelled or not (isr.c, SerialCancelWait).      *)
(***************************************************************************)
THEOREM EventsAreDelivered == Spec => []EventsArrive
<1>1. IInv => EventsArrive
  <2> SUFFICES ASSUME IInv, NEW i \in Waits, completions[i] = 1, buffer[i] # {}
               PROVE  status[i] = "success"
    BY DEF IInv, EventsArrive, EventsAreReported
  <2>1. i # wait
    BY Names DEF IInv, InPlace, Open
  <2> QED BY <2>1 DEF IInv, Written
<1> QED BY Invariance, <1>1, PTL

-----------------------------------------------------------------------------
(* The mask queue implements IrpQueue. *)

\* The requests the queue has nothing to do with any more.
Done == {i \in Irps : i \in arrived /\ ~Queued(i) /\ i # current}

LEMMA QueueStutters ==
  ASSUME UNCHANGED <<queue, current, arrived>>
  PROVE  UNCHANGED Queue!vars
BY DEF Queue!vars, Queued

LEMMA RequestRefines ==
  ASSUME IInv, NEW w \in Workers, NEW i \in Irps, Request(w, i)
  PROVE  Queue!Next
<1>1. i \notin arrived /\ arrived' = arrived \union {i}
  BY DEF Request
<1>2. i # current /\ ~Queued(i)
  BY <1>1 DEF IInv, InPlace, Open
<1>3. i \notin Queue!Known
  BY <1>1, <1>2 DEF Queue!Known, Queue!ToSet, Queued
<1>4. CASE MayStart /\ current' = i /\ queue' = queue
  <2>1. \A j \in Irps : j # current /\ (Queued(j)' <=> Queued(j))
    BY <1>4, Names DEF MayStart, Queued
  <2>2. Done' = Done
    BY <1>1, <1>4, <2>1 DEF Done
  <2>3. Queue!Begin(i)
    BY <1>3, <1>4, <2>2 DEF Queue!Begin, MayStart, Done
  <2> QED BY <2>3 DEF Queue!Next
<1>5. CASE UNCHANGED <<queue, current>>
  <2>1. \A j \in Irps : Queued(j)' <=> Queued(j)
    BY <1>5 DEF Queued
  <2>2. Done' = Done \union {i}
    BY <1>1, <1>2, <1>5, <2>1 DEF Done
  <2>3. Queue!Refuse(i)
    BY <1>3, <1>5, <2>2 DEF Queue!Refuse, Done
  <2> QED BY <2>3 DEF Queue!Next
<1>6. CASE ~MayStart /\ queue' = Append(queue, i) /\ current' = current
  <2>1. \A j \in Irps : Queued(j)' <=> Queued(j) \/ j = i
    BY <1>2, <1>6, Enqueued DEF IInv, TypeOK
  <2>2. Done' = Done /\ current # None
    BY <1>1, <1>6, <2>1 DEF Done, MayStart, IInv, Served
  <2>3. Queue!Enqueue(i)
    BY <1>3, <1>6, <2>2 DEF Queue!Enqueue, Done
  <2> QED BY <2>3 DEF Queue!Next
<1> QED BY <1>4, <1>5, <1>6 DEF Request

LEMMA FinishRefines ==
  ASSUME IInv, NEW w \in Workers, BeginWait(w) \/ GetNextIrp(w)
  PROVE  Queue!Next
<1>1. Working(w) /\ arrived' = arrived
  BY DEF BeginWait, GetNextIrp, Working
<1>2. \/ /\ queue = <<>> /\ current' = None /\ queue' = queue
         /\ pc' = [pc EXCEPT ![w] = "idle"]
      \/ /\ queue # <<>> /\ current' = Head(queue) /\ queue' = Tail(queue)
         /\ pc' = [pc EXCEPT ![w] = "start"]
  BY DEF BeginWait, GetNextIrp, Goto
<1>3. /\ current' # current
      /\ \A j \in Irps : Queued(j)' <=> Queued(j) /\ j # current'
      /\ \A j \in Irps : j = current' => Queued(j)
  BY <1>1, <1>2, SuccessorFacts
<1>4. current \in Irps /\ current # None /\ ~Queued(current) /\ current \in arrived
  BY <1>1, WorkingFacts
<1>5. Done' = Done \union {current}
  BY <1>1, <1>3, <1>4 DEF Done
<1>6. Queue!Finish
  BY <1>2, <1>4, <1>5 DEF Queue!Finish, Done
<1> QED BY <1>6 DEF Queue!Next

LEMMA CancelRefines ==
  ASSUME IInv, NEW k \in DOMAIN queue, CancelQueued(k)
  PROVE  Queue!Next
<1>1. queue' = RemoveAt(queue, k) /\ current' = current /\ arrived' = arrived
  BY DEF CancelQueued
<1>2. /\ queue[k] \in Irps /\ Queued(queue[k])
      /\ \A j \in Irps : Queued(j)' <=> Queued(j) /\ j # queue[k]
  BY <1>1, Withdrawn DEF IInv, TypeOK
<1>3. queue[k] # current /\ queue[k] \in arrived
  BY <1>2 DEF IInv, InPlace, Open
<1>4. Done' = Done \union {queue[k]}
  BY <1>1, <1>2, <1>3 DEF Done
<1>5. Queue!Withdraw(k)
  BY <1>1, <1>4 DEF Queue!Withdraw, Queue!RemoveAt, RemoveAt, Done
<1> QED BY <1>5 DEF Queue!Next

\* Every other step leaves the queue alone.
LEMMA OthersStutter ==
  ASSUME NEW w \in Workers,
         \/ SetWaitMask(w) \/ TestWait(w) \/ CancelledWait(w) \/ CompleteWait(w)
         \/ Kill(w) \/ KillCurrent(w) \/ KillWait(w) \/ CancelWait
  PROVE  UNCHANGED <<queue, current, arrived>>
<1>1. CASE SetWaitMask(w) \/ TestWait(w) \/ CancelledWait(w)
  BY <1>1 DEF SetWaitMask, TestWait, CancelledWait
<1>2. CASE CompleteWait(w) \/ CancelWait
  BY <1>2 DEF CompleteWait, CancelWait, TryWait
<1>3. CASE Kill(w) \/ KillCurrent(w) \/ KillWait(w)
  BY <1>3 DEF Kill, KillCurrent, KillWait, CancelWait, TryWait, irpVars
<1> QED BY <1>1, <1>2, <1>3

\* The mask queue is a request queue in the sense of IrpQueue: a request is done
\* with it when it is answered, or when CurrentWaitIrp has it (waitmask.c).
THEOREM MaskQueueIsIrpQueue == Spec => QueueSpec
<1>1. Init => Queue!Init
  BY DEF Init, Queue!Init
<1>2. ASSUME IInv, [Next]_vars PROVE [Queue!Next]_(Queue!vars)
  <2>1. CASE \E w \in Workers, i \in Irps : Request(w, i)
    BY <1>2, <2>1, RequestRefines
  <2>2. CASE \E w \in Workers : BeginWait(w) \/ GetNextIrp(w)
    BY <1>2, <2>2, FinishRefines
  <2>3. CASE \E w \in Workers, i \in Irps : IoCancelIrp(w, i)
    <3>1. CASE \E k \in DOMAIN queue : CancelQueued(k)
      BY <1>2, <3>1, CancelRefines
    <3>2. CASE CancelWait
      BY <2>3, <3>2, OthersStutter, QueueStutters
    <3>3. CASE UNCHANGED <<queue, current, arrived>>
      BY <3>3, QueueStutters
    <3> QED BY <2>3, <3>1, <3>2, <3>3 DEF IoCancelIrp
  <2>4. CASE \E w \in Workers : KillQueued(w)
    <3>1. CancelQueued(Len(queue)) /\ Len(queue) \in DOMAIN queue
      BY <1>2, <2>4 DEF KillQueued, IInv, TypeOK
    <3> QED BY <1>2, <3>1, CancelRefines
  <2>5. CASE \E w \in Workers :
               \/ SetWaitMask(w) \/ TestWait(w) \/ CancelledWait(w) \/ CompleteWait(w)
               \/ Kill(w) \/ KillCurrent(w) \/ KillWait(w)
    BY <2>5, OthersStutter, QueueStutters
  <2>6. CASE UNCHANGED vars \/ \E e \in Events : Event(e)
    <3>1. UNCHANGED <<queue, current, arrived>>
      BY <2>6 DEF vars, irpVars, Event
    <3> QED BY <3>1, QueueStutters
  <2> QED BY <1>2, <2>1, <2>2, <2>3, <2>4, <2>5, <2>6 DEF Next
<1> QED BY <1>1, <1>2, Invariance, PTL DEF Spec, QueueSpec, Queue!Spec
=============================================================================
