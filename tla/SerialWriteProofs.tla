--------------------------- MODULE SerialWriteProofs ---------------------------
(***************************************************************************)
(* Proofs about the write path, for any requests, workers, lengths, FIFO   *)
(* and counters: the reference protocol of the three slots, that every     *)
(* request is to be found until it is completed, what the driver says of   *)
(* characters, and that WriteQueue is a request queue.                     *)
(*                                                                         *)
(* They hold as long as an xoff counter is handed over to a free           *)
(* CurrentXoffIrp, which SerialGetNextWrite asserts (write.c:543) and      *)
(* nothing makes sure of; with one xoff counter it always is.              *)
(***************************************************************************)
EXTENDS SerialWrite, QueueLemmas, FiniteSetTheorems

-----------------------------------------------------------------------------
(* The inductive invariant. *)

\* The current request, unless CurrentXoffIrp has taken it over.
IsCurrent(i) == i = current /\ ~HandedOver

(***************************************************************************)
(* Every open request is in one place, which its cancel routine tells: in  *)
(* the queue, current, or in one of the other two slots; or it is a        *)
(* dropped flush.  Only those in a slot hold references.                   *)
(***************************************************************************)
Places ==
  \A i \in Irps :
    /\ Queued(i) <=> (routine[i] = "queued")
    /\ routine[i] = "write" => IsCurrent(i)
    /\ routine[i] = "xoff" => i = xoff
    /\ routine[i] = "immediate" => i = immediate
    /\ IsCurrent(i) => routine[i] \in {"null", "write"} /\ i # xoff
    /\ i = xoff => routine[i] \in {"null", "xoff"}
    /\ i = immediate => routine[i] \in {"null", "immediate"}
    /\ refs[i] # {} => (IsCurrent(i) \/ i = xoff \/ i = immediate) /\ i \notin Flushes
    /\ Open(i) <=> (Queued(i) \/ IsCurrent(i) \/ i = xoff \/ i = immediate \/ i \in dropped)
    /\ completions[i] \in {0, 1}
    /\ completions[i] = 1 => i \in arrived /\ status[i] \notin {"none", "pending"}
    /\ i \in dropped => ~Queued(i) /\ i # current

\* What waits or is current has something to send or to count.
Amounts ==
  /\ \A i \in Writes : Queued(i) \/ i = current => amount[i] > 0
  /\ \A i \in Xoffs : i \in arrived => amount[i] > 0

WriteSlot ==
  /\ queue # <<>> => current # None
  /\ ~completeCurrent => current # None /\ current \notin Writes
  /\ HandedOver => current = xoff \/ completions[current] = 1
  /\ IF current = None \/ HandedOver
       THEN Idle("write", writeLength > 0, "CompleteWrite")
       ELSE /\ Holds(current, "write", writeLength > 0, "CompleteWrite")
            /\ refs[current] = {} => \E w \in Workers : Working(w)

XoffSlot ==
  IF xoff = None
    THEN Idle("xoff", countSinceXoff > 0, "CompleteXoff")
    ELSE Holds(xoff, "xoff", countSinceXoff > 0, "CompleteXoff") /\ refs[xoff] # {}

\* What a finished write is told.
Told(i) ==
  /\ status[i] = "success" => info[i] = amount[i] /\ sent[i] = amount[i]
  /\ status[i] = "timeout" => info[i] = sent[i]
  /\ status[i] = "cancelled" => info[i] = 0

\* There is one worker on CurrentWriteIrp, and it knows how far it has come.
Writer ==
  /\ \A v, w \in Workers : Working(v) /\ Working(w) => v = w
  /\ \A w \in Workers : Working(w) =>
       /\ current # None /\ writeLength = 0
       /\ ~HandedOver => refs[current] = {}
       /\ pc[w] \in {"start", "started"} =>
            /\ current \notin Flushes /\ completeCurrent
            /\ sent[current] = 0 /\ info[current] = 0
       /\ pc[w] = "started" => countSinceXoff = 0
       /\ pc[w] = "getnext" => ~HandedOver /\ (current \in Flushes => status[current] = "success")
       /\ pc[w] = "discounted" => current \notin Flushes
       /\ pc[w] \in {"getnext", "discounted"} =>
            /\ ~HandedOver => status[current] \notin {"none", "pending"}
            /\ current \in Writes => Told(current)

AtImmediate(w) == pc[w] \in {"startimmediate", "getimmediate"}

ImmediateSlot ==
  /\ IF immediate = None
       THEN Idle("immediate", transmitImmediate, "CompleteImmediate")
       ELSE /\ Holds(immediate, "immediate", transmitImmediate, "CompleteImmediate")
            /\ refs[immediate] = {} => \E w \in Workers : AtImmediate(w)
  /\ \A v, w \in Workers : AtImmediate(v) /\ AtImmediate(w) => v = w
  /\ \A w \in Workers : AtImmediate(w) =>
       /\ immediate # None /\ ~transmitImmediate /\ refs[immediate] = {}
       /\ pc[w] = "startimmediate" => sent[immediate] = 0
       /\ pc[w] = "getimmediate" =>
            /\ status[immediate] \notin {"none", "pending"}
            /\ status[immediate] = "success" => sent[immediate] = 1

\* Where the characters of a request are.
SendingOf(i) ==
  /\ i \notin arrived \/ Queued(i) => sent[i] = 0 /\ info[i] = 0
  /\ i \in Writes => sent[i] <= amount[i]
  /\ i \in Xoffs \union Immediates => sent[i] <= 1
  /\ i = current /\ writeLength > 0 => sent[i] + writeLength = LengthOf(i)
  /\ i = current /\ i \in Writes /\ writeLength = 0 /\ refs[i] # {} => info[i] = sent[i]
  /\ i = current /\ i \in Writes /\ "CompleteWrite" \in dpcs => sent[i] = amount[i]
  /\ i \in Writes /\ completions[i] = 1 => Told(i)
  /\ i = immediate /\ transmitImmediate => sent[i] = 0
  /\ i = immediate /\ "CompleteImmediate" \in dpcs => sent[i] = 1
  /\ i \in Immediates /\ completions[i] = 1 /\ status[i] = "success" => sent[i] = 1
Sending == \A i \in Irps : SendingOf(i)

Accounts == IsFiniteSet(CharsQueued) /\ TotalAccounted

IInv ==
  /\ TypeOK /\ Distinct(queue) /\ Places /\ Amounts
  /\ WriteSlot /\ Writer /\ XoffSlot /\ ImmediateSlot /\ CounterEndsAtWrite
  /\ Sending /\ Accounts

(***************************************************************************)
(* SerialGetNextWrite finds CurrentXoffIrp free when it hands an xoff      *)
(* counter over.                                                           *)
(***************************************************************************)
SlotFree == xoff' \notin {xoff, None} => xoff = None

-----------------------------------------------------------------------------
(* Facts about the constants and the characters. *)

LEMMA Names ==
  /\ None \notin Irps /\ None \notin QueueIrps
  /\ Writes \subseteq QueueIrps /\ Flushes \subseteq QueueIrps /\ Xoffs \subseteq QueueIrps
  /\ QueueIrps \subseteq Irps /\ Immediates \subseteq Irps
  /\ \A i \in Irps :
       /\ i \in Writes => i \notin Flushes /\ i \notin Xoffs /\ i \notin Immediates
       /\ i \in Flushes => i \notin Writes /\ i \notin Xoffs /\ i \notin Immediates
       /\ i \in Xoffs => i \notin Writes /\ i \notin Flushes /\ i \notin Immediates
       /\ i \in Immediates => i \notin QueueIrps
       /\ i \in QueueIrps \/ i \in Immediates
       /\ i \in QueueIrps => i \in Writes \/ i \in Flushes \/ i \in Xoffs
BY WriteAssumption DEF Irps, QueueIrps

LEMMA CharsOfKinds ==
  ASSUME NEW i \in Irps, NEW n \in Nat
  PROVE  /\ CharsOf(i, n) \in Nat
         /\ i \in Writes => CharsOf(i, n) = n
         /\ i \in Flushes => CharsOf(i, n) = 0
         /\ i \in Xoffs \/ i \in Immediates => CharsOf(i, n) = 1
BY Names DEF CharsOf

\* A request has as many characters as it adds to the total.
LEMMA CharsAreCounted ==
  ASSUME NEW i, NEW n \in Nat
  PROVE  /\ IsFiniteSet({i} \X (1 .. n))
         /\ Cardinality({i} \X (1 .. n)) = n
<1>1. IsFiniteSet({i}) /\ Cardinality({i}) = 1
  BY FS_Singleton
<1>2. IsFiniteSet(1 .. n) /\ Cardinality(1 .. n) = n
  BY FS_Interval
<1>3. /\ IsFiniteSet({i} \X (1 .. n))
      /\ Cardinality({i} \X (1 .. n)) = Cardinality({i}) * Cardinality(1 .. n)
  BY <1>1, <1>2, FS_Product
<1> QED BY <1>1, <1>2, <1>3

LEMMA CharsStay ==
  ASSUME \A j \in Irps : j \notin Flushes => (Counted(j)' <=> Counted(j)),
         \A j \in Irps : Counted(j) => Chars(j)' = Chars(j),
         amount \in [Irps -> Nat], amount' \in [Irps -> Nat]
  PROVE  CharsQueued' = CharsQueued
<1>1. \A j \in Irps : j \in Flushes => Chars(j) = {} /\ Chars(j)' = {}
  BY CharsOfKinds DEF Chars
<1>2. \A x : (\E j \in Irps : Counted(j) /\ x \in Chars(j))
               <=> (\E j \in Irps : Counted(j)' /\ x \in Chars(j)')
  BY <1>1
<1> QED BY <1>2 DEF CharsQueued

LEMMA CharsJoin ==
  ASSUME Accounts, NEW i \in Irps, ~Counted(i), amount' \in [Irps -> Nat],
         \A j \in Irps : Counted(j)' <=> Counted(j) \/ j = i,
         \A j \in Irps : j # i => Chars(j)' = Chars(j)
  PROVE  /\ IsFiniteSet(CharsQueued')
         /\ Cardinality(CharsQueued') = Cardinality(CharsQueued) + CharsOf(i, amount'[i])
<1> DEFINE new == Chars(i)'
<1>0. CharsOf(i, amount'[i]) \in Nat
  BY CharsOfKinds
<1>1. IsFiniteSet(new) /\ Cardinality(new) = CharsOf(i, amount'[i])
  BY <1>0, CharsAreCounted DEF Chars
<1>2. CharsQueued' = CharsQueued \union new
  BY DEF CharsQueued
<1>3. CharsQueued \intersect new = {}
  BY DEF CharsQueued, Chars
<1>4. IsFiniteSet(CharsQueued)
  BY DEF Accounts
<1> HIDE DEF new
<1>5. /\ IsFiniteSet(CharsQueued')
      /\ Cardinality(CharsQueued') = Cardinality(CharsQueued) + Cardinality(new) - 0
  BY <1>1, <1>2, <1>3, <1>4, FS_Union, FS_EmptySet
<1>6. Cardinality(CharsQueued) \in Nat
  BY <1>4, FS_CardinalityType
<1> QED BY <1>0, <1>1, <1>5, <1>6

LEMMA CharsLeave ==
  ASSUME Accounts, NEW i \in Irps, Counted(i), amount \in [Irps -> Nat],
         \A j \in Irps : Counted(j)' <=> Counted(j) /\ j # i,
         \A j \in Irps : Chars(j)' = Chars(j)
  PROVE  /\ IsFiniteSet(CharsQueued') /\ Cardinality(CharsQueued') \in Nat
         /\ Cardinality(CharsQueued) = Cardinality(CharsQueued') + CharsOf(i, amount[i])
<1> DEFINE old == Chars(i)
<1>0. CharsOf(i, amount[i]) \in Nat
  BY CharsOfKinds
<1>1. IsFiniteSet(old) /\ Cardinality(old) = CharsOf(i, amount[i])
  BY <1>0, CharsAreCounted DEF Chars
<1>2. CharsQueued' = CharsQueued \ old /\ CharsQueued \intersect old = old
  BY DEF CharsQueued, Chars
<1>4. IsFiniteSet(CharsQueued) /\ Cardinality(CharsQueued) \in Nat
  BY FS_CardinalityType DEF Accounts
<1> HIDE DEF old
<1>5. /\ IsFiniteSet(CharsQueued')
      /\ Cardinality(CharsQueued') = Cardinality(CharsQueued) - Cardinality(old)
  BY <1>1, <1>2, <1>4, FS_Difference
<1>6. Cardinality(CharsQueued') \in Nat
  BY <1>5, FS_CardinalityType
<1> QED BY <1>0, <1>1, <1>4, <1>5, <1>6

-----------------------------------------------------------------------------
(* The queue. *)

LEMMA Enqueued ==
  ASSUME queue \in Seq(QueueIrps), Distinct(queue), NEW i \in QueueIrps, ~Queued(i),
         queue' = Append(queue, i)
  PROVE  /\ queue' \in Seq(QueueIrps) /\ Distinct(queue') /\ queue' # <<>>
         /\ \A j \in Irps : Queued(j)' <=> (Queued(j) \/ j = i)
<1>1. ~Among(i, queue)
  BY DEF Queued, Among
<1>2. /\ queue' \in Seq(QueueIrps) /\ Distinct(queue')
      /\ \A x : Among(x, queue') <=> (Among(x, queue) \/ x = i)
  BY <1>1, Joined
<1> QED BY <1>2 DEF Queued, Among

LEMMA Dequeued ==
  ASSUME queue \in Seq(QueueIrps), Distinct(queue), queue # <<>>, queue' = Tail(queue)
  PROVE  /\ queue' \in Seq(QueueIrps) /\ Distinct(queue')
         /\ Head(queue) \in QueueIrps /\ Queued(Head(queue))
         /\ \A j \in Irps : Queued(j)' <=> (Queued(j) /\ j # Head(queue))
<1>2. /\ queue' \in Seq(QueueIrps) /\ Distinct(queue')
      /\ Head(queue) \in QueueIrps /\ Among(Head(queue), queue)
      /\ \A x : Among(x, queue') <=> (Among(x, queue) /\ x # Head(queue))
  BY HeadLeft
<1> QED BY <1>2 DEF Queued, Among

LEMMA Withdrawn ==
  ASSUME queue \in Seq(QueueIrps), Distinct(queue), NEW k \in DOMAIN queue,
         queue' = RemoveAt(queue, k)
  PROVE  /\ queue' \in Seq(QueueIrps) /\ Distinct(queue')
         /\ queue[k] \in QueueIrps /\ Queued(queue[k]) /\ queue # <<>>
         /\ \A j \in Irps : Queued(j)' <=> (Queued(j) /\ j # queue[k])
<1>2. /\ queue' \in Seq(QueueIrps) /\ Distinct(queue')
      /\ queue[k] \in QueueIrps /\ Among(queue[k], queue) /\ queue # <<>>
      /\ \A x : Among(x, queue') <=> (Among(x, queue) /\ x # queue[k])
  BY OneLeft
<1> QED BY <1>2 DEF Queued, Among

-----------------------------------------------------------------------------
(* What follows from the invariant. *)

LEMMA CurrentFacts ==
  ASSUME IInv, current # None
  PROVE  /\ current \in QueueIrps /\ current \in Irps /\ ~Queued(current)
         /\ current \in arrived /\ current # immediate /\ current \notin dropped
         /\ ~HandedOver =>
              /\ completions[current] = 0 /\ current # xoff
              /\ routine[current] \in {"null", "write"}
<1>1. current \in QueueIrps /\ current \in Irps
  BY Names DEF IInv, TypeOK
<1>2. current # immediate
  BY <1>1, Names DEF IInv, TypeOK
<1>3. CASE HandedOver
  <2>1. current = xoff \/ completions[current] = 1
    BY <1>3 DEF IInv, WriteSlot
  <2> QED BY <1>1, <1>2, <1>3, <2>1 DEF IInv, Places, Open
<1>4. CASE ~HandedOver
  <2>1. IsCurrent(current)
    BY <1>4 DEF IsCurrent
  <2>2. /\ routine[current] \in {"null", "write"} /\ current # xoff /\ Open(current)
        /\ ~Queued(current) /\ current \notin dropped
    BY <1>1, <2>1 DEF IInv, Places
  <2> QED BY <1>1, <1>2, <2>2 DEF Open
<1> QED BY <1>3, <1>4

LEMMA XoffFacts ==
  ASSUME IInv, xoff # None
  PROVE  /\ xoff \in Xoffs /\ xoff \in Irps /\ ~Queued(xoff) /\ xoff \in arrived
         /\ completions[xoff] = 0 /\ xoff # immediate /\ xoff \notin dropped
         /\ routine[xoff] \in {"null", "xoff"}
         /\ xoff = current => HandedOver
<1>1. /\ xoff \in Xoffs /\ xoff \in Irps /\ xoff # immediate
      /\ xoff \notin dropped
  BY Names DEF IInv, TypeOK
<1>2. /\ Open(xoff) /\ routine[xoff] \in {"null", "xoff"}
      /\ ~IsCurrent(xoff) /\ ~Queued(xoff)
  BY <1>1 DEF IInv, Places
<1> QED BY <1>1, <1>2 DEF Open, IsCurrent

LEMMA ImmediateFacts ==
  ASSUME IInv, immediate # None
  PROVE  /\ immediate \in Immediates /\ immediate \in Irps /\ ~Queued(immediate)
         /\ immediate \in arrived /\ completions[immediate] = 0
         /\ immediate # xoff /\ immediate # current /\ immediate \notin dropped
         /\ routine[immediate] \in {"null", "immediate"}
<1>1. /\ immediate \in Immediates /\ immediate \in Irps
      /\ immediate # xoff /\ immediate # current /\ immediate \notin dropped
  BY Names DEF IInv, TypeOK
<1>2. Open(immediate) /\ routine[immediate] \in {"null", "immediate"} /\ ~Queued(immediate)
  BY <1>1 DEF IInv, Places
<1> QED BY <1>1, <1>2 DEF Open

LEMMA WorkingFacts ==
  ASSUME IInv, NEW w \in Workers, Working(w)
  PROVE  /\ current # None /\ writeLength = 0
         /\ ~HandedOver => refs[current] = {} /\ routine[current] = "null"
         /\ "write" \notin armed /\ "CompleteWrite" \notin dpcs /\ "WriteTimeout" \notin dpcs
         /\ \A v \in Workers : Working(v) => v = w
<1>1. /\ current # None /\ writeLength = 0 /\ (~HandedOver => refs[current] = {})
      /\ \A v \in Workers : Working(v) => v = w
  BY DEF IInv, Writer
<1>2. CASE HandedOver
  BY <1>1, <1>2 DEF IInv, WriteSlot, Idle, TimeoutDpc
<1>3. CASE ~HandedOver
  BY <1>1, <1>3, CurrentFacts DEF IInv, WriteSlot, Holds, TimeoutDpc
<1> QED BY <1>1, <1>2, <1>3

\* A request that is new to the driver is nowhere yet.
LEMMA NewcomerFacts ==
  ASSUME IInv, NEW i \in Irps, i \notin arrived
  PROVE  /\ ~Queued(i) /\ i # current /\ i # xoff /\ i # immediate /\ i \notin dropped
         /\ completions[i] = 0 /\ routine[i] = "null" /\ refs[i] = {}
         /\ sent[i] = 0 /\ info[i] = 0 /\ ~Counted(i)
<1>1. ~Open(i)
  BY DEF Open
<1>2. ~Queued(i) /\ i # xoff /\ i # immediate /\ i \notin dropped /\ completions[i] = 0
  BY <1>1 DEF IInv, Places
<1>3. i # current
  BY CurrentFacts, Names
<1>4. routine[i] = "null" /\ refs[i] = {}
  <2>1. routine[i] \in {"null", "queued", "write", "xoff", "immediate"}
    BY DEF IInv, TypeOK, Slots
  <2> QED BY <1>2, <1>3, <2>1 DEF IInv, Places, IsCurrent
<1>5. sent[i] = 0 /\ info[i] = 0
  BY DEF IInv, Sending, SendingOf
<1> QED BY <1>2, <1>3, <1>4, <1>5 DEF Counted

-----------------------------------------------------------------------------
(* Steps that leave a slot alone. *)

Labels == {"idle", "start", "started", "getnext", "discounted", "startimmediate",
           "getimmediate", "kill", "abortxoff"}
Quiet == {"idle", "kill", "abortxoff"}

\* No worker takes up or leaves the current write; the xoff counter may be found
\* stopped.
WriterStays ==
  \A v \in Workers :
    \/ pc'[v] = pc[v]
    \/ ~Working(v) /\ ~Working(v)'
    \/ pc[v] = "start" /\ pc'[v] = "started" /\ countSinceXoff' = 0

\* Nor any other slot.
PcStays ==
  /\ pc' \in [Workers -> Labels] /\ aborting' \subseteq Workers
  /\ \A v \in Workers :
       \/ pc'[v] = pc[v]
       \/ pc[v] \in Quiet /\ pc'[v] \in Quiet
       \/ pc[v] = "start" /\ pc'[v] = "started" /\ countSinceXoff' = 0

LEMMA PcStaysFacts ==
  ASSUME PcStays
  PROVE  /\ WriterStays
         /\ \A v \in Workers :
              /\ AtImmediate(v)' <=> AtImmediate(v)
              /\ pc'[v] = "discounted" <=> pc[v] = "discounted"
              /\ pc'[v] = "startimmediate" <=> pc[v] = "startimmediate"
              /\ pc'[v] = "getimmediate" <=> pc[v] = "getimmediate"
<1> SUFFICES ASSUME NEW v \in Workers
             PROVE  /\ \/ pc'[v] = pc[v]
                       \/ ~Working(v) /\ ~Working(v)'
                       \/ pc[v] = "start" /\ pc'[v] = "started" /\ countSinceXoff' = 0
                    /\ AtImmediate(v)' <=> AtImmediate(v)
                    /\ pc'[v] = "discounted" <=> pc[v] = "discounted"
                    /\ pc'[v] = "startimmediate" <=> pc[v] = "startimmediate"
                    /\ pc'[v] = "getimmediate" <=> pc[v] = "getimmediate"
  BY DEF WriterStays
<1>1. \/ pc'[v] = pc[v]
      \/ pc[v] \in Quiet /\ pc'[v] \in Quiet
      \/ pc[v] = "start" /\ pc'[v] = "started" /\ countSinceXoff' = 0
  BY DEF PcStays
<1> QED BY <1>1 DEF Working, AtImmediate, Quiet

LEMMA WriterStaysFacts ==
  ASSUME WriterStays, NEW v \in Workers
  PROVE  /\ Working(v)' <=> Working(v)
         /\ pc'[v] = "getnext" <=> pc[v] = "getnext"
         /\ pc'[v] = "discounted" <=> pc[v] = "discounted"
         /\ pc'[v] \in {"start", "started"} <=> pc[v] \in {"start", "started"}
         /\ pc'[v] = "started" => pc[v] = "started" \/ countSinceXoff' = 0
BY DEF WriterStays, Working

\* A worker that is on no slot leaves the driver or stays where it is.
LEMMA Staying ==
  ASSUME IInv, NEW w \in Workers, pc[w] \in Quiet, Leave(w) \/ UNCHANGED <<pc, aborting>>
  PROVE  PcStays
<1>1. pc \in [Workers -> Labels] /\ aborting \subseteq Workers
  BY DEF IInv, TypeOK, Labels
<1>2. CASE UNCHANGED <<pc, aborting>>
  BY <1>1, <1>2 DEF PcStays
<1>3. CASE Leave(w)
  BY <1>1, <1>3 DEF Leave, PcStays, Quiet, Labels
<1> QED BY <1>2, <1>3

\* The current write is left alone.
LEMMA WriteFrame ==
  ASSUME IInv, WriterStays,
         UNCHANGED <<current, completeCurrent, writeLength>>,
         queue' = queue \/ current # None,
         current # None => amount'[current] = amount[current],
         "write" \in armed' <=> "write" \in armed,
         "CompleteWrite" \in dpcs' <=> "CompleteWrite" \in dpcs,
         "WriteTimeout" \in dpcs' <=> "WriteTimeout" \in dpcs,
         current # None /\ ~HandedOver =>
           /\ refs'[current] = refs[current] /\ routine'[current] = routine[current]
           /\ status'[current] = status[current] /\ info'[current] = info[current]
           /\ sent'[current] = sent[current],
         HandedOver =>
           \/ completions'[current] = 1
           \/ xoff' = xoff /\ completions'[current] = completions[current],
         countSinceXoff = 0 => countSinceXoff' = 0
  PROVE  WriteSlot' /\ Writer'
<1>1. HandedOver' <=> HandedOver
  BY DEF HandedOver
<1>2. \A v \in Workers :
        /\ Working(v)' <=> Working(v)
        /\ pc'[v] = "getnext" <=> pc[v] = "getnext"
        /\ pc'[v] = "discounted" <=> pc[v] = "discounted"
        /\ pc'[v] \in {"start", "started"} <=> pc[v] \in {"start", "started"}
        /\ pc'[v] = "started" => pc[v] = "started" \/ countSinceXoff' = 0
  BY WriterStaysFacts
<1>3. WriteSlot'
  <2>1. /\ queue' # <<>> => current' # None
        /\ ~completeCurrent' => current' # None /\ current' \notin Writes
        /\ HandedOver' => current' = xoff' \/ completions'[current'] = 1
    BY <1>1 DEF IInv, WriteSlot
  <2>2. CASE current = None \/ HandedOver
    BY <1>1, <2>1, <2>2 DEF IInv, WriteSlot, Idle, TimeoutDpc
  <2>3. CASE current # None /\ ~HandedOver
    <3>1. /\ Holds(current, "write", writeLength > 0, "CompleteWrite")
          /\ refs[current] = {} => \E w \in Workers : Working(w)
      BY <2>3 DEF IInv, WriteSlot
    <3>2. /\ Holds(current, "write", writeLength > 0, "CompleteWrite")'
          /\ refs'[current] = {} => \E w \in Workers : Working(w)'
      BY <1>2, <2>3, <3>1 DEF Holds, TimeoutDpc
    <3> QED BY <1>1, <2>1, <2>3, <3>2 DEF WriteSlot
  <2> QED BY <2>2, <2>3
<1>4. Writer'
  <2>1. \A v, w \in Workers : Working(v)' /\ Working(w)' => v = w
    BY <1>2 DEF IInv, Writer
  <2>2. ASSUME NEW w \in Workers, Working(w)'
        PROVE  /\ current' # None /\ writeLength' = 0
               /\ ~HandedOver' => refs'[current'] = {}
               /\ pc'[w] \in {"start", "started"} =>
                    /\ current' \notin Flushes /\ completeCurrent'
                    /\ sent'[current'] = 0 /\ info'[current'] = 0
               /\ pc'[w] = "started" => countSinceXoff' = 0
               /\ pc'[w] = "getnext" =>
                    ~HandedOver' /\ (current' \in Flushes => status'[current'] = "success")
               /\ pc'[w] = "discounted" => current' \notin Flushes
               /\ pc'[w] \in {"getnext", "discounted"} =>
                    /\ ~HandedOver' => status'[current'] \notin {"none", "pending"}
                    /\ current' \in Writes => Told(current)'
    <3>0. Working(w)
      BY <1>2, <2>2
    <3>1. /\ current # None /\ writeLength = 0
          /\ ~HandedOver => refs[current] = {}
          /\ pc[w] \in {"start", "started"} =>
               /\ current \notin Flushes /\ completeCurrent
               /\ sent[current] = 0 /\ info[current] = 0
          /\ pc[w] = "started" => countSinceXoff = 0
          /\ pc[w] = "getnext" => ~HandedOver /\ (current \in Flushes => status[current] = "success")
          /\ pc[w] = "discounted" => current \notin Flushes
          /\ pc[w] \in {"getnext", "discounted"} =>
               /\ ~HandedOver => status[current] \notin {"none", "pending"}
               /\ current \in Writes => Told(current)
      BY <3>0 DEF IInv, Writer
    <3>2. current \in Writes \/ completeCurrent => ~HandedOver
      BY <3>1, CurrentFacts, Names DEF HandedOver
    <3>3. current \in Writes => (Told(current)' <=> Told(current))
      BY <3>1, <3>2 DEF Told
    <3> QED BY <1>1, <1>2, <3>1, <3>2, <3>3
  <2> QED BY <2>1, <2>2 DEF Writer
<1> QED BY <1>3, <1>4

LEMMA XoffFrame ==
  ASSUME IInv, UNCHANGED <<xoff, countSinceXoff>>,
         "xoff" \in armed' <=> "xoff" \in armed,
         "CompleteXoff" \in dpcs' <=> "CompleteXoff" \in dpcs,
         "TimeoutXoff" \in dpcs' <=> "TimeoutXoff" \in dpcs,
         xoff # None => refs'[xoff] = refs[xoff] /\ routine'[xoff] = routine[xoff]
  PROVE  XoffSlot'
BY DEF IInv, XoffSlot, Idle, Holds, TimeoutDpc

LEMMA ImmediateFrame ==
  ASSUME IInv, UNCHANGED <<immediate, transmitImmediate>>,
         \A v \in Workers : /\ pc'[v] = "startimmediate" <=> pc[v] = "startimmediate"
                            /\ pc'[v] = "getimmediate" <=> pc[v] = "getimmediate",
         "immediate" \in armed' <=> "immediate" \in armed,
         "CompleteImmediate" \in dpcs' <=> "CompleteImmediate" \in dpcs,
         "TimeoutImmediate" \in dpcs' <=> "TimeoutImmediate" \in dpcs,
         immediate # None =>
           /\ refs'[immediate] = refs[immediate] /\ routine'[immediate] = routine[immediate]
           /\ status'[immediate] = status[immediate] /\ sent'[immediate] = sent[immediate]
  PROVE  ImmediateSlot'
<1>1. \A v \in Workers : AtImmediate(v)' <=> AtImmediate(v)
  BY DEF AtImmediate
<1>2. CASE immediate = None
  BY <1>1, <1>2 DEF IInv, ImmediateSlot, Idle, TimeoutDpc
<1>3. CASE immediate # None
  <2>1. /\ Holds(immediate, "immediate", transmitImmediate, "CompleteImmediate")
        /\ refs[immediate] = {} => \E w \in Workers : AtImmediate(w)
    BY <1>3 DEF IInv, ImmediateSlot
  <2>2. /\ Holds(immediate, "immediate", transmitImmediate, "CompleteImmediate")'
        /\ refs'[immediate] = {} => \E w \in Workers : AtImmediate(w)'
    BY <1>1, <1>3, <2>1 DEF Holds, TimeoutDpc
  <2> QED BY <1>1, <1>3, <2>2 DEF IInv, ImmediateSlot
<1> QED BY <1>2, <1>3

\* The total does not change, nor what is counted in it.
LEMMA AccountsFrame ==
  ASSUME IInv, UNCHANGED <<queue, current, immediate, amount, totalChars, forgotten>>,
         \A v \in Workers : pc'[v] = "discounted" <=> pc[v] = "discounted"
  PROVE  Accounts'
<1>1. \A j \in Irps : Counted(j)' <=> Counted(j)
  BY DEF Counted, Queued, Discounted
<1>2. \A j \in Irps : Chars(j)' = Chars(j)
  BY DEF Chars
<1>3. amount \in [Irps -> Nat] /\ amount' \in [Irps -> Nat]
  BY DEF IInv, TypeOK
<1>4. CharsQueued' = CharsQueued
  BY <1>1, <1>2, <1>3, CharsStay
<1> QED BY <1>4 DEF IInv, Accounts, TotalAccounted

LEMMA AmountsFrame ==
  ASSUME IInv, UNCHANGED <<arrived, amount>>,
         \A j \in Irps : Queued(j)' \/ j = current' => Queued(j) \/ j = current
  PROVE  Amounts'
BY Names DEF IInv, Amounts

\* A request that keeps its data, and its place or the work that is done for it.
LEMMA SendingFrame ==
  ASSUME IInv, NEW i \in Irps,
         status'[i] = status[i], info'[i] = info[i], sent'[i] = sent[i],
         amount'[i] = amount[i], completions'[i] = completions[i],
         i \in arrived => i \in arrived', Queued(i)' => Queued(i),
         i = current' =>
           /\ i = current /\ writeLength' = writeLength /\ refs'[i] = refs[i]
           /\ "CompleteWrite" \in dpcs' => "CompleteWrite" \in dpcs,
         i = immediate' =>
           /\ i = immediate /\ (transmitImmediate' => transmitImmediate)
           /\ "CompleteImmediate" \in dpcs' => "CompleteImmediate" \in dpcs
  PROVE  SendingOf(i)'
<1>1. SendingOf(i)
  BY DEF IInv, Sending
<1>2. Told(i)' <=> Told(i)
  BY DEF Told
<1>3. LengthOf(i)' = LengthOf(i)
  BY DEF LengthOf
<1> QED BY <1>1, <1>2, <1>3 DEF SendingOf

-----------------------------------------------------------------------------
(* The invariant holds at the start, and a mark leaves it.                 *)

LEMMA InitIInv == Init => IInv
<1> SUFFICES ASSUME Init PROVE IInv
  OBVIOUS
<1>1. /\ queue = <<>> /\ DOMAIN queue = {} /\ current = None /\ xoff = None
      /\ immediate = None /\ ~HandedOver /\ \A i : ~Queued(i)
  BY DEF Init, HandedOver, Queued
<1>2. TypeOK
  <2>1. /\ queue \in Seq(QueueIrps) /\ current \in QueueIrps \union {None}
        /\ xoff \in Xoffs \union {None} /\ immediate \in Immediates \union {None}
        /\ arrived \subseteq Irps /\ cancelled \subseteq Irps
    BY <1>1 DEF Init
  <2>2. /\ amount \in [Irps -> Nat] /\ info \in [Irps -> Nat]
        /\ status \in [Irps -> {"none", "pending", "success", "timeout", "cancelled",
                                "countertimeout", "morewrites", "invalid"}]
        /\ routine \in [Irps -> {"null", "queued"} \union Slots]
        /\ refs \in [Irps -> SUBSET Refs] /\ completions \in [Irps -> Nat]
        /\ sent \in [Irps -> Nat]
    BY DEF Init
  <2>3. /\ writeLength \in Nat /\ transmitImmediate \in BOOLEAN /\ countSinceXoff \in Nat
        /\ armed \subseteq Slots /\ dpcs \subseteq Dpcs
        /\ pc \in [Workers -> {"idle", "start", "started", "getnext", "discounted",
                               "startimmediate", "getimmediate", "kill", "abortxoff"}]
        /\ aborting \subseteq Workers /\ completeCurrent \in BOOLEAN
        /\ totalChars \in Nat /\ forgotten \in Nat /\ dropped \subseteq Flushes
    BY DEF Init
  <2>4. received \in 0 .. MaxChars
    BY WriteAssumption DEF Init
  <2> QED BY <2>1, <2>2, <2>3, <2>4 DEF TypeOK
<1>3. Distinct(queue) /\ Places /\ Amounts
  BY <1>1, Names DEF Init, Distinct, Places, Amounts, IsCurrent, Open
<1>4. WriteSlot /\ Writer
  BY <1>1 DEF Init, WriteSlot, Writer, Idle, Working, TimeoutDpc
<1>5. XoffSlot /\ ImmediateSlot /\ CounterEndsAtWrite
  BY <1>1 DEF Init, XoffSlot, ImmediateSlot, CounterEndsAtWrite, Idle, AtImmediate, TimeoutDpc
<1>6. Sending
  BY <1>1, Names DEF Init, Sending, SendingOf
<1>7. Accounts
  <2>1. \A i \in Irps : ~Counted(i)
    BY <1>1, Names DEF Counted
  <2>2. CharsQueued = {}
    BY <2>1 DEF CharsQueued
  <2> QED BY <2>2, FS_EmptySet DEF Init, Accounts, TotalAccounted
<1> QED BY <1>2, <1>3, <1>4, <1>5, <1>6, <1>7 DEF IInv

\* A request is marked, or a worker goes from one place to another where it has
\* nothing in its hands.
LEMMA MarkStep ==
  ASSUME IInv, PcStays, cancelled' \subseteq Irps,
         UNCHANGED <<slotVars, arrived, amount, status, info, routine, refs, completions,
                     isrVars, armed, dpcs, completeCurrent, totalChars, sent, received,
                     dropped, forgotten>>
  PROVE  IInv'
<1>1. \A j \in Irps : (Queued(j)' <=> Queued(j)) /\ (Open(j)' <=> Open(j))
  BY DEF Queued, Open, slotVars
<1>2. HandedOver' <=> HandedOver
  BY DEF HandedOver, slotVars
<1>3. TypeOK'
  BY DEF IInv, TypeOK, PcStays, Labels, slotVars, isrVars
<1>4. Distinct(queue)' /\ Places'
  BY <1>1, <1>2 DEF IInv, Distinct, Places, IsCurrent, slotVars
<1>5. Amounts'
  BY <1>1, AmountsFrame DEF slotVars
<1>6. WriteSlot' /\ Writer'
  BY PcStaysFacts, WriteFrame DEF slotVars, isrVars
<1>7. XoffSlot' /\ CounterEndsAtWrite'
  BY XoffFrame DEF IInv, CounterEndsAtWrite, slotVars, isrVars
<1>8. ImmediateSlot' /\ Accounts'
  BY PcStaysFacts, ImmediateFrame, AccountsFrame DEF slotVars, isrVars
<1>9. Sending'
  BY <1>1 DEF IInv, Sending, SendingOf, Told, LengthOf, slotVars, isrVars
<1> QED BY <1>3, <1>4, <1>5, <1>6, <1>7, <1>8, <1>9 DEF IInv

-----------------------------------------------------------------------------
(* The current write loses a reference.                                    *)

\* Who takes a reference from the current write, and what it does then.
WriteEnds(ref, grab, newStatus) ==
  \/ /\ ref = "ISR" /\ grab = FALSE /\ newStatus = "success"
     /\ "CompleteWrite" \in dpcs /\ dpcs' = dpcs \ {"CompleteWrite"}
  \/ /\ ref = "TOTAL" /\ grab = TRUE /\ newStatus = "timeout"
     /\ "WriteTimeout" \in dpcs /\ dpcs' = dpcs \ {"WriteTimeout"}
  \/ /\ ref = "CANCEL" /\ grab = TRUE /\ newStatus = "cancelled"
     /\ routine[current] = "write" /\ dpcs' = dpcs

LEMMA TryWriteStep ==
  ASSUME IInv, NEW w \in Workers, pc[w] \in Quiet, current # None, ~HandedOver,
         NEW ref, NEW grab, NEW newStatus, WriteEnds(ref, grab, newStatus),
         TryWrite(w, ref, grab, newStatus), cancelled' \subseteq Irps
  PROVE  IInv'
<1> DEFINE taken == grab /\ writeLength > 0
           left  == Left(current, ref, taken, {"write"})
           told  == InfoAfterGrab(taken)
<1>0. /\ current \in QueueIrps /\ current \in Irps /\ ~Queued(current)
      /\ current \in arrived /\ completions[current] = 0
      /\ current # xoff /\ current # immediate /\ routine[current] \in {"null", "write"}
  BY CurrentFacts
<1>1. /\ refs' = [refs EXCEPT ![current] = left]
      /\ routine' = [routine EXCEPT ![current] = "null"]
      /\ armed' = armed \ {"write"}
      /\ writeLength' = IF taken THEN 0 ELSE writeLength
      /\ UNCHANGED <<queue, current, xoff, immediate, completions, transmitImmediate,
                     countSinceXoff, arrived, amount, sent, received, dropped, forgotten,
                     totalChars, completeCurrent>>
  BY DEF TryWrite, Rundown, slotVars, TryLeaves
<1>2. \/ /\ left = {} /\ pc' = [pc EXCEPT ![w] = "getnext"] /\ aborting' = aborting
         /\ status' = [status EXCEPT ![current] = newStatus]
         /\ info' = [info EXCEPT ![current] = IF newStatus = "cancelled" THEN 0 ELSE told]
      \/ /\ left # {} /\ Leave(w) /\ status' = status
         /\ info' = [info EXCEPT ![current] = told]
  BY DEF TryWrite, Rundown, LastReference, Goto
<1>3. /\ "ISR" \in refs[current] <=> (writeLength > 0 \/ "CompleteWrite" \in dpcs)
      /\ ~(writeLength > 0 /\ "CompleteWrite" \in dpcs)
      /\ "TOTAL" \in refs[current] <=> ("write" \in armed \/ "WriteTimeout" \in dpcs)
      /\ ~("write" \in armed /\ "WriteTimeout" \in dpcs)
      /\ "CANCEL" \in refs[current] <=> routine[current] = "write"
      /\ refs[current] \in SUBSET Refs /\ writeLength \in Nat /\ grab \in BOOLEAN
  BY <1>0 DEF IInv, TypeOK, WriteSlot, Holds, TimeoutDpc, WriteEnds
<1>4. refs[current] # {} /\ newStatus \in {"success", "timeout", "cancelled"}
  BY <1>3 DEF WriteEnds
<1>5. /\ left \in SUBSET Refs /\ "CANCEL" \notin left
      /\ "ISR" \in left <=> "CompleteWrite" \in dpcs'
      /\ "TOTAL" \in left <=> "WriteTimeout" \in dpcs'
      /\ writeLength' = 0 /\ armed' = armed \ {"write"}
      /\ dpcs' \subseteq dpcs /\ dpcs \subseteq dpcs' \union {"CompleteWrite", "WriteTimeout"}
  <2>1. left = refs[current] \ ({ref} \union (IF taken THEN {"ISR"} ELSE {})
                   \union (IF routine[current] # "null" THEN {"CANCEL"} ELSE {})
                   \union (IF "write" \in armed THEN {"TOTAL"} ELSE {}))
    BY DEF Left
  <2> HIDE DEF left
  <2>2. CASE ref = "ISR" /\ grab = FALSE /\ "CompleteWrite" \in dpcs
             /\ dpcs' = dpcs \ {"CompleteWrite"}
    BY <1>0, <1>1, <1>3, <2>1, <2>2
  <2>3. CASE ref = "TOTAL" /\ grab = TRUE /\ "WriteTimeout" \in dpcs
             /\ dpcs' = dpcs \ {"WriteTimeout"}
    BY <1>0, <1>1, <1>3, <2>1, <2>3
  <2>4. CASE ref = "CANCEL" /\ grab = TRUE /\ routine[current] = "write" /\ dpcs' = dpcs
    BY <1>0, <1>1, <1>3, <2>1, <2>4
  <2> QED BY <2>2, <2>3, <2>4 DEF WriteEnds
<1>6. /\ told \in Nat /\ (current \in Writes => told = sent[current])
      /\ current \in Writes /\ newStatus = "success" => sent[current] = amount[current]
  <2>0. /\ current \in Writes /\ writeLength > 0 => sent[current] + writeLength = amount[current]
        /\ current \in Writes /\ writeLength = 0 => info[current] = sent[current]
        /\ current \in Writes /\ "CompleteWrite" \in dpcs => sent[current] = amount[current]
        /\ sent[current] \in Nat /\ amount[current] \in Nat /\ info[current] \in Nat
    BY <1>0, <1>4 DEF IInv, TypeOK, Sending, SendingOf, LengthOf
  <2>1. CASE taken
    BY <1>3, <2>0, <2>1 DEF InfoAfterGrab, WriteEnds
  <2>2. CASE ~taken
    BY <1>3, <2>0, <2>2 DEF InfoAfterGrab, WriteEnds
  <2> QED BY <2>1, <2>2
<1>7. \A v \in Workers : ~Working(v)
  BY <1>4 DEF IInv, Writer
<1> HIDE DEF taken, left, told
<1>8. /\ refs' \in [Irps -> SUBSET Refs] /\ refs'[current] = left
      /\ routine' \in [Irps -> {"null", "queued"} \union Slots] /\ routine'[current] = "null"
      /\ \A j \in Irps : j # current => refs'[j] = refs[j] /\ routine'[j] = routine[j]
  BY <1>0, <1>1, <1>5 DEF IInv, TypeOK
<1>9. /\ status' \in [Irps -> {"none", "pending", "success", "timeout", "cancelled",
                               "countertimeout", "morewrites", "invalid"}]
      /\ info' \in [Irps -> Nat]
      /\ \A j \in Irps : j # current => status'[j] = status[j] /\ info'[j] = info[j]
      /\ left = {} => /\ status'[current] = newStatus
                      /\ info'[current] = IF newStatus = "cancelled" THEN 0 ELSE told
      /\ left # {} => info'[current] = told
  BY <1>0, <1>2, <1>4, <1>6 DEF IInv, TypeOK
<1>10. /\ left = {} => /\ pc' \in [Workers -> Labels] /\ aborting' \subseteq Workers
                       /\ \A v \in Workers : v # w => pc'[v] = pc[v]
                       /\ pc'[w] = "getnext"
       /\ left # {} => PcStays
  <2>1. pc \in [Workers -> Labels] /\ aborting \subseteq Workers
    BY DEF IInv, TypeOK, Labels
  <2> QED BY <1>2, <2>1, Staying DEF Labels
<1>11. /\ pc' \in [Workers -> Labels] /\ aborting' \subseteq Workers
       /\ \A v \in Workers : /\ pc'[v] = "discounted" <=> pc[v] = "discounted"
                             /\ pc'[v] = "startimmediate" <=> pc[v] = "startimmediate"
                             /\ pc'[v] = "getimmediate" <=> pc[v] = "getimmediate"
  BY <1>10, PcStaysFacts DEF PcStays, Quiet
<1>12. \A j \in Irps : (Queued(j)' <=> Queued(j)) /\ (Open(j)' <=> Open(j))
  BY <1>1 DEF Queued, Open
<1>13. HandedOver' <=> HandedOver
  BY <1>1 DEF HandedOver
<1>14. TypeOK'
  <2>1. armed' \subseteq Slots /\ dpcs' \subseteq Dpcs /\ writeLength' \in Nat
    BY <1>5 DEF IInv, TypeOK
  <2> QED BY <1>1, <1>8, <1>9, <1>11, <2>1 DEF IInv, TypeOK, Labels
<1>15. Distinct(queue)' /\ Places'
  <2> QED BY <1>0, <1>1, <1>4, <1>8, <1>9, <1>12, <1>13 DEF IInv, Distinct, Places, IsCurrent
<1>16. Amounts' /\ CounterEndsAtWrite'
  BY <1>1, <1>5, <1>12, AmountsFrame DEF CounterEndsAtWrite
<1>17. XoffSlot'
  BY <1>0, <1>1, <1>5, <1>8, XoffFacts, XoffFrame
<1>18. ImmediateSlot' /\ Accounts'
  BY <1>0, <1>1, <1>5, <1>8, <1>9, <1>11, ImmediateFacts, ImmediateFrame, AccountsFrame
<1>19. WriteSlot'
  <2>1. Holds(current, "write", writeLength > 0, "CompleteWrite")'
    BY <1>1, <1>5, <1>8 DEF Holds, TimeoutDpc
  <2>2. left = {} => Working(w)'
    BY <1>10 DEF Working
  <2> QED BY <1>1, <1>8, <1>13, <2>1, <2>2 DEF IInv, WriteSlot
<1>20. Writer'
  <2>1. CASE left # {}
    BY <1>7, <1>10, <2>1, PcStaysFacts, WriterStaysFacts DEF Writer
  <2>2. CASE left = {}
    <3>1. \A v \in Workers : Working(v)' <=> v = w
      BY <1>7, <1>10, <2>2 DEF Working
    <3>2. /\ current' # None /\ writeLength' = 0 /\ refs'[current'] = {} /\ ~HandedOver'
          /\ status'[current'] = newStatus /\ newStatus \notin {"none", "pending"}
      BY <1>1, <1>4, <1>5, <1>8, <1>9, <1>13, <2>2
    <3>3. current' \notin Flushes
      BY <1>0, <1>1, <1>4 DEF IInv, Places
    <3>4. current' \in Writes => Told(current)'
      BY <1>1, <1>4, <1>6, <1>9, <2>2 DEF Told
    <3> QED BY <1>10, <2>2, <3>1, <3>2, <3>3, <3>4 DEF Writer
  <2> QED BY <2>1, <2>2
<1>21. Sending'
  <2>1. writeLength' = 0 /\ LengthOf(current)' = LengthOf(current)
    BY <1>1, <1>5 DEF LengthOf
  <2>2. "CompleteWrite" \in dpcs' => "CompleteWrite" \in dpcs
    BY <1>5
  <2>3. "CompleteImmediate" \in dpcs' <=> "CompleteImmediate" \in dpcs
    BY <1>5
  <2>4. current \in Writes /\ left # {} => info'[current] = sent[current]
    BY <1>6, <1>9
  <2>5. ASSUME NEW i \in Irps, i = current
        PROVE  SendingOf(i)'
    <3>1. SendingOf(i)
      BY DEF IInv, Sending
    <3> QED BY <1>0, <1>1, <1>8, <1>9, <1>12, <2>1, <2>2, <2>4, <2>5, <3>1, Names DEF SendingOf
  <2>6. ASSUME NEW i \in Irps, i # current
        PROVE  SendingOf(i)'
    BY <1>1, <1>8, <1>9, <1>12, <2>3, <2>6, SendingFrame
  <2> QED BY <2>5, <2>6 DEF Sending
<1> QED BY <1>14, <1>15, <1>16, <1>17, <1>18, <1>19, <1>20, <1>21 DEF IInv

-----------------------------------------------------------------------------
(* The xoff counter loses a reference.                                     *)

XoffEnds(ref, grab, timers, newStatus) ==
  \/ /\ ref = "ISR" /\ grab = FALSE /\ timers = {"xoff"} /\ newStatus = "success"
     /\ "CompleteXoff" \in dpcs /\ dpcs' = dpcs \ {"CompleteXoff"}
  \/ /\ ref = "TOTAL" /\ grab = TRUE /\ timers = {} /\ newStatus = "countertimeout"
     /\ "TimeoutXoff" \in dpcs /\ dpcs' = dpcs \ {"TimeoutXoff"}
  \/ /\ ref = "CANCEL" /\ grab = TRUE /\ timers = {"xoff"} /\ newStatus = "cancelled"
     /\ routine[xoff] = "xoff" /\ dpcs' = dpcs
  \/ /\ ref = "XOFF" /\ grab = TRUE /\ timers = {"xoff"} /\ newStatus = "morewrites"
     /\ dpcs' = dpcs

LEMMA TryXoffStep ==
  ASSUME IInv, PcStays, xoff # None, cancelled' \subseteq Irps,
         NEW ref, NEW grab, NEW timers, NEW newStatus, NEW newInfo \in Nat,
         XoffEnds(ref, grab, timers, newStatus),
         TryXoff(ref, grab, timers, newStatus, newInfo)
  PROVE  IInv'
<1> DEFINE taken == grab /\ countSinceXoff > 0
           left  == Left(xoff, ref, taken, timers)
<1>0. /\ xoff \in Xoffs /\ xoff \in Irps /\ ~Queued(xoff) /\ xoff \in arrived
      /\ completions[xoff] = 0 /\ xoff # immediate /\ xoff \notin dropped
      /\ routine[xoff] \in {"null", "xoff"} /\ (xoff = current => HandedOver)
      /\ xoff \notin Writes /\ xoff \notin Flushes /\ xoff \notin Immediates
  BY XoffFacts, Names
<1>1. /\ refs' = [refs EXCEPT ![xoff] = left]
      /\ routine' = [routine EXCEPT ![xoff] = "null"]
      /\ armed' = armed \ timers
      /\ countSinceXoff' = IF taken THEN 0 ELSE countSinceXoff
      /\ UNCHANGED <<queue, current, immediate, writeLength, transmitImmediate,
                     arrived, amount, sent, received, dropped, forgotten,
                     totalChars, completeCurrent>>
  BY DEF TryXoff, Rundown, TryLeaves
<1>2. \/ /\ left = {} /\ xoff' = None /\ Complete(xoff)
         /\ status' = [status EXCEPT ![xoff] = newStatus]
         /\ info' = [info EXCEPT ![xoff] = IF newStatus = "cancelled" THEN 0 ELSE newInfo]
      \/ /\ left # {} /\ UNCHANGED <<xoff, completions, status>>
         /\ info' = [info EXCEPT ![xoff] = newInfo]
  BY DEF TryXoff, Rundown, LastReference
<1>3. /\ "ISR" \in refs[xoff] <=> (countSinceXoff > 0 \/ "CompleteXoff" \in dpcs)
      /\ ~(countSinceXoff > 0 /\ "CompleteXoff" \in dpcs)
      /\ "TOTAL" \in refs[xoff] <=> ("xoff" \in armed \/ "TimeoutXoff" \in dpcs)
      /\ ~("xoff" \in armed /\ "TimeoutXoff" \in dpcs)
      /\ "CANCEL" \in refs[xoff] <=> routine[xoff] = "xoff"
      /\ refs[xoff] \in SUBSET Refs /\ countSinceXoff \in Nat /\ grab \in BOOLEAN
  BY <1>0 DEF IInv, TypeOK, XoffSlot, Holds, TimeoutDpc, XoffEnds
<1>4. newStatus \in {"success", "countertimeout", "morewrites", "cancelled"}
  BY DEF XoffEnds
<1>5. /\ left \in SUBSET Refs /\ "CANCEL" \notin left
      /\ "ISR" \in left <=> "CompleteXoff" \in dpcs'
      /\ "TOTAL" \in left <=> "TimeoutXoff" \in dpcs'
      /\ countSinceXoff' = 0 /\ armed' = armed \ {"xoff"}
      /\ dpcs' \subseteq dpcs /\ dpcs \subseteq dpcs' \union {"CompleteXoff", "TimeoutXoff"}
  <2>1. left = refs[xoff] \ ({ref} \union (IF taken THEN {"ISR"} ELSE {})
                   \union (IF routine[xoff] # "null" THEN {"CANCEL"} ELSE {})
                   \union (IF timers \intersect armed # {} THEN {"TOTAL"} ELSE {}))
    BY DEF Left
  <2> HIDE DEF left
  <2>2. CASE ref = "ISR" /\ grab = FALSE /\ timers = {"xoff"} /\ "CompleteXoff" \in dpcs
             /\ dpcs' = dpcs \ {"CompleteXoff"}
    BY <1>0, <1>1, <1>3, <2>1, <2>2
  <2>3. CASE ref = "TOTAL" /\ grab = TRUE /\ timers = {} /\ "TimeoutXoff" \in dpcs
             /\ dpcs' = dpcs \ {"TimeoutXoff"}
    BY <1>0, <1>1, <1>3, <2>1, <2>3
  <2>4. CASE ref \in {"CANCEL", "XOFF"} /\ grab = TRUE /\ timers = {"xoff"} /\ dpcs' = dpcs
    BY <1>0, <1>1, <1>3, <2>1, <2>4
  <2> QED BY <2>2, <2>3, <2>4 DEF XoffEnds
<1> HIDE DEF taken, left
<1>6. /\ refs' \in [Irps -> SUBSET Refs] /\ refs'[xoff] = left
      /\ routine' \in [Irps -> {"null", "queued"} \union Slots] /\ routine'[xoff] = "null"
      /\ \A j \in Irps : j # xoff => refs'[j] = refs[j] /\ routine'[j] = routine[j]
  BY <1>0, <1>1, <1>5 DEF IInv, TypeOK
<1>7. /\ status' \in [Irps -> {"none", "pending", "success", "timeout", "cancelled",
                               "countertimeout", "morewrites", "invalid"}]
      /\ info' \in [Irps -> Nat] /\ completions' \in [Irps -> Nat]
      /\ \A j \in Irps : j # xoff =>
           status'[j] = status[j] /\ info'[j] = info[j] /\ completions'[j] = completions[j]
      /\ left = {} => /\ status'[xoff] = newStatus /\ completions'[xoff] = 1
                      /\ xoff' = None
      /\ left # {} => completions'[xoff] = 0 /\ xoff' = xoff /\ status'[xoff] = status[xoff]
  <2>0. /\ status \in [Irps -> {"none", "pending", "success", "timeout", "cancelled",
                                "countertimeout", "morewrites", "invalid"}]
        /\ info \in [Irps -> Nat] /\ completions \in [Irps -> Nat]
    BY DEF IInv, TypeOK
  <2>1. CASE left = {}
    <3>1. completions' = [completions EXCEPT ![xoff] = 1]
      BY <1>0, <1>2, <2>1 DEF Complete
    <3> QED BY <1>0, <1>2, <1>4, <2>0, <2>1, <3>1
  <2>2. CASE left # {}
    BY <1>0, <1>2, <2>0, <2>2
  <2> QED BY <2>1, <2>2
<1>8. /\ \A j \in Irps : Queued(j)' <=> Queued(j)
      /\ \A j \in Irps : j # xoff => (Open(j)' <=> Open(j))
      /\ Open(xoff)
      /\ HandedOver' <=> HandedOver
  BY <1>0, <1>1, <1>7 DEF Queued, Open, HandedOver
<1>9. TypeOK'
  <2>1. /\ armed' \subseteq Slots /\ dpcs' \subseteq Dpcs /\ countSinceXoff' \in Nat
        /\ xoff' \in Xoffs \union {None}
    BY <1>0, <1>5, <1>7 DEF IInv, TypeOK
  <2> QED BY <1>1, <1>6, <1>7, <2>1 DEF IInv, TypeOK, PcStays, Labels
<1>10. Distinct(queue)' /\ Places'
  <2>1. CASE left = {}
    <3>1. \A j \in Irps : j = xoff => ~Open(j)'
      BY <1>7, <2>1 DEF Open
    <3> QED BY <1>0, <1>1, <1>4, <1>6, <1>7, <1>8, <2>1, <3>1, Names
            DEF IInv, Distinct, Places, IsCurrent
  <2>2. CASE left # {}
    <3>1. \A j \in Irps : j = xoff => Open(j)'
      BY <1>0, <1>1, <1>7, <2>2 DEF Open
    <3> QED BY <1>0, <1>1, <1>6, <1>7, <1>8, <2>2, <3>1 DEF IInv, Distinct, Places, IsCurrent
  <2> QED BY <2>1, <2>2
<1>11. Amounts' /\ CounterEndsAtWrite'
  BY <1>1, <1>5, <1>8, AmountsFrame DEF CounterEndsAtWrite
<1>12. WriteSlot' /\ Writer'
  <2>1. HandedOver => \/ completions'[current] = 1
                      \/ xoff' = xoff /\ completions'[current] = completions[current]
    <3>1. HandedOver => current # None /\ (current = xoff \/ completions[current] = 1)
      BY DEF IInv, WriteSlot, HandedOver
    <3> QED BY <1>0, <1>7, <3>1, CurrentFacts
  <2> QED BY <1>0, <1>1, <1>5, <1>6, <1>7, <2>1, CurrentFacts, PcStaysFacts, WriteFrame
<1>13. ImmediateSlot' /\ Accounts'
  BY <1>0, <1>1, <1>5, <1>6, <1>7, PcStaysFacts, ImmediateFacts, ImmediateFrame, AccountsFrame
<1>14. XoffSlot'
  BY <1>1, <1>5, <1>6, <1>7 DEF XoffSlot, Idle, Holds, TimeoutDpc
<1>15. Sending'
  <2>1. ASSUME NEW i \in Irps, i # xoff
        PROVE  SendingOf(i)'
    BY <1>1, <1>5, <1>6, <1>7, <1>8, <2>1, SendingFrame
  <2>2. ASSUME NEW i \in Irps, i = xoff
        PROVE  SendingOf(i)'
    <3>1. i = current => ~(writeLength > 0)
      BY <1>0, <2>2 DEF IInv, WriteSlot, Idle, TypeOK
    <3>2. SendingOf(i)
      BY DEF IInv, Sending
    <3> QED BY <1>0, <1>1, <1>8, <2>2, <3>1, <3>2 DEF SendingOf
  <2> QED BY <2>1, <2>2 DEF Sending
<1> QED BY <1>9, <1>10, <1>11, <1>12, <1>13, <1>14, <1>15 DEF IInv

-----------------------------------------------------------------------------
(* The immediate character loses a reference.                              *)

ImmediateEnds(ref, grab, newStatus) ==
  \/ /\ ref = "ISR" /\ grab = FALSE /\ newStatus = "success"
     /\ "CompleteImmediate" \in dpcs /\ dpcs' = dpcs \ {"CompleteImmediate"}
  \/ /\ ref = "TOTAL" /\ grab = TRUE /\ newStatus = "timeout"
     /\ "TimeoutImmediate" \in dpcs /\ dpcs' = dpcs \ {"TimeoutImmediate"}
  \/ /\ ref = "CANCEL" /\ grab = TRUE /\ newStatus = "cancelled"
     /\ routine[immediate] = "immediate" /\ dpcs' = dpcs

LEMMA TryImmediateStep ==
  ASSUME IInv, NEW w \in Workers, pc[w] \in Quiet, immediate # None,
         NEW ref, NEW grab, NEW newStatus, ImmediateEnds(ref, grab, newStatus),
         TryImmediate(w, ref, grab, newStatus), cancelled' \subseteq Irps
  PROVE  IInv'
<1> DEFINE taken == grab /\ transmitImmediate
           left  == Left(immediate, ref, taken, {"immediate"})
<1>0. /\ immediate \in Immediates /\ immediate \in Irps /\ ~Queued(immediate)
      /\ immediate \in arrived /\ completions[immediate] = 0
      /\ immediate # xoff /\ immediate # current
      /\ routine[immediate] \in {"null", "immediate"}
      /\ immediate \notin Writes /\ immediate \notin Flushes
  BY ImmediateFacts, Names
<1>1. /\ refs' = [refs EXCEPT ![immediate] = left]
      /\ routine' = [routine EXCEPT ![immediate] = "null"]
      /\ armed' = armed \ {"immediate"}
      /\ transmitImmediate' = (transmitImmediate /\ ~taken)
      /\ UNCHANGED <<queue, current, xoff, immediate, completions, writeLength,
                     countSinceXoff, arrived, amount, sent, received, dropped, forgotten,
                     totalChars, completeCurrent>>
  BY DEF TryImmediate, Rundown, slotVars, TryLeaves
<1>2. \/ /\ left = {} /\ pc' = [pc EXCEPT ![w] = "getimmediate"] /\ aborting' = aborting
         /\ status' = [status EXCEPT ![immediate] = newStatus]
         /\ info' = [info EXCEPT ![immediate] =
                       IF newStatus = "cancelled" THEN 0 ELSE info[immediate]]
      \/ /\ left # {} /\ Leave(w) /\ status' = status
         /\ info' = [info EXCEPT ![immediate] = info[immediate]]
  BY DEF TryImmediate, Rundown, LastReference, Goto
<1>3. /\ "ISR" \in refs[immediate] <=> (transmitImmediate \/ "CompleteImmediate" \in dpcs)
      /\ ~(transmitImmediate /\ "CompleteImmediate" \in dpcs)
      /\ "TOTAL" \in refs[immediate] <=> ("immediate" \in armed \/ "TimeoutImmediate" \in dpcs)
      /\ ~("immediate" \in armed /\ "TimeoutImmediate" \in dpcs)
      /\ "CANCEL" \in refs[immediate] <=> routine[immediate] = "immediate"
      /\ refs[immediate] \in SUBSET Refs /\ transmitImmediate \in BOOLEAN /\ grab \in BOOLEAN
  BY <1>0 DEF IInv, TypeOK, ImmediateSlot, Holds, TimeoutDpc, ImmediateEnds
<1>4. refs[immediate] # {} /\ newStatus \in {"success", "timeout", "cancelled"}
  BY <1>3 DEF ImmediateEnds
<1>5. /\ left \in SUBSET Refs /\ "CANCEL" \notin left
      /\ "ISR" \in left <=> "CompleteImmediate" \in dpcs'
      /\ "TOTAL" \in left <=> "TimeoutImmediate" \in dpcs'
      /\ transmitImmediate' = FALSE
      /\ dpcs' \subseteq dpcs
      /\ dpcs \subseteq dpcs' \union {"CompleteImmediate", "TimeoutImmediate"}
  <2>1. left = refs[immediate] \ ({ref} \union (IF taken THEN {"ISR"} ELSE {})
                   \union (IF routine[immediate] # "null" THEN {"CANCEL"} ELSE {})
                   \union (IF "immediate" \in armed THEN {"TOTAL"} ELSE {}))
    BY DEF Left
  <2> HIDE DEF left
  <2>2. CASE ref = "ISR" /\ grab = FALSE /\ "CompleteImmediate" \in dpcs
             /\ dpcs' = dpcs \ {"CompleteImmediate"}
    BY <1>0, <1>1, <1>3, <2>1, <2>2
  <2>3. CASE ref = "TOTAL" /\ grab = TRUE /\ "TimeoutImmediate" \in dpcs
             /\ dpcs' = dpcs \ {"TimeoutImmediate"}
    BY <1>0, <1>1, <1>3, <2>1, <2>3
  <2>4. CASE ref = "CANCEL" /\ grab = TRUE /\ routine[immediate] = "immediate" /\ dpcs' = dpcs
    BY <1>0, <1>1, <1>3, <2>1, <2>4
  <2> QED BY <2>2, <2>3, <2>4 DEF ImmediateEnds
<1>6. newStatus = "success" => sent[immediate] = 1
  <2>1. newStatus = "success" => "CompleteImmediate" \in dpcs
    BY DEF ImmediateEnds
  <2> QED BY <1>0, <2>1 DEF IInv, Sending, SendingOf
<1>7. \A v \in Workers : ~AtImmediate(v)
  BY <1>4 DEF IInv, ImmediateSlot
<1> HIDE DEF taken, left
<1>8. /\ refs' \in [Irps -> SUBSET Refs] /\ refs'[immediate] = left
      /\ routine' \in [Irps -> {"null", "queued"} \union Slots]
      /\ routine'[immediate] = "null"
      /\ \A j \in Irps : j # immediate => refs'[j] = refs[j] /\ routine'[j] = routine[j]
  BY <1>0, <1>1, <1>5 DEF IInv, TypeOK
<1>9. /\ status' \in [Irps -> {"none", "pending", "success", "timeout", "cancelled",
                               "countertimeout", "morewrites", "invalid"}]
      /\ info' \in [Irps -> Nat]
      /\ \A j \in Irps : j # immediate => status'[j] = status[j] /\ info'[j] = info[j]
      /\ left = {} => status'[immediate] = newStatus
  BY <1>0, <1>2, <1>4 DEF IInv, TypeOK
<1>10. /\ left = {} => /\ pc' \in [Workers -> Labels] /\ aborting' \subseteq Workers
                       /\ \A v \in Workers : v # w => pc'[v] = pc[v]
                       /\ pc'[w] = "getimmediate"
       /\ left # {} => PcStays
  <2>1. pc \in [Workers -> Labels] /\ aborting \subseteq Workers
    BY DEF IInv, TypeOK, Labels
  <2> QED BY <1>2, <2>1, Staying DEF Labels
<1>11. \A j \in Irps : (Queued(j)' <=> Queued(j)) /\ (Open(j)' <=> Open(j))
  BY <1>1 DEF Queued, Open
<1>12. HandedOver' <=> HandedOver
  BY <1>1 DEF HandedOver
<1>13. TypeOK'
  <2>1. /\ armed' \subseteq Slots /\ dpcs' \subseteq Dpcs /\ transmitImmediate' \in BOOLEAN
        /\ pc' \in [Workers -> Labels] /\ aborting' \subseteq Workers
    BY <1>1, <1>5, <1>10 DEF IInv, TypeOK, PcStays
  <2> QED BY <1>1, <1>8, <1>9, <2>1 DEF IInv, TypeOK, Labels
<1>14. Distinct(queue)' /\ Places'
  BY <1>0, <1>1, <1>4, <1>8, <1>9, <1>11, <1>12 DEF IInv, Distinct, Places, IsCurrent
<1>15. Amounts' /\ CounterEndsAtWrite'
  BY <1>1, <1>5, <1>11, AmountsFrame DEF IInv, CounterEndsAtWrite
<1>16. XoffSlot'
  BY <1>0, <1>1, <1>5, <1>8, XoffFacts, XoffFrame
<1>17. WriteSlot' /\ Writer' /\ Accounts'
  <2>1. /\ WriterStays
        /\ \A v \in Workers : pc'[v] = "discounted" <=> pc[v] = "discounted"
    <3>1. CASE left # {}
      BY <1>10, <3>1, PcStaysFacts
    <3>2. CASE left = {}
      BY <1>10, <3>2 DEF WriterStays, Working, Quiet
    <3> QED BY <3>1, <3>2
  <2>2. WriteSlot' /\ Writer'
    BY <1>0, <1>1, <1>5, <1>8, <1>9, <2>1, CurrentFacts, WriteFrame
  <2> QED BY <1>1, <2>1, <2>2, AccountsFrame
<1>18. ImmediateSlot'
  <2>1. Holds(immediate, "immediate", transmitImmediate, "CompleteImmediate")'
    BY <1>1, <1>5, <1>8 DEF Holds, TimeoutDpc
  <2>2. CASE left = {}
    <3>1. \A v \in Workers : AtImmediate(v)' <=> v = w
      BY <1>7, <1>10, <2>2 DEF AtImmediate
    <3> QED BY <1>1, <1>4, <1>5, <1>6, <1>8, <1>9, <1>10, <2>1, <2>2, <3>1 DEF ImmediateSlot
  <2>3. CASE left # {}
    <3>1. \A v \in Workers : ~AtImmediate(v)'
      BY <1>7, <1>10, <2>3, PcStaysFacts
    <3> QED BY <1>1, <1>8, <2>1, <2>3, <3>1 DEF ImmediateSlot
  <2> QED BY <2>2, <2>3
<1>19. Sending'
  <2>1. ASSUME NEW i \in Irps, i # immediate
        PROVE  SendingOf(i)'
    BY <1>1, <1>5, <1>8, <1>9, <1>11, <2>1, SendingFrame
  <2>2. ASSUME NEW i \in Irps, i = immediate
        PROVE  SendingOf(i)'
    <3>1. SendingOf(i)
      BY DEF IInv, Sending
    <3> QED BY <1>0, <1>1, <1>5, <1>11, <2>2, <3>1 DEF SendingOf
  <2> QED BY <2>1, <2>2 DEF Sending
<1> QED BY <1>13, <1>14, <1>15, <1>16, <1>17, <1>18, <1>19 DEF IInv

-----------------------------------------------------------------------------
(* The interrupt and the timers.                                           *)

LEMMA SendImmediateStep ==
  ASSUME IInv, SendImmediate
  PROVE  IInv'
<1>1. /\ transmitImmediate /\ transmitImmediate' = FALSE
      /\ sent' = [sent EXCEPT ![immediate] = sent[immediate] + 1]
      /\ dpcs' = dpcs \union {"CompleteImmediate"}
      /\ UNCHANGED <<queue, current, xoff, immediate, arrived, amount, status, info,
                     cancelled, routine, refs, completions, writeLength, countSinceXoff,
                     armed, pc, aborting, completeCurrent, totalChars, received, dropped,
                     forgotten>>
  BY DEF SendImmediate, InterruptLeaves, slotVars
<1>2. immediate # None
  BY <1>1 DEF IInv, ImmediateSlot, Idle
<1>3. /\ immediate \in Immediates /\ immediate \in Irps /\ ~Queued(immediate)
      /\ immediate \in arrived /\ completions[immediate] = 0
      /\ immediate # xoff /\ immediate # current
      /\ immediate \notin Writes /\ immediate \notin Flushes
      /\ sent[immediate] = 0
  BY <1>1, <1>2, ImmediateFacts, Names DEF IInv, Sending, SendingOf
<1>4. /\ sent' \in [Irps -> Nat] /\ sent'[immediate] = 1
      /\ \A j \in Irps : j # immediate => sent'[j] = sent[j]
  <2>1. sent \in [Irps -> Nat]
    BY DEF IInv, TypeOK
  <2> QED BY <1>1, <1>3, <2>1
<1>5. /\ \A j \in Irps : (Queued(j)' <=> Queued(j)) /\ (Open(j)' <=> Open(j))
      /\ HandedOver' <=> HandedOver
      /\ \A v \in Workers : ~AtImmediate(v) /\ ~AtImmediate(v)'
  BY <1>1 DEF Queued, Open, HandedOver, IInv, ImmediateSlot, AtImmediate
<1>6. PcStays
  BY <1>1 DEF IInv, TypeOK, PcStays, Labels
<1>7. TypeOK'
  <2>1. dpcs' \subseteq Dpcs
    BY <1>1 DEF IInv, TypeOK, Dpcs
  <2> QED BY <1>1, <1>4, <2>1 DEF IInv, TypeOK
<1>8. Distinct(queue)' /\ Places' /\ Amounts' /\ CounterEndsAtWrite'
  BY <1>1, <1>5, AmountsFrame DEF IInv, Distinct, Places, IsCurrent, CounterEndsAtWrite
<1>9. WriteSlot' /\ Writer'
  BY <1>1, <1>3, <1>4, <1>6, PcStaysFacts, CurrentFacts, WriteFrame
<1>10. XoffSlot' /\ Accounts'
  BY <1>1, XoffFrame, AccountsFrame
<1>11. ImmediateSlot'
  BY <1>1, <1>2, <1>5 DEF IInv, ImmediateSlot, Holds, TimeoutDpc
<1>12. Sending'
  <2>1. ASSUME NEW i \in Irps, i # immediate
        PROVE  SendingOf(i)'
    BY <1>1, <1>4, <1>5, <2>1, SendingFrame
  <2>2. ASSUME NEW i \in Irps, i = immediate
        PROVE  SendingOf(i)'
    BY <1>1, <1>3, <1>4, <1>5, <2>2 DEF SendingOf
  <2> QED BY <2>1, <2>2 DEF Sending
<1> QED BY <1>7, <1>8, <1>9, <1>10, <1>11, <1>12 DEF IInv

LEMMA SendWriteStep ==
  ASSUME IInv, SendWrite
  PROVE  IInv'
<1> DEFINE n == Smaller(TxFifoAmount, writeLength)
<1>1. /\ writeLength > 0 /\ writeLength' = writeLength - n
      /\ sent' = [sent EXCEPT ![current] = sent[current] + n]
      /\ UNCHANGED <<queue, current, xoff, immediate, arrived, amount, status,
                     cancelled, routine, refs, completions, transmitImmediate,
                     countSinceXoff, armed, pc, aborting, completeCurrent, totalChars,
                     received, dropped, forgotten>>
      /\ \/ /\ writeLength' = 0
            /\ info' = [info EXCEPT ![current] = LengthOf(current)]
            /\ dpcs' = dpcs \union {"CompleteWrite"}
         \/ writeLength' # 0 /\ UNCHANGED <<info, dpcs>>
  BY DEF SendWrite, QueueCompletion, InterruptLeaves, slotVars
<1>2. current # None /\ ~HandedOver
  BY <1>1 DEF IInv, WriteSlot, Idle
<1>3. /\ current \in QueueIrps /\ current \in Irps /\ ~Queued(current)
      /\ current \in arrived /\ completions[current] = 0 /\ current # immediate
      /\ current # xoff /\ current \notin Immediates
      /\ sent[current] + writeLength = LengthOf(current)
  BY <1>1, <1>2, CurrentFacts, Names DEF IInv, Sending, SendingOf
<1>4. /\ n \in Nat /\ n > 0 /\ n <= writeLength /\ writeLength \in Nat
      /\ sent \in [Irps -> Nat] /\ info \in [Irps -> Nat] /\ LengthOf(current) \in Nat
  <2>1. writeLength \in Nat /\ sent \in [Irps -> Nat] /\ info \in [Irps -> Nat]
    BY DEF IInv, TypeOK
  <2>2. n \in Nat /\ n > 0 /\ n <= writeLength
    BY <1>1, <2>1, WriteAssumption DEF Smaller
  <2>3. sent[current] \in Nat
    BY <1>3, <2>1
  <2> QED BY <1>3, <2>1, <2>2, <2>3
<1> HIDE DEF n
<1>5. /\ writeLength' \in Nat
      /\ sent' \in [Irps -> Nat] /\ sent'[current] = sent[current] + n
      /\ sent'[current] + writeLength' = LengthOf(current)
      /\ info' \in [Irps -> Nat] /\ (writeLength' = 0 => info'[current] = LengthOf(current))
      /\ \A j \in Irps : j # current => sent'[j] = sent[j] /\ info'[j] = info[j]
  <2>1. writeLength' \in Nat /\ sent[current] \in Nat
    BY <1>1, <1>3, <1>4
  <2>2. /\ sent' \in [Irps -> Nat] /\ sent'[current] = sent[current] + n
        /\ \A j \in Irps : j # current => sent'[j] = sent[j]
    BY <1>1, <1>3, <1>4, <2>1
  <2>3. /\ info' \in [Irps -> Nat] /\ (writeLength' = 0 => info'[current] = LengthOf(current))
        /\ \A j \in Irps : j # current => info'[j] = info[j]
    BY <1>1, <1>3, <1>4
  <2> QED BY <1>1, <1>3, <1>4, <2>1, <2>2, <2>3
<1>6. /\ \A j \in Irps : (Queued(j)' <=> Queued(j)) /\ (Open(j)' <=> Open(j))
      /\ HandedOver' <=> HandedOver
      /\ \A v \in Workers : ~Working(v) /\ ~Working(v)'
  <2>1. \A v \in Workers : ~Working(v)
    BY <1>1, <1>4 DEF IInv, Writer
  <2> QED BY <1>1, <2>1 DEF Queued, Open, HandedOver, Working
<1>7. TypeOK'
  <2>1. dpcs' \subseteq Dpcs
    BY <1>1 DEF IInv, TypeOK, Dpcs
  <2> QED BY <1>1, <1>5, <2>1 DEF IInv, TypeOK
<1>8. Distinct(queue)' /\ Places' /\ Amounts'
  BY <1>1, <1>6, AmountsFrame DEF IInv, Distinct, Places, IsCurrent
<1>9. CounterEndsAtWrite'
  BY <1>1 DEF IInv, CounterEndsAtWrite
<1>10. WriteSlot'
  <2>0. /\ Holds(current, "write", writeLength > 0, "CompleteWrite")
        /\ refs[current] = {} => \E w \in Workers : Working(w)
    BY <1>2 DEF IInv, WriteSlot
  <2>1. "CompleteWrite" \notin dpcs
    BY <1>1, <2>0 DEF Holds
  <2>2. /\ writeLength' > 0 => dpcs' = dpcs
        /\ ~(writeLength' > 0) => "CompleteWrite" \in dpcs'
        /\ "WriteTimeout" \in dpcs' <=> "WriteTimeout" \in dpcs
    BY <1>1, <1>5
  <2>3. Holds(current, "write", writeLength > 0, "CompleteWrite")'
    BY <1>1, <2>0, <2>1, <2>2 DEF Holds, TimeoutDpc
  <2> QED BY <1>1, <1>2, <1>6, <2>0, <2>3 DEF IInv, WriteSlot
<1>11. Writer'
  BY <1>6 DEF Writer
<1>12. XoffSlot' /\ ImmediateSlot' /\ Accounts'
  <2>1. \A d \in Dpcs : d # "CompleteWrite" => (d \in dpcs' <=> d \in dpcs)
    BY <1>1
  <2>2. XoffSlot' /\ Accounts'
    BY <1>1, <2>1, XoffFrame, AccountsFrame DEF Dpcs
  <2>3. immediate # None => sent'[immediate] = sent[immediate]
    BY <1>3, <1>5, ImmediateFacts
  <2> QED BY <1>1, <2>1, <2>2, <2>3, ImmediateFrame DEF Dpcs
<1>13. Sending'
  <2>1. ASSUME NEW i \in Irps, i # current
        PROVE  SendingOf(i)'
    BY <1>1, <1>5, <1>6, <2>1, SendingFrame
  <2>2. ASSUME NEW i \in Irps, i = current
        PROVE  SendingOf(i)'
    <3>1. /\ LengthOf(i)' = LengthOf(i)
          /\ i \in Writes => LengthOf(i) = amount[i]
          /\ i \in Xoffs => LengthOf(i) = 1
      BY <1>1, Names DEF LengthOf
    <3>2. /\ i \in Writes => sent'[i] <= amount'[i]
          /\ i \in Xoffs \union Immediates => sent'[i] <= 1
          /\ writeLength' = 0 /\ i \in Writes => sent'[i] = amount'[i] /\ info'[i] = sent'[i]
      BY <1>1, <1>3, <1>4, <1>5, <2>2, <3>1
    <3>3. "CompleteWrite" \in dpcs' => writeLength' = 0
      <4>1. "CompleteWrite" \notin dpcs
        BY <1>1, <1>2 DEF IInv, WriteSlot, Holds
      <4> QED BY <1>1, <4>1
    <3> QED BY <1>1, <1>3, <1>5, <1>6, <2>2, <3>1, <3>2, <3>3 DEF SendingOf
  <2> QED BY <2>1, <2>2 DEF Sending
<1> QED BY <1>7, <1>8, <1>9, <1>10, <1>11, <1>12, <1>13 DEF IInv

LEMMA CountCharStep ==
  ASSUME IInv, CountChar
  PROVE  IInv'
<1>1. /\ countSinceXoff > 0 /\ countSinceXoff' = countSinceXoff - 1
      /\ received < MaxChars /\ received' = received + 1
      /\ \/ /\ countSinceXoff' = 0
            /\ status' = [status EXCEPT ![xoff] = "success"]
            /\ info' = [info EXCEPT ![xoff] = 0]
            /\ dpcs' = dpcs \union {"CompleteXoff"}
         \/ countSinceXoff' # 0 /\ UNCHANGED <<status, info, dpcs>>
      /\ UNCHANGED <<queue, current, xoff, immediate, arrived, amount, cancelled, routine,
                     refs, completions, writeLength, transmitImmediate, armed, pc,
                     aborting, completeCurrent, totalChars, sent, dropped, forgotten>>
  BY DEF CountChar, InterruptLeaves, slotVars
<1>2. xoff # None
  BY <1>1 DEF IInv, XoffSlot, Idle
<1>3. /\ xoff \in Xoffs /\ xoff \in Irps /\ ~Queued(xoff) /\ xoff \in arrived
      /\ completions[xoff] = 0 /\ xoff # immediate /\ (xoff = current => HandedOver)
      /\ xoff \notin Writes /\ xoff \notin Immediates
  BY <1>2, XoffFacts, Names
<1>4. countSinceXoff \in Nat /\ countSinceXoff' \in Nat /\ received' \in 0 .. MaxChars
  BY <1>1, WriteAssumption DEF IInv, TypeOK
<1>5. /\ status' \in [Irps -> {"none", "pending", "success", "timeout", "cancelled",
                               "countertimeout", "morewrites", "invalid"}]
      /\ info' \in [Irps -> Nat]
      /\ \A j \in Irps : j # xoff => status'[j] = status[j] /\ info'[j] = info[j]
  BY <1>1, <1>3 DEF IInv, TypeOK
<1>6. /\ \A j \in Irps : (Queued(j)' <=> Queued(j)) /\ (Open(j)' <=> Open(j))
      /\ HandedOver' <=> HandedOver
  BY <1>1 DEF Queued, Open, HandedOver
<1>7. PcStays
  BY <1>1 DEF IInv, TypeOK, PcStays, Labels
<1>8. TypeOK'
  <2>1. dpcs' \subseteq Dpcs
    BY <1>1 DEF IInv, TypeOK, Dpcs
  <2> QED BY <1>1, <1>4, <1>5, <2>1 DEF IInv, TypeOK
<1>9. Distinct(queue)' /\ Places' /\ Amounts' /\ CounterEndsAtWrite'
  <2>1. Distinct(queue)' /\ Amounts' /\ CounterEndsAtWrite'
    BY <1>1, <1>6, AmountsFrame DEF IInv, Distinct, CounterEndsAtWrite
  <2>2. \A j \in Irps : j = xoff => completions'[j] = 0
    BY <1>1, <1>3
  <2>3. Places'
    BY <1>1, <1>5, <1>6, <2>2 DEF IInv, Places, IsCurrent
  <2> QED BY <2>1, <2>3
<1>10. WriteSlot' /\ Writer'
  <2>1. countSinceXoff = 0 => countSinceXoff' = 0
    BY <1>1
  <2>2. current # None /\ ~HandedOver => current # xoff
    BY <1>3
  <2> QED BY <1>1, <1>3, <1>5, <1>7, <2>1, <2>2, CurrentFacts, PcStaysFacts, WriteFrame
<1>11. XoffSlot'
  <2>0. Holds(xoff, "xoff", countSinceXoff > 0, "CompleteXoff") /\ refs[xoff] # {}
    BY <1>2 DEF IInv, XoffSlot
  <2>1. "CompleteXoff" \notin dpcs
    BY <1>1, <2>0 DEF Holds
  <2>2. /\ countSinceXoff' > 0 => dpcs' = dpcs
        /\ ~(countSinceXoff' > 0) => "CompleteXoff" \in dpcs'
        /\ "TimeoutXoff" \in dpcs' <=> "TimeoutXoff" \in dpcs
    BY <1>1, <1>4
  <2>3. Holds(xoff, "xoff", countSinceXoff > 0, "CompleteXoff")'
    BY <1>1, <2>0, <2>1, <2>2 DEF Holds, TimeoutDpc
  <2> QED BY <1>1, <1>2, <2>0, <2>3 DEF XoffSlot
<1>12. ImmediateSlot' /\ Accounts'
  BY <1>1, <1>3, <1>5, ImmediateFacts, ImmediateFrame, AccountsFrame
<1>13. Sending'
  <2>1. ASSUME NEW i \in Irps, i # xoff
        PROVE  SendingOf(i)'
    BY <1>1, <1>5, <1>6, <2>1, SendingFrame
  <2>2. ASSUME NEW i \in Irps, i = xoff
        PROVE  SendingOf(i)'
    <3>1. i = current => ~(writeLength > 0)
      BY <1>3, <2>2 DEF IInv, WriteSlot, Idle
    <3>2. SendingOf(i)
      BY DEF IInv, Sending
    <3> QED BY <1>1, <1>3, <1>6, <2>2, <3>1, <3>2 DEF SendingOf
  <2> QED BY <2>1, <2>2 DEF Sending
<1> QED BY <1>8, <1>9, <1>10, <1>11, <1>12, <1>13 DEF IInv

LEMMA TimerExpiresStep ==
  ASSUME IInv, NEW s \in Slots, TimerExpires(s)
  PROVE  IInv'
<1>1. /\ s \in armed /\ armed' = armed \ {s} /\ dpcs' = dpcs \union {TimeoutDpc[s]}
      /\ UNCHANGED <<queue, current, xoff, immediate, arrived, amount, status, info,
                     cancelled, routine, refs, completions, writeLength, transmitImmediate,
                     countSinceXoff, pc, aborting, completeCurrent, totalChars, sent,
                     received, dropped, forgotten>>
  BY DEF TimerExpires, slotVars, irpVars, isrVars
<1>2. /\ \A j \in Irps : (Queued(j)' <=> Queued(j)) /\ (Open(j)' <=> Open(j))
      /\ HandedOver' <=> HandedOver
      /\ \A v \in Workers : /\ Working(v)' <=> Working(v)
                            /\ AtImmediate(v)' <=> AtImmediate(v)
  BY <1>1 DEF Queued, Open, HandedOver, Working, AtImmediate
<1>3. /\ \A t \in {"write", "xoff", "immediate"} : t # s =>
           /\ t \in armed' <=> t \in armed
           /\ TimeoutDpc[t] \in dpcs' <=> TimeoutDpc[t] \in dpcs
      /\ s \notin armed' /\ TimeoutDpc[s] \in dpcs' /\ TimeoutDpc[s] \in Dpcs
      /\ \A d \in {"CompleteWrite", "CompleteXoff", "CompleteImmediate"} :
           d \in dpcs' <=> d \in dpcs
  BY <1>1 DEF TimeoutDpc, Slots, Dpcs
<1>4. TypeOK'
  <2>1. armed' \subseteq Slots /\ dpcs' \subseteq Dpcs
    BY <1>1, <1>3 DEF IInv, TypeOK
  <2> QED BY <1>1, <2>1 DEF IInv, TypeOK
<1>5. Distinct(queue)' /\ Places' /\ Amounts' /\ CounterEndsAtWrite' /\ Accounts'
  BY <1>1, <1>2, AmountsFrame, AccountsFrame
  DEF IInv, Distinct, Places, IsCurrent, CounterEndsAtWrite
<1>6. WriteSlot'
  <2>1. CASE current = None \/ HandedOver
    <3>1. s # "write"
      BY <1>1, <2>1 DEF IInv, WriteSlot, Idle
    <3> QED BY <1>1, <1>2, <1>3, <2>1, <3>1 DEF IInv, WriteSlot, Idle
  <2>2. CASE current # None /\ ~HandedOver
    <3>1. /\ Holds(current, "write", writeLength > 0, "CompleteWrite")
          /\ refs[current] = {} => \E w \in Workers : Working(w)
      BY <2>2 DEF IInv, WriteSlot
    <3>2. Holds(current, "write", writeLength > 0, "CompleteWrite")'
      BY <1>1, <1>3, <3>1 DEF Holds
    <3> QED BY <1>1, <1>2, <2>2, <3>1, <3>2 DEF IInv, WriteSlot
  <2> QED BY <2>1, <2>2
<1>7. Writer'
  BY <1>1, <1>2 DEF IInv, Writer, Told
<1>8. XoffSlot'
  <2>1. CASE xoff = None
    BY <1>1, <1>3, <2>1 DEF IInv, XoffSlot, Idle
  <2>2. CASE xoff # None
    <3>1. Holds(xoff, "xoff", countSinceXoff > 0, "CompleteXoff") /\ refs[xoff] # {}
      BY <2>2 DEF IInv, XoffSlot
    <3>2. Holds(xoff, "xoff", countSinceXoff > 0, "CompleteXoff")'
      BY <1>1, <1>3, <3>1 DEF Holds
    <3> QED BY <1>1, <2>2, <3>1, <3>2 DEF XoffSlot
  <2> QED BY <2>1, <2>2
<1>9. ImmediateSlot'
  <2>1. CASE immediate = None
    BY <1>1, <1>2, <1>3, <2>1 DEF IInv, ImmediateSlot, Idle
  <2>2. CASE immediate # None
    <3>1. /\ Holds(immediate, "immediate", transmitImmediate, "CompleteImmediate")
          /\ refs[immediate] = {} => \E w \in Workers : AtImmediate(w)
      BY <2>2 DEF IInv, ImmediateSlot
    <3>2. Holds(immediate, "immediate", transmitImmediate, "CompleteImmediate")'
      BY <1>1, <1>3, <3>1 DEF Holds
    <3> QED BY <1>1, <1>2, <2>2, <3>1, <3>2 DEF IInv, ImmediateSlot
  <2> QED BY <2>1, <2>2
<1>10. Sending'
  <2> SUFFICES ASSUME NEW i \in Irps PROVE SendingOf(i)'
    BY DEF Sending
  <2> QED BY <1>1, <1>2, <1>3, SendingFrame
<1> QED BY <1>4, <1>5, <1>6, <1>7, <1>8, <1>9, <1>10 DEF IInv

-----------------------------------------------------------------------------
(* The starter.                                                            *)

\* The starter goes on to another place.
LEMMA StarterMoves ==
  ASSUME IInv, NEW w \in Workers, Working(w), NEW label \in Labels, Goto(w, label)
  PROVE  /\ pc' \in [Workers -> Labels] /\ aborting' \subseteq Workers
         /\ pc'[w] = label /\ \A v \in Workers : v # w => pc'[v] = pc[v] /\ ~Working(v)'
         /\ \A v \in Workers :
              label \notin {"startimmediate", "getimmediate"} =>
                /\ pc'[v] = "startimmediate" <=> pc[v] = "startimmediate"
                /\ pc'[v] = "getimmediate" <=> pc[v] = "getimmediate"
<1>1. pc \in [Workers -> Labels] /\ aborting \subseteq Workers
  BY DEF IInv, TypeOK, Labels
<1>2. /\ pc' \in [Workers -> Labels] /\ aborting' \subseteq Workers
      /\ pc'[w] = label /\ \A v \in Workers : v # w => pc'[v] = pc[v]
  BY <1>1 DEF Goto
<1>3. \A v \in Workers : v # w => ~Working(v)
  BY WorkingFacts
<1> QED BY <1>2, <1>3 DEF Working

\* The starter is done.
LEMMA StarterReturns ==
  ASSUME IInv, NEW w \in Workers, Working(w), Leave(w)
  PROVE  /\ pc' \in [Workers -> Labels] /\ aborting' \subseteq Workers
         /\ \A v \in Workers :
              /\ ~Working(v)'
              /\ pc'[v] = "startimmediate" <=> pc[v] = "startimmediate"
              /\ pc'[v] = "getimmediate" <=> pc[v] = "getimmediate"
<1>1. pc \in [Workers -> Labels] /\ aborting \subseteq Workers
  BY DEF IInv, TypeOK, Labels
<1>2. /\ pc' \in [Workers -> Labels] /\ aborting' \subseteq Workers
      /\ pc'[w] \in {"idle", "abortxoff"} /\ \A v \in Workers : v # w => pc'[v] = pc[v]
  BY <1>1 DEF Leave, Labels
<1>3. \A v \in Workers : v # w => ~Working(v)
  BY WorkingFacts
<1> QED BY <1>2, <1>3 DEF Working

LEMMA StopCounterStep ==
  ASSUME IInv, NEW w \in Workers, StopCounter(w)
  PROVE  IInv'
<1>1. pc[w] = "start" /\ Goto(w, "started") /\ Working(w)
  BY DEF StopCounter, Working
<1>2. pc' \in [Workers -> Labels] /\ aborting' \subseteq Workers
  BY <1>1, StarterMoves DEF Labels
<1>3. countSinceXoff' = 0 => PcStays
  <2>1. \A v \in Workers : pc'[v] = pc[v] \/ (pc[v] = "start" /\ pc'[v] = "started")
    BY <1>1 DEF Goto, IInv, TypeOK
  <2> QED BY <1>2, <2>1 DEF PcStays
<1>4. CASE /\ CounterRuns /\ TryXoff("XOFF", TRUE, {"xoff"}, "morewrites", 0)
           /\ UNCHANGED <<cancelled, dpcs>>
  <2>1. countSinceXoff' = 0
    BY <1>4 DEF TryXoff, IInv, TypeOK
  <2>2. XoffEnds("XOFF", TRUE, {"xoff"}, "morewrites")
    BY <1>4 DEF XoffEnds
  <2>3. xoff # None /\ cancelled' \subseteq Irps
    BY <1>4 DEF CounterRuns, IInv, TypeOK
  <2> QED BY <1>3, <1>4, <2>1, <2>2, <2>3, TryXoffStep
<1>5. CASE /\ ~CounterRuns
           /\ UNCHANGED <<slotVars, irpVars, isrVars, armed, dpcs, completeCurrent,
                          totalChars, sent, received, dropped, forgotten>>
  <2>1. countSinceXoff = 0
    BY <1>5 DEF CounterRuns, IInv, TypeOK, XoffSlot, Idle
  <2>2. cancelled' \subseteq Irps
    BY <1>5 DEF IInv, TypeOK, irpVars
  <2> QED BY <1>3, <1>5, <2>1, <2>2, MarkStep DEF irpVars, isrVars
<1> QED BY <1>4, <1>5 DEF StopCounter

LEMMA GiveWriteToIsrStep ==
  ASSUME IInv, NEW w \in Workers, GiveWriteToIsr(w)
  PROVE  IInv'
<1>1. /\ pc[w] = "started" /\ Working(w)
      /\ UNCHANGED <<queue, current, xoff, immediate, info, completions,
                     transmitImmediate, countSinceXoff, arrived, amount, cancelled, dpcs,
                     completeCurrent, totalChars, sent, received, dropped, forgotten>>
  BY DEF GiveWriteToIsr, Working, slotVars, StarterLeaves
<1>2. /\ current # None /\ writeLength = 0 /\ ~HandedOver /\ refs[current] = {}
      /\ routine[current] = "null" /\ current \notin Flushes /\ completeCurrent
      /\ sent[current] = 0 /\ info[current] = 0 /\ countSinceXoff = 0
      /\ "write" \notin armed /\ "CompleteWrite" \notin dpcs /\ "WriteTimeout" \notin dpcs
  <2>1. current \notin Flushes /\ completeCurrent /\ sent[current] = 0 /\ info[current] = 0
    BY <1>1 DEF IInv, Writer
  <2>2. countSinceXoff = 0
    BY <1>1 DEF IInv, Writer
  <2> QED BY <1>1, <2>1, <2>2, WorkingFacts DEF HandedOver
<1>3. /\ current \in QueueIrps /\ current \in Irps /\ ~Queued(current)
      /\ current \in arrived /\ completions[current] = 0 /\ current # immediate
      /\ current # xoff /\ current \notin Immediates
      /\ current \in Writes \/ current \in Xoffs
  BY <1>2, CurrentFacts, Names
<1>4. /\ \A j \in Irps : (Queued(j)' <=> Queued(j)) /\ (Open(j)' <=> Open(j))
      /\ HandedOver' <=> HandedOver
  BY <1>1 DEF Queued, Open, HandedOver
<1>5. CASE /\ status' = [status EXCEPT ![current] = "cancelled"]
           /\ refs' = [refs EXCEPT ![current] = {}]
           /\ Goto(w, "getnext") /\ UNCHANGED <<routine, armed, writeLength>>
  <2>1. /\ pc' \in [Workers -> Labels] /\ aborting' \subseteq Workers
        /\ pc'[w] = "getnext" /\ \A v \in Workers : v # w => pc'[v] = pc[v] /\ ~Working(v)'
        /\ \A v \in Workers : /\ pc'[v] = "startimmediate" <=> pc[v] = "startimmediate"
                              /\ pc'[v] = "getimmediate" <=> pc[v] = "getimmediate"
                              /\ pc'[v] = "discounted" <=> pc[v] = "discounted"
    BY <1>1, <1>5, StarterMoves DEF Labels
  <2>2. /\ refs' = refs
        /\ status' \in [Irps -> {"none", "pending", "success", "timeout", "cancelled",
                                 "countertimeout", "morewrites", "invalid"}]
        /\ status'[current] = "cancelled" /\ \A j \in Irps : j # current => status'[j] = status[j]
    BY <1>2, <1>3, <1>5 DEF IInv, TypeOK
  <2>3. TypeOK'
    BY <1>1, <1>5, <2>1, <2>2 DEF IInv, TypeOK, Labels
  <2>4. Distinct(queue)' /\ Places' /\ Amounts' /\ CounterEndsAtWrite'
    BY <1>1, <1>3, <1>4, <1>5, <2>2, AmountsFrame
    DEF IInv, Distinct, Places, IsCurrent, CounterEndsAtWrite
  <2>5. WriteSlot'
    <3>1. Working(w)'
      BY <2>1 DEF Working
    <3> QED BY <1>1, <1>2, <1>4, <1>5, <2>2, <3>1 DEF IInv, WriteSlot, Holds, TimeoutDpc
  <2>6. Writer'
    BY <1>1, <1>2, <1>4, <1>5, <2>1, <2>2 DEF Writer, Told
  <2>7. XoffSlot' /\ Accounts'
    BY <1>1, <1>5, <2>1, <2>2, XoffFrame, AccountsFrame
  <2>8. ImmediateSlot'
    BY <1>1, <1>3, <1>5, <2>1, <2>2, ImmediateFacts, ImmediateFrame
  <2>9. Sending'
    <3>1. ASSUME NEW i \in Irps, i # current
          PROVE  SendingOf(i)'
      BY <1>1, <1>4, <1>5, <2>2, <3>1, SendingFrame
    <3>2. ASSUME NEW i \in Irps, i = current
          PROVE  SendingOf(i)'
      <4>1. SendingOf(i)
        BY DEF IInv, Sending
      <4> QED BY <1>1, <1>2, <1>3, <1>4, <1>5, <2>2, <3>2, <4>1 DEF SendingOf
    <3> QED BY <3>1, <3>2 DEF Sending
  <2> QED BY <2>3, <2>4, <2>5, <2>6, <2>7, <2>8, <2>9 DEF IInv
<1>6. ASSUME NEW timers \in SUBSET {"write"},
             routine' = [routine EXCEPT ![current] = "write"],
             writeLength' = LengthOf(current), armed' = armed \union timers,
             refs' = [refs EXCEPT ![current] = {"CANCEL", "ISR"} \union
                               IF timers = {} THEN {} ELSE {"TOTAL"}],
             Leave(w), status' = status
      PROVE  IInv'
  <2>1. /\ pc' \in [Workers -> Labels] /\ aborting' \subseteq Workers
        /\ \A v \in Workers : /\ ~Working(v)'
                              /\ pc'[v] = "startimmediate" <=> pc[v] = "startimmediate"
                              /\ pc'[v] = "getimmediate" <=> pc[v] = "getimmediate"
    BY <1>1, <1>6, StarterReturns
  <2>2. \A v \in Workers : pc'[v] = "discounted" <=> pc[v] = "discounted"
    <3>1. \A v \in Workers : pc'[v] # "discounted"
      BY <2>1 DEF Working
    <3>2. \A v \in Workers : pc[v] = "discounted" => v = w
      BY <1>1, WorkingFacts DEF Working
    <3> QED BY <1>1, <3>1, <3>2
  <2>3. writeLength' \in Nat /\ writeLength' > 0 /\ LengthOf(current)' = LengthOf(current)
        /\ (current \in Writes => LengthOf(current) = amount[current])
        /\ (current \in Xoffs => LengthOf(current) = 1)
    BY <1>1, <1>3, <1>6, Names DEF IInv, TypeOK, Amounts, LengthOf
  <2>4. /\ routine' \in [Irps -> {"null", "queued"} \union Slots]
        /\ routine'[current] = "write"
        /\ refs' \in [Irps -> SUBSET Refs]
        /\ "ISR" \in refs'[current] /\ "CANCEL" \in refs'[current]
        /\ "TOTAL" \in refs'[current] <=> "write" \in armed'
        /\ \A j \in Irps : j # current => routine'[j] = routine[j] /\ refs'[j] = refs[j]
        /\ armed' \subseteq armed \union {"write"} /\ armed \subseteq armed'
    BY <1>2, <1>3, <1>6 DEF IInv, TypeOK, Slots, Refs
  <2>5. TypeOK'
    <3>1. armed' \subseteq Slots
      BY <2>4 DEF IInv, TypeOK, Slots
    <3> QED BY <1>1, <1>6, <2>1, <2>3, <2>4, <3>1 DEF IInv, TypeOK, Labels
  <2>6. Distinct(queue)' /\ Amounts' /\ CounterEndsAtWrite'
    BY <1>1, <1>2, <1>4, AmountsFrame DEF IInv, Distinct, CounterEndsAtWrite
  <2>7. Places'
    BY <1>1, <1>2, <1>3, <1>4, <1>6, <2>4 DEF IInv, Places, IsCurrent
  <2>8. WriteSlot'
    BY <1>1, <1>2, <1>4, <2>3, <2>4 DEF IInv, WriteSlot, Holds, TimeoutDpc
  <2>9. Writer'
    BY <2>1 DEF Writer
  <2>10. XoffSlot' /\ Accounts'
    BY <1>1, <1>3, <2>2, <2>4, XoffFacts, XoffFrame, AccountsFrame
  <2>11. ImmediateSlot'
    BY <1>1, <1>3, <1>6, <2>1, <2>4, ImmediateFacts, ImmediateFrame
  <2>12. Sending'
    <3>1. ASSUME NEW i \in Irps, i # current
          PROVE  SendingOf(i)'
      BY <1>1, <1>4, <1>6, <3>1, SendingFrame
    <3>2. ASSUME NEW i \in Irps, i = current
          PROVE  SendingOf(i)'
      <4>1. SendingOf(i)
        BY DEF IInv, Sending
      <4> QED BY <1>1, <1>2, <1>3, <1>4, <1>6, <2>3, <3>2, <4>1 DEF SendingOf
    <3> QED BY <3>1, <3>2 DEF Sending
  <2> QED BY <2>5, <2>6, <2>7, <2>8, <2>9, <2>10, <2>11, <2>12 DEF IInv
<1> QED BY <1>5, <1>6 DEF GiveWriteToIsr

\* The starter takes the current request off the total.
LEMMA CurrentDiscounted ==
  ASSUME IInv, NEW w \in Workers, pc[w] = "getnext", Goto(w, "discounted"),
         UNCHANGED <<queue, current, immediate, amount, forgotten>>,
         totalChars' = totalChars - CharsOf(current, amount[current])
  PROVE  Accounts' /\ totalChars' \in Nat
<1>1. Working(w) /\ current # None
  BY WorkingFacts DEF Working
<1>2. PICK i \in Irps : i = current /\ ~Queued(i) /\ i # immediate
  BY <1>1, CurrentFacts
<1>3. /\ pc'[w] = "discounted"
      /\ \A v \in Workers : pc[v] # "discounted"
  BY <1>1, StarterMoves, WorkingFacts DEF Working, Labels
<1>4. \A j \in Irps : Queued(j)' <=> Queued(j)
  BY DEF Queued
<1>5. /\ Counted(i)
      /\ \A j \in Irps : Counted(j)' <=> (Counted(j) /\ j # i)
  BY <1>2, <1>3, <1>4 DEF Counted, Discounted
<1>6. \A j \in Irps : Chars(j)' = Chars(j)
  BY DEF Chars
<1>7. amount \in [Irps -> Nat] /\ forgotten \in Nat /\ Accounts
  BY DEF IInv, TypeOK
<1>8. /\ IsFiniteSet(CharsQueued') /\ Cardinality(CharsQueued') \in Nat
      /\ Cardinality(CharsQueued) = Cardinality(CharsQueued') + CharsOf(i, amount[i])
  BY <1>5, <1>6, <1>7, CharsLeave
<1>9. CharsOf(i, amount[i]) \in Nat
  BY <1>7, CharsOfKinds
<1> QED BY <1>2, <1>7, <1>8, <1>9 DEF Accounts, TotalAccounted

LEMMA DiscountWriteStep ==
  ASSUME IInv, NEW w \in Workers, DiscountWrite(w)
  PROVE  IInv'
<1>1. /\ pc[w] = "getnext" /\ Working(w) /\ current \in Writes /\ Goto(w, "discounted")
      /\ totalChars' = totalChars - CharsOf(current, amount[current])
      /\ UNCHANGED <<queue, current, xoff, immediate, arrived, amount, status, info,
                     cancelled, routine, refs, completions, writeLength, transmitImmediate,
                     countSinceXoff, armed, dpcs, completeCurrent, sent, received, dropped,
                     forgotten>>
  BY DEF DiscountWrite, Working, slotVars, irpVars, isrVars
<1>2. Accounts' /\ totalChars' \in Nat
  BY <1>1, CurrentDiscounted
<1>3. /\ pc' \in [Workers -> Labels] /\ aborting' \subseteq Workers
      /\ pc'[w] = "discounted" /\ \A v \in Workers : v # w => pc'[v] = pc[v] /\ ~Working(v)'
      /\ \A v \in Workers : /\ pc'[v] = "startimmediate" <=> pc[v] = "startimmediate"
                            /\ pc'[v] = "getimmediate" <=> pc[v] = "getimmediate"
  BY <1>1, StarterMoves DEF Labels
<1>4. /\ \A j \in Irps : (Queued(j)' <=> Queued(j)) /\ (Open(j)' <=> Open(j))
      /\ HandedOver' <=> HandedOver
      /\ Working(w)'
  BY <1>1, <1>3 DEF Queued, Open, HandedOver, Working
<1>5. TypeOK'
  BY <1>1, <1>2, <1>3 DEF IInv, TypeOK, Labels
<1>6. Distinct(queue)' /\ Places' /\ Amounts' /\ CounterEndsAtWrite'
  BY <1>1, <1>4, AmountsFrame DEF IInv, Distinct, Places, IsCurrent, CounterEndsAtWrite
<1>7. WriteSlot'
  BY <1>1, <1>4 DEF IInv, WriteSlot, Idle, Holds
<1>8. Writer'
  <2>1. /\ current # None /\ writeLength = 0 /\ (~HandedOver => refs[current] = {})
        /\ ~HandedOver => status[current] \notin {"none", "pending"}
        /\ Told(current)
    BY <1>1 DEF IInv, Writer
  <2>2. current \notin Flushes
    BY <1>1, Names
  <2>3. Told(current)' <=> Told(current)
    BY <1>1 DEF Told
  <2> QED BY <1>1, <1>3, <1>4, <2>1, <2>2, <2>3 DEF Writer
<1>9. XoffSlot' /\ ImmediateSlot'
  BY <1>1, <1>3, XoffFrame, ImmediateFrame
<1>10. Sending'
  <2> SUFFICES ASSUME NEW i \in Irps PROVE SendingOf(i)'
    BY DEF Sending
  <2> QED BY <1>1, <1>4, SendingFrame
<1> QED BY <1>2, <1>5, <1>6, <1>7, <1>8, <1>9, <1>10 DEF IInv

\* What SerialGetNextWrite finds when the current request is an xoff counter.
LEMMA HandOverFacts ==
  ASSUME IInv, NEW w \in Workers, pc[w] = "getnext", current \in Xoffs
  PROVE  /\ Working(w) /\ current # None /\ writeLength = 0 /\ ~HandedOver
         /\ completeCurrent = TRUE
         /\ refs[current] = {} /\ routine[current] = "null"
         /\ status[current] \notin {"none", "pending"}
         /\ "write" \notin armed /\ "CompleteWrite" \notin dpcs /\ "WriteTimeout" \notin dpcs
         /\ current \in Irps /\ ~Queued(current) /\ current \in arrived
         /\ completions[current] = 0 /\ current # immediate /\ current # xoff
         /\ current \notin Writes /\ current \notin Immediates /\ current \notin Flushes
         /\ current \notin dropped /\ amount[current] \in Nat /\ amount[current] > 0
<1>1. Working(w)
  BY DEF Working
<1>2. ~HandedOver /\ (~HandedOver => status[current] \notin {"none", "pending"})
  BY <1>1 DEF IInv, Writer
<1>3. completeCurrent = TRUE
  BY <1>2 DEF HandedOver, IInv, TypeOK
<1>4. amount[current] \in Nat /\ (current \in arrived => amount[current] > 0)
  BY Names DEF IInv, TypeOK, Amounts
<1> QED BY <1>1, <1>2, <1>3, <1>4, WorkingFacts, CurrentFacts, Names

LEMMA HandOverXoffStep ==
  ASSUME IInv, NEW w \in Workers, HandOverXoff(w), SlotFree
  PROVE  IInv'
<1>1. /\ pc[w] = "getnext" /\ current \in Xoffs /\ Goto(w, "discounted")
      /\ totalChars' = totalChars - CharsOf(current, amount[current])
      /\ UNCHANGED <<queue, current, immediate, arrived, amount, info, cancelled,
                     completions, writeLength, transmitImmediate, dpcs, sent, received,
                     dropped, forgotten>>
  BY DEF HandOverXoff
<1>2. /\ Working(w) /\ current # None /\ writeLength = 0 /\ ~HandedOver
      /\ completeCurrent = TRUE
      /\ refs[current] = {} /\ routine[current] = "null"
      /\ status[current] \notin {"none", "pending"}
      /\ "write" \notin armed /\ "CompleteWrite" \notin dpcs /\ "WriteTimeout" \notin dpcs
      /\ current \in Irps /\ ~Queued(current) /\ current \in arrived
      /\ completions[current] = 0 /\ current # immediate /\ current # xoff
      /\ current \notin Writes /\ current \notin Immediates /\ current \notin Flushes
      /\ current \notin dropped /\ amount[current] \in Nat /\ amount[current] > 0
  BY <1>1, HandOverFacts
<1>3. Accounts' /\ totalChars' \in Nat
  BY <1>1, CurrentDiscounted
<1>4. /\ pc' \in [Workers -> Labels] /\ aborting' \subseteq Workers
      /\ pc'[w] = "discounted" /\ \A v \in Workers : v # w => pc'[v] = pc[v] /\ ~Working(v)'
      /\ \A v \in Workers : /\ pc'[v] = "startimmediate" <=> pc[v] = "startimmediate"
                            /\ pc'[v] = "getimmediate" <=> pc[v] = "getimmediate"
  BY <1>1, <1>2, StarterMoves DEF Labels
<1>5. /\ \A j \in Irps : (Queued(j)' <=> Queued(j)) /\ (Open(j)' <=> Open(j))
      /\ Working(w)'
  BY <1>1, <1>4 DEF Queued, Open, Working
<1>6. Distinct(queue)' /\ Amounts'
  BY <1>1, <1>5, AmountsFrame DEF IInv, Distinct
<1>7. ASSUME NEW timers \in SUBSET {"xoff"},
             routine' = [routine EXCEPT ![current] = "xoff"],
             completeCurrent' = FALSE, xoff' = current,
             countSinceXoff' = amount[current], armed' = armed \union timers,
             refs' = [refs EXCEPT ![current] = {"CANCEL", "ISR"} \union
                               IF timers = {} THEN {} ELSE {"TOTAL"}],
             status' = status
      PROVE  IInv'
  <2>1. xoff = None
    BY <1>2, <1>7 DEF SlotFree
  <2>2. /\ "xoff" \notin armed /\ "CompleteXoff" \notin dpcs /\ "TimeoutXoff" \notin dpcs
    BY <2>1 DEF IInv, XoffSlot, Idle, TimeoutDpc
  <2>3. HandedOver'
    BY <1>1, <1>7 DEF HandedOver
  <2>4. /\ routine' \in [Irps -> {"null", "queued"} \union Slots]
        /\ routine'[current] = "xoff"
        /\ refs' \in [Irps -> SUBSET Refs]
        /\ "ISR" \in refs'[current] /\ "CANCEL" \in refs'[current]
        /\ "TOTAL" \in refs'[current] <=> "xoff" \in armed'
        /\ \A j \in Irps : j # current => routine'[j] = routine[j] /\ refs'[j] = refs[j]
        /\ armed' \subseteq armed \union {"xoff"} /\ armed \subseteq armed'
    BY <1>2, <1>7, <2>2 DEF IInv, TypeOK, Slots, Refs
  <2>5. TypeOK'
    <3>1. armed' \subseteq Slots
      BY <2>4 DEF IInv, TypeOK, Slots
    <3> QED BY <1>1, <1>2, <1>3, <1>4, <1>7, <2>4, <3>1 DEF IInv, TypeOK, Labels
  <2>6. CounterEndsAtWrite'
    BY <1>1, <1>2 DEF CounterEndsAtWrite
  <2>7. Places'
    BY <1>1, <1>2, <1>5, <1>7, <2>1, <2>3, <2>4, Names DEF IInv, Places, IsCurrent
  <2>8. WriteSlot'
    BY <1>1, <1>2, <1>7, <2>3, <2>4 DEF IInv, WriteSlot, Idle, TimeoutDpc
  <2>9. Writer'
    BY <1>1, <1>2, <1>4, <1>5, <2>3 DEF Writer
  <2>10. XoffSlot'
    BY <1>1, <1>2, <1>7, <2>2, <2>4 DEF XoffSlot, Holds, TimeoutDpc
  <2>11. ImmediateSlot'
    BY <1>1, <1>2, <1>4, <1>7, <2>4, ImmediateFacts, ImmediateFrame
  <2>12. Sending'
    <3>1. ASSUME NEW i \in Irps, i # current
          PROVE  SendingOf(i)'
      BY <1>1, <1>5, <1>7, <2>4, <3>1, SendingFrame
    <3>2. ASSUME NEW i \in Irps, i = current
          PROVE  SendingOf(i)'
      <4>1. SendingOf(i)
        BY DEF IInv, Sending
      <4> QED BY <1>1, <1>2, <1>5, <3>2, <4>1 DEF SendingOf
    <3> QED BY <3>1, <3>2 DEF Sending
  <2> QED BY <1>3, <1>6, <2>5, <2>6, <2>7, <2>8, <2>9, <2>10, <2>11, <2>12 DEF IInv
<1>8. ASSUME status' = [status EXCEPT ![current] =
                            IF status[current] = "success" THEN "cancelled" ELSE status[current]],
             UNCHANGED <<routine, completeCurrent, xoff, countSinceXoff, armed, refs>>
      PROVE  IInv'
  <2>1. HandedOver' <=> HandedOver
    BY <1>1, <1>8 DEF HandedOver
  <2>2. /\ status' \in [Irps -> {"none", "pending", "success", "timeout", "cancelled",
                                 "countertimeout", "morewrites", "invalid"}]
        /\ status'[current] \notin {"none", "pending"}
        /\ \A j \in Irps : j # current => status'[j] = status[j]
    BY <1>2, <1>8 DEF IInv, TypeOK
  <2>3. TypeOK'
    BY <1>1, <1>3, <1>4, <1>8, <2>2 DEF IInv, TypeOK, Labels
  <2>4. Places' /\ CounterEndsAtWrite'
    BY <1>1, <1>2, <1>5, <1>8, <2>1, <2>2 DEF IInv, Places, IsCurrent, CounterEndsAtWrite
  <2>5. WriteSlot'
    BY <1>1, <1>5, <1>8, <2>1 DEF IInv, WriteSlot, Idle, Holds
  <2>6. Writer'
    BY <1>1, <1>2, <1>4, <1>5, <1>8, <2>1, <2>2 DEF Writer
  <2>7. XoffSlot' /\ ImmediateSlot'
    BY <1>1, <1>2, <1>4, <1>8, <2>2, XoffFrame, ImmediateFacts, ImmediateFrame
  <2>8. Sending'
    <3>1. ASSUME NEW i \in Irps, i # current
          PROVE  SendingOf(i)'
      BY <1>1, <1>5, <1>8, <2>2, <3>1, SendingFrame
    <3>2. ASSUME NEW i \in Irps, i = current
          PROVE  SendingOf(i)'
      <4>1. SendingOf(i)
        BY DEF IInv, Sending
      <4> QED BY <1>1, <1>2, <1>5, <1>8, <3>2, <4>1 DEF SendingOf
    <3> QED BY <3>1, <3>2 DEF Sending
  <2> QED BY <1>3, <1>6, <2>3, <2>4, <2>5, <2>6, <2>7, <2>8 DEF IInv
<1> QED BY <1>7, <1>8 DEF HandOverXoff

\* What SerialGetNextIrp makes of the request that was current ...
Completed ==
  /\ ~HandedOver /\ completions' = [completions EXCEPT ![current] = 1] /\ dropped' = dropped
TakenOver ==
  /\ HandedOver /\ completions' = completions /\ dropped' = dropped
Forgotten ==
  /\ current \in Flushes /\ completions' = completions /\ dropped' = dropped \union {current}

\* ... and of the queue.
NoSuccessor(w) ==
  /\ queue = <<>> /\ current' = None /\ completeCurrent' = TRUE /\ Leave(w)
  /\ UNCHANGED <<queue, routine, status>>
Successor(w) ==
  /\ queue # <<>> /\ current' = Head(queue) /\ queue' = Tail(queue)
  /\ routine' = [routine EXCEPT ![Head(queue)] = "null"]
  /\ \/ /\ Head(queue) \in Flushes
        /\ status' = [status EXCEPT ![Head(queue)] = "success"]
        /\ Goto(w, "getnext") /\ completeCurrent' = completeCurrent
     \/ /\ Head(queue) \notin Flushes /\ status' = status
        /\ completeCurrent' = TRUE /\ Goto(w, "start")

LEMMA GetNextIrpFacts ==
  ASSUME IInv, NEW w \in Workers, GetNextIrp(w)
  PROVE  /\ Working(w) /\ (pc[w] = "discounted" \/ current \in Flushes)
         /\ Completed \/ TakenOver \/ Forgotten
         /\ NoSuccessor(w) \/ Successor(w)
         /\ UNCHANGED <<xoff, immediate, arrived, amount, info, cancelled, refs,
                        writeLength, transmitImmediate, countSinceXoff, armed,
                        dpcs, totalChars, sent, received, forgotten>>
<1>1. Working(w) /\ (pc[w] = "discounted" \/ current \in Flushes)
  BY DEF GetNextIrp, Working
<1>2. current # None /\ current \in Irps /\ (~HandedOver => completions[current] = 0)
  BY <1>1, WorkingFacts, CurrentFacts
<1>4. /\ IF completeCurrent THEN Complete(current) ELSE UNCHANGED completions
      /\ dropped' = IF completeCurrent THEN dropped ELSE dropped \union ({current} \ Xoffs)
  BY DEF GetNextIrp
<1>5. Completed \/ TakenOver \/ Forgotten
  <2>1. CASE completeCurrent = TRUE
    <3>1. ~HandedOver
      BY <2>1 DEF HandedOver
    <3>2. completions' = [completions EXCEPT ![current] = 1]
      BY <1>2, <1>4, <2>1, <3>1 DEF Complete
    <3> QED BY <1>4, <2>1, <3>1, <3>2 DEF Completed
  <2>2. CASE completeCurrent = FALSE /\ current \in Xoffs
    <3>1. {current} \ Xoffs = {}
      BY <2>2
    <3> QED BY <1>4, <2>2, <3>1 DEF TakenOver, HandedOver
  <2>3. CASE completeCurrent = FALSE /\ current \in Flushes
    <3>1. {current} \ Xoffs = {current}
      BY <1>2, <2>3, Names
    <3> QED BY <1>4, <2>3, <3>1 DEF Forgotten
  <2>4. ~completeCurrent => current \in Flushes \/ current \in Xoffs
    BY <1>2, Names, CurrentFacts DEF IInv, WriteSlot
  <2>5. completeCurrent \in BOOLEAN
    BY DEF IInv, TypeOK
  <2> QED BY <2>1, <2>2, <2>3, <2>4, <2>5
<1>6. NoSuccessor(w) \/ Successor(w)
  BY DEF GetNextIrp, NoSuccessor, Successor
<1> QED BY <1>1, <1>5, <1>6 DEF GetNextIrp, isrVars

\* The one that was current is out of the queue's hands.
LEMMA OldFacts ==
  ASSUME IInv, NEW w \in Workers, Working(w), pc[w] = "discounted" \/ current \in Flushes,
         Completed \/ TakenOver \/ Forgotten, arrived' = arrived
  PROVE  /\ completions' \in [Irps -> Nat] /\ dropped' \subseteq Flushes
         /\ \A j \in Irps : j # current =>
              /\ completions'[j] = completions[j] /\ (j \in dropped' <=> j \in dropped)
              /\ Open(j)' <=> Open(j)
         /\ \A j \in Irps : j = current =>
              /\ completions'[j] \in {0, 1}
              /\ completions'[j] = 1 => j \in arrived /\ status[j] \notin {"none", "pending"}
              /\ Open(j)' <=> (j = xoff \/ j = immediate \/ j \in dropped')
              /\ routine[j] \in {"null", "xoff"} /\ (routine[j] = "xoff" => j = xoff)
              /\ refs[j] # {} => j = xoff
              /\ j \in Writes => Told(j)
<1>0. /\ current # None /\ current \in QueueIrps /\ current \in Irps /\ ~Queued(current)
      /\ current \in arrived /\ current # immediate /\ current \notin dropped
      /\ ~HandedOver => /\ completions[current] = 0 /\ current # xoff
                        /\ refs[current] = {} /\ routine[current] = "null"
  BY WorkingFacts, CurrentFacts
<1>1. completions \in [Irps -> Nat] /\ dropped \subseteq Flushes
  BY DEF IInv, TypeOK
<1>2. ~HandedOver => status[current] \notin {"none", "pending"}
  <2>1. CASE pc[w] = "discounted"
    BY <2>1 DEF IInv, Writer
  <2>2. CASE current \in Flushes
    <3>1. pc[w] \in {"getnext", "discounted"}
      BY <2>2 DEF IInv, Writer, Working
    <3> QED BY <3>1 DEF IInv, Writer
  <2> QED BY <2>1, <2>2
<1>3. current \in Writes => Told(current)
  <2>1. current \in Writes => pc[w] = "discounted"
    BY <1>0, Names
  <2> QED BY <2>1 DEF IInv, Writer
<1>4. HandedOver => /\ current \in Xoffs /\ current \notin Flushes
                    /\ (current = xoff \/ completions[current] = 1)
  BY <1>0, Names DEF IInv, WriteSlot, HandedOver
<1>5. ~HandedOver =>
        /\ Open(current) /\ routine[current] = "null" /\ refs[current] = {}
        /\ completions[current] = 0
  BY <1>0 DEF Open
<1>6. HandedOver =>
        /\ routine[current] \in {"null", "xoff"}
        /\ routine[current] = "xoff" => current = xoff
        /\ refs[current] # {} => current = xoff
        /\ Open(current) <=> (current = xoff)
        /\ completions[current] \in {0, 1}
        /\ completions[current] = 1 => status[current] \notin {"none", "pending"}
  <2> SUFFICES ASSUME HandedOver, NEW j \in Irps, j = current
               PROVE  /\ routine[j] \in {"null", "xoff"}
                      /\ routine[j] = "xoff" => j = xoff
                      /\ refs[j] # {} => j = xoff
                      /\ Open(j) <=> (j = xoff)
                      /\ completions[j] \in {0, 1}
                      /\ completions[j] = 1 => status[j] \notin {"none", "pending"}
    BY <1>0
  <2>1. routine[j] \in {"null", "queued", "write", "xoff", "immediate"}
    BY DEF IInv, TypeOK, Slots
  <2>2. ~Queued(j) /\ ~IsCurrent(j) /\ j # immediate /\ j \notin dropped
    BY <1>0 DEF IsCurrent
  <2> QED BY <2>1, <2>2 DEF IInv, Places
<1>7. ASSUME NEW j \in Irps, j # current
      PROVE  /\ completions'[j] = completions[j] /\ (j \in dropped' <=> j \in dropped)
             /\ Open(j)' <=> Open(j)
  <2>1. completions'[j] = completions[j] /\ (j \in dropped' <=> j \in dropped)
    BY <1>1, <1>7 DEF Completed, TakenOver, Forgotten
  <2> QED BY <2>1 DEF Open
<1>8. completions' \in [Irps -> Nat] /\ dropped' \subseteq Flushes
  BY <1>1 DEF Completed, TakenOver, Forgotten
<1>9. ASSUME NEW j \in Irps, j = current
      PROVE  /\ completions'[j] \in {0, 1}
             /\ completions'[j] = 1 => j \in arrived /\ status[j] \notin {"none", "pending"}
             /\ Open(j)' <=> (j = xoff \/ j = immediate \/ j \in dropped')
  <2>1. CASE Completed
    <3>1. completions'[j] = 1 /\ j # xoff /\ j # immediate /\ j \notin dropped'
      BY <1>0, <1>1, <1>9, <2>1 DEF Completed
    <3> QED BY <1>0, <1>2, <1>9, <2>1, <3>1 DEF Completed, Open
  <2>2. CASE TakenOver
    <3>1. Open(j)' <=> Open(j)
      BY <2>2 DEF TakenOver, Open
    <3> QED BY <1>0, <1>6, <1>9, <2>2, <3>1 DEF TakenOver
  <2>3. CASE Forgotten
    <3>1. ~HandedOver /\ j \in dropped'
      BY <1>4, <1>9, <2>3 DEF Forgotten
    <3>2. Open(j)'
      BY <1>0, <1>5, <1>9, <2>3, <3>1 DEF Forgotten, Open
    <3> QED BY <1>0, <1>5, <1>9, <2>3, <3>1, <3>2 DEF Forgotten
  <2> QED BY <2>1, <2>2, <2>3
<1>10. ASSUME NEW j \in Irps, j = current
       PROVE  /\ routine[j] \in {"null", "xoff"} /\ (routine[j] = "xoff" => j = xoff)
              /\ refs[j] # {} => j = xoff
              /\ j \in Writes => Told(j)
  BY <1>3, <1>5, <1>6, <1>10
<1> QED BY <1>7, <1>8, <1>9, <1>10

\* The one that is current next, if any, waited until now and has got nowhere.
LEMMA NextFacts ==
  ASSUME IInv, NEW w \in Workers, Working(w), NoSuccessor(w) \/ Successor(w)
  PROVE  /\ queue' \in Seq(QueueIrps) /\ Distinct(queue')
         /\ current' \in QueueIrps \union {None} /\ (current' = None => queue' = <<>>)
         /\ routine' \in [Irps -> {"null", "queued"} \union Slots]
         /\ status' \in [Irps -> {"none", "pending", "success", "timeout", "cancelled",
                                  "countertimeout", "morewrites", "invalid"}]
         /\ \A j \in Irps : Queued(j)' <=> Queued(j) /\ j # current'
         /\ \A j \in Irps : j # current' => routine'[j] = routine[j] /\ status'[j] = status[j]
         /\ \A j \in Irps : j = current' =>
              /\ Queued(j) /\ Open(j) /\ j # current /\ j # xoff /\ j # immediate
              /\ j \notin dropped /\ refs[j] = {} /\ sent[j] = 0 /\ info[j] = 0
              /\ routine'[j] = "null" /\ (j \in Flushes => status'[j] = "success")
         /\ completeCurrent' \in BOOLEAN /\ (~completeCurrent' => current' \in Flushes)
         /\ pc' \in [Workers -> Labels] /\ aborting' \subseteq Workers
         /\ \A v \in Workers : v # w => pc'[v] = pc[v] /\ ~Working(v)'
         /\ current' = None => pc'[w] \in {"idle", "abortxoff"}
         /\ current' \in Flushes => pc'[w] = "getnext"
         /\ current' # None /\ current' \notin Flushes =>
              pc'[w] = "start" /\ completeCurrent' = TRUE
<1>0. /\ queue \in Seq(QueueIrps) /\ Distinct(queue)
      /\ routine \in [Irps -> {"null", "queued"} \union Slots]
      /\ status \in [Irps -> {"none", "pending", "success", "timeout", "cancelled",
                              "countertimeout", "morewrites", "invalid"}]
      /\ completeCurrent \in BOOLEAN /\ pc \in [Workers -> Labels] /\ aborting \subseteq Workers
      /\ current # None /\ current \in Irps /\ ~Queued(current)
  BY WorkingFacts, CurrentFacts DEF IInv, TypeOK, Labels
<1>1. CASE NoSuccessor(w)
  <2>1. /\ queue = <<>> /\ queue' = queue /\ current' = None /\ routine' = routine
        /\ status' = status /\ completeCurrent' = TRUE /\ Leave(w)
    BY <1>1 DEF NoSuccessor
  <2>2. \A j \in Irps : ~Queued(j) /\ ~Queued(j)' /\ j # None
    BY <2>1, Names DEF Queued
  <2>3. /\ pc' \in [Workers -> Labels] /\ aborting' \subseteq Workers
        /\ \A v \in Workers : v # w => pc'[v] = pc[v] /\ ~Working(v)'
        /\ pc'[w] \in {"idle", "abortxoff"}
    BY <1>0, <2>1, WorkingFacts DEF Leave, Labels, Working
  <2>4. None \notin Flushes /\ None \in QueueIrps \union {None}
    BY Names
  <2> QED BY <1>0, <2>1, <2>2, <2>3, <2>4
<1>2. CASE Successor(w)
  <2> DEFINE next == Head(queue)
  <2>1. /\ queue # <<>> /\ current' = next /\ queue' = Tail(queue)
        /\ routine' = [routine EXCEPT ![next] = "null"]
        /\ \/ /\ next \in Flushes
              /\ status' = [status EXCEPT ![next] = "success"]
              /\ Goto(w, "getnext") /\ completeCurrent' = completeCurrent
           \/ /\ next \notin Flushes /\ status' = status
              /\ completeCurrent' = TRUE /\ Goto(w, "start")
    BY <1>2 DEF Successor
  <2>2. /\ queue' \in Seq(QueueIrps) /\ Distinct(queue')
        /\ next \in QueueIrps /\ Queued(next)
        /\ \A j \in Irps : Queued(j)' <=> (Queued(j) /\ j # next)
    BY <1>0, <2>1, Dequeued
  <2> HIDE DEF next
  <2>3. next \in Irps /\ next # None /\ next # current
    BY <1>0, <2>2, Names
  <2>4. /\ Open(next) /\ next # xoff /\ next # immediate
        /\ next \notin dropped /\ refs[next] = {} /\ sent[next] = 0 /\ info[next] = 0
    <3>1. xoff # next /\ immediate # next
      BY <2>2, <2>3, XoffFacts, ImmediateFacts
    <3>2. Open(next) /\ next \notin dropped /\ (refs[next] # {} => IsCurrent(next))
      BY <2>2, <2>3, <3>1 DEF IInv, Places
    <3>3. sent[next] = 0 /\ info[next] = 0
      BY <2>2, <2>3 DEF IInv, Sending, SendingOf
    <3> QED BY <2>3, <3>1, <3>2, <3>3 DEF IsCurrent
  <2>5. /\ routine' \in [Irps -> {"null", "queued"} \union Slots] /\ routine'[next] = "null"
        /\ \A j \in Irps : j # next => routine'[j] = routine[j]
    BY <1>0, <2>1, <2>3
  <2>6. /\ status' \in [Irps -> {"none", "pending", "success", "timeout", "cancelled",
                                 "countertimeout", "morewrites", "invalid"}]
        /\ next \in Flushes => status'[next] = "success"
        /\ \A j \in Irps : j # next => status'[j] = status[j]
    BY <1>0, <2>1, <2>3
  <2>7. /\ completeCurrent' \in BOOLEAN /\ (~completeCurrent' => current' \in Flushes)
        /\ next \notin Flushes => completeCurrent' = TRUE
    BY <1>0, <2>1
  <2>8. /\ pc' \in [Workers -> Labels] /\ aborting' \subseteq Workers
        /\ \A v \in Workers : v # w => pc'[v] = pc[v] /\ ~Working(v)'
        /\ next \in Flushes => pc'[w] = "getnext"
        /\ next \notin Flushes => pc'[w] = "start"
    BY <1>0, <2>1, WorkingFacts DEF Goto, Labels, Working
  <2> QED BY <2>1, <2>2, <2>3, <2>4, <2>5, <2>6, <2>7, <2>8
<1> QED BY <1>1, <1>2

LEMMA GetNextIrpStep ==
  ASSUME IInv, NEW w \in Workers, GetNextIrp(w)
  PROVE  IInv'
<1>0. /\ Working(w) /\ (pc[w] = "discounted" \/ current \in Flushes)
      /\ Completed \/ TakenOver \/ Forgotten
      /\ NoSuccessor(w) \/ Successor(w)
      /\ UNCHANGED <<xoff, immediate, arrived, amount, info, cancelled, refs,
                     writeLength, transmitImmediate, countSinceXoff, armed,
                     dpcs, totalChars, sent, received, forgotten>>
  BY GetNextIrpFacts
<1>1. /\ current # None /\ current \in QueueIrps /\ current \in Irps /\ ~Queued(current)
      /\ current \in arrived /\ current # immediate
      /\ writeLength = 0 /\ "write" \notin armed /\ "CompleteWrite" \notin dpcs
      /\ "WriteTimeout" \notin dpcs
  BY <1>0, WorkingFacts, CurrentFacts
<1>2. /\ completions' \in [Irps -> Nat] /\ dropped' \subseteq Flushes
      /\ \A j \in Irps : j # current =>
           /\ completions'[j] = completions[j] /\ (j \in dropped' <=> j \in dropped)
           /\ Open(j)' <=> Open(j)
      /\ \A j \in Irps : j = current =>
           /\ completions'[j] \in {0, 1}
           /\ completions'[j] = 1 => j \in arrived /\ status[j] \notin {"none", "pending"}
           /\ Open(j)' <=> (j = xoff \/ j = immediate \/ j \in dropped')
           /\ routine[j] \in {"null", "xoff"} /\ (routine[j] = "xoff" => j = xoff)
           /\ refs[j] # {} => j = xoff
           /\ j \in Writes => Told(j)
  BY <1>0, OldFacts
<1>3. /\ queue' \in Seq(QueueIrps) /\ Distinct(queue')
      /\ current' \in QueueIrps \union {None} /\ (current' = None => queue' = <<>>)
      /\ routine' \in [Irps -> {"null", "queued"} \union Slots]
      /\ status' \in [Irps -> {"none", "pending", "success", "timeout", "cancelled",
                               "countertimeout", "morewrites", "invalid"}]
      /\ \A j \in Irps : Queued(j)' <=> Queued(j) /\ j # current'
      /\ \A j \in Irps : j # current' => routine'[j] = routine[j] /\ status'[j] = status[j]
      /\ \A j \in Irps : j = current' =>
           /\ Queued(j) /\ Open(j) /\ j # current /\ j # xoff /\ j # immediate
           /\ j \notin dropped /\ refs[j] = {} /\ sent[j] = 0 /\ info[j] = 0
           /\ routine'[j] = "null" /\ (j \in Flushes => status'[j] = "success")
      /\ completeCurrent' \in BOOLEAN /\ (~completeCurrent' => current' \in Flushes)
      /\ pc' \in [Workers -> Labels] /\ aborting' \subseteq Workers
      /\ \A v \in Workers : v # w => pc'[v] = pc[v] /\ ~Working(v)'
      /\ current' = None => pc'[w] \in {"idle", "abortxoff"}
      /\ current' \in Flushes => pc'[w] = "getnext"
      /\ current' # None /\ current' \notin Flushes =>
           pc'[w] = "start" /\ completeCurrent' = TRUE
  BY <1>0, NextFacts
<1>4. ~HandedOver'
  BY <1>3, Names DEF HandedOver
<1>5. \A v \in Workers : /\ pc'[v] = "startimmediate" <=> pc[v] = "startimmediate"
                         /\ pc'[v] = "getimmediate" <=> pc[v] = "getimmediate"
                         /\ pc'[v] # "discounted"
                         /\ Working(v)' <=> (v = w /\ current' # None)
  BY <1>0, <1>3 DEF Working
<1>6. TypeOK'
  BY <1>0, <1>2, <1>3 DEF IInv, TypeOK, Labels
<1>7. Places'
  <2> SUFFICES ASSUME NEW i \in Irps
               PROVE  /\ Queued(i)' <=> (routine'[i] = "queued")
                      /\ routine'[i] = "write" => IsCurrent(i)'
                      /\ routine'[i] = "xoff" => i = xoff'
                      /\ routine'[i] = "immediate" => i = immediate'
                      /\ IsCurrent(i)' => routine'[i] \in {"null", "write"} /\ i # xoff'
                      /\ i = xoff' => routine'[i] \in {"null", "xoff"}
                      /\ i = immediate' => routine'[i] \in {"null", "immediate"}
                      /\ refs'[i] # {} =>
                           (IsCurrent(i)' \/ i = xoff' \/ i = immediate') /\ i \notin Flushes
                      /\ Open(i)' <=> (Queued(i)' \/ IsCurrent(i)' \/ i = xoff'
                                       \/ i = immediate' \/ i \in dropped')
                      /\ completions'[i] \in {0, 1}
                      /\ completions'[i] = 1 =>
                           i \in arrived' /\ status'[i] \notin {"none", "pending"}
                      /\ i \in dropped' => ~Queued(i)' /\ i # current'
    BY DEF Places
  <2>0. /\ IsCurrent(i)' <=> i = current'
        /\ Queued(i)' <=> (Queued(i) /\ i # current')
    BY <1>3, <1>4 DEF IsCurrent
  <2>1. CASE i = current'
    <3>1. /\ i # current /\ i # xoff /\ i # immediate /\ i \notin dropped' /\ refs[i] = {}
          /\ routine'[i] = "null" /\ Open(i)' /\ completions'[i] = completions[i]
          /\ completions[i] = 0
      BY <1>2, <1>3, <2>1 DEF Open
    <3> QED BY <1>0, <2>0, <2>1, <3>1
  <2>2. CASE i = current /\ i # current'
    <3>1. /\ completions'[i] \in {0, 1}
          /\ completions'[i] = 1 => i \in arrived /\ status[i] \notin {"none", "pending"}
          /\ Open(i)' <=> (i = xoff \/ i = immediate \/ i \in dropped')
          /\ routine[i] \in {"null", "xoff"} /\ (routine[i] = "xoff" => i = xoff)
          /\ refs[i] # {} => i = xoff
          /\ routine'[i] = routine[i] /\ status'[i] = status[i] /\ ~Queued(i)
      BY <1>1, <1>2, <1>3, <2>2
    <3>2. i # immediate /\ (i = xoff => i \notin Flushes)
      BY <1>1, <2>2, Names DEF IInv, TypeOK
    <3> QED BY <1>0, <2>0, <2>2, <3>1, <3>2
  <2>3. CASE i # current /\ i # current'
    <3>1. /\ completions'[i] = completions[i] /\ (i \in dropped' <=> i \in dropped)
          /\ Open(i)' <=> Open(i)
          /\ routine'[i] = routine[i] /\ status'[i] = status[i]
      BY <1>2, <1>3, <2>3
    <3>2. ~IsCurrent(i)
      BY <2>3 DEF IsCurrent
    <3> QED BY <1>0, <2>0, <2>3, <3>1, <3>2 DEF IInv, Places
  <2> QED BY <2>1, <2>2, <2>3
<1>8. Amounts' /\ CounterEndsAtWrite'
  <2>1. \A j \in Irps : Queued(j)' \/ j = current' => Queued(j) \/ j = current
    BY <1>3
  <2> QED BY <1>0, <1>1, <2>1, AmountsFrame DEF CounterEndsAtWrite
<1>9. WriteSlot'
  <2>1. CASE current' = None
    BY <1>0, <1>1, <1>3, <1>4, <2>1, Names DEF WriteSlot, Idle, TimeoutDpc
  <2>2. CASE current' # None
    <3>1. current' \in Irps /\ (current' \in Flushes => current' \notin Writes)
      BY <1>3, <2>2, Names
    <3>2. Holds(current, "write", writeLength > 0, "CompleteWrite")'
      BY <1>0, <1>1, <1>3, <3>1 DEF Holds, TimeoutDpc
    <3> QED BY <1>3, <1>4, <1>5, <2>2, <3>1, <3>2 DEF WriteSlot
  <2> QED BY <2>1, <2>2
<1>10. Writer'
  <2>1. current' # None => /\ current' \in Irps /\ refs'[current'] = {}
                           /\ sent'[current'] = 0 /\ info'[current'] = 0
                           /\ current' \in Flushes => status'[current'] = "success"
                           /\ current' \in Flushes => current' \notin Writes
    BY <1>0, <1>3, Names
  <2> QED BY <1>0, <1>1, <1>3, <1>4, <1>5, <2>1 DEF Writer
<1>11. XoffSlot' /\ ImmediateSlot'
  <2>1. /\ xoff # None => xoff # current' /\ xoff \in Irps
        /\ immediate # None => immediate # current' /\ immediate \in Irps
    BY <1>3, XoffFacts, ImmediateFacts
  <2> QED BY <1>0, <1>3, <1>5, <2>1, XoffFrame, ImmediateFrame
<1>12. Sending'
  <2>1. ASSUME NEW i \in Irps, i # current, i # current'
        PROVE  SendingOf(i)'
    BY <1>0, <1>2, <1>3, <2>1, SendingFrame
  <2>2. ASSUME NEW i \in Irps, i = current, i # current'
        PROVE  SendingOf(i)'
    <3>1. SendingOf(i) /\ ~Queued(i)' /\ i \in arrived /\ i # immediate
          /\ i \notin Immediates /\ status'[i] = status[i] /\ (i \in Writes => Told(i))
      BY <1>1, <1>2, <1>3, <2>2, Names DEF IInv, Sending
    <3>2. Told(i)' <=> Told(i)
      BY <1>0, <3>1 DEF Told
    <3> QED BY <1>0, <2>2, <3>1, <3>2 DEF SendingOf
  <2>3. ASSUME NEW i \in Irps, i = current'
        PROVE  SendingOf(i)'
    <3>1. /\ SendingOf(i) /\ sent[i] = 0 /\ info[i] = 0 /\ refs[i] = {} /\ i # immediate
          /\ completions'[i] = 0 /\ i \notin Immediates
      BY <1>2, <1>3, <2>3, Names DEF IInv, Sending, Open
    <3> QED BY <1>0, <1>1, <2>3, <3>1 DEF SendingOf
  <2> QED BY <2>1, <2>2, <2>3 DEF Sending
<1>13. Accounts'
  <2>1. ASSUME NEW j \in Irps, j \notin Flushes
        PROVE  Counted(j)' <=> Counted(j)
    <3>1. j = current => Discounted(j)
      BY <1>0, <2>1 DEF Discounted
    <3>2. ~Discounted(j)'
      BY <1>5 DEF Discounted
    <3>3. /\ Queued(j)' <=> (Queued(j) /\ j # current')
          /\ j = current' => Queued(j)
      BY <1>3
    <3> QED BY <1>0, <3>1, <3>2, <3>3 DEF Counted
  <2>2. \A j \in Irps : Chars(j)' = Chars(j)
    BY <1>0 DEF Chars
  <2>3. amount \in [Irps -> Nat] /\ amount' \in [Irps -> Nat]
    BY <1>0 DEF IInv, TypeOK
  <2>4. CharsQueued' = CharsQueued
    BY <2>1, <2>2, <2>3, CharsStay
  <2> QED BY <1>0, <2>4 DEF IInv, Accounts, TotalAccounted
<1> QED BY <1>3, <1>6, <1>7, <1>8, <1>9, <1>10, <1>11, <1>12, <1>13 DEF IInv

-----------------------------------------------------------------------------
(* The immediate character is started and completed.                       *)

LEMMA AtImmediateFacts ==
  ASSUME IInv, NEW w \in Workers, AtImmediate(w), Leave(w)
  PROVE  /\ immediate # None /\ immediate \in Irps /\ immediate \in Immediates
         /\ ~Queued(immediate) /\ immediate \in arrived /\ completions[immediate] = 0
         /\ immediate # xoff /\ immediate # current /\ immediate \notin dropped
         /\ immediate \notin Flushes /\ immediate \notin Writes /\ immediate \notin Xoffs
         /\ routine[immediate] = "null" /\ refs[immediate] = {} /\ ~transmitImmediate
         /\ "immediate" \notin armed /\ "CompleteImmediate" \notin dpcs
         /\ "TimeoutImmediate" \notin dpcs
         /\ pc' \in [Workers -> Labels] /\ aborting' \subseteq Workers
         /\ WriterStays
         /\ \A v \in Workers : ~AtImmediate(v)' /\ (pc'[v] = "discounted" <=> pc[v] = "discounted")
<1>1. /\ immediate # None /\ ~transmitImmediate /\ refs[immediate] = {}
      /\ \A v \in Workers : v # w => ~AtImmediate(v)
  BY DEF IInv, ImmediateSlot
<1>2. /\ immediate \in Immediates /\ immediate \in Irps /\ ~Queued(immediate)
      /\ immediate \in arrived /\ completions[immediate] = 0
      /\ immediate # xoff /\ immediate # current /\ immediate \notin dropped
      /\ routine[immediate] \in {"null", "immediate"}
  BY <1>1, ImmediateFacts
<1>3. Holds(immediate, "immediate", transmitImmediate, "CompleteImmediate")
  BY <1>1 DEF IInv, ImmediateSlot
<1>4. /\ "immediate" \notin armed /\ "CompleteImmediate" \notin dpcs
      /\ "TimeoutImmediate" \notin dpcs /\ routine[immediate] = "null"
  BY <1>1, <1>2, <1>3 DEF Holds, TimeoutDpc
<1>5. pc \in [Workers -> Labels] /\ aborting \subseteq Workers
  BY DEF IInv, TypeOK, Labels
<1>6. /\ pc' \in [Workers -> Labels] /\ aborting' \subseteq Workers
      /\ pc'[w] \in {"idle", "abortxoff"} /\ \A v \in Workers : v # w => pc'[v] = pc[v]
  BY <1>5 DEF Leave, Labels
<1>7. WriterStays
  BY <1>6 DEF WriterStays, Working, AtImmediate
<1>8. \A v \in Workers : ~AtImmediate(v)' /\ (pc'[v] = "discounted" <=> pc[v] = "discounted")
  BY <1>1, <1>6 DEF AtImmediate
<1> QED BY <1>1, <1>2, <1>4, <1>6, <1>7, <1>8, Names

\* The immediate character leaves its slot: it comes off the total, or never will.
LEMMA ImmediateDone ==
  ASSUME IInv, NEW w \in Workers, AtImmediate(w), Leave(w),
         immediate' = None, Complete(immediate),
         \/ totalChars' = totalChars - CharsOf(immediate, 0) /\ forgotten' = forgotten
         \/ totalChars' = totalChars /\ forgotten' = forgotten + CharsOf(immediate, 0),
         status' \in [Irps -> {"none", "pending", "success", "timeout", "cancelled",
                               "countertimeout", "morewrites", "invalid"}],
         info' \in [Irps -> Nat],
         \A j \in Irps : j # immediate => status'[j] = status[j] /\ info'[j] = info[j],
         status'[immediate] \notin {"none", "pending"},
         status'[immediate] = "success" => sent[immediate] = 1,
         UNCHANGED <<queue, current, xoff, arrived, amount, cancelled, routine, refs,
                     writeLength, transmitImmediate, countSinceXoff, armed, dpcs,
                     completeCurrent, sent, received, dropped>>
  PROVE  IInv'
<1>1. /\ immediate # None /\ immediate \in Irps /\ immediate \in Immediates
      /\ ~Queued(immediate) /\ immediate \in arrived /\ completions[immediate] = 0
      /\ immediate # xoff /\ immediate # current /\ immediate \notin dropped
      /\ immediate \notin Flushes /\ immediate \notin Writes /\ immediate \notin Xoffs
      /\ routine[immediate] = "null" /\ refs[immediate] = {} /\ ~transmitImmediate
      /\ "immediate" \notin armed /\ "CompleteImmediate" \notin dpcs
      /\ "TimeoutImmediate" \notin dpcs
      /\ pc' \in [Workers -> Labels] /\ aborting' \subseteq Workers
      /\ WriterStays
      /\ \A v \in Workers : ~AtImmediate(v)' /\ (pc'[v] = "discounted" <=> pc[v] = "discounted")
  BY AtImmediateFacts
<1>2. /\ completions' \in [Irps -> Nat] /\ completions'[immediate] = 1
      /\ \A j \in Irps : j # immediate => completions'[j] = completions[j]
  BY <1>1 DEF IInv, TypeOK, Complete
<1>3. /\ \A j \in Irps : Queued(j)' <=> Queued(j)
      /\ \A j \in Irps : j # immediate => (Open(j)' <=> Open(j))
      /\ HandedOver' <=> HandedOver
      /\ \A j \in Irps : j = immediate => ~Open(j)'
  BY <1>2 DEF Queued, Open, HandedOver
<1>4. Accounts' /\ totalChars' \in Nat /\ forgotten' \in Nat
  <2>1. Counted(immediate) /\ \A j \in Irps : Counted(j)' <=> (Counted(j) /\ j # immediate)
    <3>1. immediate' \notin Irps
      BY Names
    <3>2. \A j \in Irps : Discounted(j)' <=> Discounted(j)
      BY <1>1 DEF Discounted
    <3>3. ~Discounted(immediate)
      BY <1>1 DEF Discounted
    <3> QED BY <1>1, <1>3, <3>1, <3>2, <3>3 DEF Counted
  <2>2. \A j \in Irps : Chars(j)' = Chars(j)
    BY DEF Chars
  <2>3. /\ amount \in [Irps -> Nat] /\ totalChars \in Nat /\ forgotten \in Nat
        /\ Accounts
    BY DEF IInv, TypeOK
  <2>4. /\ IsFiniteSet(CharsQueued') /\ Cardinality(CharsQueued') \in Nat
        /\ Cardinality(CharsQueued) = Cardinality(CharsQueued') + CharsOf(immediate, amount[immediate])
    BY <1>1, <2>1, <2>2, <2>3, CharsLeave
  <2>5. CharsOf(immediate, amount[immediate]) = 1 /\ CharsOf(immediate, 0) = 1
    BY <1>1, <2>3, CharsOfKinds
  <2> QED BY <2>3, <2>4, <2>5 DEF Accounts, TotalAccounted
<1>5. TypeOK'
  BY <1>1, <1>2, <1>4 DEF IInv, TypeOK, Labels
<1>6. Distinct(queue)' /\ Amounts' /\ CounterEndsAtWrite'
  BY <1>3, AmountsFrame DEF IInv, Distinct, CounterEndsAtWrite
<1>7. Places'
  <2>1. immediate' \notin Irps
    BY Names
  <2> QED BY <1>1, <1>2, <1>3, <2>1 DEF IInv, Places, IsCurrent
<1>8. WriteSlot' /\ Writer'
  <2>1. current # None => /\ current \in Irps /\ completions'[current] = completions[current]
                          /\ status'[current] = status[current] /\ info'[current] = info[current]
    BY <1>1, <1>2, CurrentFacts
  <2>2. HandedOver => current # None
    BY Names DEF HandedOver, IInv, TypeOK
  <2> QED BY <1>1, <2>1, <2>2, WriteFrame
<1>9. XoffSlot'
  BY XoffFrame
<1>10. ImmediateSlot'
  BY <1>1 DEF ImmediateSlot, Idle, TimeoutDpc
<1>11. Sending'
  <2>1. ASSUME NEW i \in Irps, i # immediate
        PROVE  SendingOf(i)'
    <3>1. i # immediate'
      BY Names
    <3> QED BY <1>2, <1>3, <2>1, <3>1, SendingFrame
  <2>2. ASSUME NEW i \in Irps, i = immediate
        PROVE  SendingOf(i)'
    <3>1. SendingOf(i) /\ i # immediate'
      BY Names DEF IInv, Sending
    <3> QED BY <1>1, <1>2, <1>3, <2>2, <3>1 DEF SendingOf
  <2> QED BY <2>1, <2>2 DEF Sending
<1> QED BY <1>4, <1>5, <1>6, <1>7, <1>8, <1>9, <1>10, <1>11 DEF IInv

LEMMA GetNextImmediateStep ==
  ASSUME IInv, NEW w \in Workers, GetNextImmediate(w)
  PROVE  IInv'
<1>1. /\ pc[w] = "getimmediate" /\ AtImmediate(w) /\ Leave(w)
      /\ status[immediate] \notin {"none", "pending"}
      /\ status[immediate] = "success" => sent[immediate] = 1
  BY DEF GetNextImmediate, AtImmediate, IInv, ImmediateSlot
<1>2. /\ immediate' = None /\ Complete(immediate)
      /\ totalChars' = totalChars - CharsOf(immediate, 0)
      /\ UNCHANGED <<queue, current, xoff, arrived, amount, status, info, cancelled, routine,
                     refs, writeLength, transmitImmediate, countSinceXoff, armed, dpcs,
                     completeCurrent, sent, received, dropped, forgotten>>
  BY DEF GetNextImmediate, isrVars
<1>3. /\ status \in [Irps -> {"none", "pending", "success", "timeout", "cancelled",
                              "countertimeout", "morewrites", "invalid"}]
      /\ info \in [Irps -> Nat]
  BY DEF IInv, TypeOK
<1> QED BY <1>1, <1>2, <1>3, ImmediateDone

LEMMA StartImmediateStep ==
  ASSUME IInv, NEW w \in Workers, StartImmediate(w)
  PROVE  IInv'
<1>1. /\ pc[w] = "startimmediate" /\ AtImmediate(w) /\ Leave(w)
      /\ UNCHANGED <<queue, current, xoff, arrived, amount, cancelled, writeLength,
                     countSinceXoff, dpcs, completeCurrent, totalChars, sent, received,
                     dropped>>
  BY DEF StartImmediate, AtImmediate
<1>2. /\ immediate # None /\ immediate \in Irps /\ immediate \in Immediates
      /\ ~Queued(immediate) /\ immediate \in arrived /\ completions[immediate] = 0
      /\ immediate # xoff /\ immediate # current /\ immediate \notin dropped
      /\ immediate \notin Flushes /\ immediate \notin Writes /\ immediate \notin Xoffs
      /\ routine[immediate] = "null" /\ refs[immediate] = {} /\ ~transmitImmediate
      /\ "immediate" \notin armed /\ "CompleteImmediate" \notin dpcs
      /\ "TimeoutImmediate" \notin dpcs
      /\ pc' \in [Workers -> Labels] /\ aborting' \subseteq Workers
      /\ WriterStays
      /\ \A v \in Workers : ~AtImmediate(v)' /\ (pc'[v] = "discounted" <=> pc[v] = "discounted")
  BY <1>1, AtImmediateFacts
<1>3. sent[immediate] = 0
  BY <1>1 DEF IInv, ImmediateSlot
<1>4. CASE immediate \in cancelled
  <2>1. /\ immediate' = None
        /\ status' = [status EXCEPT ![immediate] = "cancelled"]
        /\ info' = [info EXCEPT ![immediate] = 0]
        /\ Complete(immediate)
        /\ forgotten' = forgotten + CharsOf(immediate, 0)
        /\ UNCHANGED <<routine, refs, armed, transmitImmediate>>
    BY <1>4 DEF StartImmediate
  <2>2. /\ status' \in [Irps -> {"none", "pending", "success", "timeout", "cancelled",
                                 "countertimeout", "morewrites", "invalid"}]
        /\ info' \in [Irps -> Nat] /\ status'[immediate] = "cancelled"
        /\ \A j \in Irps : j # immediate => status'[j] = status[j] /\ info'[j] = info[j]
    BY <1>2, <2>1 DEF IInv, TypeOK
  <2> QED BY <1>1, <2>1, <2>2, ImmediateDone
<1>5. ASSUME NEW timers \in SUBSET {"immediate"},
             routine' = [routine EXCEPT ![immediate] = "immediate"],
             transmitImmediate' = TRUE,
             armed' = armed \union timers,
             refs' = [refs EXCEPT ![immediate] = {"CANCEL", "ISR"} \union
                               IF timers = {} THEN {} ELSE {"TOTAL"}],
             UNCHANGED <<immediate, status, info, completions, forgotten>>
      PROVE  IInv'
  <2>1. /\ routine' \in [Irps -> {"null", "queued"} \union Slots]
        /\ routine'[immediate] = "immediate"
        /\ refs' \in [Irps -> SUBSET Refs]
        /\ "ISR" \in refs'[immediate] /\ "CANCEL" \in refs'[immediate]
        /\ "TOTAL" \in refs'[immediate] <=> "immediate" \in armed'
        /\ \A j \in Irps : j # immediate => routine'[j] = routine[j] /\ refs'[j] = refs[j]
        /\ armed' \subseteq armed \union {"immediate"} /\ armed \subseteq armed'
    BY <1>2, <1>5 DEF IInv, TypeOK, Slots, Refs
  <2>2. /\ \A j \in Irps : (Queued(j)' <=> Queued(j)) /\ (Open(j)' <=> Open(j))
        /\ HandedOver' <=> HandedOver
    BY <1>1, <1>5 DEF Queued, Open, HandedOver
  <2>3. TypeOK'
    <3>1. armed' \subseteq Slots
      BY <2>1 DEF IInv, TypeOK, Slots
    <3> QED BY <1>1, <1>2, <1>5, <2>1, <3>1 DEF IInv, TypeOK, Labels
  <2>4. Distinct(queue)' /\ Amounts' /\ CounterEndsAtWrite'
    BY <1>1, <1>5, <2>2, AmountsFrame DEF IInv, Distinct, CounterEndsAtWrite
  <2>5. Places'
    BY <1>1, <1>2, <1>5, <2>1, <2>2 DEF IInv, Places, IsCurrent
  <2>6. WriteSlot' /\ Writer'
    <3>1. current # None => current \in Irps /\ refs'[current] = refs[current]
                            /\ routine'[current] = routine[current]
      BY <1>2, <2>1, CurrentFacts
    <3>2. "write" \in armed' <=> "write" \in armed
      BY <2>1
    <3> QED BY <1>1, <1>2, <1>5, <3>1, <3>2, WriteFrame
  <2>7. XoffSlot' /\ Accounts'
    <3>1. xoff # None => xoff \in Irps /\ xoff # immediate
      BY XoffFacts
    <3> QED BY <1>1, <1>2, <1>5, <2>1, <3>1, XoffFrame, AccountsFrame
  <2>8. ImmediateSlot'
    BY <1>1, <1>2, <1>5, <2>1 DEF ImmediateSlot, Holds, TimeoutDpc
  <2>9. Sending'
    <3>1. ASSUME NEW i \in Irps, i # immediate
          PROVE  SendingOf(i)'
      BY <1>1, <1>5, <2>1, <2>2, <3>1, SendingFrame
    <3>2. ASSUME NEW i \in Irps, i = immediate
          PROVE  SendingOf(i)'
      <4>1. SendingOf(i)
        BY DEF IInv, Sending
      <4> QED BY <1>1, <1>2, <1>3, <1>5, <2>2, <3>2, <4>1 DEF SendingOf
    <3> QED BY <3>1, <3>2 DEF Sending
  <2> QED BY <2>3, <2>4, <2>5, <2>6, <2>7, <2>8, <2>9 DEF IInv
<1> QED BY <1>4, <1>5 DEF StartImmediate

-----------------------------------------------------------------------------
(* Requests arrive.                                                        *)

\* One that is answered at once leaves nothing behind but what is forgotten.
LEMMA AnsweredAtOnce ==
  ASSUME IInv, NEW i \in Irps, i \notin arrived, arrived' = arrived \union {i},
         NEW s \in {"success", "cancelled", "invalid"},
         status' = [status EXCEPT ![i] = s], Complete(i),
         amount' \in [Irps -> Nat], \A j \in Irps : j # i => amount'[j] = amount[j],
         i \in Writes /\ s = "success" => amount'[i] = 0,
         i \in Immediates => s # "success", i \in Xoffs => amount'[i] > 0,
         NEW n \in Nat, totalChars' = totalChars + n, forgotten' = forgotten + n,
         UNCHANGED <<queue, current, xoff, immediate, info, cancelled, routine, refs,
                     writeLength, transmitImmediate, countSinceXoff, armed, dpcs, pc,
                     aborting, completeCurrent, sent, received, dropped>>
  PROVE  IInv'
<1>1. /\ ~Queued(i) /\ i # current /\ i # xoff /\ i # immediate /\ i \notin dropped
      /\ completions[i] = 0 /\ routine[i] = "null" /\ refs[i] = {}
      /\ sent[i] = 0 /\ info[i] = 0 /\ ~Counted(i)
  BY NewcomerFacts
<1>2. /\ completions' \in [Irps -> Nat] /\ completions'[i] = 1
      /\ status' \in [Irps -> {"none", "pending", "success", "timeout", "cancelled",
                               "countertimeout", "morewrites", "invalid"}]
      /\ status'[i] = s
      /\ \A j \in Irps : j # i => completions'[j] = completions[j] /\ status'[j] = status[j]
  BY <1>1 DEF IInv, TypeOK, Complete
<1>3. /\ \A j \in Irps : Queued(j)' <=> Queued(j)
      /\ \A j \in Irps : j # i => (Open(j)' <=> Open(j))
      /\ \A j \in Irps : j = i => ~Open(j)'
      /\ HandedOver' <=> HandedOver
  BY <1>2 DEF Queued, Open, HandedOver
<1>4. /\ current # None => current \in Irps /\ current # i
      /\ HandedOver => current # None
      /\ xoff # None => xoff \in Irps
      /\ immediate # None => immediate \in Irps
  BY <1>1, Names, CurrentFacts, XoffFacts, ImmediateFacts DEF HandedOver, IInv, TypeOK
<1>5. TypeOK'
  BY <1>2 DEF IInv, TypeOK
<1>6. Distinct(queue)' /\ Amounts' /\ CounterEndsAtWrite'
  <2>1. Amounts'
    BY <1>1, <1>3, Names DEF IInv, Amounts
  <2> QED BY <2>1 DEF IInv, Distinct, CounterEndsAtWrite
<1>7. Places'
  <2>1. ASSUME NEW j \in Irps, j # i
        PROVE  /\ Open(j)' <=> Open(j)
               /\ completions'[j] = completions[j] /\ status'[j] = status[j]
               /\ j \in arrived' <=> j \in arrived
    BY <1>2, <1>3, <2>1
  <2> QED BY <1>1, <1>2, <1>3, <2>1 DEF IInv, Places, IsCurrent
<1>8. WriteSlot' /\ Writer'
  <2>1. /\ WriterStays
        /\ current # None => /\ completions'[current] = completions[current]
                             /\ status'[current] = status[current]
                             /\ amount'[current] = amount[current]
    BY <1>2, <1>4 DEF WriterStays
  <2> QED BY <1>4, <2>1, WriteFrame
<1>9. XoffSlot' /\ ImmediateSlot'
  BY <1>1, <1>2, <1>4, XoffFrame, ImmediateFrame
<1>10. Sending'
  <2>1. ASSUME NEW j \in Irps, j # i
        PROVE  SendingOf(j)'
    BY <1>2, <1>3, <2>1, SendingFrame
  <2>2. ASSUME NEW j \in Irps, j = i
        PROVE  SendingOf(j)'
    <3>1. amount'[j] \in Nat
      OBVIOUS
    <3> QED BY <1>1, <1>2, <1>3, <2>2, <3>1 DEF SendingOf, Told
  <2> QED BY <2>1, <2>2 DEF Sending
<1>11. Accounts'
  <2>1. \A j \in Irps : Counted(j)' <=> Counted(j)
    BY DEF Counted, Queued, Discounted
  <2>2. \A j \in Irps : Counted(j) => Chars(j)' = Chars(j)
    BY <1>1 DEF Chars
  <2>3. amount \in [Irps -> Nat] /\ totalChars \in Nat /\ forgotten \in Nat
    BY DEF IInv, TypeOK
  <2>4. CharsQueued' = CharsQueued
    BY <2>1, <2>2, <2>3, CharsStay
  <2>5. IsFiniteSet(CharsQueued) /\ Cardinality(CharsQueued) \in Nat
    BY FS_CardinalityType DEF IInv, Accounts
  <2> QED BY <2>3, <2>4, <2>5 DEF IInv, Accounts, TotalAccounted
<1> QED BY <1>5, <1>6, <1>7, <1>8, <1>9, <1>10, <1>11 DEF IInv

\* One that finds nobody else becomes current at once.
LEMMA BecomesCurrent ==
  ASSUME IInv, NEW w \in Workers, pc[w] = "idle", NEW i \in QueueIrps,
         i \notin arrived, arrived' = arrived \union {i}, MayStart, current' = i,
         NEW s \in {"none", "success"}, status' = [status EXCEPT ![i] = s],
         NEW label \in {"start", "getnext"}, Goto(w, label),
         IF i \in Flushes THEN label = "getnext" /\ s = "success" ELSE label = "start",
         amount' \in [Irps -> Nat], \A j \in Irps : j # i => amount'[j] = amount[j],
         i \notin Flushes => amount'[i] > 0,
         totalChars' = totalChars + CharsOf(i, amount'[i]),
         UNCHANGED <<queue, xoff, immediate, info, cancelled, routine, refs, completions,
                     writeLength, transmitImmediate, countSinceXoff, armed, dpcs,
                     completeCurrent, sent, received, dropped, forgotten>>
  PROVE  IInv'
<1>0. i \in Irps /\ i # None /\ i \notin Immediates
  BY Names
<1>1. /\ ~Queued(i) /\ i # current /\ i # xoff /\ i # immediate /\ i \notin dropped
      /\ completions[i] = 0 /\ routine[i] = "null" /\ refs[i] = {}
      /\ sent[i] = 0 /\ info[i] = 0 /\ ~Counted(i)
  BY <1>0, NewcomerFacts
<1>2. /\ queue = <<>> /\ current = None /\ completeCurrent = TRUE /\ ~HandedOver
      /\ writeLength = 0 /\ "write" \notin armed /\ "CompleteWrite" \notin dpcs
      /\ "WriteTimeout" \notin dpcs /\ \A v \in Workers : ~Working(v)
  <2>1. queue = <<>> /\ current = None
    BY DEF MayStart
  <2>2. completeCurrent = TRUE /\ writeLength \in Nat
    BY <2>1 DEF IInv, TypeOK, WriteSlot
  <2>3. Idle("write", writeLength > 0, "CompleteWrite") /\ \A v \in Workers : ~Working(v)
    BY <2>1 DEF IInv, WriteSlot, Writer
  <2> QED BY <2>1, <2>2, <2>3 DEF HandedOver, Idle, TimeoutDpc
<1>3. /\ status' \in [Irps -> {"none", "pending", "success", "timeout", "cancelled",
                               "countertimeout", "morewrites", "invalid"}]
      /\ status'[i] = s /\ \A j \in Irps : j # i => status'[j] = status[j]
  BY <1>0 DEF IInv, TypeOK
<1>4. /\ pc' \in [Workers -> Labels] /\ aborting' = aborting
      /\ pc'[w] = label /\ \A v \in Workers : v # w => pc'[v] = pc[v]
  BY DEF IInv, TypeOK, Labels, Goto
<1>5. /\ \A v \in Workers : Working(v)' <=> v = w
      /\ \A v \in Workers : /\ pc'[v] = "startimmediate" <=> pc[v] = "startimmediate"
                            /\ pc'[v] = "getimmediate" <=> pc[v] = "getimmediate"
                            /\ pc'[v] # "discounted" /\ pc[v] # "discounted"
  BY <1>2, <1>4 DEF Working
<1>6. /\ \A j \in Irps : ~Queued(j) /\ ~Queued(j)' /\ ~IsCurrent(j)
      /\ \A j \in Irps : IsCurrent(j)' <=> j = i
      /\ \A j \in Irps : j # i => (Open(j)' <=> Open(j))
      /\ \A j \in Irps : j = i => Open(j)'
      /\ ~HandedOver'
  <2>1. ~HandedOver' /\ \A j \in Irps : ~Queued(j) /\ ~Queued(j)'
    BY <1>2 DEF Queued, HandedOver
  <2>2. \A j \in Irps : j # None /\ (j # i => (Open(j)' <=> Open(j))) /\ (j = i => Open(j)')
    BY <1>1, Names DEF Open
  <2> QED BY <1>2, <2>1, <2>2 DEF IsCurrent
<1>7. totalChars' \in Nat /\ CharsOf(i, amount'[i]) \in Nat
  <2>1. amount'[i] \in Nat /\ totalChars \in Nat
    BY <1>0 DEF IInv, TypeOK
  <2>2. CharsOf(i, amount'[i]) \in Nat
    BY <1>0, <2>1, CharsOfKinds
  <2> QED BY <2>1, <2>2
<1>8. TypeOK'
  BY <1>0, <1>3, <1>4, <1>7 DEF IInv, TypeOK, Labels
<1>9. Distinct(queue)' /\ Amounts' /\ CounterEndsAtWrite'
  <2>1. Amounts'
    BY <1>0, <1>6, Names DEF IInv, Amounts
  <2> QED BY <2>1 DEF IInv, Distinct, CounterEndsAtWrite
<1>10. Places'
  <2>1. ASSUME NEW j \in Irps, j # i
        PROVE  /\ Open(j)' <=> Open(j)
               /\ status'[j] = status[j] /\ (j \in arrived' <=> j \in arrived)
    BY <1>3, <1>6, <2>1
  <2> QED BY <1>0, <1>1, <1>2, <1>3, <1>6, <2>1 DEF IInv, Places
<1>11. WriteSlot'
  <2>1. Holds(current, "write", writeLength > 0, "CompleteWrite")'
    BY <1>0, <1>1, <1>2 DEF Holds, TimeoutDpc
  <2> QED BY <1>0, <1>2, <1>5, <1>6, <2>1 DEF WriteSlot
<1>12. Writer'
  BY <1>0, <1>1, <1>2, <1>3, <1>4, <1>5, <1>6, Names DEF Writer
<1>13. XoffSlot' /\ ImmediateSlot'
  <2>1. /\ xoff # None => xoff \in Irps
        /\ immediate # None => immediate \in Irps
    BY XoffFacts, ImmediateFacts
  <2> QED BY <1>1, <1>3, <1>5, <2>1, XoffFrame, ImmediateFrame
<1>14. Sending'
  <2>1. ASSUME NEW j \in Irps, j # i
        PROVE  SendingOf(j)'
    BY <1>3, <1>6, <2>1, SendingFrame
  <2>2. ASSUME NEW j \in Irps, j = i
        PROVE  SendingOf(j)'
    <3>1. amount'[j] \in Nat
      OBVIOUS
    <3> QED BY <1>0, <1>1, <1>2, <1>6, <2>2, <3>1 DEF SendingOf
  <2> QED BY <2>1, <2>2 DEF Sending
<1>15. Accounts'
  <2>1. \A j \in Irps : Counted(j)' <=> Counted(j) \/ j = i
    <3>1. \A j \in Irps : ~Discounted(j) /\ ~Discounted(j)'
      BY <1>5 DEF Discounted
    <3>2. None \notin Irps
      BY Names
    <3> QED BY <1>2, <1>6, <3>1, <3>2 DEF Counted
  <2>2. \A j \in Irps : j # i => Chars(j)' = Chars(j)
    BY DEF Chars
  <2>3. Accounts /\ totalChars \in Nat /\ forgotten \in Nat
    BY DEF IInv, TypeOK
  <2>4. /\ IsFiniteSet(CharsQueued')
        /\ Cardinality(CharsQueued') = Cardinality(CharsQueued) + CharsOf(i, amount'[i])
    BY <1>0, <1>1, <2>1, <2>2, <2>3, CharsJoin
  <2>5. Cardinality(CharsQueued) \in Nat
    BY <2>3, FS_CardinalityType DEF Accounts
  <2> QED BY <1>7, <2>3, <2>4, <2>5 DEF Accounts, TotalAccounted
<1> QED BY <1>8, <1>9, <1>10, <1>11, <1>12, <1>13, <1>14, <1>15 DEF IInv

\* Any other waits.
LEMMA JoinsQueue ==
  ASSUME IInv, NEW i \in QueueIrps, i \notin arrived, arrived' = arrived \union {i},
         ~MayStart, queue' = Append(queue, i),
         status' = [status EXCEPT ![i] = "pending"],
         routine' = [routine EXCEPT ![i] = "queued"],
         amount' \in [Irps -> Nat], \A j \in Irps : j # i => amount'[j] = amount[j],
         i \notin Flushes => amount'[i] > 0,
         totalChars' = totalChars + CharsOf(i, amount'[i]),
         UNCHANGED <<current, xoff, immediate, info, cancelled, refs, completions,
                     writeLength, transmitImmediate, countSinceXoff, armed, dpcs, pc,
                     aborting, completeCurrent, sent, received, dropped, forgotten>>
  PROVE  IInv'
<1>0. i \in Irps /\ i # None /\ i \notin Immediates
  BY Names
<1>1. /\ ~Queued(i) /\ i # current /\ i # xoff /\ i # immediate /\ i \notin dropped
      /\ completions[i] = 0 /\ routine[i] = "null" /\ refs[i] = {}
      /\ sent[i] = 0 /\ info[i] = 0 /\ ~Counted(i)
  BY <1>0, NewcomerFacts
<1>2. current # None /\ current \in Irps
  <2>1. current # None
    BY DEF MayStart, IInv, WriteSlot
  <2> QED BY <2>1, CurrentFacts
<1>3. /\ status' \in [Irps -> {"none", "pending", "success", "timeout", "cancelled",
                               "countertimeout", "morewrites", "invalid"}]
      /\ routine' \in [Irps -> {"null", "queued"} \union Slots]
      /\ routine'[i] = "queued"
      /\ \A j \in Irps : j # i => status'[j] = status[j] /\ routine'[j] = routine[j]
  BY <1>0 DEF IInv, TypeOK
<1>4. /\ queue' \in Seq(QueueIrps) /\ Distinct(queue')
      /\ \A j \in Irps : Queued(j)' <=> (Queued(j) \/ j = i)
  BY <1>1, Enqueued DEF IInv, TypeOK
<1>5. /\ HandedOver' <=> HandedOver
      /\ \A j \in Irps : IsCurrent(j)' <=> IsCurrent(j)
      /\ \A j \in Irps : j # i => (Open(j)' <=> Open(j))
      /\ \A j \in Irps : j = i => Open(j)' /\ ~IsCurrent(j)
  BY <1>1 DEF Open, IsCurrent, HandedOver
<1>6. totalChars' \in Nat /\ CharsOf(i, amount'[i]) \in Nat
  <2>1. amount'[i] \in Nat /\ totalChars \in Nat
    BY <1>0 DEF IInv, TypeOK
  <2>2. CharsOf(i, amount'[i]) \in Nat
    BY <1>0, <2>1, CharsOfKinds
  <2> QED BY <2>1, <2>2
<1>7. TypeOK'
  BY <1>0, <1>3, <1>4, <1>6 DEF IInv, TypeOK
<1>8. Amounts' /\ CounterEndsAtWrite'
  <2>1. Amounts'
    BY <1>0, <1>1, <1>4, Names DEF IInv, Amounts
  <2> QED BY <2>1 DEF IInv, CounterEndsAtWrite
<1>9. Places'
  <2>1. ASSUME NEW j \in Irps, j # i
        PROVE  /\ Open(j)' <=> Open(j)
               /\ status'[j] = status[j] /\ routine'[j] = routine[j]
               /\ j \in arrived' <=> j \in arrived
               /\ Queued(j)' <=> Queued(j)
    BY <1>3, <1>4, <1>5, <2>1
  <2> QED BY <1>0, <1>1, <1>3, <1>4, <1>5, <2>1 DEF IInv, Places
<1>10. WriteSlot' /\ Writer'
  <2>1. /\ WriterStays
        /\ current # None => /\ status'[current] = status[current]
                             /\ routine'[current] = routine[current]
                             /\ amount'[current] = amount[current]
    BY <1>1, <1>2, <1>3 DEF WriterStays
  <2> QED BY <1>2, <2>1, WriteFrame
<1>11. XoffSlot' /\ ImmediateSlot'
  <2>1. /\ xoff # None => xoff \in Irps
        /\ immediate # None => immediate \in Irps
    BY XoffFacts, ImmediateFacts
  <2> QED BY <1>1, <1>3, <2>1, XoffFrame, ImmediateFrame
<1>12. Sending'
  <2>1. ASSUME NEW j \in Irps, j # i
        PROVE  SendingOf(j)'
    BY <1>3, <1>4, <2>1, SendingFrame
  <2>2. ASSUME NEW j \in Irps, j = i
        PROVE  SendingOf(j)'
    <3>1. amount'[j] \in Nat
      OBVIOUS
    <3> QED BY <1>0, <1>1, <2>2, <3>1 DEF SendingOf
  <2> QED BY <2>1, <2>2 DEF Sending
<1>13. Accounts'
  <2>1. \A j \in Irps : Counted(j)' <=> Counted(j) \/ j = i
    BY <1>4 DEF Counted, Discounted
  <2>2. \A j \in Irps : j # i => Chars(j)' = Chars(j)
    BY DEF Chars
  <2>3. Accounts /\ totalChars \in Nat /\ forgotten \in Nat
    BY DEF IInv, TypeOK
  <2>4. /\ IsFiniteSet(CharsQueued')
        /\ Cardinality(CharsQueued') = Cardinality(CharsQueued) + CharsOf(i, amount'[i])
    BY <1>0, <1>1, <2>1, <2>2, <2>3, CharsJoin
  <2>5. Cardinality(CharsQueued) \in Nat
    BY <2>3, FS_CardinalityType DEF Accounts
  <2> QED BY <1>6, <2>3, <2>4, <2>5 DEF Accounts, TotalAccounted
<1> QED BY <1>4, <1>7, <1>8, <1>9, <1>10, <1>11, <1>12, <1>13 DEF IInv

\* SerialStartOrQueue, with what its callers give it.
LEMMA StartOrQueueStep ==
  ASSUME IInv, NEW w \in Workers, NEW i \in QueueIrps, Arrives(w, i), NEW n \in Nat,
         NEW s \in {"none", "success"}, NEW label \in {"start", "getnext"},
         IF i \in Flushes THEN label = "getnext" /\ s = "success" ELSE label = "start",
         amount' \in [Irps -> Nat], \A j \in Irps : j # i => amount'[j] = amount[j],
         i \notin Flushes => amount'[i] > 0,
         CharsOf(i, n) = CharsOf(i, amount'[i]),
         StartOrQueue(w, i, n, label, s), UNCHANGED ArrivalLeaves
  PROVE  IInv'
<1>1. /\ pc[w] = "idle" /\ i \notin arrived /\ arrived' = arrived \union {i}
      /\ totalChars' = totalChars + CharsOf(i, n)
      /\ UNCHANGED <<xoff, immediate, info, cancelled, refs, writeLength,
                     transmitImmediate, countSinceXoff, armed, dpcs, completeCurrent,
                     sent, received, dropped>>
  BY DEF Arrives, StartOrQueue, ArrivalLeaves, isrVars
<1>2. i \in Irps /\ i \notin Immediates /\ CharsOf(i, n) \in Nat
  BY Names, CharsOfKinds
<1>3. CASE MayStart
  <2>1. /\ current' = i /\ status' = [status EXCEPT ![i] = s] /\ Goto(w, label)
        /\ UNCHANGED <<queue, routine, completions, forgotten>>
    BY <1>3 DEF StartOrQueue
  <2> QED BY <1>1, <1>3, <2>1, BecomesCurrent
<1>4. CASE ~MayStart /\ i \in cancelled
  <2>1. /\ status' = [status EXCEPT ![i] = "cancelled"] /\ Complete(i)
        /\ forgotten' = forgotten + CharsOf(i, n)
        /\ UNCHANGED <<queue, current, routine, pc, aborting>>
    BY <1>4 DEF StartOrQueue
  <2>2. i \in Xoffs => amount'[i] > 0
    BY Names
  <2> QED BY <1>1, <1>2, <2>1, <2>2, AnsweredAtOnce
<1>5. CASE ~MayStart /\ i \notin cancelled
  <2>1. /\ status' = [status EXCEPT ![i] = "pending"] /\ queue' = Append(queue, i)
        /\ routine' = [routine EXCEPT ![i] = "queued"]
        /\ UNCHANGED <<current, completions, forgotten, pc, aborting>>
    BY <1>5 DEF StartOrQueue
  <2> QED BY <1>1, <1>5, <2>1, JoinsQueue
<1> QED BY <1>3, <1>4, <1>5

LEMMA WriteStep ==
  ASSUME IInv, NEW w \in Workers, NEW i \in Irps, Write(w, i)
  PROVE  IInv'
<1>1. i \in Writes /\ i \in QueueIrps /\ i \notin Flushes /\ i \notin Xoffs /\ i \notin Immediates
  BY Names DEF Write
<1>2. PICK n \in Lengths :
        /\ amount' = [amount EXCEPT ![i] = n]
        /\ \/ n > 0 /\ StartOrQueue(w, i, n, "start", "none")
           \/ /\ n = 0
              /\ status' = [status EXCEPT ![i] = "success"]
              /\ Complete(i)
              /\ UNCHANGED <<queue, current, routine, pc, aborting, totalChars, forgotten>>
  BY DEF Write
<1>3. n \in Nat /\ Arrives(w, i) /\ UNCHANGED ArrivalLeaves
  BY WriteAssumption DEF Write
<1>4. /\ amount' \in [Irps -> Nat] /\ amount'[i] = n
      /\ \A j \in Irps : j # i => amount'[j] = amount[j]
  BY <1>2, <1>3 DEF IInv, TypeOK
<1>5. CASE n > 0 /\ StartOrQueue(w, i, n, "start", "none")
  BY <1>1, <1>3, <1>4, <1>5, StartOrQueueStep
<1>6. CASE /\ n = 0
           /\ status' = [status EXCEPT ![i] = "success"]
           /\ Complete(i)
           /\ UNCHANGED <<queue, current, routine, pc, aborting, totalChars, forgotten>>
  <2>1. /\ i \notin arrived /\ arrived' = arrived \union {i}
        /\ UNCHANGED <<xoff, immediate, info, cancelled, refs, writeLength,
                       transmitImmediate, countSinceXoff, armed, dpcs, completeCurrent,
                       sent, received, dropped>>
    BY <1>3 DEF Arrives, ArrivalLeaves, isrVars
  <2>2. totalChars' = totalChars + 0 /\ forgotten' = forgotten + 0
    BY <1>6 DEF IInv, TypeOK
  <2> QED BY <1>1, <1>4, <1>6, <2>1, <2>2, AnsweredAtOnce
<1> QED BY <1>2, <1>5, <1>6

LEMMA FlushStart ==
  ASSUME IInv, NEW w \in Workers, NEW i \in Irps, Flush(w, i)
  PROVE  IInv'
<1>1. i \in Flushes /\ i \in QueueIrps
  BY Names DEF Flush
<1>2. /\ Arrives(w, i) /\ StartOrQueue(w, i, 0, "getnext", "success")
      /\ UNCHANGED ArrivalLeaves /\ amount' = amount
  BY DEF Flush
<1>3. amount' \in [Irps -> Nat] /\ amount'[i] \in Nat
  BY <1>2 DEF IInv, TypeOK
<1>4. CharsOf(i, 0) = 0 /\ CharsOf(i, amount'[i]) = 0
  BY <1>1, <1>3, CharsOfKinds
<1> QED BY <1>1, <1>2, <1>3, <1>4, StartOrQueueStep

LEMMA XoffCounterStep ==
  ASSUME IInv, NEW w \in Workers, NEW i \in Irps, XoffCounter(w, i)
  PROVE  IInv'
<1>1. i \in Xoffs /\ i \in QueueIrps /\ i \notin Flushes
  BY Names DEF XoffCounter
<1>2. PICK n \in Counters :
        amount' = [amount EXCEPT ![i] = n] /\ StartOrQueue(w, i, n, "start", "none")
  BY DEF XoffCounter
<1>3. n \in Nat /\ n > 0 /\ Arrives(w, i) /\ UNCHANGED ArrivalLeaves
  BY WriteAssumption DEF XoffCounter
<1>4. /\ amount' \in [Irps -> Nat] /\ amount'[i] = n
      /\ \A j \in Irps : j # i => amount'[j] = amount[j]
  BY <1>2, <1>3 DEF IInv, TypeOK
<1> QED BY <1>1, <1>2, <1>3, <1>4, StartOrQueueStep

LEMMA ImmediateCharStep ==
  ASSUME IInv, NEW w \in Workers, NEW i \in Irps, ImmediateChar(w, i)
  PROVE  IInv'
<1>0. /\ i \in Immediates /\ i # None /\ i \notin QueueIrps /\ i \notin Writes
      /\ i \notin Flushes /\ i \notin Xoffs
      /\ pc[w] = "idle" /\ i \notin arrived /\ arrived' = arrived \union {i}
      /\ UNCHANGED <<queue, current, xoff, amount, info, cancelled, routine, refs,
                     writeLength, transmitImmediate, countSinceXoff, armed, dpcs,
                     completeCurrent, sent, received, dropped, forgotten>>
  BY Names DEF ImmediateChar, Arrives, isrVars
<1>1. /\ ~Queued(i) /\ i # current /\ i # xoff /\ i # immediate /\ i \notin dropped
      /\ completions[i] = 0 /\ routine[i] = "null" /\ refs[i] = {}
      /\ sent[i] = 0 /\ info[i] = 0 /\ ~Counted(i)
  BY <1>0, NewcomerFacts
<1>2. CASE ~ImmediateFree(i)
  <2>1. /\ status' = [status EXCEPT ![i] =
                        IF immediate # None THEN "invalid" ELSE "cancelled"]
        /\ Complete(i)
        /\ UNCHANGED <<immediate, totalChars, pc, aborting>>
    BY <1>2 DEF ImmediateChar
  <2>2. /\ amount' \in [Irps -> Nat] /\ \A j \in Irps : j # i => amount'[j] = amount[j]
        /\ totalChars' = totalChars + 0 /\ forgotten' = forgotten + 0
    BY <1>0, <2>1 DEF IInv, TypeOK
  <2>3. CASE immediate # None
    BY <1>0, <2>1, <2>2, <2>3, AnsweredAtOnce
  <2>4. CASE immediate = None
    BY <1>0, <2>1, <2>2, <2>4, AnsweredAtOnce
  <2> QED BY <2>3, <2>4
<1>3. CASE ImmediateFree(i)
  <2>1. /\ immediate = None /\ immediate' = i /\ totalChars' = totalChars + 1
        /\ status' = [status EXCEPT ![i] = "pending"]
        /\ Goto(w, "startimmediate") /\ completions' = completions
    BY <1>3 DEF ImmediateChar, ImmediateFree
  <2>2. /\ ~transmitImmediate /\ "immediate" \notin armed /\ "CompleteImmediate" \notin dpcs
        /\ "TimeoutImmediate" \notin dpcs /\ \A v \in Workers : ~AtImmediate(v)
    BY <2>1 DEF IInv, ImmediateSlot, Idle, TimeoutDpc
  <2>3. /\ status' \in [Irps -> {"none", "pending", "success", "timeout", "cancelled",
                                 "countertimeout", "morewrites", "invalid"}]
        /\ \A j \in Irps : j # i => status'[j] = status[j]
    BY <2>1 DEF IInv, TypeOK
  <2>4. /\ pc' \in [Workers -> Labels] /\ aborting' = aborting
        /\ pc'[w] = "startimmediate" /\ \A v \in Workers : v # w => pc'[v] = pc[v]
    BY <2>1 DEF IInv, TypeOK, Labels, Goto
  <2>5. /\ WriterStays
        /\ \A v \in Workers : /\ AtImmediate(v)' <=> v = w
                              /\ pc'[v] = "discounted" <=> pc[v] = "discounted"
                              /\ pc'[v] # "getimmediate"
    BY <1>0, <2>2, <2>4 DEF WriterStays, Working, AtImmediate
  <2>6. /\ HandedOver' <=> HandedOver
        /\ \A j \in Irps : /\ IsCurrent(j)' <=> IsCurrent(j)
                           /\ Queued(j)' <=> Queued(j)
        /\ \A j \in Irps : j # i => (Open(j)' <=> Open(j))
        /\ \A j \in Irps : j = i => Open(j)' /\ ~IsCurrent(j)
    <3>1. HandedOver' <=> HandedOver
      BY <1>0 DEF HandedOver
    <3>2. \A j \in Irps : (IsCurrent(j)' <=> IsCurrent(j)) /\ (Queued(j)' <=> Queued(j))
      BY <1>0, <3>1 DEF IsCurrent, Queued
    <3>3. \A j \in Irps : j # i => (Open(j)' <=> Open(j))
      BY <1>0, <2>1 DEF Open
    <3>4. \A j \in Irps : j = i => Open(j)' /\ ~IsCurrent(j)
      BY <1>0, <1>1, <2>1 DEF Open, IsCurrent
    <3> QED BY <3>1, <3>2, <3>3, <3>4
  <2>7. TypeOK'
    <3>1. immediate' \in Immediates \union {None} /\ totalChars' \in Nat /\ arrived' \subseteq Irps
      BY <1>0, <2>1 DEF IInv, TypeOK
    <3>2. /\ current' \in QueueIrps \union {None} /\ xoff' \in Xoffs \union {None}
          /\ queue' \in Seq(QueueIrps) /\ completions' \in [Irps -> Nat]
      BY <1>0, <2>1 DEF IInv, TypeOK
    <3> QED BY <1>0, <2>3, <2>4, <3>1, <3>2 DEF IInv, TypeOK, Labels
  <2>8. Distinct(queue)' /\ Amounts' /\ CounterEndsAtWrite'
    <3>1. Writes \subseteq Irps /\ \A j \in Xoffs : j \in arrived' => j \in arrived
      BY <1>0, Names
    <3>2. Amounts'
      BY <1>0, <2>6, <3>1 DEF IInv, Amounts
    <3> QED BY <1>0, <3>2 DEF IInv, Distinct, CounterEndsAtWrite
  <2>9. Places'
    <3>1. ASSUME NEW j \in Irps, j # i
          PROVE  /\ status'[j] = status[j] /\ (j \in arrived' <=> j \in arrived)
                 /\ j # immediate /\ j # immediate'
      BY <1>0, <2>1, <2>3, <3>1, Names
    <3> QED BY <1>0, <1>1, <2>1, <2>6, <3>1 DEF IInv, Places
  <2>10. WriteSlot' /\ Writer'
    <3>1. current # None => current \in Irps
      BY CurrentFacts
    <3> QED BY <1>0, <1>1, <2>1, <2>3, <2>5, <3>1, WriteFrame
  <2>11. XoffSlot'
    BY <1>0, XoffFrame
  <2>12. ImmediateSlot'
    <3>1. Holds(immediate, "immediate", transmitImmediate, "CompleteImmediate")'
      BY <1>0, <1>1, <2>1, <2>2 DEF Holds, TimeoutDpc
    <3> QED BY <1>0, <1>1, <2>1, <2>2, <2>5, <3>1 DEF ImmediateSlot
  <2>13. Sending'
    <3>1. ASSUME NEW j \in Irps, j # i
          PROVE  SendingOf(j)'
      BY <1>0, <2>1, <2>3, <2>6, <3>1, SendingFrame
    <3>2. ASSUME NEW j \in Irps, j = i
          PROVE  SendingOf(j)'
      BY <1>0, <1>1, <2>1, <2>2, <2>6, <3>2 DEF SendingOf
    <3> QED BY <3>1, <3>2 DEF Sending
  <2>14. Accounts' /\ totalChars' \in Nat
    <3>1. \A j \in Irps : Counted(j)' <=> Counted(j) \/ j = i
      <4>1. \A j \in Irps : (Discounted(j)' <=> Discounted(j)) /\ j # None
        BY <1>0, <2>5, Names DEF Discounted
      <4> QED BY <1>0, <2>1, <2>6, <4>1 DEF Counted
    <3>2. \A j \in Irps : j # i => Chars(j)' = Chars(j)
      BY <1>0 DEF Chars
    <3>3. /\ Accounts /\ totalChars \in Nat /\ forgotten \in Nat
          /\ amount' \in [Irps -> Nat] /\ amount'[i] \in Nat
      BY <1>0 DEF IInv, TypeOK
    <3>4. /\ IsFiniteSet(CharsQueued')
          /\ Cardinality(CharsQueued') = Cardinality(CharsQueued) + CharsOf(i, amount'[i])
      BY <1>1, <3>1, <3>2, <3>3, CharsJoin
    <3>5. Cardinality(CharsQueued) \in Nat
      BY <3>3, FS_CardinalityType DEF Accounts
    <3>6. CharsOf(i, amount'[i]) = 1
      BY <1>0, <3>3, CharsOfKinds
    <3> QED BY <1>0, <2>1, <3>3, <3>4, <3>5, <3>6 DEF Accounts, TotalAccounted
  <2> QED BY <2>7, <2>8, <2>9, <2>10, <2>11, <2>12, <2>13, <2>14 DEF IInv
<1> QED BY <1>2, <1>3

-----------------------------------------------------------------------------
(* Requests are cancelled.                                                 *)

LEMMA CancelQueuedStep ==
  ASSUME IInv, NEW k \in DOMAIN queue, CancelQueued(k), PcStays
  PROVE  IInv'
<1> DEFINE i == queue[k]
<1>0. /\ queue' = RemoveAt(queue, k)
      /\ routine' = [routine EXCEPT ![i] = "null"]
      /\ cancelled' = cancelled \union {i}
      /\ status' = [status EXCEPT ![i] = "cancelled"]
      /\ info' = [info EXCEPT ![i] = 0]
      /\ totalChars' = totalChars - CharsOf(i, amount[i])
      /\ completions' = [completions EXCEPT ![i] = @ + 1]
      /\ UNCHANGED <<current, xoff, immediate, arrived, amount, refs, writeLength,
                     transmitImmediate, countSinceXoff, armed, dpcs, completeCurrent,
                     sent, received, dropped, forgotten>>
  BY DEF CancelQueued, DropChars, Complete, isrVars
<1>1. /\ queue' \in Seq(QueueIrps) /\ Distinct(queue')
      /\ i \in QueueIrps /\ Queued(i) /\ queue # <<>>
      /\ \A j \in Irps : Queued(j)' <=> (Queued(j) /\ j # i)
  BY <1>0, Withdrawn DEF IInv, TypeOK
<1> HIDE DEF i
<1>2. i \in Irps /\ i \notin Immediates
  BY <1>1, Names
<1>3. current # None /\ current \in Irps /\ current # i
  <2>1. current # None
    BY <1>1 DEF IInv, WriteSlot
  <2> QED BY <1>1, <2>1, CurrentFacts
<1>4. i # xoff /\ i # immediate
  BY <1>1, <1>2, Names, XoffFacts, ImmediateFacts
<1>5. /\ i \in arrived /\ completions[i] = 0 /\ i \notin dropped /\ refs[i] = {}
      /\ sent[i] = 0
  BY <1>1, <1>2, <1>3, <1>4 DEF IInv, Places, Open, IsCurrent, Sending, SendingOf
<1>6. /\ completions' \in [Irps -> Nat] /\ completions'[i] = 1
      /\ status' \in [Irps -> {"none", "pending", "success", "timeout", "cancelled",
                               "countertimeout", "morewrites", "invalid"}]
      /\ status'[i] = "cancelled" /\ info' \in [Irps -> Nat] /\ info'[i] = 0
      /\ routine' \in [Irps -> {"null", "queued"} \union Slots] /\ routine'[i] = "null"
      /\ \A j \in Irps : j # i =>
           /\ completions'[j] = completions[j] /\ status'[j] = status[j]
           /\ info'[j] = info[j] /\ routine'[j] = routine[j]
  BY <1>0, <1>2, <1>5 DEF IInv, TypeOK
<1>7. /\ HandedOver' <=> HandedOver
      /\ \A j \in Irps : IsCurrent(j)' <=> IsCurrent(j)
      /\ \A j \in Irps : j # i => (Open(j)' <=> Open(j))
      /\ \A j \in Irps : j = i => ~Open(j)' /\ ~IsCurrent(j)
  <2>1. HandedOver' <=> HandedOver
    BY <1>0 DEF HandedOver
  <2>2. \A j \in Irps : IsCurrent(j)' <=> IsCurrent(j)
    BY <1>0, <2>1 DEF IsCurrent
  <2>3. \A j \in Irps : j # i => (Open(j)' <=> Open(j))
    BY <1>0, <1>6 DEF Open
  <2>4. \A j \in Irps : j = i => ~Open(j)' /\ ~IsCurrent(j)
    BY <1>3, <1>6 DEF Open, IsCurrent
  <2> QED BY <2>1, <2>2, <2>3, <2>4
<1>8. Accounts' /\ totalChars' \in Nat
  <2>1. Counted(i) /\ \A j \in Irps : Counted(j)' <=> (Counted(j) /\ j # i)
    <3>1. \A j \in Irps : Discounted(j)' <=> Discounted(j)
      BY <1>0, PcStaysFacts DEF Discounted
    <3> QED BY <1>0, <1>1, <1>3, <1>4, <3>1 DEF Counted
  <2>2. \A j \in Irps : Chars(j)' = Chars(j)
    BY <1>0 DEF Chars
  <2>3. /\ amount \in [Irps -> Nat] /\ totalChars \in Nat /\ forgotten \in Nat
        /\ Accounts
    BY DEF IInv, TypeOK
  <2>4. /\ IsFiniteSet(CharsQueued') /\ Cardinality(CharsQueued') \in Nat
        /\ Cardinality(CharsQueued) = Cardinality(CharsQueued') + CharsOf(i, amount[i])
    BY <1>2, <2>1, <2>2, <2>3, CharsLeave
  <2>5. CharsOf(i, amount[i]) \in Nat
    BY <1>2, <2>3, CharsOfKinds
  <2> QED BY <1>0, <2>3, <2>4, <2>5 DEF Accounts, TotalAccounted
<1>9. TypeOK'
  <2>1. pc' \in [Workers -> Labels] /\ aborting' \subseteq Workers
    BY DEF PcStays
  <2>2. cancelled' \subseteq Irps
    BY <1>0, <1>2 DEF IInv, TypeOK
  <2> QED BY <1>0, <1>1, <1>6, <1>8, <2>1, <2>2 DEF IInv, TypeOK, Labels
<1>10. Amounts' /\ CounterEndsAtWrite'
  <2>1. \A j \in Irps : Queued(j)' \/ j = current' => Queued(j) \/ j = current
    BY <1>0, <1>1
  <2> QED BY <1>0, <2>1, AmountsFrame DEF IInv, CounterEndsAtWrite
<1>11. Places'
  <2>1. ASSUME NEW j \in Irps, j # i
        PROVE  /\ Open(j)' <=> Open(j)
               /\ Queued(j)' <=> Queued(j)
               /\ completions'[j] = completions[j] /\ status'[j] = status[j]
               /\ routine'[j] = routine[j]
    BY <1>1, <1>6, <1>7, <2>1
  <2>2. ASSUME NEW j \in Irps, j = i
        PROVE  /\ ~Open(j)' /\ ~IsCurrent(j) /\ ~Queued(j)'
               /\ completions'[j] = 1 /\ status'[j] = "cancelled" /\ routine'[j] = "null"
               /\ j # current /\ j # xoff /\ j # immediate /\ refs[j] = {}
               /\ j \notin dropped /\ j \in arrived
    BY <1>1, <1>3, <1>4, <1>5, <1>6, <1>7, <2>2
  <2> QED BY <1>0, <1>7, <2>1, <2>2 DEF IInv, Places
<1>12. WriteSlot' /\ Writer'
  BY <1>0, <1>3, <1>6, PcStaysFacts, WriteFrame
<1>13. XoffSlot' /\ ImmediateSlot'
  <2>1. /\ xoff # None => xoff \in Irps
        /\ immediate # None => immediate \in Irps
    BY XoffFacts, ImmediateFacts
  <2> QED BY <1>0, <1>4, <1>6, <2>1, PcStaysFacts, XoffFrame, ImmediateFrame
<1>14. Sending'
  <2>1. ASSUME NEW j \in Irps, j # i
        PROVE  SendingOf(j)'
    BY <1>0, <1>1, <1>6, <2>1, SendingFrame
  <2>2. ASSUME NEW j \in Irps, j = i
        PROVE  SendingOf(j)'
    <3>1. amount[j] \in Nat
      BY DEF IInv, TypeOK
    <3> QED BY <1>0, <1>1, <1>2, <1>3, <1>4, <1>5, <1>6, <2>2, <3>1 DEF SendingOf, Told
  <2> QED BY <2>1, <2>2 DEF Sending
<1> QED BY <1>1, <1>8, <1>9, <1>10, <1>11, <1>12, <1>13, <1>14 DEF IInv

\* A slot whose timer or procedure is due holds a request.
LEMMA DueFacts ==
  ASSUME IInv
  PROVE  /\ "CompleteWrite" \in dpcs \/ "WriteTimeout" \in dpcs => current # None /\ ~HandedOver
         /\ "CompleteXoff" \in dpcs \/ "TimeoutXoff" \in dpcs => xoff # None
         /\ "CompleteImmediate" \in dpcs \/ "TimeoutImmediate" \in dpcs => immediate # None
BY DEF IInv, WriteSlot, XoffSlot, ImmediateSlot, Idle, TimeoutDpc

LEMMA RunsFacts ==
  ASSUME IInv, NEW w \in Workers, NEW d \in Dpcs, Runs(w, d)
  PROVE  /\ pc[w] \in Quiet /\ d \in dpcs /\ dpcs' = dpcs \ {d} /\ cancelled' \subseteq Irps
BY DEF Runs, Quiet, IInv, TypeOK

LEMMA CompleteWriteStep ==
  ASSUME IInv, NEW w \in Workers, CompleteWrite(w)
  PROVE  IInv'
<1>1. Runs(w, "CompleteWrite") /\ TryWrite(w, "ISR", FALSE, "success")
  BY DEF CompleteWrite
<1>2. /\ pc[w] \in Quiet /\ "CompleteWrite" \in dpcs /\ dpcs' = dpcs \ {"CompleteWrite"}
      /\ cancelled' \subseteq Irps
  BY <1>1, RunsFacts DEF Dpcs
<1>3. WriteEnds("ISR", FALSE, "success") /\ current # None /\ ~HandedOver
  BY <1>2, DueFacts DEF WriteEnds
<1> QED BY <1>1, <1>2, <1>3, TryWriteStep

LEMMA WriteTimeoutStep ==
  ASSUME IInv, NEW w \in Workers, WriteTimeout(w)
  PROVE  IInv'
<1>1. Runs(w, "WriteTimeout") /\ TryWrite(w, "TOTAL", TRUE, "timeout")
  BY DEF WriteTimeout
<1>2. /\ pc[w] \in Quiet /\ "WriteTimeout" \in dpcs /\ dpcs' = dpcs \ {"WriteTimeout"}
      /\ cancelled' \subseteq Irps
  BY <1>1, RunsFacts DEF Dpcs
<1>3. WriteEnds("TOTAL", TRUE, "timeout") /\ current # None /\ ~HandedOver
  BY <1>2, DueFacts DEF WriteEnds
<1> QED BY <1>1, <1>2, <1>3, TryWriteStep

LEMMA CompleteXoffStep ==
  ASSUME IInv, NEW w \in Workers, CompleteXoff(w)
  PROVE  IInv'
<1>1. /\ Runs(w, "CompleteXoff") /\ Leave(w)
      /\ TryXoff("ISR", FALSE, {"xoff"}, "success", info[xoff])
  BY DEF CompleteXoff
<1>2. /\ pc[w] \in Quiet /\ "CompleteXoff" \in dpcs /\ dpcs' = dpcs \ {"CompleteXoff"}
      /\ cancelled' \subseteq Irps
  BY <1>1, RunsFacts DEF Dpcs
<1>3. XoffEnds("ISR", FALSE, {"xoff"}, "success") /\ xoff # None
  BY <1>2, DueFacts DEF XoffEnds
<1>4. info[xoff] \in Nat /\ PcStays
  BY <1>1, <1>2, <1>3, XoffFacts, Staying DEF IInv, TypeOK
<1> QED BY <1>1, <1>2, <1>3, <1>4, TryXoffStep

LEMMA TimeoutXoffStep ==
  ASSUME IInv, NEW w \in Workers, TimeoutXoff(w)
  PROVE  IInv'
<1>1. /\ Runs(w, "TimeoutXoff") /\ Leave(w)
      /\ TryXoff("TOTAL", TRUE, {}, "countertimeout", info[xoff])
  BY DEF TimeoutXoff
<1>2. /\ pc[w] \in Quiet /\ "TimeoutXoff" \in dpcs /\ dpcs' = dpcs \ {"TimeoutXoff"}
      /\ cancelled' \subseteq Irps
  BY <1>1, RunsFacts DEF Dpcs
<1>3. XoffEnds("TOTAL", TRUE, {}, "countertimeout") /\ xoff # None
  BY <1>2, DueFacts DEF XoffEnds
<1>4. info[xoff] \in Nat /\ PcStays
  BY <1>1, <1>2, <1>3, XoffFacts, Staying DEF IInv, TypeOK
<1> QED BY <1>1, <1>2, <1>3, <1>4, TryXoffStep

LEMMA CompleteImmediateStep ==
  ASSUME IInv, NEW w \in Workers, CompleteImmediate(w)
  PROVE  IInv'
<1>1. Runs(w, "CompleteImmediate") /\ TryImmediate(w, "ISR", FALSE, "success")
  BY DEF CompleteImmediate
<1>2. /\ pc[w] \in Quiet /\ "CompleteImmediate" \in dpcs
      /\ dpcs' = dpcs \ {"CompleteImmediate"} /\ cancelled' \subseteq Irps
  BY <1>1, RunsFacts DEF Dpcs
<1>3. ImmediateEnds("ISR", FALSE, "success") /\ immediate # None
  BY <1>2, DueFacts DEF ImmediateEnds
<1> QED BY <1>1, <1>2, <1>3, TryImmediateStep

LEMMA TimeoutImmediateStep ==
  ASSUME IInv, NEW w \in Workers, TimeoutImmediate(w)
  PROVE  IInv'
<1>1. Runs(w, "TimeoutImmediate") /\ TryImmediate(w, "TOTAL", TRUE, "timeout")
  BY DEF TimeoutImmediate
<1>2. /\ pc[w] \in Quiet /\ "TimeoutImmediate" \in dpcs
      /\ dpcs' = dpcs \ {"TimeoutImmediate"} /\ cancelled' \subseteq Irps
  BY <1>1, RunsFacts DEF Dpcs
<1>3. ImmediateEnds("TOTAL", TRUE, "timeout") /\ immediate # None
  BY <1>2, DueFacts DEF ImmediateEnds
<1> QED BY <1>1, <1>2, <1>3, TryImmediateStep

LEMMA CancelInSlotStep ==
  ASSUME IInv, NEW w \in Workers, pc[w] \in Quiet, NEW i \in Irps, CancelInSlot(w, i)
  PROVE  IInv'
<1>0. Marks(i) => cancelled' \subseteq Irps /\ dpcs' = dpcs
  BY DEF Marks, IInv, TypeOK
<1>1. CASE routine[i] = "write" /\ Marks(i) /\ TryWrite(w, "CANCEL", TRUE, "cancelled")
  <2>1. i = current /\ ~HandedOver
    BY <1>1 DEF IInv, Places, IsCurrent
  <2>2. current # None
    BY <2>1, Names
  <2>3. WriteEnds("CANCEL", TRUE, "cancelled")
    BY <1>0, <1>1, <2>1 DEF WriteEnds
  <2> QED BY <1>0, <1>1, <2>1, <2>2, <2>3, TryWriteStep
<1>2. CASE routine[i] = "immediate" /\ Marks(i) /\ TryImmediate(w, "CANCEL", TRUE, "cancelled")
  <2>1. i = immediate
    BY <1>2 DEF IInv, Places
  <2>2. immediate # None
    BY <2>1, Names
  <2>3. ImmediateEnds("CANCEL", TRUE, "cancelled")
    BY <1>0, <1>2, <2>1 DEF ImmediateEnds
  <2> QED BY <1>0, <1>2, <2>2, <2>3, TryImmediateStep
<1>3. CASE /\ routine[i] = "xoff" /\ Marks(i) /\ Leave(w)
           /\ TryXoff("CANCEL", TRUE, {"xoff"}, "cancelled", info[xoff])
  <2>1. i = xoff
    BY <1>3 DEF IInv, Places
  <2>2. xoff # None
    BY <2>1, Names
  <2>3. XoffEnds("CANCEL", TRUE, {"xoff"}, "cancelled")
    BY <1>0, <1>3, <2>1 DEF XoffEnds
  <2>4. info[xoff] \in Nat /\ PcStays
    BY <1>3, <2>1, Staying DEF IInv, TypeOK
  <2> QED BY <1>0, <1>3, <2>2, <2>3, <2>4, TryXoffStep
<1> QED BY <1>1, <1>2, <1>3 DEF CancelInSlot

\* A request that is only marked, by a worker that returns or stays where it is.
LEMMA OnlyMarksStep ==
  ASSUME IInv, NEW w \in Workers, pc[w] \in Quiet, NEW i \in Irps, OnlyMarks(i),
         Leave(w) \/ UNCHANGED <<pc, aborting>>
  PROVE  IInv'
<1>1. PcStays /\ cancelled' \subseteq Irps
  BY Staying DEF OnlyMarks, IInv, TypeOK
<1>2. UNCHANGED <<slotVars, arrived, amount, status, info, routine, refs, completions,
                  isrVars, armed, dpcs, completeCurrent, totalChars, sent, received,
                  dropped, forgotten>>
  BY DEF OnlyMarks
<1> QED BY <1>1, <1>2, MarkStep

LEMMA IoCancelIrpStep ==
  ASSUME IInv, NEW w \in Workers, NEW i \in Irps, IoCancelIrp(w, i)
  PROVE  IInv'
<1>1. pc[w] \in Quiet
  BY DEF IoCancelIrp, Quiet
<1>2. ASSUME NEW k \in DOMAIN queue, CancelQueued(k), UNCHANGED <<pc, aborting>>
      PROVE  IInv'
  <2>1. PcStays
    BY <1>1, <1>2, Staying
  <2> QED BY <1>2, <2>1, CancelQueuedStep
<1> QED BY <1>1, <1>2, CancelInSlotStep, OnlyMarksStep DEF IoCancelIrp

LEMMA StartKillStep ==
  ASSUME IInv, NEW w \in Workers, StartKill(w)
  PROVE  IInv'
<1>1. /\ pc[w] = "idle" /\ pc' = [pc EXCEPT ![w] = "kill"]
      /\ aborting' = aborting \union {w} \/ aborting' = aborting
      /\ UNCHANGED <<slotVars, arrived, amount, status, info, cancelled, routine, refs,
                     completions, isrVars, armed, dpcs, completeCurrent, totalChars, sent,
                     received, dropped, forgotten>>
  BY DEF StartKill, irpVars
<1>2. PcStays /\ cancelled' \subseteq Irps
  BY <1>1 DEF PcStays, Quiet, Labels, IInv, TypeOK
<1> QED BY <1>1, <1>2, MarkStep

LEMMA KillQueuedStep ==
  ASSUME IInv, NEW w \in Workers, KillQueued(w)
  PROVE  IInv'
<1>1. /\ pc[w] \in Quiet /\ queue # <<>> /\ CancelQueued(Len(queue))
      /\ UNCHANGED <<pc, aborting>>
  BY DEF KillQueued, Quiet
<1>2. Len(queue) \in DOMAIN queue
  BY <1>1 DEF IInv, TypeOK
<1>3. PcStays
  BY <1>1, Staying
<1> QED BY <1>1, <1>2, <1>3, CancelQueuedStep

LEMMA KillSlotStep ==
  ASSUME IInv, NEW w \in Workers, pc[w] \in Quiet, NEW i \in Irps \union {None}, KillSlot(w, i)
  PROVE  IInv'
<1>1. CASE i = None
  <2>1. /\ Leave(w)
        /\ UNCHANGED <<slotVars, arrived, amount, status, info, cancelled, routine, refs,
                       completions, isrVars, armed, dpcs, completeCurrent, totalChars,
                       sent, received, dropped, forgotten>>
    BY <1>1 DEF KillSlot, irpVars
  <2>2. PcStays /\ cancelled' \subseteq Irps
    BY <2>1, Staying DEF IInv, TypeOK
  <2> QED BY <2>1, <2>2, MarkStep
<1>2. CASE i # None
  <2>1. i \in Irps /\ (CancelInSlot(w, i) \/ (OnlyMarks(i) /\ Leave(w)))
    BY <1>2 DEF KillSlot
  <2> QED BY <2>1, CancelInSlotStep, OnlyMarksStep
<1> QED BY <1>1, <1>2

LEMMA KillStep ==
  ASSUME IInv, NEW w \in Workers, KillCurrent(w) \/ KillXoff(w)
  PROVE  IInv'
<1>1. current \in Irps \union {None} /\ xoff \in Irps \union {None}
  BY Names DEF IInv, TypeOK
<1> QED BY <1>1, KillSlotStep DEF KillCurrent, KillXoff, Quiet

-----------------------------------------------------------------------------
(* The invariant is inductive.                                             *)

LEMMA NextIInv == IInv /\ [Next]_vars /\ SlotFree => IInv'
<1> SUFFICES ASSUME IInv, [Next]_vars, SlotFree PROVE IInv'
  OBVIOUS
<1>1. CASE UNCHANGED vars
  <2>1. /\ UNCHANGED <<slotVars, arrived, amount, status, info, cancelled, routine, refs,
                       completions, isrVars, armed, dpcs, completeCurrent, totalChars,
                       sent, received, dropped, forgotten, pc, aborting>>
    BY <1>1 DEF vars, irpVars
  <2>2. PcStays /\ cancelled' \subseteq Irps
    BY <2>1 DEF PcStays, Labels, IInv, TypeOK
  <2> QED BY <2>1, <2>2, MarkStep
<1>2. ASSUME NEW w \in Workers, NEW i \in Irps,
             Write(w, i) \/ Flush(w, i) \/ XoffCounter(w, i) \/ ImmediateChar(w, i)
             \/ IoCancelIrp(w, i)
      PROVE  IInv'
  BY <1>2, WriteStep, FlushStart, XoffCounterStep, ImmediateCharStep, IoCancelIrpStep
<1>3. ASSUME NEW w \in Workers,
             StopCounter(w) \/ GiveWriteToIsr(w) \/ DiscountWrite(w) \/ HandOverXoff(w)
             \/ GetNextIrp(w) \/ StartImmediate(w) \/ GetNextImmediate(w)
      PROVE  IInv'
  BY <1>3, StopCounterStep, GiveWriteToIsrStep, DiscountWriteStep, HandOverXoffStep,
     GetNextIrpStep, StartImmediateStep, GetNextImmediateStep
<1>4. ASSUME NEW w \in Workers,
             CompleteWrite(w) \/ WriteTimeout(w) \/ CompleteXoff(w) \/ TimeoutXoff(w)
             \/ CompleteImmediate(w) \/ TimeoutImmediate(w)
      PROVE  IInv'
  BY <1>4, CompleteWriteStep, WriteTimeoutStep, CompleteXoffStep, TimeoutXoffStep,
     CompleteImmediateStep, TimeoutImmediateStep
<1>5. ASSUME NEW w \in Workers,
             StartKill(w) \/ KillQueued(w) \/ KillCurrent(w) \/ KillXoff(w)
      PROVE  IInv'
  BY <1>5, StartKillStep, KillQueuedStep, KillStep
<1>6. CASE SendImmediate \/ SendWrite \/ CountChar \/ \E s \in Slots : TimerExpires(s)
  BY <1>6, SendImmediateStep, SendWriteStep, CountCharStep, TimerExpiresStep
<1> QED BY <1>1, <1>2, <1>3, <1>4, <1>5, <1>6 DEF Next

\* What the theorems assume is only that an xoff counter is never handed over to
\* a CurrentXoffIrp that is taken.
THEOREM Invariance == Spec /\ [][SlotFree]_vars => []IInv
<1>1. IInv /\ [Next]_vars /\ [SlotFree]_vars => IInv'
  <2>1. UNCHANGED vars => SlotFree
    BY DEF vars, slotVars, SlotFree
  <2> QED BY <2>1, NextIInv
<1> QED BY <1>1, InitIInv, PTL DEF Spec

-----------------------------------------------------------------------------
(* Steps that leave WriteQueue, CurrentWriteIrp and the flushes alone. *)

Elsewhere ==
  /\ UNCHANGED <<queue, current, arrived>>
  /\ \A f \in Flushes : completions'[f] = completions[f]
  /\ xoff' \in {xoff, None} \/ (xoff' = current /\ current \in Xoffs)

\* Another request is completed.
LEMMA FlushesKept ==
  ASSUME IInv, NEW i, i \notin Flushes, Complete(i) \/ UNCHANGED completions
  PROVE  \A f \in Flushes : completions'[f] = completions[f]
BY Names DEF IInv, TypeOK, Complete

LEMMA TryElsewhere ==
  ASSUME IInv, NEW w, NEW ref, NEW grab, NEW timers, NEW newStatus, NEW newInfo,
         \/ TryWrite(w, ref, grab, newStatus)
         \/ TryImmediate(w, ref, grab, newStatus)
         \/ TryXoff(ref, grab, timers, newStatus, newInfo)
  PROVE  Elsewhere
<1>1. CASE TryWrite(w, ref, grab, newStatus) \/ TryImmediate(w, ref, grab, newStatus)
  BY <1>1 DEF TryWrite, TryImmediate, TryLeaves, slotVars, Elsewhere
<1>2. CASE TryXoff(ref, grab, timers, newStatus, newInfo)
  <2>1. /\ UNCHANGED <<queue, current, arrived>>
        /\ (xoff' = None /\ Complete(xoff)) \/ UNCHANGED <<xoff, completions>>
    BY <1>2 DEF TryXoff, TryLeaves
  <2>2. xoff \notin Flushes
    BY Names DEF IInv, TypeOK
  <2> QED BY <2>1, <2>2, FlushesKept DEF Elsewhere
<1> QED BY <1>1, <1>2

LEMMA CancelElsewhere ==
  ASSUME IInv, NEW w \in Workers, NEW i, CancelInSlot(w, i) \/ OnlyMarks(i)
  PROVE  Elsewhere
<1>1. CASE CancelInSlot(w, i)
  BY <1>1, TryElsewhere DEF CancelInSlot
<1>2. CASE OnlyMarks(i)
  BY <1>2 DEF OnlyMarks, slotVars, Elsewhere
<1> QED BY <1>1, <1>2

LEMMA ServiceElsewhere ==
  ASSUME IInv, NEW w \in Workers,
         \/ StopCounter(w) \/ GiveWriteToIsr(w) \/ DiscountWrite(w) \/ HandOverXoff(w)
         \/ StartImmediate(w) \/ GetNextImmediate(w)
         \/ CompleteWrite(w) \/ WriteTimeout(w) \/ CompleteXoff(w) \/ TimeoutXoff(w)
         \/ CompleteImmediate(w) \/ TimeoutImmediate(w) \/ StartKill(w)
  PROVE  Elsewhere
<1>1. CASE StopCounter(w)
  <2>1. CASE TryXoff("XOFF", TRUE, {"xoff"}, "morewrites", 0)
    BY <2>1, TryElsewhere
  <2>2. CASE UNCHANGED <<slotVars, irpVars>>
    BY <2>2 DEF slotVars, irpVars, Elsewhere
  <2> QED BY <1>1, <2>1, <2>2 DEF StopCounter
<1>2. CASE GiveWriteToIsr(w)
  BY <1>2 DEF GiveWriteToIsr, StarterLeaves, slotVars, Elsewhere
<1>3. CASE DiscountWrite(w) \/ StartKill(w)
  BY <1>3 DEF DiscountWrite, StartKill, slotVars, irpVars, Elsewhere
<1>4. CASE HandOverXoff(w)
  BY <1>4 DEF HandOverXoff, Elsewhere
<1>5. CASE StartImmediate(w) \/ GetNextImmediate(w)
  <2>1. immediate \notin Flushes
    BY Names DEF IInv, TypeOK
  <2>2. /\ UNCHANGED <<queue, current, arrived, xoff>>
        /\ Complete(immediate) \/ UNCHANGED completions
    BY <1>5 DEF StartImmediate, GetNextImmediate
  <2> QED BY <2>1, <2>2, FlushesKept DEF Elsewhere
<1>6. CASE \/ CompleteWrite(w) \/ WriteTimeout(w) \/ CompleteXoff(w) \/ TimeoutXoff(w)
           \/ CompleteImmediate(w) \/ TimeoutImmediate(w)
  BY <1>6, TryElsewhere DEF CompleteWrite, WriteTimeout, CompleteXoff, TimeoutXoff,
     CompleteImmediate, TimeoutImmediate
<1> QED BY <1>1, <1>2, <1>3, <1>4, <1>5, <1>6

LEMMA DeviceElsewhere ==
  ASSUME \/ SendImmediate \/ SendWrite \/ CountChar \/ (\E s \in Slots : TimerExpires(s))
         \/ UNCHANGED vars
  PROVE  Elsewhere
BY DEF SendImmediate, SendWrite, CountChar, TimerExpires, InterruptLeaves, vars, slotVars,
       irpVars, Elsewhere

LEMMA KillElsewhere ==
  ASSUME IInv, NEW w \in Workers, KillCurrent(w) \/ KillXoff(w)
  PROVE  Elsewhere
<1> SUFFICES ASSUME NEW i, KillSlot(w, i) PROVE Elsewhere
  BY DEF KillCurrent, KillXoff
<1>1. CASE UNCHANGED <<slotVars, irpVars>>
  BY <1>1 DEF slotVars, irpVars, Elsewhere
<1> QED BY <1>1, CancelElsewhere DEF KillSlot

(***************************************************************************)
(* The kinds of a step, as far as the queue is concerned.                  *)
(***************************************************************************)
LEMMA StepKinds ==
  ASSUME IInv, [Next]_vars
  PROVE  \/ \E w \in Workers, i \in Irps :
              Write(w, i) \/ Flush(w, i) \/ XoffCounter(w, i) \/ ImmediateChar(w, i)
         \/ \E k \in DOMAIN queue : CancelQueued(k)
         \/ \E w \in Workers : GetNextIrp(w)
         \/ Elsewhere
<1>1. ASSUME NEW w \in Workers, NEW i \in Irps, IoCancelIrp(w, i)
      PROVE  (\E k \in DOMAIN queue : CancelQueued(k)) \/ Elsewhere
  BY <1>1, CancelElsewhere DEF IoCancelIrp
<1>2. ASSUME NEW w \in Workers, KillQueued(w)
      PROVE  \E k \in DOMAIN queue : CancelQueued(k)
  <2>1. CancelQueued(Len(queue)) /\ Len(queue) \in DOMAIN queue
    BY <1>2 DEF KillQueued, IInv, TypeOK
  <2> QED BY <2>1
<1> QED BY <1>1, <1>2, ServiceElsewhere, DeviceElsewhere, KillElsewhere DEF Next

-----------------------------------------------------------------------------
(* What the invariant says. *)

LEMMA OneWriterHolds == IInv => OneWriter
<1> SUFFICES ASSUME IInv PROVE OneWriter
  OBVIOUS
<1>1. \A v, w \in Workers : Working(v) /\ Working(w) => v = w
  BY DEF IInv, Writer
<1>2. ASSUME NEW w \in Workers, Working(w)
      PROVE  /\ current # None /\ writeLength = 0
             /\ ~HandedOver => completions[current] = 0 /\ refs[current] = {}
  BY <1>2, WorkingFacts, CurrentFacts
<1>3. ASSUME NEW v \in Workers, NEW w \in Workers,
             {pc[v], pc[w]} \subseteq {"startimmediate", "getimmediate"}
      PROVE  v = w
  BY <1>3 DEF IInv, ImmediateSlot, AtImmediate
<1>4. ASSUME NEW w \in Workers, pc[w] \in {"startimmediate", "getimmediate"}
      PROVE  /\ immediate # None /\ ~transmitImmediate
             /\ completions[immediate] = 0 /\ refs[immediate] = {}
  BY <1>4, ImmediateFacts DEF IInv, ImmediateSlot, AtImmediate
<1> QED BY <1>1, <1>2, <1>3, <1>4 DEF OneWriter

LEMMA ReferencesMatchHolds == IInv => ReferencesMatch
BY DEF IInv, WriteSlot, XoffSlot, ImmediateSlot, AtImmediate, ReferencesMatch

LEMMA CompletedOnceHolds == IInv => CompletedOnce
<1> SUFFICES ASSUME IInv, NEW i \in Irps
             PROVE  /\ completions[i] <= 1
                    /\ completions[i] = 1 =>
                         /\ ~Queued(i) /\ i \notin {xoff, immediate}
                         /\ i = current => HandedOver
                         /\ refs[i] = {} /\ routine[i] = "null"
                         /\ status[i] \notin {"none", "pending"}
                    /\ (routine[i] = "queued") <=> Queued(i)
  BY DEF CompletedOnce
<1>1. completions[i] \in {0, 1} /\ (Queued(i) <=> (routine[i] = "queued"))
  BY DEF IInv, Places
<1>2. ASSUME completions[i] = 1
      PROVE  /\ ~Queued(i) /\ i \notin {xoff, immediate}
             /\ i = current => HandedOver
             /\ refs[i] = {} /\ routine[i] = "null"
             /\ status[i] \notin {"none", "pending"}
  <2>1. ~Open(i)
    BY <1>2 DEF Open
  <2>2. ~Queued(i) /\ ~IsCurrent(i) /\ i # xoff /\ i # immediate
    BY <2>1 DEF IInv, Places
  <2>3. routine[i] \in {"null", "queued", "write", "xoff", "immediate"}
    BY DEF IInv, TypeOK, Slots
  <2>4. refs[i] = {} /\ routine[i] = "null" /\ status[i] \notin {"none", "pending"}
    BY <1>2, <2>2, <2>3 DEF IInv, Places
  <2> QED BY <2>2, <2>4 DEF IsCurrent
<1> QED BY <1>1, <1>2

LEMMA NoneLostHolds == IInv => NoneLost
<1> SUFFICES ASSUME IInv, NEW i \in Irps \ dropped, Open(i) PROVE Reachable(i)
  BY DEF NoneLost
<1> QED BY DEF IInv, Places, IsCurrent, Reachable

LEMMA InfoIsExactHolds == IInv => InfoIsExact
<1> SUFFICES ASSUME IInv, NEW i \in Irps
             PROVE  /\ i \in Writes => sent[i] <= amount[i]
                    /\ i \in Xoffs \union Immediates => sent[i] <= 1
                    /\ i \in Writes /\ completions[i] = 1 =>
                         /\ status[i] = "success" => info[i] = amount[i] /\ sent[i] = amount[i]
                         /\ status[i] = "timeout" => info[i] = sent[i]
                         /\ status[i] = "cancelled" => info[i] = 0
                    /\ i \in Immediates /\ completions[i] = 1 /\ status[i] = "success" =>
                         sent[i] = 1
  BY DEF InfoIsExact
<1>1. SendingOf(i)
  BY DEF IInv, Sending
<1> QED BY <1>1 DEF SendingOf, Told

\* When SerialGetNextWrite has a flush at hand, every other request still waits.
LEMMA FlushFindsNothingBegun ==
  ASSUME IInv, current \in Flushes, NEW i \in Writes, Open(i)
  PROVE  sent[i] = 0
<1>1. i \in Irps /\ i # current /\ i # xoff /\ i # immediate /\ i \notin dropped
  BY Names DEF IInv, TypeOK
<1>2. Queued(i)
  BY <1>1 DEF IInv, Places, IsCurrent
<1> QED BY <1>1, <1>2 DEF IInv, Sending, SendingOf

\* A flush that ends elsewhere is not successful.
LEMMA FlushEnds ==
  ASSUME IInv, [Next]_vars, NEW f \in Flushes
  PROVE  completions'[f] = completions[f] \/ status'[f] = "cancelled" \/ f = current
<1>0. f \in Irps /\ completions \in [Irps -> Nat] /\ f \in DOMAIN status
  BY Names DEF IInv, TypeOK
<1>1. ASSUME NEW w \in Workers, NEW i \in Irps,
             Write(w, i) \/ XoffCounter(w, i) \/ ImmediateChar(w, i)
      PROVE  completions'[f] = completions[f]
  <2>1. i \notin Flushes
    BY <1>1, Names DEF Write, XoffCounter, ImmediateChar
  <2>2. Complete(i) \/ UNCHANGED completions
    BY <1>1 DEF Write, XoffCounter, ImmediateChar, StartOrQueue
  <2> QED BY <2>1, <2>2, FlushesKept
<1>2. ASSUME NEW w \in Workers, NEW i \in Irps, Flush(w, i)
      PROVE  completions'[f] = completions[f] \/ status'[f] = "cancelled"
  <2>1. UNCHANGED completions \/ (Complete(i) /\ status' = [status EXCEPT ![i] = "cancelled"])
    BY <1>2 DEF Flush, StartOrQueue
  <2> QED BY <1>0, <2>1 DEF Complete
<1>3. ASSUME NEW k \in DOMAIN queue, CancelQueued(k)
      PROVE  completions'[f] = completions[f] \/ status'[f] = "cancelled"
  BY <1>0, <1>3 DEF CancelQueued, Complete
<1>4. ASSUME NEW w \in Workers, GetNextIrp(w)
      PROVE  completions'[f] = completions[f] \/ f = current
  <2>1. Complete(current) \/ UNCHANGED completions
    BY <1>4 DEF GetNextIrp
  <2> QED BY <1>0, <2>1 DEF Complete
<1>5. CASE Elsewhere
  BY <1>5 DEF Elsewhere
<1> QED BY <1>1, <1>2, <1>3, <1>4, <1>5, StepKinds

LEMMA FlushStepHolds == IInv /\ [Next]_vars => FlushStep
<1> SUFFICES ASSUME IInv, [Next]_vars, NEW f \in Flushes,
                    completions'[f] > completions[f], status'[f] = "success",
                    NEW i \in Writes, Open(i)
             PROVE  sent[i] = 0
  BY DEF FlushStep
<1>1. completions[f] \in Nat
  BY Names DEF IInv, TypeOK
<1>2. f = current
  BY <1>1, FlushEnds
<1> QED BY <1>2, FlushFindsNothingBegun

-----------------------------------------------------------------------------
(* Theorems. *)

(***************************************************************************)
(* Whoever starts or completes a write or an immediate character is alone  *)
(* and has a request that nothing refers to; the references of the three   *)
(* slots are those of the work in flight; and every request is completed   *)
(* at most once and never touched again (write.c, immediat.c, utils.c).    *)
(***************************************************************************)
THEOREM WriteProtocolIsKept == Spec /\ [][SlotFree]_vars => []ReferenceProtocol
<1>1. IInv => ReferenceProtocol
  BY OneWriterHolds, ReferencesMatchHolds, CompletedOnceHolds DEF IInv, ReferenceProtocol
<1> QED BY Invariance, <1>1, PTL

(***************************************************************************)
(* Until it is completed a request can be found in the queue or in a slot, *)
(* but for the flushes that SerialGetNextWrite drops (write.c).            *)
(***************************************************************************)
THEOREM WritesAreReachable == Spec /\ [][SlotFree]_vars => []NoneLost
BY Invariance, NoneLostHolds, PTL

(***************************************************************************)
(* TotalCharsQueued counts what waits and what is forgotten, and a request *)
(* is told how many of its characters were sent (write.c, isr.c).          *)
(***************************************************************************)
THEOREM CharactersAreAccounted == Spec /\ [][SlotFree]_vars => []CharactersAccounted
<1>1. IInv => CharactersAccounted
  BY InfoIsExactHolds DEF IInv, Accounts, CharactersAccounted
<1> QED BY Invariance, <1>1, PTL

(***************************************************************************)
(* No character is counted for an xoff counter while a later write is in   *)
(* the interrupt routine's hands (SerialStartWrite, SerialGiveXoffToIsr).  *)
(***************************************************************************)
THEOREM CounterEndsBeforeWrite == Spec /\ [][SlotFree]_vars => []CounterEndsAtWrite
<1>1. IInv => CounterEndsAtWrite
  BY DEF IInv
<1> QED BY Invariance, <1>1, PTL

(***************************************************************************)
(* When a flush succeeds, no write is open that the device was given       *)
(* characters of (flush.c, SerialGetNextWrite).                            *)
(***************************************************************************)
THEOREM FlushesWait == Spec /\ [][SlotFree]_vars => FlushWaitsForWrites
<1>1. IInv /\ [Next]_vars => [FlushStep]_vars
  BY FlushStepHolds
<1> QED BY Invariance, <1>1, PTL DEF Spec, FlushWaitsForWrites

(***************************************************************************)
(* With one xoff counter CurrentXoffIrp is always free when the counter is *)
(* handed over, so that the theorems hold of every behaviour of Spec.      *)
(***************************************************************************)
THEOREM OneCounterFindsSlotFree ==
  ASSUME \A x, y \in Xoffs : x = y
  PROVE  Spec => [][SlotFree]_vars /\ []IInv
<1>1. ASSUME IInv, [Next]_vars PROVE SlotFree
  <2> SUFFICES ASSUME xoff' \notin {xoff, None}, xoff # None PROVE FALSE
    BY DEF SlotFree
  <2>1. ASSUME NEW w \in Workers, NEW i \in Irps,
               Write(w, i) \/ Flush(w, i) \/ XoffCounter(w, i) \/ ImmediateChar(w, i)
        PROVE  FALSE
    BY <2>1 DEF Write, Flush, XoffCounter, ImmediateChar, ArrivalLeaves
  <2>2. ASSUME NEW k \in DOMAIN queue, CancelQueued(k)
        PROVE  FALSE
    BY <2>2 DEF CancelQueued
  <2>3. ASSUME NEW w \in Workers, GetNextIrp(w)
        PROVE  FALSE
    BY <2>3 DEF GetNextIrp
  <2>4. CASE Elsewhere
    <3>1. xoff' = current /\ current \in Xoffs /\ xoff \in Xoffs
      BY <1>1, <2>4, XoffFacts DEF Elsewhere
    <3> QED BY <3>1
  <2> QED BY <1>1, <2>1, <2>2, <2>3, <2>4, StepKinds
<1>2. IInv /\ [Next]_vars => IInv'
  BY <1>1, NextIInv
<1> QED BY <1>1, <1>2, InitIInv, PTL DEF Spec

-----------------------------------------------------------------------------
(* WriteQueue implements IrpQueue. *)

\* The requests the queue has nothing to do with any more.
Done == {i \in QueueIrps : i \in arrived /\ ~Queued(i) /\ i # current}

LEMMA QueueStutters ==
  ASSUME UNCHANGED <<queue, current>>, \A i \in QueueIrps : i \in arrived' <=> i \in arrived
  PROVE  UNCHANGED Queue!vars
BY DEF Queue!vars, Queued

LEMMA RequestRefines ==
  ASSUME IInv, NEW w \in Workers, NEW i \in QueueIrps, Arrives(w, i),
         \/ current' = i /\ MayStart /\ queue' = queue
         \/ UNCHANGED <<queue, current>>
         \/ ~MayStart /\ queue' = Append(queue, i) /\ current' = current
  PROVE  Queue!Next
<1>1. i \notin arrived /\ arrived' = arrived \union {i} /\ i \in Irps
  BY Names DEF Arrives
<1>2. i # current /\ ~Queued(i)
  BY <1>1, NewcomerFacts
<1>3. i \notin Queue!Known
  BY <1>1, <1>2 DEF Queue!Known, Queue!ToSet, Queued
<1>4. CASE current' = i /\ MayStart /\ queue' = queue
  <2>1. \A j \in QueueIrps : j # current /\ (Queued(j)' <=> Queued(j))
    BY <1>4, Names DEF MayStart, Queued
  <2>2. Done' = Done
    BY <1>1, <1>4, <2>1 DEF Done
  <2>3. Queue!Begin(i)
    BY <1>3, <1>4, <2>2 DEF Queue!Begin, MayStart, Done
  <2> QED BY <2>3 DEF Queue!Next
<1>5. CASE UNCHANGED <<queue, current>>
  <2>1. \A j \in QueueIrps : Queued(j)' <=> Queued(j)
    BY <1>5 DEF Queued
  <2>2. Done' = Done \union {i}
    BY <1>1, <1>2, <1>5, <2>1 DEF Done
  <2>3. Queue!Refuse(i)
    BY <1>3, <1>5, <2>2 DEF Queue!Refuse, Done
  <2> QED BY <2>3 DEF Queue!Next
<1>6. CASE ~MayStart /\ queue' = Append(queue, i) /\ current' = current
  <2>1. \A j \in Irps : Queued(j)' <=> Queued(j) \/ j = i
    BY <1>2, <1>6, Enqueued DEF IInv, TypeOK
  <2>2. current # None
    BY <1>6 DEF MayStart, IInv, WriteSlot
  <2>3. Done' = Done
    BY <1>1, <1>6, <2>1, Names DEF Done
  <2>4. Queue!Enqueue(i)
    BY <1>3, <1>6, <2>2, <2>3 DEF Queue!Enqueue, Done
  <2> QED BY <2>4 DEF Queue!Next
<1> QED BY <1>4, <1>5, <1>6

LEMMA FinishRefines ==
  ASSUME IInv, NEW w \in Workers, GetNextIrp(w)
  PROVE  Queue!Next
<1>1. Working(w) /\ arrived' = arrived /\ (NoSuccessor(w) \/ Successor(w))
  BY GetNextIrpFacts
<1>2. /\ current \in QueueIrps /\ current \in Irps /\ current # None /\ ~Queued(current)
      /\ current \in arrived
  BY <1>1, WorkingFacts, CurrentFacts
<1>3. /\ current' # current
      /\ \A j \in Irps : Queued(j)' <=> Queued(j) /\ j # current'
      /\ \A j \in Irps : j = current' => Queued(j)
  <2>1. /\ \A j \in Irps : Queued(j)' <=> Queued(j) /\ j # current'
        /\ \A j \in Irps : j = current' => Queued(j) /\ j # current
    BY <1>1, NextFacts
  <2> QED BY <1>2, <2>1
<1>4. Done' = Done \union {current}
  BY <1>1, <1>2, <1>3, Names DEF Done
<1>5. Queue!Finish
  BY <1>1, <1>2, <1>4 DEF NoSuccessor, Successor, Queue!Finish, Done
<1> QED BY <1>5 DEF Queue!Next

LEMMA CancelRefines ==
  ASSUME IInv, NEW k \in DOMAIN queue, CancelQueued(k)
  PROVE  Queue!Next
<1>1. queue' = RemoveAt(queue, k) /\ current' = current /\ arrived' = arrived
  BY DEF CancelQueued
<1>2. /\ queue[k] \in QueueIrps /\ Queued(queue[k])
      /\ \A j \in Irps : Queued(j)' <=> Queued(j) /\ j # queue[k]
  BY <1>1, Withdrawn DEF IInv, TypeOK
<1>3. queue[k] # current /\ queue[k] \in arrived /\ queue[k] \in Irps
  <2>1. queue[k] \in Irps /\ queue[k] # current
    BY <1>2, Names, CurrentFacts
  <2> QED BY <1>2, <2>1 DEF IInv, Places, Open
<1>4. Done' = Done \union {queue[k]}
  BY <1>1, <1>2, <1>3, Names DEF Done
<1>5. Queue!Withdraw(k)
  BY <1>1, <1>4 DEF Queue!Withdraw, Queue!RemoveAt, RemoveAt, Done
<1> QED BY <1>5 DEF Queue!Next

LEMMA StepRefines ==
  ASSUME IInv, [Next]_vars
  PROVE  [Queue!Next]_(Queue!vars)
<1>1. ASSUME NEW w \in Workers, NEW i \in Irps, Write(w, i) \/ Flush(w, i) \/ XoffCounter(w, i)
      PROVE  Queue!Next
  <2>1. i \in QueueIrps /\ Arrives(w, i)
    BY <1>1, Names DEF Write, Flush, XoffCounter
  <2>2. \/ current' = i /\ MayStart /\ queue' = queue
        \/ UNCHANGED <<queue, current>>
        \/ ~MayStart /\ queue' = Append(queue, i) /\ current' = current
    BY <1>1 DEF Write, Flush, XoffCounter, StartOrQueue
  <2> QED BY <2>1, <2>2, RequestRefines
<1>2. ASSUME NEW w \in Workers, NEW i \in Irps, ImmediateChar(w, i)
      PROVE  UNCHANGED Queue!vars
  <2>1. UNCHANGED <<queue, current>> /\ arrived' = arrived \union {i} /\ i \notin QueueIrps
    BY <1>2, Names DEF ImmediateChar, Arrives
  <2> QED BY <2>1, QueueStutters
<1>3. CASE Elsewhere
  BY <1>3, QueueStutters DEF Elsewhere
<1> QED BY <1>1, <1>2, <1>3, FinishRefines, CancelRefines, StepKinds

(***************************************************************************)
(* WriteQueue is a request queue in the sense of IrpQueue: first come,     *)
(* first served, one at a time, and a request is done with it when it is   *)
(* answered, or when CurrentXoffIrp has it (write.c, utils.c).             *)
(***************************************************************************)
THEOREM WriteQueueIsIrpQueue == Spec /\ [][SlotFree]_vars => QueueSpec
<1>1. Init => Queue!Init
  BY DEF Init, Queue!Init
<1> QED BY <1>1, Invariance, StepRefines, PTL DEF Spec, QueueSpec, Queue!Spec
==============================================================================
