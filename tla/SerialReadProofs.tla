-------------------------- MODULE SerialReadProofs --------------------------
(***************************************************************************)
(* Proofs about the read path, for any number of requests and workers, any *)
(* lengths, buffer sizes and timeouts.                                     *)
(***************************************************************************)
EXTENDS SerialRead, QueueLemmas, SequenceTheorems, FiniteSetTheorems, TLAPS

-----------------------------------------------------------------------------
(* What the operations of the typeahead ring return and preserve, for a ring *)
(* of any size. *)

LEMMA RingFields ==
  ASSUME NEW S, NEW r, IsRing(r, S)
  PROVE  /\ r.size \in Nat \ {0}
         /\ r.slots \in [0 .. r.size - 1 -> S]
         /\ r.first \in 0 .. r.size - 1
         /\ r.current \in 0 .. r.size - 1
         /\ r.count \in 0 .. r.size
BY DEF IsRing, Rings

\* A pointer moved by at most the size of the ring stays inside it.
LEMMA AdvanceInRange ==
  ASSUME NEW S, NEW r, IsRing(r, S), NEW slot \in 0 .. r.size - 1, NEW n \in 0 .. r.size
  PROVE  Advance(r, slot, n) \in 0 .. r.size - 1
BY RingFields DEF Advance

LEMMA EmptyRingIsRing ==
  ASSUME NEW S, Stale \in S, NEW n \in Nat \ {0}
  PROVE  IsRing(EmptyRing(n), S) /\ EmptyRing(n).count = 0
BY DEF IsRing, Rings, EmptyRing

LEMMA PutIsRing ==
  ASSUME NEW S, NEW r, IsRing(r, S), NEW c \in S, r.count < r.size
  PROVE  IsRing(Put(r, c), S)
<1>1. PICK n \in Nat \ {0} :
        r \in Rings(n, S) /\ r.size = n
  BY DEF IsRing, Rings
<1>2. r.current \in 0 .. r.size - 1 /\ 1 \in 0 .. r.size /\ r.size = n
  BY <1>1 DEF Rings
<1>3. Advance(r, r.current, 1) \in 0 .. n - 1
  BY <1>2, AdvanceInRange
<1>4. [r.slots EXCEPT ![r.current] = c] \in [0 .. n - 1 -> S] /\ r.count + 1 \in 0 .. n
  BY <1>1 DEF Rings
<1> QED BY <1>1, <1>3, <1>4 DEF IsRing, Rings, Put

LEMMA SkipIsRing ==
  ASSUME NEW S, NEW r, IsRing(r, S), NEW n \in 0 .. r.count
  PROVE  IsRing(Skip(r, n), S) /\ Skip(r, n).count = r.count
<1>1. r.first \in 0 .. r.size - 1 /\ n \in 0 .. r.size
  BY RingFields
<1>2. Advance(r, r.first, n) \in 0 .. r.size - 1
  BY <1>1, AdvanceInRange
<1> QED BY <1>2 DEF IsRing, Rings, Skip

LEMMA ReleaseIsRing ==
  ASSUME NEW S, NEW r, IsRing(r, S), NEW n \in 0 .. r.count
  PROVE  IsRing(Release(r, n), S) /\ Release(r, n).count = r.count - n
BY DEF IsRing, Rings, Release

LEMMA ResetIsRing ==
  ASSUME NEW S, NEW r, IsRing(r, S)
  PROVE  IsRing(Reset(r), S) /\ Reset(r).count = 0
<1>1. 0 \in 0 .. r.size - 1 /\ 0 \in 0 .. r.size
  BY RingFields
<1> QED BY <1>1 DEF IsRing, Rings, Reset

\* What is copied out of a ring are characters of the ring.
LEMMA CharAtInRing ==
  ASSUME NEW S, NEW r, IsRing(r, S), NEW k \in 1 .. r.size
  PROVE  CharAt(r, k) \in S
<1>1. r.first \in 0 .. r.size - 1 /\ k - 1 \in 0 .. r.size
  BY RingFields
<1>2. Advance(r, r.first, k - 1) \in 0 .. r.size - 1
  BY <1>1, AdvanceInRange
<1> QED BY <1>2, RingFields DEF CharAt

LEMMA CopyOutIsSeq ==
  ASSUME NEW S, NEW r, IsRing(r, S), NEW n \in 0 .. r.size
  PROVE  CopyOut(r, n) \in Seq(S) /\ Len(CopyOut(r, n)) = n
<1>1. \A k \in 1 .. n : k \in 1 .. r.size
  BY RingFields
<1>2. \A k \in 1 .. n : CharAt(r, k) \in S
  BY <1>1, CharAtInRing
<1>3. n \in Nat
  BY RingFields
<1> QED BY <1>2, <1>3 DEF CopyOut

LEMMA ResizedIsRing ==
  ASSUME NEW S, Stale \in S, NEW r, IsRing(r, S), NEW n \in Nat, r.size < n
  PROVE  IsRing(Resized(r, n), S) /\ Resized(r, n).count = r.count
<1>1. r.count \in 0 .. r.size /\ r.size \in Nat
  BY RingFields
<1>2. Content(r) \in Seq(S) /\ Len(Content(r)) = r.count
  BY <1>1, CopyOutIsSeq DEF Content
<1>3. ASSUME NEW k \in 0 .. n - 1, k < r.count PROVE Content(r)[k + 1] \in S
  BY <1>1, <1>2, <1>3
<1> DEFINE slots == [k \in 0 .. n - 1 |-> IF k < r.count THEN Content(r)[k + 1] ELSE Stale]
<1>4. slots \in [0 .. n - 1 -> S]
  BY <1>3
<1>5. Resized(r, n) \in Rings(n, S) /\ Resized(r, n).size = n
  BY <1>1, <1>4 DEF Resized, Rings
<1> QED BY <1>5 DEF IsRing, Rings, Resized

-----------------------------------------------------------------------------
(* The characters of the ring, in the order in which a read is given them. *)

\* A pointer that is moved twice.
LEMMA AdvanceTwice ==
  ASSUME NEW S, NEW r, IsRing(r, S), NEW slot \in 0 .. r.size - 1,
         NEW m \in Nat, NEW n \in Nat, m + n <= r.size
  PROVE  Advance(r, Advance(r, slot, m), n) = Advance(r, slot, m + n)
BY RingFields DEF Advance

\* The slot that is k places on from the first is no other place's.
LEMMA PlacesDiffer ==
  ASSUME NEW S, NEW r, IsRing(r, S), NEW m \in Nat, NEW n \in Nat, m < n, n < r.size
  PROVE  Advance(r, r.first, m) # Advance(r, r.first, n)
BY RingFields DEF Advance

\* Skip and Release leave the memory alone, and Release the pointers too.
LEMMA SkipFields ==
  ASSUME NEW S, NEW r, IsRing(r, S), NEW n
  PROVE  /\ Skip(r, n).slots = r.slots /\ Skip(r, n).size = r.size
         /\ Skip(r, n).first = Advance(r, r.first, n)
         /\ Skip(r, n).current = r.current /\ Skip(r, n).count = r.count
BY DEF Skip, IsRing, Rings

LEMMA ReleaseFields ==
  ASSUME NEW S, NEW r, IsRing(r, S), NEW n
  PROVE  /\ Release(r, n).slots = r.slots /\ Release(r, n).size = r.size
         /\ Release(r, n).first = r.first
         /\ Release(r, n).current = r.current /\ Release(r, n).count = r.count - n
BY DEF Release, IsRing, Rings

\* A read that takes n characters and one that takes the m after them are given
\* what a single read of n + m would be.
LEMMA SkipTakesTheFirst ==
  ASSUME NEW S, NEW r, IsRing(r, S), NEW n \in Nat, NEW m \in Nat, n + m <= r.size
  PROVE  CopyOut(r, n) \o CopyOut(Skip(r, n), m) = CopyOut(r, n + m)
<1> DEFINE a == CopyOut(r, n)
           b == CopyOut(Skip(r, n), m)
           c == CopyOut(r, n + m)
<1>1. r.first \in 0 .. r.size - 1 /\ r.size \in Nat \ {0}
  BY RingFields
<1>2. ASSUME NEW k \in 1 .. m PROVE CharAt(Skip(r, n), k) = CharAt(r, n + k)
  <2>1. Advance(r, Advance(r, r.first, n), k - 1) = Advance(r, r.first, n + (k - 1))
    BY <1>1, AdvanceTwice
  <2>2. Advance(Skip(r, n), Skip(r, n).first, k - 1)
          = Advance(r, Advance(r, r.first, n), k - 1)
    BY SkipFields DEF Advance
  <2>3. n + (k - 1) = (n + k) - 1
    OBVIOUS
  <2> QED BY <2>1, <2>2, <2>3, SkipFields DEF CharAt
<1>3. /\ a = [k \in 1 .. n |-> CharAt(r, k)] /\ c = [k \in 1 .. n + m |-> CharAt(r, k)]
      /\ b = [k \in 1 .. m |-> CharAt(r, n + k)]
  BY <1>2 DEF CopyOut
<1> HIDE DEF a, b, c
<1>4. a \in Seq(S) /\ b \in Seq(S) /\ c \in Seq(S) /\ Len(a) = n /\ Len(b) = m /\ Len(c) = n + m
  <2>1. n \in 0 .. r.size /\ n + m \in 0 .. r.size
    BY <1>1
  <2>2. \A k \in 1 .. n + m : CharAt(r, k) \in S
    BY <1>1, CharAtInRing
  <2> QED BY <1>3, <2>1, <2>2
<1>5. /\ a \o b \in Seq(S) /\ Len(a \o b) = n + m
      /\ \A k \in 1 .. n + m : (a \o b)[k] = IF k <= n THEN a[k] ELSE b[k - n]
  BY <1>4, ConcatProperties
<1>6. ASSUME NEW k \in 1 .. n + m
      PROVE  (IF k <= n THEN a[k] ELSE b[k - n]) = c[k]
  <2>1. CASE k <= n
    BY <1>3, <2>1
  <2>2. CASE ~(k <= n)
    <3>1. k - n \in 1 .. m /\ n + (k - n) = k
      BY <2>2
    <3> QED BY <1>3, <2>2, <3>1
  <2> QED BY <2>1, <2>2
<1>7. a \o b = c
  BY <1>4, <1>5, <1>6, SeqEqual
<1> QED BY <1>7 DEF a, b, c

\* Taking the characters off the count changes none of those that are left.
LEMMA ReleaseKeepsTheRest ==
  ASSUME NEW S, NEW r, IsRing(r, S), NEW n, NEW m
  PROVE  CopyOut(Release(r, n), m) = CopyOut(r, m)
BY ReleaseFields DEF CopyOut, CharAt, Advance

\* The pointers and the count stay in step.
LEMMA SkipKeepsAligned ==
  ASSUME NEW S, NEW r, IsRing(r, S), Aligned(r, 0), NEW n \in 0 .. r.count
  PROVE  Aligned(Skip(r, n), n)
<1>1. /\ r.first \in 0 .. r.size - 1 /\ r.size \in Nat \ {0} /\ r.count \in 0 .. r.size
      /\ r.count - n \in Nat /\ n \in Nat /\ n + (r.count - n) = r.count
      /\ n + (r.count - n) <= r.size
  BY RingFields
<1>2. Advance(r, Advance(r, r.first, n), r.count - n) = Advance(r, r.first, r.count)
  BY <1>1, AdvanceTwice
<1>3. Advance(r, r.first, r.count) = r.current
  BY <1>1 DEF Aligned
<1>4. Advance(Skip(r, n), Skip(r, n).first, Skip(r, n).count - n)
        = Advance(r, Advance(r, r.first, n), r.count - n)
  BY SkipFields DEF Advance
<1> QED BY <1>1, <1>2, <1>3, <1>4, SkipFields DEF Aligned

LEMMA ReleaseKeepsAligned ==
  ASSUME NEW S, NEW r, IsRing(r, S), NEW n \in Nat, Aligned(r, n)
  PROVE  Aligned(Release(r, n), 0)
<1>1. r.count \in 0 .. r.size /\ r.size \in Nat
  BY RingFields
<1>2. (r.count - n) - 0 = r.count - n
  BY <1>1
<1> QED BY <1>1, <1>2, ReleaseFields DEF Aligned, Advance

LEMMA ResetIsAligned ==
  ASSUME NEW S, NEW r, IsRing(r, S)
  PROVE  Aligned(Reset(r), 0)
<1>1. r.size \in Nat \ {0}
  BY RingFields
<1>2. Reset(r).first = 0 /\ Reset(r).current = 0 /\ Reset(r).count = 0 /\ Reset(r).size = r.size
  BY DEF Reset, IsRing, Rings
<1> QED BY <1>1, <1>2 DEF Aligned, Advance

LEMMA EmptyRingIsAligned ==
  ASSUME NEW n \in Nat \ {0}
  PROVE  Aligned(EmptyRing(n), 0)
BY DEF EmptyRing, Aligned, Advance

\* A character that is stored comes after all that wait, and overwrites none.
LEMMA PutComesLast ==
  ASSUME NEW S, NEW r, IsRing(r, S), NEW c \in S, r.count < r.size,
         NEW n \in Nat, Aligned(r, n)
  PROVE  /\ CopyOut(Put(r, c), (r.count + 1) - n) = Append(CopyOut(r, r.count - n), c)
         /\ Aligned(Put(r, c), n)
         /\ Put(r, c).count = r.count + 1
<1> DEFINE m == r.count - n
<1>1. /\ r.first \in 0 .. r.size - 1 /\ r.current \in 0 .. r.size - 1
      /\ r.size \in Nat \ {0} /\ r.count \in 0 .. r.size
      /\ r.slots \in [0 .. r.size - 1 -> S]
  BY RingFields
<1>2. m \in Nat /\ m < r.size /\ m + 1 <= r.size /\ n <= r.count /\ (r.count + 1) - n = m + 1
      /\ Advance(r, r.first, m) = r.current
  BY <1>1 DEF Aligned
<1> HIDE DEF m
<1>3. /\ Put(r, c).slots = [r.slots EXCEPT ![r.current] = c]
      /\ Put(r, c).size = r.size /\ Put(r, c).first = r.first
      /\ Put(r, c).current = Advance(r, r.current, 1) /\ Put(r, c).count = r.count + 1
  BY DEF Put, IsRing, Rings
<1>4. ASSUME NEW k \in 1 .. m PROVE CharAt(Put(r, c), k) = CharAt(r, k)
  <2>0. k - 1 \in Nat /\ k - 1 < m /\ k - 1 \in 0 .. r.size
    BY <1>1, <1>2
  <2>1. Advance(r, r.first, k - 1) # Advance(r, r.first, m)
    BY <1>2, <2>0, PlacesDiffer
  <2>2. Advance(r, r.first, k - 1) \in 0 .. r.size - 1
    BY <1>1, <2>0, AdvanceInRange
  <2>3. Advance(Put(r, c), Put(r, c).first, k - 1) = Advance(r, r.first, k - 1)
    BY <1>3 DEF Advance
  <2> QED BY <1>1, <1>2, <1>3, <2>1, <2>2, <2>3 DEF CharAt
<1>5. CharAt(Put(r, c), m + 1) = c
  <2>1. Advance(Put(r, c), Put(r, c).first, (m + 1) - 1) = Advance(r, r.first, m)
    BY <1>2, <1>3 DEF Advance
  <2> QED BY <1>1, <1>2, <1>3, <2>1 DEF CharAt
<1>6. CopyOut(Put(r, c), m + 1) = Append(CopyOut(r, m), c)
  <2> DEFINE a == CopyOut(r, m)
             b == CopyOut(Put(r, c), m + 1)
  <2>1. a = [k \in 1 .. m |-> CharAt(r, k)] /\ b = [k \in 1 .. m + 1 |-> CharAt(Put(r, c), k)]
    BY DEF CopyOut
  <2> HIDE DEF a, b
  <2>2. a \in Seq(S) /\ b \in Seq(S) /\ Len(a) = m /\ Len(b) = m + 1
    <3>1. \A k \in 1 .. m : CharAt(r, k) \in S
      BY <1>1, <1>2, CharAtInRing
    <3>2. \A k \in 1 .. m + 1 : CharAt(Put(r, c), k) \in S
      BY <1>2, <1>4, <1>5, <3>1
    <3> QED BY <1>2, <2>1, <3>1, <3>2
  <2>3. /\ Append(a, c) \in Seq(S) /\ Len(Append(a, c)) = m + 1
        /\ \A k \in 1 .. m : Append(a, c)[k] = a[k]
        /\ Append(a, c)[m + 1] = c
    BY <2>2, AppendProperties
  <2>4. ASSUME NEW k \in 1 .. m + 1 PROVE Append(a, c)[k] = b[k]
    <3>1. CASE k = m + 1
      BY <1>5, <2>1, <2>3, <3>1
    <3>2. CASE k # m + 1
      <4>1. k \in 1 .. m
        BY <1>2, <3>2
      <4> QED BY <1>4, <2>1, <2>3, <4>1
    <3> QED BY <3>1, <3>2
  <2>5. Append(a, c) = b
    BY <2>2, <2>3, <2>4, SeqEqual
  <2> QED BY <2>5 DEF a, b
<1>7. Aligned(Put(r, c), n)
  <2>1. Advance(r, Advance(r, r.first, m), 1) = Advance(r, r.first, m + 1)
    BY <1>1, <1>2, AdvanceTwice
  <2>2. Advance(Put(r, c), Put(r, c).first, Put(r, c).count - n) = Advance(r, r.first, m + 1)
    BY <1>2, <1>3 DEF Advance
  <2> QED BY <1>1, <1>2, <1>3, <2>1, <2>2 DEF Aligned
<1> QED BY <1>2, <1>3, <1>6, <1>7 DEF m

\* The larger buffer holds what the smaller one held.
LEMMA ResizedHoldsTheSame ==
  ASSUME NEW S, Stale \in S, NEW r, IsRing(r, S), NEW n \in Nat, r.size < n
  PROVE  /\ CopyOut(Resized(r, n), r.count) = CopyOut(r, r.count)
         /\ Aligned(Resized(r, n), 0)
         /\ Resized(r, n).count = r.count
<1> DEFINE s == Resized(r, n)
<1>1. r.count \in 0 .. r.size /\ r.size \in Nat \ {0} /\ r.count < n
  BY RingFields
<1>2. /\ s.slots = [k \in 0 .. n - 1 |-> IF k < r.count THEN Content(r)[k + 1] ELSE Stale]
      /\ s.size = n /\ s.first = 0 /\ s.current = r.count /\ s.count = r.count
  BY DEF Resized
<1> HIDE DEF s
<1>3. ASSUME NEW k \in 1 .. r.count PROVE CharAt(s, k) = CharAt(r, k)
  <2>1. Advance(s, s.first, k - 1) = k - 1 /\ k - 1 \in 0 .. n - 1 /\ k - 1 < r.count
        /\ (k - 1) + 1 = k
    BY <1>1, <1>2 DEF Advance
  <2>2. CharAt(s, k) = Content(r)[k]
    BY <1>2, <2>1 DEF CharAt
  <2> QED BY <2>2 DEF Content, CopyOut
<1>4. Aligned(s, 0)
  BY <1>1, <1>2 DEF Aligned, Advance
<1> QED BY <1>2, <1>3, <1>4 DEF s, CopyOut

-----------------------------------------------------------------------------
(* Facts about the constants and small sets. *)

LEMMA NoneIsNoIrp == None \notin Irps
BY BoundsAssumption

LEMMA IntIsNoIrp == "int" \notin Irps
BY BoundsAssumption

LEMMA TimersAreFinite ==
  ASSUME NEW T \in SUBSET Timers
  PROVE  IsFiniteSet(T) /\ Cardinality(T) \in Nat
<1>1. IsFiniteSet(Timers)
  <2>1. Timers = ({} \union {"TOTAL"}) \union {"INT"}
    BY DEF Timers
  <2> QED BY <2>1, FS_EmptySet, FS_AddElement
<1> QED BY <1>1, FS_Subset, FS_CardinalityType

-----------------------------------------------------------------------------
(* The inductive invariant. *)

IInv == TypeOK /\ Bookkeeping /\ ReferenceProtocol

LEMMA InitIInv == Init => IInv
<1> SUFFICES ASSUME Init PROVE IInv
  OBVIOUS
<1>1. queue = <<>> /\ DOMAIN queue = {} /\ current = None /\ current \notin Irps
  BY NoneIsNoIrp DEF Init
<1>2. TypeOK
  <2>1. RequestTypes
    BY <1>1 DEF Init, RequestTypes
  <2>2. BufferTypes
    BY BoundsAssumption, EmptyRingIsRing DEF Init, BufferTypes, AllModes, Chars
  <2>3. TimerTypes /\ WorkerTypes
    BY DEF Init, TimerTypes, WorkerTypes
  <2>4. HistoryTypes
    <3>1. 0 \in 0 .. MaxChars
      BY BoundsAssumption
    <3>2. arrived = 0 /\ delivered = <<>> /\ lost = {} /\ skewed = FALSE
      BY DEF Init
    <3>3. delivered \in Seq(Chars) /\ lost \subseteq Chars
      BY <3>2
    <3> QED BY <3>1, <3>2, <3>3 DEF HistoryTypes
  <2> QED BY <2>1, <2>2, <2>3, <2>4 DEF TypeOK
<1>3. Bookkeeping
  BY <1>1 DEF Init, Bookkeeping, QueueDistinct, WaitingAreOpen, CurrentIsOpen,
              OnlyCurrentIsHeld, StarterState, ControlLockFree
<1>4. OneStarter /\ ReferencesMatch
  BY <1>1 DEF Init, OneStarter, ReferencesMatch, Working
<1>5. CompletedOnce
  BY <1>1 DEF Init, CompletedOnce, Queued, Open
<1> QED BY <1>2, <1>3, <1>4, <1>5 DEF IInv, ReferenceProtocol

\* While a worker starts or completes a request nothing else can touch it.
LEMMA WorkingIsAlone ==
  ASSUME IInv, NEW w \in Workers, Working(w)
  PROVE  /\ current \in Irps /\ current # None
         /\ kind[current] # "new" /\ completions[current] = 0
         /\ refs[current] = {} /\ routine[current] = "null" /\ base = "int"
         /\ armed = {} /\ dpcs = {}
         /\ \A v \in Workers : v # w => ~Working(v)
<1>1. /\ current \in Irps /\ current # None /\ completions[current] = 0
      /\ refs[current] = {} /\ routine[current] = "null" /\ base = "int"
  BY DEF IInv, ReferenceProtocol, OneStarter, TypeOK, RequestTypes
<1>2. "ISR" \notin dpcs
  BY <1>1, Zenon DEF IInv, ReferenceProtocol, ReferencesMatch
<1>3. refs[current] \intersect Timers = (armed \union dpcs) \ {"ISR"}
  BY <1>1 DEF IInv, ReferenceProtocol, ReferencesMatch
<1>4. armed = {} /\ dpcs = {}
  BY <1>1, <1>2, <1>3 DEF IInv, TypeOK, TimerTypes, Timers
<1> QED BY <1>1, <1>4 DEF IInv, ReferenceProtocol, OneStarter, Bookkeeping, CurrentIsOpen

\* A request that is held open is current, and nobody works on it.
LEMMA HeldIsCurrent ==
  ASSUME IInv, current # None, refs[current] # {}
  PROVE  /\ current \in Irps /\ kind[current] # "new" /\ completions[current] = 0
         /\ \A v \in Workers : ~Working(v)
         /\ copied = 0
<1>1. \A v \in Workers : ~Working(v)
  BY DEF IInv, ReferenceProtocol, OneStarter
<1>2. copied = 0
  BY <1>1 DEF IInv, Bookkeeping, StarterState, ControlLockFree, Working
<1> QED BY <1>1, <1>2 DEF IInv, TypeOK, RequestTypes, Bookkeeping, CurrentIsOpen

-----------------------------------------------------------------------------
(* Each action preserves it. *)

LEMMA GetNextIrpStep ==
  ASSUME IInv, NEW w \in Workers, GetNextIrp(w)
  PROVE  IInv'
<1>1. /\ pc[w] = "getnext"
      /\ completions' = [completions EXCEPT ![current] = @ + 1]
      /\ UNCHANGED <<kind, amount, status, info, cancelled, refs, filled, newBuffer,
                     ring, base, needed, copied, mode, countOnLast, readByIsr, polls,
                     armed, dpcs, arrived, delivered, lost, skewed>>
  BY DEF GetNextIrp, Complete, bufVars, histVars
<1>2. Working(w)
  BY <1>1 DEF Working
<1>3. /\ current \in Irps /\ current # None
      /\ kind[current] # "new" /\ completions[current] = 0
      /\ refs[current] = {} /\ routine[current] = "null" /\ base = "int"
      /\ armed = {} /\ dpcs = {}
      /\ \A v \in Workers : v # w => ~Working(v)
  BY <1>2, WorkingIsAlone
<1>4. status[current] \in {"success", "timeout", "cancelled"}
  BY <1>1 DEF IInv, Bookkeeping, StarterState
<1>5. copied = 0
  BY <1>1, <1>3 DEF IInv, Bookkeeping, StarterState, ControlLockFree, Working
<1>6. BufferTypes' /\ HistoryTypes'
  BY <1>1 DEF IInv, TypeOK, BufferTypes, HistoryTypes
<1>7. completions' \in [Irps -> Nat] /\ completions'[current] = 1
      /\ \A i \in Irps : i # current => completions'[i] = completions[i]
  BY <1>1, <1>3 DEF IInv, TypeOK, RequestTypes
<1>8. CASE queue = <<>>
  <2>1. /\ queue' = queue /\ routine' = routine /\ current' = None
        /\ pc' = [pc EXCEPT ![w] = "idle"] /\ inDpc' = inDpc \ {w}
        /\ dpcCount' \in Int
    BY <1>8 DEF GetNextIrp, Leave, Epilogue, IInv, TypeOK, TimerTypes
  <2>2. TypeOK'
    <3>1. RequestTypes'
      BY <1>1, <1>7, <2>1 DEF IInv, TypeOK, RequestTypes
    <3>2. TimerTypes' /\ WorkerTypes'
      BY <1>1, <2>1 DEF IInv, TypeOK, TimerTypes, WorkerTypes
    <3> QED BY <3>1, <3>2, <1>6 DEF TypeOK
  <2>3. \A v \in Workers : ~Working(v)'
    BY <1>3, <2>1 DEF IInv, TypeOK, WorkerTypes, Working
  <2>4. DOMAIN queue = {} /\ DOMAIN queue' = {}
    BY <1>8, <2>1
  <2>5. Bookkeeping'
    BY <1>1, <1>3, <1>5, <1>7, <2>1, <2>3, <2>4
       DEF IInv, Bookkeeping, QueueDistinct, WaitingAreOpen, CurrentIsOpen,
           OnlyCurrentIsHeld, StarterState, Working
  <2>6. OneStarter'
    BY <2>3 DEF OneStarter
  <2>7. ReferencesMatch'
    BY <1>1, <1>3, <1>8, <2>1 DEF ReferencesMatch
  <2>8. CompletedOnce'
    BY <1>1, <1>3, <1>4, <1>7, <2>1, <2>4, NoneIsNoIrp
       DEF IInv, ReferenceProtocol, CompletedOnce, Queued, Open
  <2> QED BY <2>2, <2>5, <2>6, <2>7, <2>8 DEF IInv, ReferenceProtocol
<1>9. CASE queue # <<>>
  <2> DEFINE h == Head(queue)
  <2>1. /\ h \in Irps /\ h = queue[1] /\ 1 \in DOMAIN queue
        /\ Tail(queue) \in Seq(Irps)
        /\ DOMAIN Tail(queue) = 1 .. Len(queue) - 1
        /\ \A k \in DOMAIN Tail(queue) :
             k + 1 \in DOMAIN queue /\ k + 1 # 1 /\ Tail(queue)[k] = queue[k + 1]
        /\ \A k \in DOMAIN queue : k # 1 => k - 1 \in DOMAIN Tail(queue)
    BY <1>9, HeadTail DEF IInv, TypeOK, RequestTypes
  <2>2. /\ queue' = Tail(queue) /\ routine' = [routine EXCEPT ![h] = "null"]
        /\ current' = h
        /\ pc' = [pc EXCEPT ![w] = "start"] /\ inDpc' = inDpc /\ dpcCount' = dpcCount
    BY <1>9 DEF GetNextIrp, Goto
  <2>3. h # current /\ refs[h] = {} /\ kind[h] # "new" /\ completions[h] = 0
    BY <2>1 DEF IInv, Bookkeeping, WaitingAreOpen, OnlyCurrentIsHeld
  <2>4. \A k \in DOMAIN queue' : queue'[k] = queue[k + 1] /\ queue'[k] # h /\ queue'[k] \in Irps
    BY <2>1, <2>2 DEF IInv, Bookkeeping, QueueDistinct
  <2> HIDE DEF h
  <2>5. TypeOK'
    <3>1. RequestTypes'
      BY <1>1, <1>7, <2>1, <2>2 DEF IInv, TypeOK, RequestTypes
    <3>2. TimerTypes' /\ WorkerTypes'
      BY <1>1, <2>2 DEF IInv, TypeOK, TimerTypes, WorkerTypes
    <3> QED BY <3>1, <3>2, <1>6 DEF TypeOK
  <2>6. Working(w)' /\ \A v \in Workers : v # w => ~Working(v)'
    BY <1>3, <2>2 DEF IInv, TypeOK, WorkerTypes, Working
  <2>7. \A v \in Workers : pc'[v] # "copied" /\ pc'[v] # "getnext"
    BY <1>3, <2>2 DEF IInv, TypeOK, WorkerTypes, Working
  <2>8. Bookkeeping'
    <3>1. QueueDistinct'
      BY <2>1, <2>2, <2>4 DEF IInv, Bookkeeping, QueueDistinct
    <3>2. WaitingAreOpen'
      BY SMTT(30), <1>1, <1>7, <2>1, <2>2, <2>4 DEF IInv, Bookkeeping, WaitingAreOpen
    <3>3. CurrentIsOpen' /\ OnlyCurrentIsHeld'
      BY SMTT(30), <1>1, <1>3, <1>7, <2>1, <2>2, <2>3
         DEF IInv, TypeOK, RequestTypes, Bookkeeping, CurrentIsOpen, OnlyCurrentIsHeld
    <3>4. StarterState'
      BY <1>1, <1>3, <1>5, <2>7 DEF StarterState
    <3> QED BY <3>1, <3>2, <3>3, <3>4 DEF Bookkeeping
  <2>9. OneStarter'
    BY <1>1, <1>3, <1>7, <2>1, <2>2, <2>3, <2>6, NoneIsNoIrp
       DEF IInv, TypeOK, RequestTypes, OneStarter
  <2>10. ReferencesMatch'
    BY <1>1, <1>3, <2>1, <2>2, <2>3, <2>6, NoneIsNoIrp, IntIsNoIrp
       DEF IInv, TypeOK, RequestTypes, ReferencesMatch
  <2>11. CompletedOnce'
    <3>1. \A i \in Irps : Queued(i)' <=> (Queued(i) /\ i # h)
      BY <2>1, <2>2, <2>4 DEF Queued
    <3>2. ~Queued(current)
      BY DEF IInv, Bookkeeping, WaitingAreOpen, Queued
    <3>3. Queued(h)
      BY <2>1 DEF Queued
    <3> QED BY SMTT(30), <1>1, <1>3, <1>4, <1>7, <2>1, <2>2, <2>3, <3>1, <3>2, <3>3
            DEF IInv, ReferenceProtocol, TypeOK, RequestTypes, CompletedOnce, Open
  <2> QED BY <2>5, <2>8, <2>9, <2>10, <2>11 DEF IInv, ReferenceProtocol
<1> QED BY <1>8, <1>9

\* A request arrives: it is refused, started or queued.
LEMMA ArrivalStep ==
  ASSUME IInv, NEW w \in Workers, NEW i \in Irps, pc[w] = "idle", kind[i] = "new",
         NEW k \in {"read", "resize"}, NEW n \in Nat,
         kind' = [kind EXCEPT ![i] = k],
         amount' = [amount EXCEPT ![i] = n],
         newBuffer' \in [Irps -> {"none", "held", "freed", "installed"}],
         UNCHANGED <<info, cancelled, refs, filled, bufVars, timeVars, inDpc, histVars>>,
         \/ StartOrQueue(w, i)
         \/ /\ status' = [status EXCEPT ![i] = "success"]
            /\ Complete(i)
            /\ UNCHANGED <<queue, current, routine, pc>>
  PROVE  IInv'
<1>1. UNCHANGED <<info, cancelled, refs, filled, ring, base, needed, copied, mode,
                  countOnLast, readByIsr, polls, armed, dpcs, dpcCount, inDpc,
                  arrived, delivered, lost, skewed>>
  BY DEF bufVars, timeVars, histVars
<1>2. BufferTypes' /\ HistoryTypes' /\ TimerTypes'
  BY <1>1 DEF IInv, TypeOK, BufferTypes, HistoryTypes, TimerTypes
<1>3. /\ i # None /\ i # current /\ ~Queued(i) /\ completions[i] = 0
      /\ refs[i] = {} /\ routine[i] = "null"
  <2>1. i # None /\ i # current /\ ~Queued(i) /\ completions[i] = 0
    BY NoneIsNoIrp DEF IInv, Bookkeeping, CurrentIsOpen, WaitingAreOpen,
                       OnlyCurrentIsHeld, Queued
  <2>2. refs[i] = {} /\ routine[i] # "current" /\ routine[i] # "queued"
    BY <2>1 DEF IInv, ReferenceProtocol, Bookkeeping, OnlyCurrentIsHeld, CompletedOnce
  <2> QED BY <2>1, <2>2 DEF IInv, TypeOK, RequestTypes
<1>4. /\ kind'[i] # "new"
      /\ \A j \in Irps : j # i => kind'[j] = kind[j] /\ amount'[j] = amount[j]
  BY DEF IInv, TypeOK, RequestTypes
<1>5. CASE /\ completions' = [completions EXCEPT ![i] = @ + 1]
           /\ \E s \in {"success", "cancelled"} : status' = [status EXCEPT ![i] = s]
           /\ UNCHANGED <<queue, current, routine, pc>>
  <2>1. TypeOK'
    BY SMTT(30), <1>1, <1>2, <1>5 DEF IInv, TypeOK, RequestTypes, WorkerTypes
  <2>2. /\ completions'[i] = 1 /\ status'[i] \in {"success", "cancelled"}
        /\ \A j \in Irps : j # i => completions'[j] = completions[j] /\ status'[j] = status[j]
    BY <1>3, <1>5 DEF IInv, TypeOK, RequestTypes
  <2>3. Bookkeeping'
    <3>1. QueueDistinct' /\ WaitingAreOpen'
      BY <1>3, <1>4, <1>5, <2>2
         DEF IInv, TypeOK, RequestTypes, Bookkeeping, QueueDistinct, WaitingAreOpen, Queued
    <3>2. CurrentIsOpen' /\ OnlyCurrentIsHeld'
      BY <1>1, <1>3, <1>4, <1>5, <2>2
         DEF IInv, TypeOK, RequestTypes, Bookkeeping, CurrentIsOpen, OnlyCurrentIsHeld
    <3>3. StarterState'
      BY SMTT(30), <1>1, <1>3, <1>4, <1>5, <2>2
         DEF IInv, TypeOK, RequestTypes, Bookkeeping, ReferenceProtocol, ReferencesMatch, OneStarter,
             StarterState, ControlLockFree, Working
    <3> QED BY <3>1, <3>2, <3>3 DEF Bookkeeping
  <2>4. OneStarter'
    BY <1>1, <1>3, <1>5, <2>2 DEF IInv, TypeOK, RequestTypes, ReferenceProtocol, OneStarter, Working
  <2>5. ReferencesMatch'
    BY <1>1, <1>5 DEF IInv, ReferenceProtocol, ReferencesMatch, Working
  <2>6. CompletedOnce'
    BY <1>1, <1>3, <1>4, <1>5, <2>2 DEF IInv, ReferenceProtocol, CompletedOnce, Queued, Open
  <2> QED BY <2>1, <2>3, <2>4, <2>5, <2>6 DEF IInv, ReferenceProtocol
<1>6. CASE /\ MayStart
           /\ current' = i
           /\ Goto(w, "start")
           /\ UNCHANGED <<queue, status, routine, completions>>
  <2>1. /\ queue = <<>> /\ DOMAIN queue = {} /\ current = None
        /\ pc' = [pc EXCEPT ![w] = "start"]
    BY <1>6 DEF MayStart, Goto
  <2>2. TypeOK'
    BY <1>1, <1>2, <1>6, <2>1 DEF IInv, TypeOK, RequestTypes, WorkerTypes
  <2>3. \A v \in Workers : ~Working(v)
    BY <2>1 DEF IInv, ReferenceProtocol, OneStarter
  <2>4. base = "int" /\ armed = {} /\ dpcs = {}
    BY <2>1 DEF IInv, ReferenceProtocol, ReferencesMatch
  <2>5. /\ Working(w)' /\ pc'[w] = "start"
        /\ \A v \in Workers : v # w => ~Working(v)' /\ pc'[v] = pc[v]
    BY <2>1, <2>3 DEF IInv, TypeOK, WorkerTypes, Working
  <2>6. Bookkeeping'
    <3>1. QueueDistinct' /\ WaitingAreOpen'
      BY <1>6, <2>1 DEF QueueDistinct, WaitingAreOpen
    <3>2. CurrentIsOpen' /\ OnlyCurrentIsHeld'
      BY <1>1, <1>3, <1>4, <1>6, <2>1, NoneIsNoIrp
         DEF IInv, TypeOK, RequestTypes, Bookkeeping, CurrentIsOpen, OnlyCurrentIsHeld
    <3>3. StarterState'
      BY <1>1, <2>3, <2>4, <2>5
         DEF IInv, Bookkeeping, StarterState, ControlLockFree, Working
    <3> QED BY <3>1, <3>2, <3>3 DEF Bookkeeping
  <2>7. OneStarter'
    BY <1>1, <1>3, <1>6, <2>4, <2>5 DEF OneStarter
  <2>8. ReferencesMatch'
    BY <1>1, <1>3, <1>6, <2>4, <2>5, IntIsNoIrp DEF ReferencesMatch
  <2>9. CompletedOnce'
    <3>1. \A j \in Irps : ~Queued(j) /\ ~Queued(j)'
      BY <1>6, <2>1 DEF Queued
    <3>2. \A j \in Irps : j # i => (Open(j)' <=> Open(j)) /\ j # current /\ j # current'
      BY <1>4, <1>6, <2>1, NoneIsNoIrp DEF Open
    <3> QED BY <1>1, <1>3, <1>6, <3>1, <3>2 DEF IInv, ReferenceProtocol, CompletedOnce
  <2> QED BY <2>2, <2>6, <2>7, <2>8, <2>9 DEF IInv, ReferenceProtocol
<1>7. CASE /\ ~MayStart
           /\ status' = [status EXCEPT ![i] = "pending"]
           /\ queue' = Append(queue, i)
           /\ routine' = [routine EXCEPT ![i] = "queued"]
           /\ UNCHANGED <<completions, current, pc>>
  <2>1. /\ queue' \in Seq(Irps)
        /\ DOMAIN queue' = 1 .. Len(queue) + 1
        /\ Len(queue) + 1 \in DOMAIN queue' /\ queue'[Len(queue) + 1] = i
        /\ \A m \in DOMAIN queue : m \in DOMAIN queue' /\ queue'[m] = queue[m]
        /\ \A m \in DOMAIN queue' : m # Len(queue) + 1 => m \in DOMAIN queue
    BY <1>7, Appended DEF IInv, TypeOK, RequestTypes
  <2>2. TypeOK'
    BY <1>1, <1>2, <1>7, <2>1 DEF IInv, TypeOK, RequestTypes, WorkerTypes
  <2>3. /\ routine'[i] = "queued" /\ status'[i] = "pending"
        /\ \A j \in Irps : j # i => routine'[j] = routine[j] /\ status'[j] = status[j]
    BY <1>7 DEF IInv, TypeOK, RequestTypes
  <2>4. \A j \in Irps : Queued(j)' <=> Queued(j) \/ j = i
    BY <2>1 DEF Queued
  <2>5. current # None
    BY <1>7 DEF MayStart, IInv, ReferenceProtocol, ReferencesMatch
  <2>6. Bookkeeping'
    <3>1. QueueDistinct'
      BY <1>3, <2>1 DEF IInv, Bookkeeping, QueueDistinct, Queued
    <3>2. WaitingAreOpen'
      <4>1. \A m \in DOMAIN queue : queue[m] \in Irps /\ queue[m] # i
        BY <1>3 DEF IInv, TypeOK, RequestTypes, Queued
      <4>2. \A m \in DOMAIN queue : kind'[queue[m]] # "new" /\ queue[m] # current
                                    /\ completions[queue[m]] = 0
        BY <1>4, <4>1 DEF IInv, Bookkeeping, WaitingAreOpen
      <4> QED BY <1>3, <1>4, <1>7, <2>1, <4>1, <4>2 DEF WaitingAreOpen
    <3>3. CurrentIsOpen' /\ OnlyCurrentIsHeld'
      BY <1>1, <1>3, <1>4, <1>7, <2>3
         DEF IInv, TypeOK, RequestTypes, Bookkeeping, CurrentIsOpen, OnlyCurrentIsHeld
    <3>4. StarterState'
      BY <1>1, <1>3, <1>4, <1>7, <2>3, <2>5
         DEF IInv, TypeOK, RequestTypes, Bookkeeping, StarterState, ControlLockFree
    <3> QED BY <3>1, <3>2, <3>3, <3>4 DEF Bookkeeping
  <2>7. OneStarter'
    BY <1>1, <1>3, <1>7, <2>3 DEF IInv, TypeOK, RequestTypes, ReferenceProtocol, OneStarter, Working
  <2>8. ReferencesMatch'
    BY <1>1, <1>3, <1>7, <2>3, <2>5 DEF IInv, TypeOK, RequestTypes, ReferenceProtocol, ReferencesMatch, Working
  <2>9. CompletedOnce'
    BY <1>1, <1>3, <1>4, <1>7, <2>3, <2>4 DEF IInv, ReferenceProtocol, CompletedOnce, Open
  <2> QED BY <2>2, <2>6, <2>7, <2>8, <2>9 DEF IInv, ReferenceProtocol
<1> QED BY <1>5, <1>6, <1>7 DEF StartOrQueue, Complete

LEMMA ReadStep ==
  ASSUME IInv, NEW w \in Workers, NEW i \in Irps, Read(w, i)
  PROVE  IInv'
<1>1. PICK n \in Lengths :
        /\ amount' = [amount EXCEPT ![i] = n]
        /\ \/ n > 0 /\ StartOrQueue(w, i)
           \/ /\ n = 0
              /\ status' = [status EXCEPT ![i] = "success"]
              /\ Complete(i)
              /\ UNCHANGED <<queue, current, routine, pc>>
  BY DEF Read
<1>2. n \in Nat
  BY BoundsAssumption
<1>3. newBuffer' \in [Irps -> {"none", "held", "freed", "installed"}]
  BY DEF Read, IInv, TypeOK, RequestTypes
<1> QED BY <1>1, <1>2, <1>3, ArrivalStep DEF Read

LEMMA SetQueueSizeStep ==
  ASSUME IInv, NEW w \in Workers, NEW i \in Irps, SetQueueSize(w, i)
  PROVE  IInv'
<1>1. PICK n \in Sizes :
        /\ amount' = [amount EXCEPT ![i] = n]
        /\ \/ /\ n > ring.size
              /\ StartOrQueue(w, i)
              /\ newBuffer' = [newBuffer EXCEPT ![i] =
                   IF completions'[i] = completions[i] THEN "held" ELSE "freed"]
           \/ /\ n <= ring.size
              /\ status' = [status EXCEPT ![i] = "success"]
              /\ Complete(i)
              /\ UNCHANGED <<queue, current, routine, pc, newBuffer>>
  BY DEF SetQueueSize
<1>2. n \in Nat
  BY BoundsAssumption
<1>3. newBuffer' \in [Irps -> {"none", "held", "freed", "installed"}]
  BY <1>1 DEF IInv, TypeOK, RequestTypes
<1> QED BY <1>1, <1>2, <1>3, ArrivalStep DEF SetQueueSize

\* A starter goes on with its request without letting anyone else at it.
LEMMA StarterGoesOn ==
  ASSUME IInv, NEW w \in Workers, Working(w),
         NEW label \in {"copied", "getnext"}, pc' = [pc EXCEPT ![w] = label],
         UNCHANGED <<queue, current, kind, routine, refs, completions, base,
                     armed, dpcs, inDpc>>,
         \A i \in Irps : i # current => status'[i] = status[i]
  PROVE  /\ WorkerTypes' /\ OneStarter' /\ ReferencesMatch' /\ CompletedOnce'
         /\ QueueDistinct' /\ WaitingAreOpen' /\ CurrentIsOpen' /\ OnlyCurrentIsHeld'
         /\ pc'[w] = label
         /\ \A v \in Workers : v # w => pc'[v] \in {"idle", "kill"}
<1>1. /\ current \in Irps /\ current # None
      /\ kind[current] # "new" /\ completions[current] = 0
      /\ refs[current] = {} /\ routine[current] = "null" /\ base = "int"
      /\ armed = {} /\ dpcs = {}
      /\ \A v \in Workers : v # w => ~Working(v)
  BY WorkingIsAlone
<1>2. WorkerTypes' /\ pc'[w] = label
  BY DEF IInv, TypeOK, WorkerTypes
<1>3. \A v \in Workers : v # w => pc'[v] \in {"idle", "kill"}
  BY <1>1 DEF IInv, TypeOK, WorkerTypes, Working
<1>4. Working(w)' /\ \A v \in Workers : v # w => ~Working(v)'
  BY <1>2, <1>3 DEF Working
<1>5. OneStarter' /\ ReferencesMatch'
  BY <1>1, <1>4, IntIsNoIrp DEF OneStarter, ReferencesMatch
<1>6. CompletedOnce'
  BY <1>1 DEF IInv, ReferenceProtocol, CompletedOnce, Queued, Open
<1>7. QueueDistinct' /\ WaitingAreOpen' /\ CurrentIsOpen' /\ OnlyCurrentIsHeld'
  BY DEF IInv, Bookkeeping, QueueDistinct, WaitingAreOpen, CurrentIsOpen, OnlyCurrentIsHeld
<1> QED BY <1>2, <1>3, <1>5, <1>6, <1>7

LEMMA ResizeBufferStep ==
  ASSUME IInv, NEW w \in Workers, ResizeBuffer(w)
  PROVE  IInv'
<1>1. /\ pc[w] = "start" /\ pc' = [pc EXCEPT ![w] = "getnext"]
      /\ status' = [status EXCEPT ![current] = "success"]
      /\ info' = [info EXCEPT ![current] = 0]
      /\ UNCHANGED <<queue, current, kind, amount, cancelled, routine, refs, filled,
                     completions, base, needed, copied, mode, countOnLast, readByIsr,
                     polls, armed, dpcs, dpcCount, inDpc, arrived, delivered, lost, skewed>>
  BY DEF ResizeBuffer, Goto, timeVars, histVars
<1>2. Working(w)
  BY <1>1 DEF Working
<1>3. current \in Irps /\ base = "int" /\ \A v \in Workers : v # w => ~Working(v)
  BY <1>2, WorkingIsAlone
<1>4. copied = 0
  BY <1>1, <1>3 DEF IInv, Bookkeeping, StarterState, ControlLockFree, Working
<1>5. /\ status' \in [Irps -> {"none", "pending", "success", "timeout", "cancelled"}]
      /\ status'[current] = "success" /\ \A i \in Irps : i # current => status'[i] = status[i]
  BY <1>1, <1>3 DEF IInv, TypeOK, RequestTypes
<1>6. newBuffer' \in [Irps -> {"none", "held", "freed", "installed"}]
  BY DEF ResizeBuffer, IInv, TypeOK, RequestTypes
<1>7. RequestTypes'
  BY <1>1, <1>3, <1>5, <1>6 DEF IInv, TypeOK, RequestTypes
<1>8. IsRing(ring, Chars)'
  <2>1. CASE amount[current] <= ring.size
    BY <2>1 DEF ResizeBuffer, IInv, TypeOK, BufferTypes
  <2>2. CASE ~(amount[current] <= ring.size)
    <3>1. ring' = Resized(ring, amount[current]) /\ Stale \in Chars
      BY <2>2 DEF ResizeBuffer, Chars
    <3>2. amount[current] \in Nat /\ ring.size < amount[current] /\ IsRing(ring, Chars)
      BY <1>3, <2>2, RingFields DEF IInv, TypeOK, RequestTypes, BufferTypes
    <3> QED BY <3>1, <3>2, ResizedIsRing
  <2> QED BY <2>1, <2>2
<1>9. BufferTypes' /\ TimerTypes' /\ HistoryTypes'
  BY <1>1, <1>8 DEF IInv, TypeOK, BufferTypes, TimerTypes, HistoryTypes
<1>10. /\ WorkerTypes' /\ OneStarter' /\ ReferencesMatch' /\ CompletedOnce'
       /\ QueueDistinct' /\ WaitingAreOpen' /\ CurrentIsOpen' /\ OnlyCurrentIsHeld'
       /\ pc'[w] = "getnext"
       /\ \A v \in Workers : v # w => pc'[v] \in {"idle", "kill"}
  BY <1>1, <1>2, <1>5, StarterGoesOn
<1>11. StarterState'
  BY <1>1, <1>3, <1>4, <1>5, <1>10 DEF StarterState
<1> QED BY <1>7, <1>9, <1>10, <1>11 DEF IInv, ReferenceProtocol, TypeOK, Bookkeeping

LEMMA CopyFromRingStep ==
  ASSUME IInv, NEW w \in Workers, CopyFromRing(w)
  PROVE  IInv'
<1> DEFINE n == Smaller(ring.count, amount[current])
<1>1. /\ pc[w] = "start" /\ kind[current] = "read"
      /\ pc' = [pc EXCEPT ![w] = "copied"]
      /\ ring' = Skip(ring, n)
      /\ delivered' = delivered \o CopyOut(ring, n)
      /\ copied' = n
      /\ needed' = amount[current] - n
      /\ info' = [info EXCEPT ![current] = n]
      /\ filled' = [filled EXCEPT ![current] = n]
      /\ mode' \in Modes
      /\ armed' = {}
      /\ dpcCount' = dpcCount - Cardinality(armed)
      /\ UNCHANGED <<queue, current, kind, amount, status, cancelled, routine, refs,
                     completions, newBuffer, base, countOnLast, readByIsr, polls,
                     dpcs, inDpc, arrived, lost, skewed>>
  BY DEF CopyFromRing, Goto
<1>2. Working(w)
  BY <1>1 DEF Working
<1>3. /\ current \in Irps /\ base = "int" /\ armed = {}
  BY <1>2, WorkingIsAlone
<1>4. /\ IsRing(ring, Chars) /\ ring.count \in Nat /\ amount[current] \in Nat
      /\ ring.count \in 0 .. ring.size /\ ring.size \in Nat
  BY <1>3, RingFields DEF IInv, TypeOK, RequestTypes, BufferTypes
<1>5. n \in Nat /\ n \in 0 .. ring.count /\ n <= amount[current] /\ n \in 0 .. ring.size
  BY <1>4 DEF Smaller
<1> HIDE DEF n
<1>6. IsRing(Skip(ring, n), Chars) /\ Skip(ring, n).count = ring.count
  BY <1>4, <1>5, SkipIsRing
<1>7. CopyOut(ring, n) \in Seq(Chars)
  BY <1>4, <1>5, CopyOutIsSeq
<1>8. RequestTypes'
  BY <1>1, <1>3, <1>5 DEF IInv, TypeOK, RequestTypes
<1>9. mode' \in AllModes /\ needed' \in Nat
  BY <1>1, <1>4, <1>5, BoundsAssumption
<1>10. BufferTypes'
  BY <1>1, <1>5, <1>6, <1>9 DEF IInv, TypeOK, BufferTypes
<1>11. TimerTypes'
  BY <1>1, <1>3, TimersAreFinite DEF IInv, TypeOK, TimerTypes
<1>12. HistoryTypes'
  <2>1. delivered' \in Seq(Chars)
    BY <1>1, <1>7 DEF IInv, TypeOK, HistoryTypes
  <2> QED BY <1>1, <2>1 DEF IInv, TypeOK, HistoryTypes
<1>13. /\ WorkerTypes' /\ OneStarter' /\ ReferencesMatch' /\ CompletedOnce'
       /\ QueueDistinct' /\ WaitingAreOpen' /\ CurrentIsOpen' /\ OnlyCurrentIsHeld'
       /\ pc'[w] = "copied"
       /\ \A v \in Workers : v # w => pc'[v] \in {"idle", "kill"}
  BY <1>1, <1>2, <1>3, StarterGoesOn
<1>14. /\ copied' <= ring'.count /\ kind'[current'] = "read"
       /\ filled'[current'] + needed' = amount'[current']
       /\ info'[current'] = filled'[current']
  <2>1. filled'[current] = n /\ info'[current] = n
    BY <1>1, <1>3 DEF IInv, TypeOK, RequestTypes
  <2> QED BY <1>1, <1>4, <1>5, <1>6, <2>1
<1>15. StarterState'
  BY <1>1, <1>3, <1>13, <1>14 DEF StarterState, ControlLockFree
<1> QED BY <1>8, <1>10, <1>11, <1>12, <1>13, <1>15 DEF IInv, ReferenceProtocol, TypeOK, Bookkeeping

\* What the starter holds between its copy and its release.
LEMMA CopiedState ==
  ASSUME IInv, NEW w \in Workers, pc[w] = "copied"
  PROVE  /\ Working(w) /\ current \in Irps /\ base = "int" /\ refs[current] = {}
         /\ IsRing(ring, Chars) /\ copied \in 0 .. ring.count
         /\ ring.count \in 0 .. ring.size /\ ring.size \in Nat /\ ring.count \in Nat
         /\ kind[current] = "read" /\ filled[current] \in Nat /\ needed \in Nat
         /\ filled[current] + needed = amount[current] /\ info[current] = filled[current]
<1>1. Working(w)
  BY DEF Working
<1>2. current \in Irps /\ base = "int" /\ refs[current] = {}
  BY <1>1, WorkingIsAlone
<1>3. copied <= ring.count /\ copied \in Nat /\ kind[current] = "read"
      /\ filled[current] + needed = amount[current] /\ info[current] = filled[current]
  BY DEF IInv, TypeOK, BufferTypes, Bookkeeping, StarterState
<1>4. IsRing(ring, Chars) /\ ring.count \in 0 .. ring.size /\ ring.size \in Nat
  BY RingFields DEF IInv, TypeOK, BufferTypes
<1>5. filled[current] \in Nat /\ needed \in Nat
  BY <1>2 DEF IInv, TypeOK, RequestTypes, BufferTypes
<1> QED BY <1>1, <1>2, <1>3, <1>4, <1>5

LEMMA ReturnWhatIsPresentStep ==
  ASSUME IInv, NEW w \in Workers, ReturnWhatIsPresent(w)
  PROVE  IInv'
<1>1. /\ pc[w] = "copied" /\ pc' = [pc EXCEPT ![w] = "getnext"]
      /\ ring' = Release(ring, copied) /\ copied' = 0 /\ mode' = "none"
      /\ status' = [status EXCEPT ![current] = "success"]
      /\ UNCHANGED <<queue, current, kind, amount, info, cancelled, routine, refs,
                     filled, completions, newBuffer, base, needed, countOnLast,
                     readByIsr, polls, armed, dpcs, dpcCount, inDpc, arrived,
                     delivered, lost, skewed>>
  BY DEF ReturnWhatIsPresent, Goto, timeVars, histVars
<1>2. /\ Working(w) /\ current \in Irps /\ base = "int"
      /\ IsRing(ring, Chars) /\ copied \in 0 .. ring.count
  BY <1>1, CopiedState
<1>3. /\ status' \in [Irps -> {"none", "pending", "success", "timeout", "cancelled"}]
      /\ status'[current] = "success" /\ \A i \in Irps : i # current => status'[i] = status[i]
  BY <1>1, <1>2 DEF IInv, TypeOK, RequestTypes
<1>4. RequestTypes'
  BY <1>1, <1>3 DEF IInv, TypeOK, RequestTypes
<1>5. IsRing(Release(ring, copied), Chars)
  BY <1>2, ReleaseIsRing
<1>6. BufferTypes' /\ TimerTypes' /\ HistoryTypes'
  BY <1>1, <1>5 DEF IInv, TypeOK, BufferTypes, TimerTypes, HistoryTypes, AllModes
<1>7. /\ WorkerTypes' /\ OneStarter' /\ ReferencesMatch' /\ CompletedOnce'
      /\ QueueDistinct' /\ WaitingAreOpen' /\ CurrentIsOpen' /\ OnlyCurrentIsHeld'
      /\ pc'[w] = "getnext"
      /\ \A v \in Workers : v # w => pc'[v] \in {"idle", "kill"}
  BY <1>1, <1>2, <1>3, StarterGoesOn
<1>8. StarterState'
  BY <1>1, <1>2, <1>3, <1>7 DEF StarterState
<1> QED BY <1>4, <1>6, <1>7, <1>8 DEF IInv, ReferenceProtocol, TypeOK, Bookkeeping

LEMMA CancelledAtStartStep ==
  ASSUME IInv, NEW w \in Workers, CancelledAtStart(w)
  PROVE  IInv'
<1>1. /\ pc[w] = "copied" /\ pc' = [pc EXCEPT ![w] = "getnext"]
      /\ refs' = [refs EXCEPT ![current] = {}]
      /\ status' = [status EXCEPT ![current] = "cancelled"]
      /\ info' = [info EXCEPT ![current] = 0]
      /\ copied' = 0 /\ mode' = "none"
      /\ skewed' = (skewed \/ copied > 0)
      /\ UNCHANGED <<queue, current, kind, amount, cancelled, routine, filled,
                     completions, newBuffer, ring, base, needed, countOnLast,
                     readByIsr, polls, armed, dpcs, dpcCount, inDpc, arrived,
                     delivered, lost>>
  BY DEF CancelledAtStart, Goto, timeVars
<1>2. /\ Working(w) /\ current \in Irps /\ base = "int" /\ refs[current] = {}
  BY <1>1, CopiedState
<1>3. /\ status' \in [Irps -> {"none", "pending", "success", "timeout", "cancelled"}]
      /\ status'[current] = "cancelled" /\ \A i \in Irps : i # current => status'[i] = status[i]
  BY <1>1, <1>2 DEF IInv, TypeOK, RequestTypes
<1>4. refs' = refs
  BY <1>1, <1>2 DEF IInv, TypeOK, RequestTypes
<1>5. RequestTypes'
  BY <1>1, <1>2, <1>3, <1>4 DEF IInv, TypeOK, RequestTypes
<1>6. BufferTypes' /\ TimerTypes'
  BY <1>1 DEF IInv, TypeOK, BufferTypes, TimerTypes, AllModes
<1>7. HistoryTypes'
  BY <1>1 DEF IInv, TypeOK, HistoryTypes
<1>8. /\ WorkerTypes' /\ OneStarter' /\ ReferencesMatch' /\ CompletedOnce'
      /\ QueueDistinct' /\ WaitingAreOpen' /\ CurrentIsOpen' /\ OnlyCurrentIsHeld'
      /\ pc'[w] = "getnext"
      /\ \A v \in Workers : v # w => pc'[v] \in {"idle", "kill"}
  BY <1>1, <1>2, <1>3, <1>4, StarterGoesOn
<1>9. StarterState'
  BY <1>1, <1>2, <1>3, <1>8 DEF StarterState
<1> QED BY <1>5, <1>6, <1>7, <1>8, <1>9 DEF IInv, ReferenceProtocol, TypeOK, Bookkeeping

LEMMA SwitchToUserStep ==
  ASSUME IInv, NEW w \in Workers, SwitchToUser(w)
  PROVE  IInv'
<1> DEFINE wanted   == IF mode = "one" THEN 1 ELSE needed
           released == Release(ring, copied)
           n        == Smaller(released.count, wanted)
           timers   == TimersOf(mode)
<1>1. /\ pc[w] = "copied" /\ ~Satisfied
      /\ ring' = Release(Skip(released, n), n)
      /\ delivered' = delivered \o CopyOut(released, n)
      /\ copied' = 0 /\ mode' = "none" /\ needed' = wanted - n
      /\ amount' = [amount EXCEPT ![current] = IF mode = "one" THEN 1 ELSE @]
      /\ info' = [info EXCEPT ![current] = @ + n]
      /\ filled' = [filled EXCEPT ![current] = @ + n]
      /\ UNCHANGED <<queue, current, kind, cancelled, completions, newBuffer,
                     arrived, lost, skewed>>
      /\ \/ /\ n = wanted
            /\ refs' = [refs EXCEPT ![current] = {}]
            /\ status' = [status EXCEPT ![current] = "success"]
            /\ pc' = [pc EXCEPT ![w] = "getnext"]
            /\ UNCHANGED <<routine, base, countOnLast, readByIsr, polls, armed, dpcs,
                           dpcCount, inDpc>>
         \/ /\ n # wanted
            /\ base' = current
            /\ routine' = [routine EXCEPT ![current] = "current"]
            /\ refs' = [refs EXCEPT ![current] = {"ISR", "CANCEL"} \union timers]
            /\ status' = [status EXCEPT ![current] = "pending"]
            /\ countOnLast' = info[current] + n /\ readByIsr' = 0 /\ polls' = 0
            /\ armed' = armed \union timers
            /\ pc' = [pc EXCEPT ![w] = "idle"] /\ inDpc' = inDpc \ {w}
            /\ dpcCount' = Epilogue(w, dpcCount + Cardinality(timers \ armed))
            /\ UNCHANGED dpcs
  BY DEF SwitchToUser, Goto, Leave, timeVars
<1>2. /\ Working(w) /\ current \in Irps /\ base = "int" /\ refs[current] = {}
      /\ IsRing(ring, Chars) /\ copied \in 0 .. ring.count
      /\ ring.count \in 0 .. ring.size /\ ring.size \in Nat /\ ring.count \in Nat
      /\ kind[current] = "read" /\ filled[current] \in Nat /\ needed \in Nat
      /\ filled[current] + needed = amount[current] /\ info[current] = filled[current]
  BY <1>1, CopiedState
<1>3. IsRing(released, Chars) /\ released.count \in Nat /\ released.count <= released.size
      /\ released.size \in Nat
  BY SMTT(30), <1>2, ReleaseIsRing, RingFields
<1>4. wanted \in Nat /\ needed # 0 /\ (mode = "one" => filled[current] = 0)
  BY <1>1, <1>2 DEF Satisfied
<1> HIDE DEF wanted, released, timers
<1>5. n \in Nat /\ n \in 0 .. released.count /\ n <= wanted /\ n \in 0 .. released.size
  BY <1>3, <1>4 DEF Smaller
<1> HIDE DEF n
<1>6. IsRing(ring', Chars)
  <2>1. IsRing(Skip(released, n), Chars) /\ Skip(released, n).count = released.count
    BY <1>3, <1>5, SkipIsRing
  <2> QED BY <1>1, <1>5, <2>1, ReleaseIsRing
<1>7. CopyOut(released, n) \in Seq(Chars)
  BY <1>3, <1>5, CopyOutIsSeq
<1>8. HistoryTypes'
  <2>1. delivered' \in Seq(Chars)
    BY <1>1, <1>7 DEF IInv, TypeOK, HistoryTypes
  <2> QED BY <1>1, <2>1 DEF IInv, TypeOK, HistoryTypes
<1>9. /\ BufferTypes'
  <2>1. base' \in Irps \union {"int"} /\ needed' \in Nat
    BY <1>1, <1>2, <1>4, <1>5
  <2> QED BY <1>1, <1>6, <2>1 DEF BufferTypes, AllModes
<1>10. /\ amount' \in [Irps -> Nat] /\ info' \in [Irps -> Nat] /\ filled' \in [Irps -> Nat]
       /\ filled'[current] = filled[current] + n
       /\ amount'[current] = IF mode = "one" THEN 1 ELSE amount[current]
  BY <1>1, <1>2, <1>5 DEF IInv, TypeOK, RequestTypes
<1>11. \A i \in Irps : i # current => status'[i] = status[i]
  BY <1>1 DEF IInv, TypeOK, RequestTypes
<1>12. CASE n = wanted
  <2>1. /\ refs' = refs /\ status'[current] = "success"
        /\ status' \in [Irps -> {"none", "pending", "success", "timeout", "cancelled"}]
        /\ pc' = [pc EXCEPT ![w] = "getnext"]
        /\ UNCHANGED <<routine, base, countOnLast, readByIsr, polls, armed, dpcs,
                       dpcCount, inDpc>>
    <3>1. /\ refs' = [refs EXCEPT ![current] = {}]
          /\ status' = [status EXCEPT ![current] = "success"]
          /\ pc' = [pc EXCEPT ![w] = "getnext"]
          /\ UNCHANGED <<routine, base, countOnLast, readByIsr, polls, armed, dpcs,
                         dpcCount, inDpc>>
      BY <1>1, <1>12
    <3> QED BY <3>1, <1>2 DEF IInv, TypeOK, RequestTypes
  <2>2. RequestTypes' /\ TimerTypes'
    BY <1>1, <1>10, <2>1 DEF IInv, TypeOK, RequestTypes, TimerTypes
  <2>3. /\ WorkerTypes' /\ OneStarter' /\ ReferencesMatch' /\ CompletedOnce'
        /\ QueueDistinct' /\ WaitingAreOpen' /\ CurrentIsOpen' /\ OnlyCurrentIsHeld'
        /\ pc'[w] = "getnext"
        /\ \A v \in Workers : v # w => pc'[v] \in {"idle", "kill"}
    BY <1>1, <1>2, <1>11, <2>1, StarterGoesOn
  <2>4. StarterState'
    BY <1>1, <1>2, <2>1, <2>3 DEF StarterState
  <2> QED BY <1>8, <1>9, <2>2, <2>3, <2>4 DEF IInv, ReferenceProtocol, TypeOK, Bookkeeping
<1>13. CASE n # wanted
  <2>1. /\ base' = current
        /\ routine' = [routine EXCEPT ![current] = "current"]
        /\ refs' = [refs EXCEPT ![current] = {"ISR", "CANCEL"} \union timers]
        /\ status' = [status EXCEPT ![current] = "pending"]
        /\ countOnLast' = info[current] + n /\ readByIsr' = 0 /\ polls' = 0
        /\ armed' = armed \union timers
        /\ pc' = [pc EXCEPT ![w] = "idle"] /\ inDpc' = inDpc \ {w}
        /\ dpcCount' = Epilogue(w, dpcCount + Cardinality(timers \ armed))
        /\ UNCHANGED dpcs
    BY <1>1, <1>13
  <2>2. timers \subseteq Timers /\ timers \subseteq Refs /\ "ISR" \notin timers
        /\ "CANCEL" \notin timers
    BY DEF timers, TimersOf, Timers, Refs
  <2>3. /\ current # None /\ kind[current] # "new" /\ completions[current] = 0
        /\ armed = {} /\ dpcs = {} /\ \A v \in Workers : v # w => ~Working(v)
    BY <1>2, WorkingIsAlone
  <2>4. /\ armed' = timers /\ dpcs' = {}
        /\ routine'[current] = "current" /\ refs'[current] = {"ISR", "CANCEL"} \union timers
        /\ \A i \in Irps : i # current => routine'[i] = routine[i] /\ refs'[i] = refs[i]
    BY <1>2, <2>1, <2>3 DEF IInv, TypeOK, RequestTypes
  <2>5. RequestTypes'
    <3>1. /\ routine' \in [Irps -> {"null", "queued", "current"}]
          /\ status' \in [Irps -> {"none", "pending", "success", "timeout", "cancelled"}]
          /\ refs' \in [Irps -> SUBSET Refs]
      BY <2>1, <2>2 DEF IInv, TypeOK, RequestTypes, Refs
    <3> QED BY <1>1, <1>10, <3>1 DEF IInv, TypeOK, RequestTypes
  <2>6. TimerTypes'
    <3>1. Cardinality(timers \ armed) \in Nat
      BY <2>2, TimersAreFinite
    <3>2. dpcCount' \in Int
      BY <2>1, <3>1 DEF Epilogue, IInv, TypeOK, TimerTypes
    <3>3. countOnLast' \in Int
      BY <1>2, <1>5, <2>1
    <3> QED BY <2>1, <2>2, <2>4, <3>2, <3>3 DEF TimerTypes
  <2>7. WorkerTypes' /\ \A v \in Workers : pc'[v] \in {"idle", "kill"}
    BY <2>1, <2>3 DEF IInv, TypeOK, WorkerTypes, Working
  <2>8. OneStarter'
    BY <2>7 DEF OneStarter, Working
  <2>9. ReferencesMatch'
    <3>1. refs'[current] \intersect Timers = timers
      BY <2>2, <2>4 DEF Timers
    <3> QED BY <1>1, <2>1, <2>2, <2>3, <2>4, <3>1 DEF ReferencesMatch
  <2>10. CompletedOnce'
    BY <1>1, <1>2, <1>11, <2>3, <2>4 DEF IInv, ReferenceProtocol, CompletedOnce, Queued, Open,
       Bookkeeping, WaitingAreOpen
  <2>11. QueueDistinct' /\ WaitingAreOpen' /\ CurrentIsOpen' /\ OnlyCurrentIsHeld'
    BY <1>1, <2>4 DEF IInv, Bookkeeping, QueueDistinct, WaitingAreOpen, CurrentIsOpen,
       OnlyCurrentIsHeld
  <2>12. filled'[current'] < amount'[current']
    <3>1. n < wanted
      BY <1>4, <1>5, <1>13
    <3> QED BY <1>1, <1>2, <1>4, <1>5, <1>10, <3>1 DEF wanted
  <2>13. StarterState'
    BY <1>1, <2>7, <2>12 DEF StarterState
  <2> QED BY <1>8, <1>9, <2>5, <2>6, <2>7, <2>8, <2>9, <2>10, <2>11, <2>13
          DEF IInv, ReferenceProtocol, TypeOK, Bookkeeping
<1> QED BY <1>12, <1>13

LEMMA PutCharStep ==
  ASSUME IInv, PutChar
  PROVE  IInv'
<1> DEFINE c == arrived + 1
<1>1. /\ arrived < MaxChars /\ arrived' = c
      /\ UNCHANGED <<queue, current, kind, amount, status, cancelled, routine, refs,
                     completions, newBuffer, needed, copied, mode, countOnLast, polls,
                     armed, pc, inDpc, skewed>>
  BY DEF PutChar
<1>2. c \in Chars /\ arrived' \in 0 .. MaxChars /\ IsRing(ring, Chars)
  BY <1>1, BoundsAssumption DEF IInv, TypeOK, HistoryTypes, BufferTypes, Chars
<1>3. WorkerTypes' /\ QueueDistinct' /\ WaitingAreOpen' /\ CurrentIsOpen' /\ OnlyCurrentIsHeld'
  BY <1>1 DEF IInv, TypeOK, WorkerTypes, Bookkeeping, QueueDistinct, WaitingAreOpen,
              CurrentIsOpen, OnlyCurrentIsHeld
<1>4. CompletedOnce'
  BY <1>1 DEF IInv, ReferenceProtocol, CompletedOnce, Queued, Open
<1> HIDE DEF c
<1>5. CASE base # "int"
  <2>0. current # None /\ base = current
    BY <1>5 DEF IInv, ReferenceProtocol, ReferencesMatch
  <2>1. /\ readByIsr' = readByIsr + 1
        /\ filled' = [filled EXCEPT ![current] = @ + 1]
        /\ delivered' = Append(delivered, c) /\ lost' = lost
        /\ \/ /\ filled[current] = amount[current] - 1
              /\ base' = "int" /\ ring' = Reset(ring)
              /\ info' = [info EXCEPT ![current] = amount[current]]
              /\ dpcs' = dpcs \union {"ISR"}
              /\ dpcCount' = dpcCount + Cardinality({"ISR"} \ dpcs)
           \/ /\ filled[current] # amount[current] - 1
              /\ UNCHANGED <<ring, base, info, dpcs, dpcCount>>
    BY <1>5, <2>0 DEF PutChar, SwitchBack, c
  <2>2. current # None /\ "ISR" \in refs[current] /\ "ISR" \notin dpcs
    BY <2>0 DEF IInv, ReferenceProtocol, ReferencesMatch
  <2>3. current \in Irps /\ copied = 0 /\ \A v \in Workers : ~Working(v)
    BY <2>2, HeldIsCurrent
  <2>4. amount[current] \in Nat /\ filled[current] \in Nat /\ filled[current] < amount[current]
    BY <1>5, <2>3 DEF IInv, TypeOK, RequestTypes, Bookkeeping, StarterState
  <2>5. filled' \in [Irps -> Nat] /\ filled'[current] = filled[current] + 1
        /\ info' \in [Irps -> Nat]
    <3>1. filled \in [Irps -> Nat] /\ info \in [Irps -> Nat] /\ filled[current] + 1 \in Nat
      BY <2>4 DEF IInv, TypeOK, RequestTypes
    <3>2. filled' \in [Irps -> Nat] /\ filled'[current] = filled[current] + 1
      BY <2>1, <2>3, <3>1
    <3>3. info' = info \/ info' = [info EXCEPT ![current] = amount[current]]
      BY <2>1
    <3> QED BY <2>4, <3>1, <3>2, <3>3
  <2>6. RequestTypes'
    BY <1>1, <2>5 DEF IInv, TypeOK, RequestTypes
  <2>7. BufferTypes'
    BY <1>1, <1>2, <2>1, ResetIsRing DEF IInv, TypeOK, BufferTypes
  <2>8. TimerTypes'
    <3>1. IsFiniteSet({"ISR"} \ dpcs) /\ Cardinality({"ISR"} \ dpcs) \in Nat
      BY FS_Singleton, FS_Subset, FS_CardinalityType
    <3>2. dpcs' \subseteq Refs \ {"CANCEL"}
      BY <2>1 DEF IInv, TypeOK, TimerTypes, Refs
    <3>3. dpcCount' \in Int /\ readByIsr' \in Nat
      BY <2>1, <3>1 DEF IInv, TypeOK, TimerTypes
    <3> QED BY <1>1, <3>2, <3>3 DEF IInv, TypeOK, TimerTypes
  <2>9. HistoryTypes'
    <3>1. delivered' \in Seq(Chars)
      BY <1>2, <2>1, Appended DEF IInv, TypeOK, HistoryTypes
    <3> QED BY <1>1, <1>2, <2>1, <3>1 DEF IInv, TypeOK, HistoryTypes
  <2>10. \A v \in Workers : ~Working(v)'
    BY <1>1, <2>3 DEF Working
  <2>11. OneStarter'
    BY <2>10 DEF OneStarter
  <2>12. ReferencesMatch'
    <3>1. CASE UNCHANGED <<base, dpcs>>
      BY <1>1, <2>3, <2>10, <3>1 DEF IInv, ReferenceProtocol, ReferencesMatch
    <3>2. CASE base' = "int" /\ dpcs' = dpcs \union {"ISR"}
      <4>1. armed \intersect dpcs' = {} /\ (armed \union dpcs') \ {"ISR"} = (armed \union dpcs) \ {"ISR"}
        BY <3>2 DEF IInv, ReferenceProtocol, ReferencesMatch, TypeOK, TimerTypes, Timers
      <4>2. refs[current] \intersect Timers = (armed \union dpcs') \ {"ISR"}
        BY <2>2, <4>1 DEF IInv, ReferenceProtocol, ReferencesMatch
      <4>3. ("CANCEL" \in refs[current]) <=> (routine[current] = "current")
        BY <2>2 DEF IInv, ReferenceProtocol, ReferencesMatch
      <4> QED BY <1>1, <2>2, <2>3, <3>2, <4>1, <4>2, <4>3, IntIsNoIrp DEF ReferencesMatch
    <3> QED BY <2>1, <3>1, <3>2
  <2>13. StarterState'
    <3>1. base' # "int" => filled'[current] < amount[current]
      <4>1. base' = "int" \/ filled[current] # amount[current] - 1
        BY <2>1
      <4>2. filled[current] # amount[current] - 1 => filled[current] + 1 < amount[current]
        BY <2>4
      <4> QED BY <2>5, <4>1, <4>2
    <3> QED BY <1>1, <2>3, <2>10, <3>1 DEF StarterState, Working
  <2> QED BY <1>3, <1>4, <2>6, <2>7, <2>8, <2>9, <2>11, <2>12, <2>13
          DEF IInv, ReferenceProtocol, TypeOK, Bookkeeping
<1>6. CASE base = "int"
  <2>1. /\ UNCHANGED <<base, readByIsr, filled, info, dpcs, dpcCount, delivered>>
        /\ \/ ring.count < ring.size /\ ring' = Put(ring, c) /\ lost' = lost
           \/ ring' = ring /\ lost' = lost \union {c}
    BY <1>6 DEF PutChar, c
  <2>2. IsRing(ring', Chars) /\ ring'.count >= ring.count /\ ring.count \in Nat
        /\ ring'.count \in Nat
    <3>1. ring.count \in 0 .. ring.size /\ ring.size \in Nat /\ ring \in Rings(ring.size, Chars)
      BY <1>2, RingFields DEF IsRing
    <3>2. Put(ring, c).count = ring.count + 1
      BY <3>1 DEF Rings, Put
    <3> QED BY <1>2, <2>1, <3>1, <3>2, PutIsRing
  <2>3. RequestTypes' /\ BufferTypes' /\ TimerTypes'
    BY <1>1, <2>1, <2>2 DEF IInv, TypeOK, RequestTypes, BufferTypes, TimerTypes
  <2>4. HistoryTypes'
    BY <1>1, <1>2, <2>1 DEF IInv, TypeOK, HistoryTypes
  <2>5. OneStarter' /\ ReferencesMatch'
    BY <1>1, <2>1 DEF IInv, ReferenceProtocol, OneStarter, ReferencesMatch, Working
  <2>6. StarterState'
    BY <1>1, <1>6, <2>1, <2>2
       DEF IInv, TypeOK, BufferTypes, Bookkeeping, StarterState, ControlLockFree
  <2> QED BY <1>3, <1>4, <2>3, <2>4, <2>5, <2>6 DEF IInv, ReferenceProtocol, TypeOK, Bookkeeping
<1> QED BY <1>5, <1>6 DEF IInv, TypeOK, BufferTypes

\* Whoever drops a reference it holds keeps the invariant: the last one to do
\* so becomes the starter, and the others leave the read to those who remain.
LEMMA TryToCompleteStep ==
  ASSUME IInv, NEW w \in Workers, ~Working(w), current # None,
         NEW ref \in refs[current], ref = "ISR" => "ISR" \in dpcs,
         NEW grab \in BOOLEAN, NEW newStatus \in {"success", "timeout", "cancelled"},
         NEW busy \in BOOLEAN, NEW flags \in SUBSET Irps, countOnLast' \in Int,
         TryToComplete(w, ref, grab, newStatus, dpcs \ {ref}, busy, flags, dpcCount)
  PROVE  IInv'
<1> DEFINE taken   == grab /\ base # "int"
           left    == refs[current] \ Dropped(current, ref, taken)
           stopped == dpcCount - Cardinality(armed)
<1>1. /\ refs' = [refs EXCEPT ![current] = left]
      /\ routine' = [routine EXCEPT ![current] = "null"]
      /\ armed' = {} /\ dpcs' = dpcs \ {ref} /\ cancelled' = flags
      /\ IF taken THEN base' = "int" /\ ring' = Reset(ring) ELSE UNCHANGED <<base, ring>>
      /\ \/ /\ left = {}
            /\ status' = [status EXCEPT ![current] = newStatus]
            /\ info' = [info EXCEPT ![current] =
                 IF newStatus = "cancelled" THEN 0 ELSE InfoAfterGrab(current, taken)]
            /\ pc' = [pc EXCEPT ![w] = "getnext"]
            /\ inDpc' = IF busy THEN inDpc \union {w} ELSE inDpc
            /\ dpcCount' = stopped
         \/ /\ left # {}
            /\ info' = [info EXCEPT ![current] = InfoAfterGrab(current, taken)]
            /\ pc' = [pc EXCEPT ![w] = "idle"]
            /\ inDpc' = inDpc \ {w}
            /\ dpcCount' = IF busy THEN stopped - 1 ELSE stopped
            /\ UNCHANGED status
      /\ UNCHANGED <<queue, current, kind, amount, filled, completions, newBuffer,
                     needed, copied, mode, readByIsr, polls, arrived, delivered, lost, skewed>>
  BY DEF TryToComplete, LastReference, SwitchBack, Goto, histVars
<1>2. /\ current \in Irps /\ kind[current] # "new" /\ completions[current] = 0
      /\ \A v \in Workers : ~Working(v)
      /\ copied = 0
  BY HeldIsCurrent
<1>3. /\ left = refs[current] \ ({ref} \union armed
                   \union (IF taken THEN {"ISR"} ELSE {})
                   \union (IF routine[current] # "null" THEN {"CANCEL"} ELSE {}))
  BY DEF Dropped
<1>4. /\ base \in {"int", current}
      /\ ("ISR" \in refs[current]) <=> (base = current \/ "ISR" \in dpcs)
      /\ ~(base = current /\ "ISR" \in dpcs)
      /\ refs[current] \intersect Timers = (armed \union dpcs) \ {"ISR"}
      /\ ("CANCEL" \in refs[current]) <=> (routine[current] = "current")
      /\ armed \intersect dpcs = {}
  BY DEF IInv, ReferenceProtocol, ReferencesMatch
<1>5. armed \subseteq Timers /\ dpcs \subseteq Refs \ {"CANCEL"}
      /\ refs[current] \subseteq Refs /\ current # "int"
  BY <1>2, IntIsNoIrp DEF IInv, TypeOK, RequestTypes, TimerTypes
<1> HIDE DEF left, stopped
<1>6. /\ base' = IF taken THEN "int" ELSE base
      /\ base' \in {"int", current}
      /\ ("ISR" \in left) <=> (base' = current \/ "ISR" \in dpcs')
      /\ ~(base' = current /\ "ISR" \in dpcs')
  <2>1. base' = IF taken THEN "int" ELSE base
    BY <1>1
  <2>2. "ISR" \notin armed
    BY <1>5 DEF Timers
  <2>3. ("ISR" \in left) <=> ("ISR" \in refs[current] /\ ref # "ISR" /\ ~taken)
    BY <1>3, <2>2
  <2>4. dpcs' = dpcs \ {ref}
    BY <1>1
  <2> QED BY <1>4, <1>5, <2>1, <2>3, <2>4
<1>7. left \intersect Timers = dpcs' \ {"ISR"}
  BY <1>1, <1>3, <1>4, <1>5 DEF Timers, Refs
<1>8. "CANCEL" \notin left
  BY <1>3, <1>4
<1>9. /\ left \subseteq Refs /\ refs'[current] = left
      /\ routine'[current] = "null"
      /\ \A i \in Irps : i # current => routine'[i] = routine[i] /\ refs'[i] = refs[i]
      /\ refs' \in [Irps -> SUBSET Refs]
      /\ routine' \in [Irps -> {"null", "queued", "current"}]
  <2>1. left \subseteq Refs
    BY <1>3, <1>5
  <2>2. refs' = [refs EXCEPT ![current] = left] /\ routine' = [routine EXCEPT ![current] = "null"]
    BY <1>1
  <2> QED BY <1>2, <2>1, <2>2 DEF IInv, TypeOK, RequestTypes
<1>10. /\ status' \in [Irps -> {"none", "pending", "success", "timeout", "cancelled"}]
       /\ \A i \in Irps : i # current => status'[i] = status[i]
  <2>1. status' = status \/ status' = [status EXCEPT ![current] = newStatus]
    BY <1>1
  <2>2. current \in Irps
    BY <1>2
  <2>3. /\ status \in [Irps -> {"none", "pending", "success", "timeout", "cancelled"}]
        /\ newStatus \in {"none", "pending", "success", "timeout", "cancelled"}
    BY DEF IInv, TypeOK, RequestTypes
  <2> QED BY ONLY <2>1, <2>2, <2>3
<1>11. info' \in [Irps -> Nat]
  <2>1. InfoAfterGrab(current, taken) \in Nat
    BY <1>2 DEF InfoAfterGrab, IInv, TypeOK, RequestTypes
  <2>2. PICK n \in Nat : info' = [info EXCEPT ![current] = n]
    <3>1. CASE left = {}
      BY <1>1, <2>1, <3>1
    <3>2. CASE left # {}
      BY <1>1, <2>1, <3>2
    <3> QED BY <3>1, <3>2
  <2> QED BY <2>2 DEF IInv, TypeOK, RequestTypes
<1>12. RequestTypes'
  <2>1. UNCHANGED <<queue, current, kind, amount, filled, completions, newBuffer>>
        /\ cancelled' = flags
    BY <1>1
  <2> QED BY <1>9, <1>10, <1>11, <2>1 DEF IInv, TypeOK, RequestTypes
<1>13. BufferTypes' /\ HistoryTypes'
  <2>1. UNCHANGED <<needed, copied, mode, arrived, delivered, lost, skewed>>
        /\ (ring' = ring \/ ring' = Reset(ring))
    BY <1>1
  <2>2. IsRing(ring', Chars)
    BY <2>1, ResetIsRing DEF IInv, TypeOK, BufferTypes
  <2> QED BY <1>5, <1>6, <2>1, <2>2 DEF IInv, TypeOK, BufferTypes, HistoryTypes
<1>14. /\ TimerTypes' /\ pc' \in [Workers -> {"idle", "start", "copied", "getnext", "kill"}]
       /\ inDpc' \subseteq Workers
       /\ \A v \in Workers : v # w => pc'[v] \in {"idle", "kill"}
       /\ left = {} => pc'[w] = "getnext" /\ status'[current] = newStatus
       /\ left # {} => pc'[w] = "idle"
  <2>1. stopped \in Int
    BY <1>5, TimersAreFinite DEF stopped, IInv, TypeOK, TimerTypes
  <2>2. armed' = {} /\ dpcs' = dpcs \ {ref} /\ UNCHANGED <<readByIsr, polls>>
    BY <1>1
  <2>3. CASE left = {}
    <3>1. /\ status' = [status EXCEPT ![current] = newStatus]
          /\ pc' = [pc EXCEPT ![w] = "getnext"] /\ dpcCount' = stopped
          /\ inDpc' = inDpc \union {w} \/ inDpc' = inDpc
      BY <1>1, <2>3
    <3> QED BY <1>2, <1>5, <2>1, <2>2, <2>3, <3>1
            DEF IInv, TypeOK, RequestTypes, TimerTypes, WorkerTypes, Working
  <2>4. CASE left # {}
    <3>1. /\ pc' = [pc EXCEPT ![w] = "idle"] /\ inDpc' = inDpc \ {w}
          /\ dpcCount' = stopped \/ dpcCount' = stopped - 1
      BY <1>1, <2>4
    <3> QED BY <1>2, <1>5, <2>1, <2>2, <2>4, <3>1
            DEF IInv, TypeOK, TimerTypes, WorkerTypes, Working
  <2> QED BY <2>3, <2>4
<1>15. WorkerTypes'
  BY <1>14 DEF WorkerTypes
<1>16. OneStarter'
  <2>1. UNCHANGED <<current, completions>>
    BY <1>1
  <2>2. \A v \in Workers : Working(v)' => v = w /\ left = {}
    BY <1>14 DEF Working
  <2>3. left = {} => base' = "int"
    BY <1>5, <1>6
  <2> QED BY <1>2, <1>9, <2>1, <2>2, <2>3 DEF OneStarter
<1>17. ReferencesMatch'
  <2>1. armed' = {} /\ UNCHANGED <<current, queue>>
    BY <1>1
  <2>2. left = {} => Working(w)'
    BY <1>14 DEF Working
  <2> QED BY <1>6, <1>7, <1>8, <1>9, <2>1, <2>2 DEF ReferencesMatch
<1>18. CompletedOnce'
  <2>1. UNCHANGED <<queue, current, kind, completions>>
    BY <1>1
  <2>2. ~Queued(current)
    BY DEF IInv, Bookkeeping, WaitingAreOpen, Queued
  <2>3. \A i \in Irps : (Queued(i)' <=> Queued(i)) /\ (Open(i)' <=> Open(i))
    BY <2>1 DEF Queued, Open
  <2> QED BY <1>2, <1>9, <1>10, <2>1, <2>2, <2>3 DEF IInv, ReferenceProtocol, CompletedOnce
<1>19. QueueDistinct' /\ WaitingAreOpen' /\ CurrentIsOpen' /\ OnlyCurrentIsHeld'
  <2>1. UNCHANGED <<queue, current, kind, completions>>
    BY <1>1
  <2> QED BY <1>9, <2>1 DEF IInv, Bookkeeping, QueueDistinct, WaitingAreOpen,
                             CurrentIsOpen, OnlyCurrentIsHeld
<1>20. StarterState'
  <2>1. UNCHANGED <<current, filled, amount, copied>>
    BY <1>1
  <2>2. base' # "int" => filled[current] < amount[current]
    BY <1>6 DEF IInv, Bookkeeping, StarterState
  <2>3. \A v \in Workers : pc'[v] # "copied"
    BY <1>14
  <2>4. \A v \in Workers : pc'[v] = "getnext" => status'[current] = newStatus
    BY <1>14
  <2> QED BY <1>2, <2>1, <2>2, <2>3, <2>4 DEF StarterState
<1> QED BY <1>12, <1>13, <1>14, <1>15, <1>16, <1>17, <1>18, <1>19, <1>20
        DEF IInv, ReferenceProtocol, TypeOK, Bookkeeping

\* A queued procedure, and a set timer, find their reference on the current read.
LEMMA DpcFindsItsReference ==
  ASSUME IInv, NEW ref \in dpcs \union armed
  PROVE  /\ current # None /\ ref \in refs[current] /\ refs[current] # {}
         /\ \A v \in Workers : ~Working(v)
<1>1. current # None
  BY DEF IInv, ReferenceProtocol, ReferencesMatch
<1>2. ref \in refs[current]
  <2>1. CASE ref = "ISR"
    BY <1>1, <2>1 DEF IInv, ReferenceProtocol, ReferencesMatch, TypeOK, TimerTypes, Timers
  <2>2. CASE ref # "ISR"
    BY <1>1, <2>2 DEF IInv, ReferenceProtocol, ReferencesMatch
  <2> QED BY <2>1, <2>2
<1> QED BY <1>1, <1>2, HeldIsCurrent

LEMMA CompleteReadStep ==
  ASSUME IInv, NEW w \in Workers, CompleteRead(w)
  PROVE  IInv'
<1>1. /\ "ISR" \in dpcs /\ countOnLast' = -3
      /\ TryToComplete(w, "ISR", FALSE, "success", dpcs \ {"ISR"}, TRUE, cancelled, dpcCount)
  BY DEF CompleteRead, CompleteFromDpc, READ_COMPLETE
<1>2. current # None /\ "ISR" \in refs[current] /\ ~Working(w) /\ cancelled \in SUBSET Irps
  BY <1>1, DpcFindsItsReference DEF IInv, TypeOK, RequestTypes
<1>3. countOnLast' \in Int /\ TRUE \in BOOLEAN /\ FALSE \in BOOLEAN
  BY <1>1
<1> QED BY <1>1, <1>2, <1>3, TryToCompleteStep, Zenon

LEMMA ReadTimeoutStep ==
  ASSUME IInv, NEW w \in Workers, ReadTimeout(w)
  PROVE  IInv'
<1>1. /\ "TOTAL" \in dpcs /\ countOnLast' = -2
      /\ TryToComplete(w, "TOTAL", TRUE, "timeout", dpcs \ {"TOTAL"}, TRUE, cancelled, dpcCount)
  BY DEF ReadTimeout, CompleteFromDpc, READ_TOTAL
<1>2. current # None /\ "TOTAL" \in refs[current] /\ ~Working(w) /\ cancelled \in SUBSET Irps
  BY <1>1, DpcFindsItsReference DEF IInv, TypeOK, RequestTypes
<1>3. countOnLast' \in Int /\ TRUE \in BOOLEAN /\ FALSE \in BOOLEAN
  BY <1>1
<1> QED BY <1>1, <1>2, <1>3, TryToCompleteStep, Zenon

\* The interval timer goes from the queue of procedures back to being set.
LEMMA PollAgainStep ==
  ASSUME IInv, "INT" \in dpcs, NEW newPolls \in Nat, PollAgain(newPolls),
         countOnLast' \in Int, readByIsr' \in Nat
  PROVE  IInv'
<1>1. /\ dpcs' = dpcs \ {"INT"} /\ armed' = armed \union {"INT"}
      /\ dpcCount' = dpcCount + Cardinality({"INT"} \ armed) - 1
      /\ polls' = newPolls
      /\ UNCHANGED <<queue, current, kind, amount, status, info, cancelled, routine, refs,
                     filled, completions, newBuffer, ring, base, needed, copied, mode, pc,
                     inDpc, arrived, delivered, lost, skewed>>
  BY DEF PollAgain, irpVars, bufVars, histVars
<1>2. RequestTypes' /\ BufferTypes' /\ WorkerTypes' /\ HistoryTypes'
  BY <1>1 DEF IInv, TypeOK, RequestTypes, BufferTypes, WorkerTypes, HistoryTypes
<1>3. TimerTypes'
  <2>1. Cardinality({"INT"} \ armed) \in Nat
    BY FS_Singleton, FS_Subset, FS_CardinalityType
  <2>2. dpcCount' \in Int
    BY <1>1, <2>1 DEF IInv, TypeOK, TimerTypes
  <2> QED BY <1>1, <2>2 DEF IInv, TypeOK, TimerTypes, Timers
<1>4. Bookkeeping'
  BY <1>1 DEF IInv, Bookkeeping, QueueDistinct, WaitingAreOpen, CurrentIsOpen,
              OnlyCurrentIsHeld, StarterState, ControlLockFree
<1>5. OneStarter'
  BY <1>1 DEF IInv, ReferenceProtocol, OneStarter, Working
<1>6. ReferencesMatch'
  <2>1. armed' \union dpcs' = armed \union dpcs /\ ("ISR" \in dpcs' <=> "ISR" \in dpcs)
        /\ armed' \intersect dpcs' = {}
    BY <1>1 DEF IInv, ReferenceProtocol, ReferencesMatch
  <2> QED BY <1>1, <2>1 DEF IInv, ReferenceProtocol, ReferencesMatch, Working
<1>7. CompletedOnce'
  BY <1>1 DEF IInv, ReferenceProtocol, CompletedOnce, Queued, Open
<1> QED BY <1>2, <1>3, <1>4, <1>5, <1>6, <1>7 DEF IInv, ReferenceProtocol, TypeOK

LEMMA IntervalReadTimeoutStep ==
  ASSUME IInv, NEW w \in Workers, IntervalReadTimeout(w)
  PROVE  IInv'
<1>1. "INT" \in dpcs
  BY DEF IntervalReadTimeout
<1>2. /\ countOnLast \in Int /\ readByIsr \in Nat /\ polls \in Nat
      /\ cancelled \in SUBSET Irps
  BY DEF IInv, TypeOK, TimerTypes, RequestTypes
<1>3. current # None /\ "INT" \in refs[current] /\ ~Working(w)
  BY <1>1, DpcFindsItsReference
<1>4. CASE \E s \in {"success", "timeout", "cancelled"} :
             CompleteFromDpc(w, "INT", TRUE, s) /\ UNCHANGED countOnLast
  <2>1. PICK s \in {"success", "timeout", "cancelled"} :
          /\ TryToComplete(w, "INT", TRUE, s, dpcs \ {"INT"}, TRUE, cancelled, dpcCount)
          /\ UNCHANGED countOnLast
    BY <1>4 DEF CompleteFromDpc
  <2> QED BY <1>2, <1>3, <2>1, TryToCompleteStep
<1>5. CASE \E n \in Nat : PollAgain(n) /\ countOnLast' \in Int /\ readByIsr' \in Nat
  BY <1>1, <1>5, PollAgainStep
<1>6. IntervalStatus \in {"success", "timeout", "cancelled"}
  BY DEF IntervalStatus
<1>7. \/ \E s \in {"success", "timeout", "cancelled"} :
           CompleteFromDpc(w, "INT", TRUE, s) /\ UNCHANGED countOnLast
      \/ \E n \in Nat : PollAgain(n) /\ countOnLast' \in Int /\ readByIsr' \in Nat
  <2>1. CASE CompleteFromDpc(w, "INT", TRUE, IntervalStatus) /\ UNCHANGED countOnLast
    BY <1>6, <2>1
  <2>2. CASE CompleteFromDpc(w, "INT", TRUE, "timeout") /\ UNCHANGED countOnLast
    BY <2>2
  <2>3. CASE countOnLast' = readByIsr /\ readByIsr' = 0 /\ PollAgain(0)
    <3>1. 0 \in Nat /\ countOnLast' \in Int /\ readByIsr' \in Nat
      BY <1>2, <2>3
    <3> QED BY <2>3, <3>1
  <2>4. CASE \E n \in {polls, polls + 1} : PollAgain(n) /\ UNCHANGED <<countOnLast, readByIsr>>
    <3>1. PICK n \in {polls, polls + 1} : PollAgain(n) /\ UNCHANGED <<countOnLast, readByIsr>>
      BY <2>4
    <3>2. n \in Nat /\ countOnLast' \in Int /\ readByIsr' \in Nat
      BY <1>2, <3>1
    <3> QED BY <3>1, <3>2
  <2> QED BY <2>1, <2>2, <2>3, <2>4 DEF IntervalReadTimeout
<1> QED BY <1>4, <1>5, <1>7

LEMMA TimerExpiresStep ==
  ASSUME IInv, NEW t \in Timers, TimerExpires(t)
  PROVE  IInv'
<1>1. /\ t \in armed /\ armed' = armed \ {t} /\ dpcs' = dpcs \union {t}
      /\ UNCHANGED <<queue, current, kind, amount, status, info, cancelled, routine, refs,
                     filled, completions, newBuffer, ring, base, needed, copied, mode,
                     countOnLast, readByIsr, polls, dpcCount, pc, inDpc, arrived, delivered,
                     lost, skewed>>
  BY DEF TimerExpires, irpVars, bufVars, histVars
<1>2. RequestTypes' /\ BufferTypes' /\ WorkerTypes' /\ HistoryTypes'
  BY <1>1 DEF IInv, TypeOK, RequestTypes, BufferTypes, WorkerTypes, HistoryTypes
<1>3. TimerTypes'
  BY <1>1 DEF IInv, TypeOK, TimerTypes, Timers, Refs
<1>4. Bookkeeping'
  BY <1>1 DEF IInv, Bookkeeping, QueueDistinct, WaitingAreOpen, CurrentIsOpen,
              OnlyCurrentIsHeld, StarterState, ControlLockFree
<1>5. OneStarter'
  BY <1>1 DEF IInv, ReferenceProtocol, OneStarter, Working
<1>6. ReferencesMatch'
  <2>1. t # "ISR"
    BY DEF Timers
  <2>2. armed' \union dpcs' = armed \union dpcs /\ ("ISR" \in dpcs' <=> "ISR" \in dpcs)
        /\ armed' \intersect dpcs' = {}
    BY <1>1, <2>1 DEF IInv, ReferenceProtocol, ReferencesMatch
  <2> QED BY <1>1, <2>2 DEF IInv, ReferenceProtocol, ReferencesMatch, Working
<1>7. CompletedOnce'
  BY <1>1 DEF IInv, ReferenceProtocol, CompletedOnce, Queued, Open
<1> QED BY <1>2, <1>3, <1>4, <1>5, <1>6, <1>7 DEF IInv, ReferenceProtocol, TypeOK

LEMMA CancelCurrentReadStep ==
  ASSUME IInv, NEW w \in Workers, ~Working(w), current # None,
         routine[current] = "current", CancelCurrentRead(w)
  PROVE  IInv'
<1>1. "CANCEL" \in refs[current]
  BY DEF IInv, ReferenceProtocol, ReferencesMatch
<1>2. dpcs \ {"CANCEL"} = dpcs /\ current \in Irps /\ cancelled \in SUBSET Irps
  BY DEF IInv, TypeOK, TimerTypes, RequestTypes
<1>3. cancelled \union {current} \in SUBSET Irps
  BY <1>2
<1>4. /\ countOnLast' = -1
      /\ TryToComplete(w, "CANCEL", TRUE, "cancelled", dpcs \ {"CANCEL"}, FALSE,
                       cancelled \union {current}, dpcCount)
  BY <1>2 DEF CancelCurrentRead, READ_CANCEL
<1>5. countOnLast' \in Int /\ TRUE \in BOOLEAN /\ FALSE \in BOOLEAN
  BY <1>4
<1> QED BY <1>1, <1>3, <1>4, <1>5, TryToCompleteStep, Zenon

\* A request that waits leaves the queue; the others keep their order.
LEMMA CancelQueuedStep ==
  ASSUME IInv, NEW k \in DOMAIN queue, CancelQueued(k), pc' = pc
  PROVE  IInv'
<1> DEFINE i == queue[k]
<1>1. /\ queue' = RemoveAt(queue, k)
      /\ routine' = [routine EXCEPT ![i] = "null"]
      /\ cancelled' = cancelled \union {i}
      /\ status' = [status EXCEPT ![i] = "cancelled"]
      /\ newBuffer' = [newBuffer EXCEPT ![i] = IF kind[i] = "resize" THEN "freed" ELSE @]
      /\ completions' = [completions EXCEPT ![i] = @ + 1]
      /\ UNCHANGED <<current, kind, amount, info, refs, filled, ring, base, needed, copied,
                     mode, countOnLast, readByIsr, polls, armed, dpcs, dpcCount, pc, inDpc,
                     arrived, delivered, lost, skewed>>
  BY DEF CancelQueued, FreeBlock, Complete, bufVars, timeVars, histVars
<1>2. i \in Irps /\ DOMAIN queue \subseteq Nat
  <2>1. queue \in Seq(Irps)
    BY DEF IInv, TypeOK, RequestTypes
  <2> QED BY <2>1
<1>3. /\ i # current /\ kind[i] # "new" /\ completions[i] = 0 /\ refs[i] = {}
      /\ \A m \in DOMAIN queue : queue[m] = i => m = k
  BY <1>2 DEF IInv, Bookkeeping, WaitingAreOpen, OnlyCurrentIsHeld, QueueDistinct
<1>4. /\ queue' \in Seq(Irps) /\ k \in Nat
      /\ DOMAIN queue' = 1 .. Len(queue) - 1
      /\ \A m \in DOMAIN queue' :
           /\ m < k => m \in DOMAIN queue /\ queue'[m] = queue[m]
           /\ m >= k => m + 1 \in DOMAIN queue /\ queue'[m] = queue[m + 1]
      /\ \A m \in DOMAIN queue :
           /\ m < k => m \in DOMAIN queue'
           /\ m > k => m - 1 \in DOMAIN queue'
  <2>1. queue \in Seq(Irps) /\ queue' = RemoveAt(queue, k)
    BY <1>1 DEF IInv, TypeOK, RequestTypes
  <2>2. k \in Nat
    BY <2>1
  <2> QED BY <2>1, <2>2, Removed
<1>5. \A m \in DOMAIN queue' : \E n \in DOMAIN queue :
        n # k /\ queue'[m] = queue[n] /\ queue'[m] # i /\ queue'[m] \in Irps
  <2> SUFFICES ASSUME NEW m \in DOMAIN queue'
               PROVE  \E n \in DOMAIN queue : n # k /\ queue'[m] = queue[n]
    BY <1>3 DEF IInv, TypeOK, RequestTypes
  <2>1. m \in Nat
    BY <1>4
  <2>2. CASE m < k
    BY <1>4, <2>1, <2>2
  <2>3. CASE m >= k
    BY <1>4, <2>1, <2>3
  <2> QED BY <1>4, <2>1, <2>2, <2>3
<1>6. \A j \in Irps : Queued(j)' <=> (Queued(j) /\ j # i)
  <2>1. ASSUME NEW j \in Irps, Queued(j)' PROVE Queued(j) /\ j # i
    BY <1>5, <2>1 DEF Queued
  <2>2. ASSUME NEW j \in Irps, Queued(j), j # i PROVE Queued(j)'
    <3>1. PICK m \in DOMAIN queue : queue[m] = j
      BY <2>2 DEF Queued
    <3>2. m \in Nat /\ (m < k \/ m > k)
      <4>1. m # k
        BY <2>2, <3>1
      <4>2. m \in Nat
        BY <1>2
      <4> QED BY <1>4, <4>1, <4>2
    <3>3. CASE m < k
      BY <1>4, <3>1, <3>3 DEF Queued
    <3>4. CASE m > k
      <4>1. m - 1 \in DOMAIN queue' /\ m - 1 >= k /\ (m - 1) + 1 = m
        BY <1>4, <3>2, <3>4
      <4>2. queue'[m - 1] = queue[m]
        BY <1>4, <4>1
      <4> QED BY <3>1, <4>1, <4>2 DEF Queued
    <3> QED BY <3>2, <3>3, <3>4
  <2> QED BY <2>1, <2>2
<1> HIDE DEF i
<1>7. /\ completions' \in [Irps -> Nat] /\ completions'[i] = 1
      /\ status'[i] = "cancelled" /\ routine'[i] = "null"
      /\ \A j \in Irps : j # i => /\ completions'[j] = completions[j]
                                 /\ status'[j] = status[j] /\ routine'[j] = routine[j]
  BY <1>1, <1>2, <1>3 DEF IInv, TypeOK, RequestTypes
<1>8. TypeOK'
  <2>1. /\ routine' \in [Irps -> {"null", "queued", "current"}]
        /\ status' \in [Irps -> {"none", "pending", "success", "timeout", "cancelled"}]
        /\ newBuffer' \in [Irps -> {"none", "held", "freed", "installed"}]
    BY <1>1, <1>2 DEF IInv, TypeOK, RequestTypes
  <2>2. RequestTypes'
    <3>1. UNCHANGED <<current, kind, amount, info, refs, filled>>
      BY <1>1
    <3>2. cancelled' \subseteq Irps
      BY <1>1, <1>2 DEF IInv, TypeOK, RequestTypes
    <3>3. RequestTypes
      BY DEF IInv, TypeOK
    <3>4. queue' \in Seq(Irps) /\ completions' \in [Irps -> Nat]
      BY <1>4, <1>7
    <3> QED BY ONLY <2>1, <3>1, <3>2, <3>3, <3>4 DEF RequestTypes
  <2>3. BufferTypes' /\ TimerTypes' /\ WorkerTypes' /\ HistoryTypes'
    BY <1>1 DEF IInv, TypeOK, BufferTypes, TimerTypes, WorkerTypes, HistoryTypes
  <2> QED BY <2>2, <2>3 DEF TypeOK
<1>9. current # None
  <2>1. queue # <<>>
    OBVIOUS
  <2> QED BY <2>1 DEF IInv, ReferenceProtocol, ReferencesMatch
<1>10. current \in Irps
  BY <1>9 DEF IInv, TypeOK, RequestTypes
<1>11. Bookkeeping'
  <2>1. QueueDistinct'
    <3> SUFFICES ASSUME NEW m \in DOMAIN queue', NEW n \in DOMAIN queue', queue'[m] = queue'[n]
                 PROVE  m = n
      BY DEF QueueDistinct
    <3>1. m \in Nat /\ n \in Nat
      BY <1>4
    <3> DEFINE at(x) == IF x < k THEN x ELSE x + 1
    <3>2. \A x \in DOMAIN queue' : at(x) \in DOMAIN queue /\ queue'[x] = queue[at(x)]
      <4> SUFFICES ASSUME NEW x \in DOMAIN queue'
                   PROVE  at(x) \in DOMAIN queue /\ queue'[x] = queue[at(x)]
        OBVIOUS
      <4>1. x \in Nat
        BY <1>4
      <4>2. CASE x < k
        BY <1>4, <4>2
      <4>3. CASE ~(x < k)
        BY <1>4, <4>1, <4>3
      <4> QED BY <4>2, <4>3
    <3>3. at(m) = at(n)
      BY <3>2 DEF IInv, Bookkeeping, QueueDistinct
    <3> QED BY <1>4, <3>1, <3>3
  <2>2. WaitingAreOpen'
    BY <1>1, <1>5, <1>7 DEF IInv, Bookkeeping, WaitingAreOpen
  <2>3. CurrentIsOpen' /\ OnlyCurrentIsHeld'
    BY <1>1, <1>2, <1>3, <1>7, <1>10 DEF IInv, Bookkeeping, CurrentIsOpen, OnlyCurrentIsHeld
  <2>4. StarterState'
    BY <1>1, <1>3, <1>7, <1>10 DEF IInv, Bookkeeping, StarterState, ControlLockFree
  <2> QED BY <2>1, <2>2, <2>3, <2>4 DEF Bookkeeping
<1>12. OneStarter'
  BY <1>1, <1>3, <1>7, <1>10 DEF IInv, ReferenceProtocol, OneStarter, Working
<1>13. ReferencesMatch'
  BY <1>1, <1>3, <1>7, <1>9, <1>10 DEF IInv, ReferenceProtocol, ReferencesMatch, Working
<1>14. CompletedOnce'
  BY <1>1, <1>2, <1>3, <1>6, <1>7 DEF IInv, ReferenceProtocol, CompletedOnce, Open
<1> QED BY <1>8, <1>11, <1>12, <1>13, <1>14 DEF IInv, ReferenceProtocol

\* Steps that change no more than Cancel flags and what an idle or killing
\* worker does next.
LEMMA FlagStep ==
  ASSUME IInv, NEW w \in Workers, ~Working(w), NEW label \in {"idle", "kill"},
         pc' = pc \/ pc' = [pc EXCEPT ![w] = label], cancelled' \in SUBSET Irps,
         UNCHANGED <<queue, current, kind, amount, status, info, routine, refs, filled,
                     completions, newBuffer, bufVars, timeVars, inDpc, histVars>>
  PROVE  IInv'
<1>1. UNCHANGED <<queue, current, kind, amount, status, info, routine, refs, filled,
                  completions, newBuffer, ring, base, needed, copied, mode, countOnLast,
                  readByIsr, polls, armed, dpcs, dpcCount, inDpc, arrived, delivered,
                  lost, skewed>>
  BY DEF bufVars, timeVars, histVars
<1>2. /\ pc' \in [Workers -> {"idle", "start", "copied", "getnext", "kill"}]
      /\ \A v \in Workers : /\ Working(v)' <=> Working(v)
                            /\ pc'[v] = "copied" <=> pc[v] = "copied"
                            /\ pc'[v] = "getnext" <=> pc[v] = "getnext"
  BY DEF IInv, TypeOK, WorkerTypes, Working
<1>3. TypeOK'
  <2>1. RequestTypes'
    BY <1>1 DEF IInv, TypeOK, RequestTypes
  <2>2. BufferTypes' /\ TimerTypes' /\ WorkerTypes' /\ HistoryTypes'
    BY <1>1, <1>2 DEF IInv, TypeOK, BufferTypes, TimerTypes, WorkerTypes, HistoryTypes
  <2> QED BY <2>1, <2>2 DEF TypeOK
<1>4. Bookkeeping'
  BY <1>1, <1>2 DEF IInv, Bookkeeping, QueueDistinct, WaitingAreOpen, CurrentIsOpen,
                    OnlyCurrentIsHeld, StarterState, ControlLockFree
<1>5. OneStarter' /\ ReferencesMatch' /\ CompletedOnce'
  BY <1>1, <1>2 DEF IInv, ReferenceProtocol, OneStarter, ReferencesMatch, CompletedOnce, Queued, Open
<1> QED BY <1>3, <1>4, <1>5 DEF IInv, ReferenceProtocol

LEMMA IoCancelIrpStep ==
  ASSUME IInv, NEW w \in Workers, NEW i \in Irps, IoCancelIrp(w, i)
  PROVE  IInv'
<1>1. pc[w] = "idle" /\ ~Working(w) /\ "idle" \in {"idle", "kill"}
  BY DEF IoCancelIrp, Working
<1>2. CASE \E k \in DOMAIN queue : CancelQueued(k) /\ pc' = pc
  BY <1>2, CancelQueuedStep
<1>3. CASE routine[i] = "current" /\ CancelCurrentRead(w)
  <2>1. i = current
    BY <1>3 DEF IInv, Bookkeeping, OnlyCurrentIsHeld
  <2> QED BY <1>1, <1>3, <2>1, NoneIsNoIrp, CancelCurrentReadStep
<1>4. CASE /\ cancelled' = cancelled \union {i}
           /\ UNCHANGED <<queue, current, kind, amount, status, info, routine, refs,
                          filled, completions, newBuffer, bufVars, timeVars, pc,
                          inDpc, histVars>>
  <2>1. cancelled' \in SUBSET Irps
    BY <1>4 DEF IInv, TypeOK, RequestTypes
  <2> QED BY <1>1, <1>4, <2>1, FlagStep
<1> QED BY <1>2, <1>3, <1>4 DEF IoCancelIrp

LEMMA StartKillStep ==
  ASSUME IInv, NEW w \in Workers, StartKill(w)
  PROVE  IInv'
<1>1. /\ ~Working(w) /\ pc' = [pc EXCEPT ![w] = "kill"]
      /\ UNCHANGED <<queue, current, irpVars, bufVars, timeVars, inDpc, histVars>>
  BY DEF StartKill, Goto, Working
<1>2. UNCHANGED <<kind, amount, status, info, cancelled, routine, refs, filled,
                  completions, newBuffer>>
  BY <1>1 DEF irpVars
<1>3. cancelled' \in SUBSET Irps
  BY <1>2 DEF IInv, TypeOK, RequestTypes
<1> QED BY <1>1, <1>2, <1>3, FlagStep

LEMMA KillQueuedStep ==
  ASSUME IInv, NEW w \in Workers, KillQueued(w)
  PROVE  IInv'
<1>1. queue # <<>> /\ CancelQueued(Len(queue)) /\ pc' = pc
  BY DEF KillQueued
<1>2. Len(queue) \in DOMAIN queue
  BY <1>1 DEF IInv, TypeOK, RequestTypes
<1> QED BY <1>1, <1>2, CancelQueuedStep

LEMMA KillCurrentStep ==
  ASSUME IInv, NEW w \in Workers, KillCurrent(w)
  PROVE  IInv'
<1>1. ~Working(w)
  BY DEF KillCurrent, Working
<1>2. CASE current # None /\ routine[current] = "current" /\ CancelCurrentRead(w)
  BY <1>1, <1>2, CancelCurrentReadStep
<1>3. CASE /\ IF current = None THEN UNCHANGED cancelled
              ELSE routine[current] = "null" /\ cancelled' = cancelled \union {current}
           /\ Goto(w, "idle")
           /\ UNCHANGED <<queue, current, kind, amount, status, info, routine, refs,
                          filled, completions, newBuffer, bufVars, timeVars, inDpc,
                          histVars>>
  <2>1. cancelled' \in SUBSET Irps
    BY <1>3 DEF IInv, TypeOK, RequestTypes
  <2>2. pc' = [pc EXCEPT ![w] = "idle"]
    BY <1>3 DEF Goto
  <2> QED BY <1>1, <1>3, <2>1, <2>2, FlagStep
<1> QED BY <1>2, <1>3 DEF KillCurrent

LEMMA PurgeInterruptBuffStep ==
  ASSUME IInv, PurgeInterruptBuff
  PROVE  IInv'
<1>1. /\ base = "int" /\ base' = "int" /\ ring' = Reset(ring) /\ ControlLockFree
      /\ lost' = lost \union ToSet(Content(ring))
      /\ UNCHANGED <<queue, current, kind, amount, status, info, cancelled, routine, refs,
                     filled, completions, newBuffer, needed, copied, mode, countOnLast,
                     readByIsr, polls, armed, dpcs, dpcCount, pc, inDpc, arrived,
                     delivered, skewed>>
  BY DEF PurgeInterruptBuff, SwitchBack, irpVars, timeVars
<1>2. IsRing(ring, Chars) /\ IsRing(ring', Chars)
  BY <1>1, ResetIsRing DEF IInv, TypeOK, BufferTypes
<1>3. ToSet(Content(ring)) \subseteq Chars
  <2>1. Content(ring) \in Seq(Chars)
    <3>1. ring.count \in 0 .. ring.size
      BY <1>2, RingFields
    <3> QED BY <1>2, <3>1, CopyOutIsSeq DEF Content
  <2> QED BY <2>1 DEF ToSet
<1>4. TypeOK'
  <2>1. RequestTypes' /\ BufferTypes' /\ TimerTypes' /\ WorkerTypes'
    BY <1>1, <1>2 DEF IInv, TypeOK, RequestTypes, BufferTypes, TimerTypes, WorkerTypes
  <2>2. HistoryTypes'
    BY <1>1, <1>3 DEF IInv, TypeOK, HistoryTypes
  <2> QED BY <2>1, <2>2 DEF TypeOK
<1>5. QueueDistinct' /\ WaitingAreOpen' /\ CurrentIsOpen' /\ OnlyCurrentIsHeld'
  BY <1>1 DEF IInv, Bookkeeping, QueueDistinct, WaitingAreOpen, CurrentIsOpen,
              OnlyCurrentIsHeld
<1>6. StarterState'
  BY <1>1 DEF IInv, Bookkeeping, StarterState, ControlLockFree
<1>7. OneStarter' /\ ReferencesMatch' /\ CompletedOnce'
  BY <1>1 DEF IInv, ReferenceProtocol, OneStarter, ReferencesMatch, CompletedOnce, Queued, Open, Working
<1> QED BY <1>4, <1>5, <1>6, <1>7 DEF IInv, ReferenceProtocol, Bookkeeping

-----------------------------------------------------------------------------
(* The theorems. *)

LEMMA NextIInv == IInv /\ [Next]_vars => IInv'
<1> SUFFICES ASSUME IInv, [Next]_vars PROVE IInv'
  OBVIOUS
<1>1. CASE UNCHANGED vars
  <2>1. UNCHANGED <<queue, current, kind, amount, status, info, cancelled, routine, refs,
                    filled, completions, newBuffer>>
    BY <1>1 DEF vars, irpVars
  <2>2. UNCHANGED <<ring, base, needed, copied, mode, countOnLast, readByIsr, polls, armed,
                    dpcs, dpcCount, pc, inDpc, arrived, delivered, lost, skewed>>
    BY <1>1 DEF vars, bufVars, timeVars, histVars
  <2>3. TypeOK'
    BY <2>1, <2>2 DEF IInv, TypeOK, RequestTypes, BufferTypes, TimerTypes, WorkerTypes,
                      HistoryTypes
  <2>4. Bookkeeping'
    BY <2>1, <2>2 DEF IInv, Bookkeeping, QueueDistinct, WaitingAreOpen, CurrentIsOpen,
                      OnlyCurrentIsHeld, StarterState, ControlLockFree
  <2>5. ReferenceProtocol'
    BY <2>1, <2>2 DEF IInv, ReferenceProtocol, OneStarter, ReferencesMatch, CompletedOnce, Queued, Open,
                      Working
  <2> QED BY <2>3, <2>4, <2>5 DEF IInv
<1>2. ASSUME NEW w \in Workers, NEW i \in Irps,
             Read(w, i) \/ SetQueueSize(w, i) \/ IoCancelIrp(w, i)
      PROVE  IInv'
  BY <1>2, ReadStep, SetQueueSizeStep, IoCancelIrpStep
<1>3. ASSUME NEW w \in Workers,
             \/ ResizeBuffer(w) \/ CopyFromRing(w) \/ ReturnWhatIsPresent(w)
             \/ CancelledAtStart(w) \/ SwitchToUser(w) \/ GetNextIrp(w)
      PROVE  IInv'
  BY <1>3, ResizeBufferStep, CopyFromRingStep, ReturnWhatIsPresentStep,
     CancelledAtStartStep, SwitchToUserStep, GetNextIrpStep
<1>4. ASSUME NEW w \in Workers,
             \/ CompleteRead(w) \/ ReadTimeout(w) \/ IntervalReadTimeout(w)
             \/ StartKill(w) \/ KillQueued(w) \/ KillCurrent(w)
      PROVE  IInv'
  BY <1>4, CompleteReadStep, ReadTimeoutStep, IntervalReadTimeoutStep, StartKillStep,
     KillQueuedStep, KillCurrentStep
<1>5. ASSUME NEW t \in Timers, TimerExpires(t) PROVE IInv'
  BY <1>5, TimerExpiresStep
<1>6. CASE PutChar
  BY <1>6, PutCharStep
<1>7. CASE PurgeInterruptBuff
  BY <1>7, PurgeInterruptBuffStep
<1> QED BY <1>1, <1>2, <1>3, <1>4, <1>5, <1>6, <1>7 DEF Next

\* The inductive invariant: types, the bookkeeping of the queue and the three
\* safety invariants hold in every reachable state, however many requests,
\* threads and processors there are.
THEOREM Invariance == Spec => []IInv
BY InitIInv, NextIInv, PTL DEF Spec

\* Every variable keeps its type: the ring's pointers and its count stay in
\* range through copies, releases, resizes and purges, and the queue holds
\* requests.
THEOREM TypeCorrect == Spec => []TypeOK
<1>1. IInv => TypeOK
  BY DEF IInv
<1> QED BY <1>1, Invariance, PTL

\* Never two threads or procedures between the start of a request and its
\* completion, so CurrentReadIrp may be used outside the cancel lock.
THEOREM StarterIsAlone == Spec => []OneStarter
<1>1. IInv => OneStarter
  BY DEF IInv, ReferenceProtocol
<1> QED BY <1>1, Invariance, PTL

\* Every set timer, queued procedure, cancel routine and loan of the buffer to
\* the interrupt routine is matched by a reference on the current read, and
\* the reverse.
THEOREM ReferencesAreExact == Spec => []ReferencesMatch
<1>1. IInv => ReferencesMatch
  BY DEF IInv, ReferenceProtocol
<1> QED BY <1>1, Invariance, PTL

\* No request is completed twice, none is lost, and a completed one is out of
\* the driver's reach.
THEOREM CompletionIsFinal == Spec => []CompletedOnce
<1>1. IInv => CompletedOnce
  BY DEF IInv, ReferenceProtocol
<1> QED BY <1>1, Invariance, PTL

\* The three together: the reference protocol that the reads, their timers, the
\* interrupt routine and the cancel routine follow keeps its promises.
THEOREM ProtocolIsKept == Spec => []ReferenceProtocol
<1>1. IInv => ReferenceProtocol
  BY DEF IInv
<1> QED BY <1>1, Invariance, PTL

\* A request that was completed is neither new, nor current, nor in the queue.
LEMMA CompletedIsOut ==
  ASSUME IInv, NEW i \in Irps, completions[i] > 0
  PROVE  /\ kind[i] # "new" /\ i # current
         /\ \A k \in DOMAIN queue : queue[k] # i
<1>1. completions[i] # 0
  OBVIOUS
<1> QED BY <1>1, NoneIsNoIrp
        DEF IInv, Bookkeeping, OnlyCurrentIsHeld, WaitingAreOpen, CurrentIsOpen

\* The driver never writes to the buffer, the status or the count of a request
\* that was completed.
THEOREM CompletedIsLeftAlone == Spec => NoWriteAfterCompletion
<1>1. ASSUME IInv, [Next]_vars, NEW i \in Irps, completions[i] > 0
      PROVE  filled'[i] = filled[i] /\ info'[i] = info[i] /\ status'[i] = status[i]
  <2>1. /\ kind[i] # "new" /\ i # current
        /\ \A k \in DOMAIN queue : queue[k] # i
    BY <1>1, CompletedIsOut
  <2>2. CASE UNCHANGED vars
    BY <2>2 DEF vars, irpVars
  <2>3. ASSUME NEW w \in Workers, NEW j \in Irps, Read(w, j) \/ SetQueueSize(w, j)
        PROVE  filled'[i] = filled[i] /\ info'[i] = info[i] /\ status'[i] = status[i]
    <3>1. kind[j] = "new" /\ UNCHANGED <<filled, info>>
      BY <2>3 DEF Read, SetQueueSize
    <3>2. status' = status \/ \E s \in {"success", "pending", "cancelled"} :
            status' = [status EXCEPT ![j] = s]
      BY <2>3 DEF Read, SetQueueSize, StartOrQueue
    <3> QED BY <1>1, <2>1, <3>1, <3>2 DEF IInv, TypeOK, RequestTypes
  <2>4. ASSUME NEW k \in DOMAIN queue, CancelQueued(k)
        PROVE  filled'[i] = filled[i] /\ info'[i] = info[i] /\ status'[i] = status[i]
    BY <1>1, <2>1, <2>4 DEF CancelQueued, IInv, TypeOK, RequestTypes
  <2>5. ASSUME NEW w, NEW ref, NEW grab, NEW s, NEW q, NEW busy, NEW flags, NEW n,
               TryToComplete(w, ref, grab, s, q, busy, flags, n)
        PROVE  filled'[i] = filled[i] /\ info'[i] = info[i] /\ status'[i] = status[i]
    <3>1. /\ filled' = filled
          /\ status' = status \/ status' = [status EXCEPT ![current] = s]
          /\ \E m : info' = [info EXCEPT ![current] = m]
      BY <2>5 DEF TryToComplete
    <3> QED BY <1>1, <2>1, <3>1 DEF IInv, TypeOK, RequestTypes
  <2>6. ASSUME NEW w \in Workers, NEW j \in Irps, IoCancelIrp(w, j)
        PROVE  filled'[i] = filled[i] /\ info'[i] = info[i] /\ status'[i] = status[i]
    <3>1. CASE \E k \in DOMAIN queue : CancelQueued(k)
      BY <2>4, <3>1
    <3>2. CASE CancelCurrentRead(w)
      BY <2>5, <3>2 DEF CancelCurrentRead
    <3>3. CASE UNCHANGED <<filled, info, status>>
      BY <3>3
    <3> QED BY <2>6, <3>1, <3>2, <3>3 DEF IoCancelIrp
  <2>7. ASSUME NEW w \in Workers,
               \/ ResizeBuffer(w) \/ CopyFromRing(w) \/ ReturnWhatIsPresent(w)
               \/ CancelledAtStart(w) \/ SwitchToUser(w) \/ GetNextIrp(w)
        PROVE  filled'[i] = filled[i] /\ info'[i] = info[i] /\ status'[i] = status[i]
    <3>1. /\ filled' = filled \/ \E m : filled' = [filled EXCEPT ![current] = m]
          /\ info' = info \/ \E m : info' = [info EXCEPT ![current] = m]
          /\ status' = status \/ \E m : status' = [status EXCEPT ![current] = m]
      <4>1. CASE ResizeBuffer(w)
        BY <4>1 DEF ResizeBuffer
      <4>2. CASE CopyFromRing(w)
        BY <4>2 DEF CopyFromRing
      <4>3. CASE ReturnWhatIsPresent(w) \/ CancelledAtStart(w)
        BY <4>3 DEF ReturnWhatIsPresent, CancelledAtStart
      <4>4. CASE SwitchToUser(w)
        BY <4>4 DEF SwitchToUser
      <4>5. CASE GetNextIrp(w)
        BY <4>5 DEF GetNextIrp
      <4> QED BY <2>7, <4>1, <4>2, <4>3, <4>4, <4>5
    <3> QED BY <1>1, <2>1, <3>1 DEF IInv, TypeOK, RequestTypes
  <2>8. ASSUME NEW w \in Workers,
               \/ CompleteRead(w) \/ ReadTimeout(w) \/ IntervalReadTimeout(w)
               \/ StartKill(w) \/ KillQueued(w) \/ KillCurrent(w)
        PROVE  filled'[i] = filled[i] /\ info'[i] = info[i] /\ status'[i] = status[i]
    <3>1. CASE CompleteRead(w) \/ ReadTimeout(w)
      BY <2>5, <3>1 DEF CompleteRead, ReadTimeout, CompleteFromDpc
    <3>2. CASE IntervalReadTimeout(w)
      <4>1. CASE \E s : CompleteFromDpc(w, "INT", TRUE, s)
        BY <2>5, <4>1 DEF CompleteFromDpc
      <4>2. CASE \E n : PollAgain(n)
        BY <4>2 DEF PollAgain, irpVars
      <4> QED BY <3>2, <4>1, <4>2 DEF IntervalReadTimeout
    <3>3. CASE StartKill(w)
      BY <3>3 DEF StartKill, irpVars
    <3>4. CASE KillQueued(w)
      <4>1. CancelQueued(Len(queue)) /\ queue # <<>> /\ queue \in Seq(Irps)
        BY <1>1, <3>4 DEF KillQueued, IInv, TypeOK, RequestTypes
      <4>2. Len(queue) \in DOMAIN queue
        BY <4>1
      <4> QED BY <2>4, <4>1, <4>2
    <3>5. CASE KillCurrent(w)
      <4>1. CASE CancelCurrentRead(w)
        BY <2>5, <4>1 DEF CancelCurrentRead
      <4>2. CASE UNCHANGED <<filled, info, status>>
        BY <4>2
      <4> QED BY <3>5, <4>1, <4>2 DEF KillCurrent
    <3> QED BY <2>8, <3>1, <3>2, <3>3, <3>4, <3>5
  <2>9. CASE (\E t \in Timers : TimerExpires(t)) \/ PurgeInterruptBuff
    BY <2>9 DEF TimerExpires, PurgeInterruptBuff, irpVars
  <2>10. CASE PutChar
    <3>1. /\ filled' = filled \/ \E m : filled' = [filled EXCEPT ![current] = m]
          /\ info' = info \/ \E m : info' = [info EXCEPT ![current] = m]
          /\ status' = status
      <4>1. base # "int" => base = current
        BY <1>1 DEF IInv, ReferenceProtocol, ReferencesMatch
      <4> QED BY <2>10, <4>1 DEF PutChar
    <3> QED BY <1>1, <2>1, <3>1 DEF IInv, TypeOK, RequestTypes
  <2> QED BY <1>1, <2>2, <2>3, <2>6, <2>7, <2>8, <2>9, <2>10 DEF Next
<1>2. IInv /\ [Next]_vars => [CompletedLeftAlone]_vars
  BY <1>1 DEF CompletedLeftAlone
<1> QED BY <1>2, Invariance, PTL DEF Spec, NoWriteAfterCompletion

-----------------------------------------------------------------------------
(* The read queue implements IrpQueue. *)

Done == {i \in Irps : completions[i] > 0}

\* Completing a request adds it, and nothing else, to those that are done.
LEMMA DoneGrows ==
  ASSUME TypeOK, NEW i \in Irps, completions' = [completions EXCEPT ![i] = @ + 1]
  PROVE  Done' = Done \union {i}
BY DEF Done, TypeOK, RequestTypes

\* Steps that neither queue, start nor complete a request.
LEMMA QueueStutters ==
  ASSUME UNCHANGED <<queue, current, completions>>
  PROVE  UNCHANGED Queue!vars
BY DEF Queue!vars

LEMMA ArrivalRefines ==
  ASSUME IInv, NEW w \in Workers, NEW i \in Irps, kind[i] = "new",
         \/ StartOrQueue(w, i)
         \/ Complete(i) /\ UNCHANGED <<queue, current>>
  PROVE  Queue!Next
<1>1. i \notin Queue!Known
  <2>1. i # current /\ completions[i] = 0 /\ \A k \in DOMAIN queue : queue[k] # i
    BY NoneIsNoIrp DEF IInv, Bookkeeping, CurrentIsOpen, WaitingAreOpen, OnlyCurrentIsHeld
  <2> QED BY <2>1 DEF Queue!Known, Queue!ToSet
<1>2. CASE Complete(i) /\ UNCHANGED <<queue, current>>
  <2>1. Done' = Done \union {i}
    BY <1>2, DoneGrows DEF Complete, IInv
  <2>2. Queue!Refuse(i)
    BY <1>1, <1>2, <2>1 DEF Queue!Refuse, Done
  <2> QED BY <2>2 DEF Queue!Next
<1>3. CASE MayStart /\ current' = i /\ UNCHANGED <<queue, completions>>
  <2>1. Queue!Begin(i)
    BY <1>1, <1>3 DEF Queue!Begin, MayStart
  <2> QED BY <2>1 DEF Queue!Next
<1>4. CASE /\ ~MayStart /\ queue' = Append(queue, i)
           /\ UNCHANGED <<current, completions>>
  <2>1. current # None
    BY <1>4 DEF MayStart, IInv, ReferenceProtocol, ReferencesMatch
  <2>2. Queue!Enqueue(i)
    BY <1>1, <1>4, <2>1 DEF Queue!Enqueue
  <2> QED BY <2>2 DEF Queue!Next
<1> QED BY <1>2, <1>3, <1>4 DEF StartOrQueue

LEMMA CancelRefines ==
  ASSUME IInv, NEW k \in DOMAIN queue, CancelQueued(k)
  PROVE  Queue!Next
<1>1. /\ queue[k] \in Irps /\ queue' = RemoveAt(queue, k) /\ current' = current
      /\ completions' = [completions EXCEPT ![queue[k]] = @ + 1]
  BY DEF CancelQueued, Complete, IInv, TypeOK, RequestTypes
<1>2. Done' = Done \union {queue[k]}
  BY <1>1, DoneGrows DEF IInv
<1>3. Queue!Withdraw(k)
  BY <1>1, <1>2 DEF Queue!Withdraw, Queue!RemoveAt, RemoveAt, Done
<1> QED BY <1>3 DEF Queue!Next

LEMMA GetNextIrpRefines ==
  ASSUME IInv, NEW w \in Workers, GetNextIrp(w)
  PROVE  Queue!Next
<1>1. current \in Irps /\ current # None
  BY WorkingIsAlone DEF GetNextIrp, Working
<1>2. Done' = Done \union {current}
  BY <1>1, DoneGrows DEF GetNextIrp, Complete, IInv
<1>3. Queue!Finish
  BY <1>1, <1>2 DEF Queue!Finish, GetNextIrp, Done
<1> QED BY <1>3 DEF Queue!Next

\* A party that drops a reference leaves the queue as it is.
LEMMA TryToCompleteStutters ==
  ASSUME NEW w, NEW ref, NEW grab, NEW s, NEW q, NEW busy, NEW flags, NEW n,
         TryToComplete(w, ref, grab, s, q, busy, flags, n)
  PROVE  UNCHANGED <<queue, current, completions>>
BY DEF TryToComplete

\* The read queue is a request queue in the sense of IrpQueue: nobody sees it
\* wait for nothing, it is served in the order of arrival, and only the current
\* request is ever completed by the device.
THEOREM ReadQueueIsIrpQueue == Spec => QueueSpec
<1>1. Init => Queue!Init
  BY DEF Init, Queue!Init
<1>2. ASSUME IInv, [Next]_vars PROVE [Queue!Next]_(Queue!vars)
  <2>1. ASSUME NEW w \in Workers, NEW i \in Irps, Read(w, i) \/ SetQueueSize(w, i)
        PROVE  Queue!Next
    <3>1. kind[i] = "new" /\ (StartOrQueue(w, i) \/ (Complete(i) /\ UNCHANGED <<queue, current>>))
      <4>1. CASE Read(w, i)
        BY <4>1 DEF Read
      <4>2. CASE SetQueueSize(w, i)
        BY <4>2 DEF SetQueueSize
      <4> QED BY <2>1, <4>1, <4>2
    <3> QED BY <1>2, <3>1, ArrivalRefines
  <2>2. ASSUME NEW w \in Workers, NEW i \in Irps, IoCancelIrp(w, i)
        PROVE  Queue!Next \/ UNCHANGED Queue!vars
    <3>1. CASE \E k \in DOMAIN queue : CancelQueued(k)
      BY <1>2, <3>1, CancelRefines
    <3>2. CASE CancelCurrentRead(w)
      <4>1. UNCHANGED <<queue, current, completions>>
        BY <3>2, TryToCompleteStutters DEF CancelCurrentRead
      <4> QED BY <4>1, QueueStutters
    <3>3. CASE UNCHANGED <<queue, current, completions>>
      BY <3>3, QueueStutters
    <3> QED BY <2>2, <3>1, <3>2, <3>3 DEF IoCancelIrp
  <2>3. ASSUME NEW w \in Workers, GetNextIrp(w) PROVE Queue!Next
    BY <1>2, <2>3, GetNextIrpRefines
  <2>4. ASSUME NEW w \in Workers, KillQueued(w) PROVE Queue!Next
    <3>1. CancelQueued(Len(queue)) /\ queue # <<>> /\ queue \in Seq(Irps)
      BY <1>2, <2>4 DEF KillQueued, IInv, TypeOK, RequestTypes
    <3>2. Len(queue) \in DOMAIN queue
      BY <3>1
    <3> QED BY <1>2, <3>1, <3>2, CancelRefines
  <2>5. ASSUME NEW w \in Workers,
               \/ ResizeBuffer(w) \/ CopyFromRing(w) \/ ReturnWhatIsPresent(w)
               \/ CancelledAtStart(w) \/ SwitchToUser(w) \/ StartKill(w)
        PROVE  UNCHANGED <<queue, current, completions>>
    BY <2>5 DEF ResizeBuffer, CopyFromRing, ReturnWhatIsPresent, CancelledAtStart,
                SwitchToUser, StartKill, irpVars
  <2>6. ASSUME NEW w \in Workers,
               CompleteRead(w) \/ ReadTimeout(w) \/ IntervalReadTimeout(w) \/ KillCurrent(w)
        PROVE  UNCHANGED <<queue, current, completions>>
    <3>1. CASE CompleteRead(w) \/ ReadTimeout(w)
      BY <3>1, TryToCompleteStutters DEF CompleteRead, ReadTimeout, CompleteFromDpc
    <3>2. CASE IntervalReadTimeout(w)
      <4>1. CASE \E s : CompleteFromDpc(w, "INT", TRUE, s)
        BY <4>1, TryToCompleteStutters DEF CompleteFromDpc
      <4>2. CASE \E n : PollAgain(n)
        BY <4>2 DEF PollAgain, irpVars
      <4> QED BY <3>2, <4>1, <4>2 DEF IntervalReadTimeout
    <3>3. CASE KillCurrent(w)
      <4>1. CASE CancelCurrentRead(w)
        BY <4>1, TryToCompleteStutters DEF CancelCurrentRead
      <4>2. CASE UNCHANGED <<queue, current, completions>>
        BY <4>2
      <4> QED BY <3>3, <4>1, <4>2 DEF KillCurrent
    <3> QED BY <2>6, <3>1, <3>2, <3>3
  <2>7. ASSUME (\E t \in Timers : TimerExpires(t)) \/ PurgeInterruptBuff \/ PutChar
        PROVE  UNCHANGED <<queue, current, completions>>
    BY <2>7 DEF TimerExpires, PurgeInterruptBuff, PutChar, irpVars
  <2>8. CASE UNCHANGED vars
    BY <2>8, QueueStutters DEF vars, irpVars
  <2> QED BY <1>2, <2>1, <2>2, <2>3, <2>4, <2>5, <2>6, <2>7, <2>8, QueueStutters DEF Next
<1> QED BY <1>1, <1>2, Invariance, PTL DEF Spec, QueueSpec, Queue!Spec

-----------------------------------------------------------------------------
(* What a step is: which of the references it drops, and on whose behalf. *)

\* Worker w drops the reference `ref' of the current read.
Drops(w, ref, grab, newStatus, busy, flags) ==
  /\ ~Working(w) /\ current # None /\ ref \in refs[current]
  /\ busy <=> ref \in dpcs
  /\ ref = "ISR" => "ISR" \in dpcs
  /\ grab \/ base = "int"
  /\ TryToComplete(w, ref, grab, newStatus, dpcs \ {ref}, busy, flags, dpcCount)

DropsOne(w) ==
  \E ref \in Refs, grab \in BOOLEAN, newStatus \in {"success", "timeout", "cancelled"},
     busy \in BOOLEAN, flags \in SUBSET Irps :
       Drops(w, ref, grab, newStatus, busy, flags)

\* Nothing but Cancel flags, and where workers other than a starter are.
FlagsOnly ==
  /\ \A v \in Workers : /\ Working(v)' <=> Working(v)
                        /\ pc'[v] = "copied" <=> pc[v] = "copied"
                        /\ pc'[v] = "getnext" <=> pc[v] = "getnext"
  /\ UNCHANGED <<queue, current, kind, amount, status, info, routine, refs, filled,
                 completions, newBuffer, bufVars, timeVars, inDpc, histVars>>

LEMMA CancelCurrentDrops ==
  ASSUME IInv, NEW w \in Workers, ~Working(w), current # None,
         routine[current] = "current", CancelCurrentRead(w)
  PROVE  DropsOne(w)
<1>1. "CANCEL" \in refs[current] /\ "CANCEL" \notin dpcs
  BY DEF IInv, ReferenceProtocol, ReferencesMatch, TypeOK, TimerTypes
<1>2. dpcs \ {"CANCEL"} = dpcs /\ current \in Irps /\ cancelled \in SUBSET Irps
  BY <1>1 DEF IInv, TypeOK, RequestTypes
<1>3. cancelled \union {current} \in SUBSET Irps
  BY <1>2
<1>4. TryToComplete(w, "CANCEL", TRUE, "cancelled", dpcs \ {"CANCEL"}, FALSE,
                    cancelled \union {current}, dpcCount)
  BY <1>2 DEF CancelCurrentRead
<1>5. Drops(w, "CANCEL", TRUE, "cancelled", FALSE, cancelled \union {current})
  BY <1>1, <1>4, Zenon DEF Drops
<1>6. "CANCEL" \in Refs /\ TRUE \in BOOLEAN /\ FALSE \in BOOLEAN
      /\ "cancelled" \in {"success", "timeout", "cancelled"}
  BY DEF Refs
<1> QED BY <1>3, <1>5, <1>6, Zenon DEF DropsOne

LEMMA DpcDropsOne ==
  ASSUME IInv, NEW w \in Workers, NEW ref \in dpcs, NEW grab \in BOOLEAN,
         NEW s \in {"success", "timeout", "cancelled"}, grab \/ ref = "ISR",
         CompleteFromDpc(w, ref, grab, s)
  PROVE  DropsOne(w)
<1>1. current # None /\ ref \in refs[current] /\ ~Working(w)
  BY DpcFindsItsReference
<1>2. grab \/ base = "int"
  BY <1>1, IntIsNoIrp DEF IInv, ReferenceProtocol, ReferencesMatch
<1>3. TryToComplete(w, ref, grab, s, dpcs \ {ref}, TRUE, cancelled, dpcCount)
  BY DEF CompleteFromDpc
<1>4. Drops(w, ref, grab, s, TRUE, cancelled)
  BY <1>1, <1>2, <1>3, Zenon DEF Drops
<1>5. ref \in Refs /\ TRUE \in BOOLEAN /\ cancelled \in SUBSET Irps
  BY DEF IInv, TypeOK, TimerTypes, RequestTypes
<1> QED BY <1>4, <1>5, Zenon DEF DropsOne

\* What a step is, as the invariants below see it.
LEMMA StepKinds ==
  ASSUME IInv, Next
  PROVE  \/ \E w \in Workers, i \in Irps : Read(w, i) \/ SetQueueSize(w, i)
         \/ \E w \in Workers : ResizeBuffer(w)
         \/ \E w \in Workers : CopyFromRing(w)
         \/ \E w \in Workers : ReturnWhatIsPresent(w)
         \/ \E w \in Workers : CancelledAtStart(w)
         \/ \E w \in Workers : SwitchToUser(w)
         \/ \E w \in Workers : GetNextIrp(w)
         \/ \E w \in Workers : DropsOne(w)
         \/ "INT" \in dpcs /\ \E n : PollAgain(n)
         \/ \E t \in Timers : TimerExpires(t)
         \/ \E k \in DOMAIN queue : CancelQueued(k) /\ pc' = pc
         \/ FlagsOnly
         \/ PutChar
         \/ PurgeInterruptBuff
<1> DEFINE Goal == \/ \E w \in Workers : DropsOne(w)
                   \/ "INT" \in dpcs /\ \E n : PollAgain(n)
                   \/ \E k \in DOMAIN queue : CancelQueued(k) /\ pc' = pc
                   \/ FlagsOnly
<1>1. ASSUME NEW w \in Workers, NEW label \in {"idle", "kill"}, ~Working(w),
             pc' = pc \/ pc' = [pc EXCEPT ![w] = label],
             UNCHANGED <<queue, current, kind, amount, status, info, routine, refs, filled,
                         completions, newBuffer, bufVars, timeVars, inDpc, histVars>>
      PROVE  FlagsOnly
  <2>1. \A v \in Workers : /\ Working(v)' <=> Working(v)
                           /\ pc'[v] = "copied" <=> pc[v] = "copied"
                           /\ pc'[v] = "getnext" <=> pc[v] = "getnext"
    BY <1>1 DEF IInv, TypeOK, WorkerTypes, Working
  <2> QED BY <1>1, <2>1 DEF FlagsOnly
<1>2. ASSUME NEW w \in Workers, NEW i \in Irps, IoCancelIrp(w, i) PROVE Goal
  <2>1. ~Working(w)
    BY <1>2 DEF IoCancelIrp, Working
  <2>2. CASE \E k \in DOMAIN queue : CancelQueued(k) /\ pc' = pc
    BY <2>2
  <2>3. CASE routine[i] = "current" /\ CancelCurrentRead(w)
    <3>1. i = current /\ current # None
      BY <2>3, NoneIsNoIrp DEF IInv, Bookkeeping, OnlyCurrentIsHeld
    <3> QED BY <2>1, <2>3, <3>1, CancelCurrentDrops
  <2>4. CASE UNCHANGED <<queue, current, kind, amount, status, info, routine, refs, filled,
                         completions, newBuffer, bufVars, timeVars, pc, inDpc, histVars>>
    BY <1>1, <2>1, <2>4
  <2> QED BY <1>2, <2>2, <2>3, <2>4 DEF IoCancelIrp
<1>3. ASSUME NEW w \in Workers, StartKill(w) \/ KillQueued(w) \/ KillCurrent(w) PROVE Goal
  <2>1. ~Working(w)
    BY <1>3 DEF StartKill, KillQueued, KillCurrent, Working
  <2>2. CASE StartKill(w)
    <3>1. /\ pc' = [pc EXCEPT ![w] = "kill"]
          /\ UNCHANGED <<queue, current, kind, amount, status, info, routine, refs, filled,
                         completions, newBuffer, bufVars, timeVars, inDpc, histVars>>
      BY <2>2 DEF StartKill, Goto, irpVars
    <3> QED BY <1>1, <2>1, <3>1
  <2>3. CASE KillQueued(w)
    <3>1. Len(queue) \in DOMAIN queue
      BY <2>3 DEF KillQueued, IInv, TypeOK, RequestTypes
    <3> QED BY <2>3, <3>1 DEF KillQueued
  <2>4. CASE KillCurrent(w)
    <3>1. CASE current # None /\ routine[current] = "current" /\ CancelCurrentRead(w)
      BY <2>1, <3>1, CancelCurrentDrops
    <3>2. CASE /\ pc' = [pc EXCEPT ![w] = "idle"]
               /\ UNCHANGED <<queue, current, kind, amount, status, info, routine, refs, filled,
                         completions, newBuffer, bufVars, timeVars, inDpc, histVars>>
      BY <1>1, <2>1, <3>2
    <3> QED BY <2>4, <3>1, <3>2 DEF KillCurrent, Goto
  <2> QED BY <1>3, <2>2, <2>3, <2>4
<1>4. ASSUME NEW w \in Workers, CompleteRead(w) \/ ReadTimeout(w) \/ IntervalReadTimeout(w)
      PROVE  Goal
  <2>1. CASE CompleteRead(w)
    BY <2>1, DpcDropsOne DEF CompleteRead
  <2>2. CASE ReadTimeout(w)
    BY <2>2, DpcDropsOne DEF ReadTimeout
  <2>3. CASE IntervalReadTimeout(w)
    <3>1. "INT" \in dpcs
      BY <2>3 DEF IntervalReadTimeout
    <3>2. CASE \E s \in {"success", "timeout", "cancelled"} : CompleteFromDpc(w, "INT", TRUE, s)
      BY <3>1, <3>2, DpcDropsOne
    <3>3. CASE \E n : PollAgain(n)
      BY <3>1, <3>3
    <3>4. IntervalStatus \in {"success", "timeout", "cancelled"}
      BY DEF IntervalStatus
    <3> QED BY <2>3, <3>2, <3>3, <3>4 DEF IntervalReadTimeout
  <2> QED BY <1>4, <2>1, <2>2, <2>3
<1> QED BY <1>2, <1>3, <1>4 DEF Next

-----------------------------------------------------------------------------
(* The blocks of pool. *)

\* A new request has no status, only reads hold references, and a resize goes
\* on to the next request when it has been carried out.
Pool ==
  /\ PoolAccounted
  /\ \A i \in Irps : kind[i] = "new" => status[i] = "none"
  /\ \A i \in Irps : refs[i] # {} => kind[i] = "read"
  /\ \A w \in Workers :
       pc[w] = "getnext" /\ kind[current] = "resize" => status[current] = "success"

LEMMA PoolStep ==
  ASSUME IInv, IInv', Pool, Next
  PROVE  Pool'
<1>1. /\ kind \in [Irps -> {"new", "read", "resize"}]
      /\ status \in [Irps -> {"none", "pending", "success", "timeout", "cancelled"}]
      /\ refs \in [Irps -> SUBSET Refs] /\ completions \in [Irps -> Nat]
      /\ newBuffer \in [Irps -> {"none", "held", "freed", "installed"}]
      /\ pc \in [Workers -> {"idle", "start", "copied", "getnext", "kill"}]
  BY DEF IInv, TypeOK, RequestTypes, WorkerTypes
<1>2. ASSUME NEW w \in Workers, NEW i \in Irps, Read(w, i) \/ SetQueueSize(w, i)
      PROVE  Pool'
  <2>1. kind[i] = "new" /\ pc[w] = "idle" /\ refs' = refs
        /\ i # current /\ completions[i] = 0 /\ refs[i] = {}
        /\ status[i] = "none" /\ newBuffer[i] # "held"
    <3>1. kind[i] = "new" /\ pc[w] = "idle" /\ refs' = refs
      BY <1>2 DEF Read, SetQueueSize
    <3>2. i # current /\ completions[i] = 0 /\ refs[i] = {}
      BY <3>1, NoneIsNoIrp DEF IInv, Bookkeeping, OnlyCurrentIsHeld, CurrentIsOpen
    <3> QED BY <3>1, <3>2 DEF Pool, PoolAccounted
  <2>2. PICK k \in {"read", "resize"} :
          /\ kind' = [kind EXCEPT ![i] = k]
          /\ k = "read" => newBuffer' = newBuffer
          /\ k = "resize" => \/ newBuffer' = [newBuffer EXCEPT ![i] =
                                   IF completions'[i] = completions[i] THEN "held" ELSE "freed"]
                                /\ StartOrQueue(w, i)
                             \/ newBuffer' = newBuffer /\ Complete(i)
                                /\ status' = [status EXCEPT ![i] = "success"]
                                /\ UNCHANGED <<pc, current>>
          /\ \/ StartOrQueue(w, i)
             \/ status' = [status EXCEPT ![i] = "success"] /\ Complete(i)
                /\ UNCHANGED <<pc, current>>
    <3>1. CASE Read(w, i)
      BY <3>1 DEF Read
    <3>2. CASE SetQueueSize(w, i)
      BY <3>2 DEF SetQueueSize
    <3> QED BY <1>2, <3>1, <3>2
  <2>3. /\ \A j \in Irps : j # i => /\ kind'[j] = kind[j] /\ status'[j] = status[j]
                                    /\ completions'[j] = completions[j]
                                    /\ newBuffer'[j] = newBuffer[j]
        /\ kind'[i] = k
        /\ \A v \in Workers : pc'[v] = "getnext" => pc[v] = "getnext" /\ current' = current
    <3>1. /\ \/ status' = status
             \/ \E s \in {"success", "pending", "cancelled"} :
                  status' = [status EXCEPT ![i] = s]
          /\ completions' = completions \/ completions' = [completions EXCEPT ![i] = @ + 1]
      BY <2>2 DEF StartOrQueue, Complete
    <3>7. \/ pc' = pc /\ current' = current
          \/ pc' = [pc EXCEPT ![w] = "start"] /\ current = None
      BY <2>2 DEF StartOrQueue, Goto, MayStart
    <3>2. newBuffer' = newBuffer \/ \E b : newBuffer' = [newBuffer EXCEPT ![i] = b]
      BY <2>2
    <3>3. \A v \in Workers : pc[v] = "getnext" => current # None
      BY DEF IInv, ReferenceProtocol, OneStarter, Working
    <3>4. \A j \in Irps : j # i => status'[j] = status[j] /\ completions'[j] = completions[j]
      BY <1>1, <3>1
    <3>5. \A j \in Irps : j # i => kind'[j] = kind[j] /\ newBuffer'[j] = newBuffer[j]
      BY <1>1, <2>2, <3>2
    <3>6. ASSUME NEW v \in Workers, pc'[v] = "getnext"
          PROVE  pc[v] = "getnext" /\ current' = current
      <4>1. CASE pc' = pc /\ current' = current
        BY <3>6, <4>1
      <4>2. CASE pc' = [pc EXCEPT ![w] = "start"] /\ current = None
        <5>1. pc[v] = "getnext"
          BY <1>1, <3>6, <4>2
        <5> QED BY <3>3, <4>2, <5>1
      <4> QED BY <3>7, <4>1, <4>2
    <3> QED BY <1>1, <2>2, <3>4, <3>5, <3>6
  <2>4. newBuffer'[i] = "held" <=> (k = "resize" /\ completions'[i] = 0 /\ status'[i] # "success")
    <3>1. CASE k = "read"
      BY <1>1, <2>1, <2>2, <3>1
    <3>2. CASE k = "resize" /\ StartOrQueue(w, i)
               /\ newBuffer' = [newBuffer EXCEPT ![i] =
                                  IF completions'[i] = completions[i] THEN "held" ELSE "freed"]
      <4>1. (completions'[i] = completions[i] /\ status'[i] # "success") \/ completions'[i] = 1
        BY <1>1, <2>1, <3>2 DEF StartOrQueue, Complete
      <4>2. newBuffer'[i] = IF completions'[i] = completions[i] THEN "held" ELSE "freed"
        BY <1>1, <3>2
      <4> QED BY <2>1, <3>2, <4>1, <4>2
    <3>3. CASE k = "resize" /\ newBuffer' = newBuffer /\ Complete(i)
      <4>1. completions'[i] = 1
        BY <1>1, <2>1, <3>3 DEF Complete
      <4> QED BY <2>1, <3>3, <4>1
    <3> QED BY <2>2, <3>1, <3>2, <3>3
  <2>5. PoolAccounted'
    BY <2>3, <2>4 DEF Pool, PoolAccounted
  <2>6. \A v \in Workers : pc'[v] = "getnext" /\ kind'[current'] = "resize"
                             => status'[current'] = "success"
    <3> SUFFICES ASSUME NEW v \in Workers, pc'[v] = "getnext", kind'[current'] = "resize"
                 PROVE  status'[current'] = "success"
      OBVIOUS
    <3>1. pc[v] = "getnext" /\ current' = current /\ Working(v)
      BY <2>3 DEF Working
    <3>2. current \in Irps /\ current # i
      BY <2>1, <3>1, WorkingIsAlone
    <3> QED BY <2>3, <3>1, <3>2 DEF Pool
  <2>7. \A j \in Irps : /\ kind'[j] = "new" => status'[j] = "none"
                        /\ refs'[j] # {} => kind'[j] = "read"
    BY <2>1, <2>2, <2>3 DEF Pool
  <2> QED BY <2>5, <2>6, <2>7 DEF Pool
\* A step that changes no request but the current one, whose kind is `read'.
<1>3. ASSUME current \in Irps, kind[current] = "read",
             UNCHANGED <<current, kind, completions, newBuffer>>,
             \A i \in Irps : i # current => status'[i] = status[i] /\ refs'[i] = refs[i]
      PROVE  Pool'
  BY <1>1, <1>3 DEF Pool, PoolAccounted
\* A step that changes nothing of this.
<1>4. ASSUME UNCHANGED <<current, kind, status, refs, completions, newBuffer>>,
             \A v \in Workers : pc'[v] = "getnext" => pc[v] = "getnext"
      PROVE  Pool'
  BY <1>4 DEF Pool, PoolAccounted
<1>5. ASSUME NEW w \in Workers, ResizeBuffer(w) PROVE Pool'
  <2>1. /\ kind[current] = "resize" /\ Working(w)
        /\ \/ newBuffer' = [newBuffer EXCEPT ![current] = "freed"]
           \/ newBuffer' = [newBuffer EXCEPT ![current] = "installed"]
        /\ status' = [status EXCEPT ![current] = "success"]
        /\ UNCHANGED <<current, kind, refs, completions>>
    BY <1>5 DEF ResizeBuffer, Working
  <2>2. current \in Irps
    BY <2>1, WorkingIsAlone
  <2>3. /\ status'[current] = "success" /\ newBuffer'[current] # "held"
        /\ \A i \in Irps : i # current => status'[i] = status[i] /\ newBuffer'[i] = newBuffer[i]
    BY <1>1, <2>1, <2>2
  <2>4. PoolAccounted'
    BY <2>1, <2>3 DEF Pool, PoolAccounted
  <2> QED BY <2>1, <2>3, <2>4 DEF Pool
<1>6. ASSUME NEW w \in Workers, CopyFromRing(w) PROVE Pool'
  <2>1. /\ kind[current] = "read" /\ Working(w)
        /\ UNCHANGED <<current, kind, completions, newBuffer, status, refs>>
    BY <1>6 DEF CopyFromRing, Working
  <2> QED BY <1>3, <2>1, WorkingIsAlone
<1>7. ASSUME NEW w \in Workers, ReturnWhatIsPresent(w) \/ CancelledAtStart(w) \/ SwitchToUser(w)
      PROVE  Pool'
  <2>1. pc[w] = "copied"
    BY <1>7 DEF ReturnWhatIsPresent, CancelledAtStart, SwitchToUser
  <2>2. current \in Irps /\ kind[current] = "read"
    BY <2>1, CopiedState
  <2>3. /\ UNCHANGED <<current, kind, completions, newBuffer>>
        /\ \E s : status' = [status EXCEPT ![current] = s]
        /\ refs' = refs \/ \E r : refs' = [refs EXCEPT ![current] = r]
    <3>1. CASE ReturnWhatIsPresent(w)
      BY <3>1 DEF ReturnWhatIsPresent
    <3>2. CASE CancelledAtStart(w)
      BY <3>2 DEF CancelledAtStart
    <3>3. CASE SwitchToUser(w)
      BY <3>3 DEF SwitchToUser
    <3> QED BY <1>7, <3>1, <3>2, <3>3
  <2>4. \A i \in Irps : i # current => status'[i] = status[i] /\ refs'[i] = refs[i]
    BY <1>1, <2>3
  <2> QED BY <1>3, <2>2, <2>3, <2>4
<1>8. ASSUME NEW w \in Workers, GetNextIrp(w) PROVE Pool'
  <2>1. /\ pc[w] = "getnext" /\ Working(w)
        /\ completions' = [completions EXCEPT ![current] = @ + 1]
        /\ pc' = [pc EXCEPT ![w] = "idle"] \/ pc' = [pc EXCEPT ![w] = "start"]
        /\ UNCHANGED <<kind, status, refs, newBuffer>>
    BY <1>8 DEF GetNextIrp, Complete, Leave, Goto, Working
  <2>2. current \in Irps /\ completions[current] = 0 /\ \A v \in Workers : v # w => ~Working(v)
    BY <2>1, WorkingIsAlone
  <2>3. newBuffer[current] # "held"
    BY <2>1, <2>2 DEF Pool, PoolAccounted
  <2>4. completions'[current] = 1 /\ \A i \in Irps : i # current => completions'[i] = completions[i]
    BY <1>1, <2>1, <2>2
  <2>5. PoolAccounted'
    BY <2>1, <2>3, <2>4 DEF Pool, PoolAccounted
  <2>6. \A v \in Workers : pc'[v] # "getnext"
    BY <1>1, <2>1, <2>2 DEF Working
  <2> QED BY <2>1, <2>5, <2>6 DEF Pool
<1>9. ASSUME NEW w \in Workers, DropsOne(w) PROVE Pool'
  <2>1. PICK ref \in Refs, grab \in BOOLEAN, s \in {"success", "timeout", "cancelled"},
             busy \in BOOLEAN, flags \in SUBSET Irps : Drops(w, ref, grab, s, busy, flags)
    BY <1>9 DEF DropsOne
  <2>2. /\ current # None /\ refs[current] # {}
        /\ UNCHANGED <<current, kind, completions, newBuffer>>
        /\ status' = status \/ status' = [status EXCEPT ![current] = s]
        /\ \E r : refs' = [refs EXCEPT ![current] = r]
    BY <2>1 DEF Drops, TryToComplete
  <2>3. current \in Irps /\ kind[current] = "read"
    BY <2>2, HeldIsCurrent DEF Pool
  <2>4. \A i \in Irps : i # current => status'[i] = status[i] /\ refs'[i] = refs[i]
    BY <1>1, <2>2
  <2> QED BY <1>3, <2>2, <2>3, <2>4
<1>10. ASSUME NEW k \in DOMAIN queue, CancelQueued(k), pc' = pc PROVE Pool'
  <2> DEFINE i == queue[k]
  <2>1. i \in Irps /\ i # current /\ completions[i] = 0 /\ kind[i] # "new"
    BY DEF IInv, TypeOK, RequestTypes, Bookkeeping, WaitingAreOpen
  <2>2. /\ status' = [status EXCEPT ![i] = "cancelled"]
        /\ newBuffer' = [newBuffer EXCEPT ![i] = IF kind[i] = "resize" THEN "freed" ELSE @]
        /\ completions' = [completions EXCEPT ![i] = @ + 1]
        /\ UNCHANGED <<current, kind, refs>>
    BY <1>10 DEF CancelQueued, FreeBlock, Complete
  <2> HIDE DEF i
  <2>3. /\ status'[i] = "cancelled" /\ completions'[i] = 1
        /\ newBuffer'[i] = IF kind[i] = "resize" THEN "freed" ELSE newBuffer[i]
        /\ \A j \in Irps : j # i => status'[j] = status[j] /\ completions'[j] = completions[j]
                                    /\ newBuffer'[j] = newBuffer[j]
    BY <1>1, <2>1, <2>2
  <2>4. PoolAccounted'
    BY <2>1, <2>2, <2>3 DEF Pool, PoolAccounted
  <2>5. \A v \in Workers : pc'[v] = "getnext" => current \in Irps
    BY <1>10, WorkingIsAlone DEF Working
  <2> QED BY <1>10, <2>1, <2>2, <2>3, <2>4, <2>5 DEF Pool
<1>11. CASE "INT" \in dpcs /\ \E n : PollAgain(n)
  BY <1>4, <1>11 DEF PollAgain, irpVars
<1>12. ASSUME NEW t \in Timers, TimerExpires(t) PROVE Pool'
  BY <1>4, <1>12 DEF TimerExpires, irpVars
<1>13. CASE FlagsOnly
  BY <1>4, <1>13 DEF FlagsOnly
<1>14. CASE PutChar
  BY <1>4, <1>14 DEF PutChar
<1>15. CASE PurgeInterruptBuff
  BY <1>4, <1>15 DEF PurgeInterruptBuff, irpVars
<1> QED BY <1>2, <1>5, <1>6, <1>7, <1>8, <1>9, <1>10, <1>11, <1>12, <1>13, <1>14, <1>15, StepKinds

-----------------------------------------------------------------------------
(* The count of timers and procedures. *)

\* Only the worker that completes a read still runs its procedure.
Counts == DpcCountExact /\ \A w \in inDpc : Working(w)

LEMMA CountsAreFinite ==
  ASSUME IInv, Counts
  PROVE  /\ IsFiniteSet(armed) /\ IsFiniteSet(dpcs) /\ IsFiniteSet(inDpc)
         /\ Cardinality(armed) \in Nat /\ Cardinality(dpcs) \in Nat
         /\ Cardinality(inDpc) \in Nat
<1>1. IsFiniteSet(Refs)
  <2>1. Refs = ((({} \union {"ISR"}) \union {"CANCEL"}) \union {"TOTAL"}) \union {"INT"}
    BY DEF Refs
  <2> QED BY <2>1, FS_EmptySet, FS_AddElement
<1>2. armed \subseteq Refs /\ dpcs \subseteq Refs
  BY DEF IInv, TypeOK, TimerTypes, Timers, Refs
<1>3. IsFiniteSet(inDpc)
  <2>1. CASE inDpc = {}
    BY <2>1, FS_EmptySet
  <2>2. CASE inDpc # {}
    <3>1. PICK w \in inDpc : TRUE
      BY <2>2
    <3>2. \A v \in inDpc : v = w
      BY <3>1 DEF Counts, IInv, TypeOK, WorkerTypes, ReferenceProtocol, OneStarter
    <3>3. inDpc = {w}
      BY <3>1, <3>2
    <3> QED BY <3>3, FS_Singleton
  <2> QED BY <2>1, <2>2
<1> QED BY <1>1, <1>2, <1>3, FS_Subset, FS_CardinalityType

LEMMA CountsStep ==
  ASSUME IInv, IInv', Counts, Next
  PROVE  Counts'
<1>1. /\ pc \in [Workers -> {"idle", "start", "copied", "getnext", "kill"}]
      /\ inDpc \subseteq Workers /\ dpcCount \in Int
      /\ \A v \in inDpc : Working(v)
      /\ dpcCount = 1 + Cardinality(armed) + Cardinality(dpcs) + Cardinality(inDpc)
  BY DEF IInv, TypeOK, WorkerTypes, TimerTypes, Counts, DpcCountExact
<1>2. /\ IsFiniteSet(armed) /\ IsFiniteSet(dpcs) /\ IsFiniteSet(inDpc)
      /\ Cardinality(armed) \in Nat /\ Cardinality(dpcs) \in Nat /\ Cardinality(inDpc) \in Nat
      /\ Cardinality({}) = 0
  BY CountsAreFinite, FS_EmptySet
\* A step that changes neither the timers, the procedures nor those who run one.
<1>3. ASSUME UNCHANGED <<armed, dpcs, dpcCount, inDpc>>,
             \A v \in Workers : Working(v) => Working(v)'
      PROVE  Counts'
  BY <1>1, <1>3 DEF Counts, DpcCountExact
\* A starter goes idle, and ends its procedure if it runs one.
<1>4. ASSUME NEW w \in Workers, Working(w), NEW n \in Int,
             dpcs' = dpcs, n = dpcCount + Cardinality(armed'), armed = {},
             IsFiniteSet(armed'), Leave(w, n)
      PROVE  Counts'
  <2>1. /\ pc' = [pc EXCEPT ![w] = "idle"] /\ inDpc' = inDpc \ {w}
        /\ dpcCount' = IF w \in inDpc THEN n - 1 ELSE n
    BY <1>4 DEF Leave, Epilogue
  <2>2. Cardinality(armed') \in Nat
    BY <1>4, FS_CardinalityType
  <2>3. Cardinality(inDpc') = IF w \in inDpc THEN Cardinality(inDpc) - 1 ELSE Cardinality(inDpc)
    <3>1. CASE w \in inDpc
      BY <1>2, <2>1, <3>1, FS_RemoveElement
    <3>2. CASE w \notin inDpc
      <4>1. inDpc' = inDpc
        BY <2>1, <3>2
      <4> QED BY <3>2, <4>1
    <3> QED BY <3>1, <3>2
  <2>4. DpcCountExact'
    <3>1. Cardinality(armed) = 0 /\ dpcs' = dpcs /\ n = dpcCount + Cardinality(armed')
      BY <1>2, <1>4
    <3>2. CASE w \in inDpc
      BY <1>1, <1>2, <2>1, <2>2, <2>3, <3>1, <3>2 DEF DpcCountExact
    <3>3. CASE w \notin inDpc
      BY <1>1, <1>2, <2>1, <2>2, <2>3, <3>1, <3>3 DEF DpcCountExact
    <3> QED BY <3>2, <3>3
  <2>5. \A v \in inDpc' : Working(v)'
    BY <1>1, <2>1 DEF Working
  <2> QED BY <2>4, <2>5 DEF Counts
<1>5. ASSUME NEW w \in Workers, NEW i \in Irps, Read(w, i) \/ SetQueueSize(w, i)
      PROVE  Counts'
  <2>1. /\ pc[w] = "idle" /\ UNCHANGED <<armed, dpcs, dpcCount, inDpc>>
        /\ pc' = pc \/ pc' = [pc EXCEPT ![w] = "start"]
    <3>1. CASE Read(w, i)
      BY <3>1 DEF Read, StartOrQueue, Goto, timeVars
    <3>2. CASE SetQueueSize(w, i)
      BY <3>2 DEF SetQueueSize, StartOrQueue, Goto, timeVars
    <3> QED BY <1>5, <3>1, <3>2
  <2>2. \A v \in Workers : Working(v) => Working(v)'
    BY <1>1, <2>1 DEF Working
  <2> QED BY <1>3, <2>1, <2>2
<1>6. ASSUME NEW w \in Workers, ResizeBuffer(w) \/ ReturnWhatIsPresent(w) \/ CancelledAtStart(w)
      PROVE  Counts'
  <2>1. /\ UNCHANGED <<armed, dpcs, dpcCount, inDpc>>
        /\ pc' = [pc EXCEPT ![w] = "getnext"]
    <3>1. CASE ResizeBuffer(w)
      BY <3>1 DEF ResizeBuffer, Goto, timeVars
    <3>2. CASE ReturnWhatIsPresent(w)
      BY <3>2 DEF ReturnWhatIsPresent, Goto, timeVars
    <3>3. CASE CancelledAtStart(w)
      BY <3>3 DEF CancelledAtStart, Goto, timeVars
    <3> QED BY <1>6, <3>1, <3>2, <3>3
  <2> QED BY <1>1, <1>3, <2>1 DEF Working
<1>7. ASSUME NEW w \in Workers, CopyFromRing(w) PROVE Counts'
  <2>1. /\ pc[w] = "start" /\ pc' = [pc EXCEPT ![w] = "copied"]
        /\ armed' = {} /\ dpcCount' = dpcCount - Cardinality(armed)
        /\ UNCHANGED <<dpcs, inDpc>>
    BY <1>7 DEF CopyFromRing, Goto
  <2>2. armed = {}
    BY <2>1, WorkingIsAlone DEF Working
  <2> QED BY <1>1, <1>2, <1>3, <2>1, <2>2 DEF Working
<1>8. ASSUME NEW w \in Workers, SwitchToUser(w) PROVE Counts'
  <2>1. Working(w) /\ armed = {} /\ dpcs = {}
    BY <1>8, WorkingIsAlone DEF SwitchToUser, Working
  <2>2. CASE /\ pc' = [pc EXCEPT ![w] = "getnext"]
             /\ UNCHANGED <<armed, dpcs, dpcCount, inDpc>>
    BY <1>1, <1>3, <2>2 DEF Working
  <2>3. CASE /\ armed' = armed \union TimersOf(mode) /\ dpcs' = dpcs
             /\ Leave(w, dpcCount + Cardinality(TimersOf(mode) \ armed))
    <3>1. armed' = TimersOf(mode) /\ TimersOf(mode) \ armed = armed'
      BY <2>1, <2>3
    <3>2. IsFiniteSet(armed') /\ Cardinality(armed') \in Nat
      <4>1. TimersOf(mode) \in SUBSET Timers
        BY DEF TimersOf, Timers
      <4> QED BY <3>1, <4>1, TimersAreFinite
    <3>3. dpcCount + Cardinality(armed') \in Int
      BY <1>1, <3>2
    <3> QED BY <1>4, <2>1, <2>3, <3>1, <3>2, <3>3
  <2> QED BY <1>8, <2>2, <2>3 DEF SwitchToUser, Goto, timeVars
<1>9. ASSUME NEW w \in Workers, GetNextIrp(w) PROVE Counts'
  <2>1. pc[w] = "getnext" /\ armed' = armed /\ dpcs' = dpcs
    BY <1>9 DEF GetNextIrp
  <2>2. Working(w) /\ armed = {} /\ dpcs = {}
    BY <2>1, WorkingIsAlone DEF Working
  <2>3. CASE pc' = [pc EXCEPT ![w] = "start"] /\ UNCHANGED <<inDpc, dpcCount>>
    BY <1>1, <1>3, <2>1, <2>3 DEF Working
  <2>4. CASE Leave(w, dpcCount)
    <3>1. dpcCount = dpcCount + Cardinality(armed') /\ IsFiniteSet(armed')
      BY <1>1, <1>2, <2>1, <2>2
    <3> QED BY <1>1, <1>4, <2>1, <2>2, <2>4, <3>1
  <2> QED BY <1>9, <2>3, <2>4 DEF GetNextIrp, Goto
<1>10. ASSUME NEW w \in Workers, DropsOne(w) PROVE Counts'
  <2>1. PICK ref \in Refs, grab \in BOOLEAN, s \in {"success", "timeout", "cancelled"},
             busy \in BOOLEAN, flags \in SUBSET Irps : Drops(w, ref, grab, s, busy, flags)
    BY <1>10 DEF DropsOne
  <2> DEFINE stopped == dpcCount - Cardinality(armed)
  <2>2. /\ ~Working(w) /\ (busy <=> ref \in dpcs)
        /\ armed' = {} /\ dpcs' = dpcs \ {ref}
        /\ \/ /\ pc' = [pc EXCEPT ![w] = "getnext"]
              /\ inDpc' = IF busy THEN inDpc \union {w} ELSE inDpc
              /\ dpcCount' = stopped
           \/ /\ pc' = [pc EXCEPT ![w] = "idle"]
              /\ inDpc' = inDpc \ {w}
              /\ dpcCount' = IF busy THEN stopped - 1 ELSE stopped
    BY <2>1 DEF Drops, TryToComplete, Goto
  <2>3. w \notin inDpc /\ inDpc \ {w} = inDpc
    BY <1>1, <2>2
  <2>4. Cardinality(dpcs') = IF busy THEN Cardinality(dpcs) - 1 ELSE Cardinality(dpcs)
    <3>1. CASE ref \in dpcs
      BY <1>2, <2>2, <3>1, FS_RemoveElement
    <3>2. CASE ref \notin dpcs
      <4>1. dpcs' = dpcs
        BY <2>2, <3>2
      <4> QED BY <2>2, <3>2, <4>1
    <3> QED BY <3>1, <3>2
  <2>5. Cardinality(inDpc \union {w}) = Cardinality(inDpc) + 1
    BY <1>2, <2>3, FS_AddElement
  <2>6. CASE /\ pc' = [pc EXCEPT ![w] = "getnext"]
             /\ inDpc' = IF busy THEN inDpc \union {w} ELSE inDpc
             /\ dpcCount' = stopped
    <3>1. Cardinality(inDpc') = IF busy THEN Cardinality(inDpc) + 1 ELSE Cardinality(inDpc)
      BY <2>5, <2>6
    <3>2. DpcCountExact'
      BY <1>1, <1>2, <2>2, <2>4, <2>6, <3>1 DEF DpcCountExact
    <3>3. \A v \in inDpc' : Working(v)'
      BY <1>1, <2>6 DEF Working
    <3> QED BY <3>2, <3>3 DEF Counts
  <2>7. CASE /\ pc' = [pc EXCEPT ![w] = "idle"]
             /\ inDpc' = inDpc \ {w}
             /\ dpcCount' = IF busy THEN stopped - 1 ELSE stopped
    <3>0. Cardinality(armed') = 0 /\ Cardinality(inDpc') = Cardinality(inDpc)
      BY <1>2, <2>2, <2>3, <2>7
    <3>1. DpcCountExact'
      <4>1. CASE busy
        BY <1>1, <1>2, <2>4, <2>7, <3>0, <4>1 DEF DpcCountExact
      <4>2. CASE ~busy
        BY <1>1, <1>2, <2>4, <2>7, <3>0, <4>2 DEF DpcCountExact
      <4> QED BY <4>1, <4>2
    <3>2. \A v \in inDpc' : Working(v)'
      BY <1>1, <2>7 DEF Working
    <3> QED BY <3>1, <3>2 DEF Counts
  <2> QED BY <2>2, <2>6, <2>7
<1>11. CASE "INT" \in dpcs /\ \E n : PollAgain(n)
  <2>1. /\ "INT" \in dpcs /\ dpcs' = dpcs \ {"INT"} /\ armed' = armed \union {"INT"}
        /\ dpcCount' = dpcCount + Cardinality({"INT"} \ armed) - 1
        /\ UNCHANGED <<pc, inDpc>>
    BY <1>11 DEF PollAgain
  <2>2. "INT" \notin armed /\ {"INT"} \ armed = {"INT"}
    BY <2>1 DEF IInv, ReferenceProtocol, ReferencesMatch
  <2>3. /\ Cardinality(dpcs') = Cardinality(dpcs) - 1
        /\ Cardinality(armed') = Cardinality(armed) + 1
        /\ Cardinality({"INT"} \ armed) = 1
    BY <1>2, <2>1, <2>2, FS_RemoveElement, FS_AddElement, FS_Singleton
  <2>4. DpcCountExact'
    BY <1>1, <1>2, <2>1, <2>3 DEF DpcCountExact
  <2> QED BY <1>1, <2>1, <2>4 DEF Counts, Working
<1>12. ASSUME NEW t \in Timers, TimerExpires(t) PROVE Counts'
  <2>1. /\ t \in armed /\ dpcs' = dpcs \union {t} /\ armed' = armed \ {t}
        /\ UNCHANGED <<pc, inDpc, dpcCount>>
    BY <1>12 DEF TimerExpires
  <2>2. t \notin dpcs
    BY <2>1 DEF IInv, ReferenceProtocol, ReferencesMatch
  <2>3. /\ Cardinality(dpcs') = Cardinality(dpcs) + 1
        /\ Cardinality(armed') = Cardinality(armed) - 1
    BY <1>2, <2>1, <2>2, FS_RemoveElement, FS_AddElement
  <2>4. DpcCountExact'
    BY <1>1, <1>2, <2>1, <2>3 DEF DpcCountExact
  <2> QED BY <1>1, <2>1, <2>4 DEF Counts, Working
<1>13. ASSUME NEW k \in DOMAIN queue, CancelQueued(k), pc' = pc PROVE Counts'
  BY <1>3, <1>13 DEF CancelQueued, timeVars, Working
<1>14. CASE FlagsOnly
  BY <1>3, <1>14 DEF FlagsOnly, timeVars
<1>15. CASE PutChar
  <2>1. UNCHANGED <<pc, inDpc, armed>>
    BY <1>15 DEF PutChar
  <2>2. CASE UNCHANGED <<dpcs, dpcCount>>
    BY <1>3, <2>1, <2>2 DEF Working
  <2>3. CASE base # "int" /\ dpcs' = dpcs \union {"ISR"}
             /\ dpcCount' = dpcCount + Cardinality({"ISR"} \ dpcs)
    <3>1. "ISR" \notin dpcs /\ {"ISR"} \ dpcs = {"ISR"}
      BY <2>3 DEF IInv, ReferenceProtocol, ReferencesMatch
    <3>2. Cardinality(dpcs') = Cardinality(dpcs) + 1 /\ Cardinality({"ISR"} \ dpcs) = 1
      BY <1>2, <2>3, <3>1, FS_AddElement, FS_Singleton
    <3>3. DpcCountExact'
      BY <1>1, <1>2, <2>1, <2>3, <3>2 DEF DpcCountExact
    <3> QED BY <1>1, <2>1, <3>3 DEF Counts, Working
  <2> QED BY <1>15, <2>2, <2>3 DEF PutChar
<1>16. CASE PurgeInterruptBuff
  BY <1>3, <1>16 DEF PurgeInterruptBuff, timeVars, Working
<1> QED BY <1>5, <1>6, <1>7, <1>8, <1>9, <1>10, <1>11, <1>12, <1>13, <1>14, <1>15, <1>16, StepKinds

-----------------------------------------------------------------------------
(* What a read is told. *)

Told(i) ==
  /\ status[i] = "cancelled" => info[i] = 0
  /\ status[i] \in {"success", "timeout"} => info[i] = filled[i]
  /\ filled[i] <= amount[i]

\* A read that nobody has served yet holds no characters; one that has lost its
\* buffer to nobody but itself has them counted; and the answer is ready when
\* the next request is looked for.
Answers ==
  /\ \A i \in Irps : kind[i] = "read" /\ completions[i] = 1 => Told(i)
  /\ \A i \in Irps : kind[i] = "new" \/ Queued(i) => info[i] = 0 /\ filled[i] = 0
  /\ \A w \in Workers : pc[w] = "getnext" /\ kind[current] = "read" => Told(current)
  /\ current # None /\ refs[current] # {} /\ base = "int" =>
       info[current] = filled[current] /\ filled[current] <= amount[current]

LEMMA AnswersStep ==
  ASSUME IInv, IInv', Answers, Next
  PROVE  Answers'
<1>1. /\ kind \in [Irps -> {"new", "read", "resize"}]
      /\ status \in [Irps -> {"none", "pending", "success", "timeout", "cancelled"}]
      /\ refs \in [Irps -> SUBSET Refs] /\ completions \in [Irps -> Nat]
      /\ info \in [Irps -> Nat] /\ filled \in [Irps -> Nat] /\ amount \in [Irps -> Nat]
      /\ pc \in [Workers -> {"idle", "start", "copied", "getnext", "kill"}]
      /\ queue \in Seq(Irps) /\ amount' \in [Irps -> Nat]
  BY DEF IInv, TypeOK, RequestTypes, WorkerTypes
<1>2. current # None => /\ current \in Irps /\ kind[current] # "new" /\ completions[current] = 0
                        /\ ~Queued(current)
  BY DEF IInv, TypeOK, RequestTypes, Bookkeeping, CurrentIsOpen, WaitingAreOpen, Queued
<1>3. \A v \in Workers : Working(v) => current \in Irps /\ refs[current] = {} /\ base = "int"
                                       /\ \A u \in Workers : u # v => ~Working(u)
  BY WorkingIsAlone
\* A step that tells the current request, and nobody else, something.
<1>4. ASSUME current \in Irps, current # None, UNCHANGED <<queue, current, kind, completions>>,
             \A i \in Irps : i # current => /\ status'[i] = status[i] /\ info'[i] = info[i]
                                            /\ filled'[i] = filled[i] /\ amount'[i] = amount[i],
             \A v \in Workers : pc'[v] = "getnext" /\ kind[current] = "read" => Told(current)',
             refs'[current] # {} /\ base' = "int" =>
               info'[current] = filled'[current] /\ filled'[current] <= amount'[current]
      PROVE  Answers'
  <2>1. ASSUME NEW i \in Irps, kind'[i] = "read", completions'[i] = 1 PROVE Told(i)'
    <3>1. i # current /\ Told(i)
      BY <1>2, <1>4, <2>1 DEF Answers
    <3> QED BY <1>4, <3>1 DEF Told
  <2>2. ASSUME NEW i \in Irps, kind'[i] = "new" \/ Queued(i)' PROVE info'[i] = 0 /\ filled'[i] = 0
    <3>1. kind[i] = "new" \/ Queued(i)
      BY <1>4, <2>2 DEF Queued
    <3>2. i # current
      BY <1>2, <1>4, <3>1
    <3> QED BY <1>4, <3>1, <3>2 DEF Answers
  <2> QED BY <1>4, <2>1, <2>2 DEF Answers
\* A step that tells nobody anything.
<1>5. ASSUME UNCHANGED <<queue, current, kind, completions, status, info, filled, amount,
                         refs, base>>,
             \A v \in Workers : pc'[v] = "getnext" => pc[v] = "getnext"
      PROVE  Answers'
  <2>1. \A i : (Told(i)' <=> Told(i)) /\ (Queued(i)' <=> Queued(i))
    BY <1>5 DEF Told, Queued
  <2>2. Told(current)' <=> Told(current)
    BY <1>5 DEF Told
  <2> QED BY <1>5, <2>1, <2>2 DEF Answers
<1>6. ASSUME NEW w \in Workers, NEW i \in Irps, Read(w, i) \/ SetQueueSize(w, i)
      PROVE  Answers'
  <2>1. /\ kind[i] = "new" /\ pc[w] = "idle"
        /\ UNCHANGED <<refs, info, filled, base>>
        /\ kind' = [kind EXCEPT ![i] = "read"] \/ kind' = [kind EXCEPT ![i] = "resize"]
        /\ \E n \in Nat : amount' = [amount EXCEPT ![i] = n]
        /\ \/ StartOrQueue(w, i)
           \/ /\ status' = [status EXCEPT ![i] = "success"] /\ Complete(i)
              /\ UNCHANGED <<queue, current, pc>>
    <3>1. CASE Read(w, i)
      BY <3>1, BoundsAssumption DEF Read, bufVars
    <3>2. CASE SetQueueSize(w, i)
      BY <3>2, BoundsAssumption DEF SetQueueSize, bufVars
    <3> QED BY <1>6, <3>1, <3>2
  <2>2. i # current /\ completions[i] = 0 /\ info[i] = 0 /\ filled[i] = 0
    BY <1>2, <2>1, NoneIsNoIrp DEF Answers, IInv, Bookkeeping, OnlyCurrentIsHeld
  <2>3. /\ \/ status' = status
           \/ \E s \in {"success", "pending", "cancelled"} :
                status' = [status EXCEPT ![i] = s]
        /\ completions' = completions \/ completions' = [completions EXCEPT ![i] = @ + 1]
    BY <2>1 DEF StartOrQueue, Complete
  <2>4. /\ queue' = queue \/ queue' = Append(queue, i)
        /\ \/ pc' = pc /\ current' = current
           \/ pc' = [pc EXCEPT ![w] = "start"] /\ current = None /\ current' = i
    BY <2>1 DEF StartOrQueue, Goto, MayStart
  <2>5. \A j \in Irps : j # i => /\ status'[j] = status[j] /\ completions'[j] = completions[j]
                                 /\ kind'[j] = kind[j] /\ amount'[j] = amount[j]
    <3>1. \A j \in Irps : j # i => status'[j] = status[j] /\ completions'[j] = completions[j]
      BY <1>1, <2>3
    <3>2. \A j \in Irps : j # i => kind'[j] = kind[j] /\ amount'[j] = amount[j]
      BY <1>1, <2>1
    <3> QED BY <3>1, <3>2
  <2>6. \A j \in Irps : Queued(j)' => Queued(j) \/ j = i
    <3>1. CASE queue' = queue
      BY <3>1 DEF Queued
    <3>2. CASE queue' = Append(queue, i)
      <4> SUFFICES ASSUME NEW j \in Irps, Queued(j)' PROVE Queued(j) \/ j = i
        OBVIOUS
      <4>1. PICK m \in DOMAIN Append(queue, i) : Append(queue, i)[m] = j
        BY <3>2 DEF Queued
      <4>2. CASE m = Len(queue) + 1
        BY <1>1, <4>1, <4>2, Appended
      <4>3. CASE m # Len(queue) + 1
        BY <1>1, <4>1, <4>3, Appended DEF Queued
      <4> QED BY <4>2, <4>3
    <3> QED BY <2>4, <3>1, <3>2
  <2>7. ASSUME NEW j \in Irps, kind'[j] = "read", completions'[j] = 1 PROVE Told(j)'
    <3>1. CASE j = i
      <4>1. info'[i] = 0 /\ filled'[i] = 0 /\ amount'[i] \in Nat
        BY <1>1, <2>1, <2>2
      <4> QED BY <3>1, <4>1 DEF Told
    <3>2. CASE j # i
      <4>1. Told(j)
        BY <2>5, <2>7, <3>2 DEF Answers
      <4> QED BY <2>1, <2>5, <3>2, <4>1 DEF Told
    <3> QED BY <3>1, <3>2
  <2>8. ASSUME NEW j \in Irps, kind'[j] = "new" \/ Queued(j)' PROVE info'[j] = 0 /\ filled'[j] = 0
    BY <2>1, <2>2, <2>5, <2>6, <2>8 DEF Answers
  <2>9. ASSUME NEW v \in Workers, pc'[v] = "getnext", kind'[current'] = "read"
        PROVE  Told(current)'
    <3>1. CASE pc' = pc /\ current' = current
      <4>1. Working(v) /\ pc[v] = "getnext"
        BY <2>9, <3>1 DEF Working
      <4>2. current \in Irps /\ current # i
        BY <1>3, <2>2, <4>1
      <4>3. Told(current)
        BY <2>5, <2>9, <3>1, <4>1, <4>2 DEF Answers
      <4> QED BY <2>1, <2>5, <3>1, <4>2, <4>3 DEF Told
    <3>2. CASE pc' = [pc EXCEPT ![w] = "start"] /\ current = None
      <4>1. pc[v] = "getnext"
        BY <1>1, <2>9, <3>2
      <4> QED BY <1>3, <3>2, <4>1, NoneIsNoIrp DEF Working
    <3> QED BY <2>4, <3>1, <3>2
  <2>10. ASSUME current' # None, refs'[current'] # {}, base' = "int"
         PROVE  info'[current'] = filled'[current'] /\ filled'[current'] <= amount'[current']
    <3>1. CASE current' = i
      <4>1. amount'[i] \in Nat
        BY <1>1
      <4> QED BY <2>1, <2>2, <3>1, <4>1
    <3>2. CASE current' = current
      BY <1>2, <2>1, <2>2, <2>5, <2>10, <3>2 DEF Answers
    <3> QED BY <2>4, <3>1, <3>2
  <2> QED BY <2>7, <2>8, <2>9, <2>10 DEF Answers
<1>7. ASSUME NEW w \in Workers, ResizeBuffer(w) PROVE Answers'
  <2>1. /\ Working(w) /\ kind[current] = "resize"
        /\ status' = [status EXCEPT ![current] = "success"]
        /\ info' = [info EXCEPT ![current] = 0]
        /\ UNCHANGED <<queue, current, kind, completions, filled, amount, refs>>
    BY <1>7 DEF ResizeBuffer, Working
  <2>2. current \in Irps /\ current # None /\ refs[current] = {}
    BY <1>3, <2>1, NoneIsNoIrp
  <2>3. \A i \in Irps : i # current => status'[i] = status[i] /\ info'[i] = info[i]
    BY <1>1, <2>1
  <2> QED BY <1>4, <2>1, <2>2, <2>3
<1>8. ASSUME NEW w \in Workers, CopyFromRing(w) PROVE Answers'
  <2>1. /\ Working(w) /\ pc' = [pc EXCEPT ![w] = "copied"]
        /\ \E n : info' = [info EXCEPT ![current] = n] /\ filled' = [filled EXCEPT ![current] = n]
        /\ UNCHANGED <<queue, current, kind, completions, status, amount, refs>>
    BY <1>8 DEF CopyFromRing, Working, Goto
  <2>2. current \in Irps /\ current # None /\ refs[current] = {}
    BY <1>3, <2>1, NoneIsNoIrp
  <2>3. \A v \in Workers : pc'[v] # "getnext"
    BY <1>1, <1>3, <2>1 DEF Working
  <2>4. \A i \in Irps : i # current => filled'[i] = filled[i] /\ info'[i] = info[i]
    BY <1>1, <2>1
  <2> QED BY <1>4, <2>1, <2>2, <2>3, <2>4
<1>9. ASSUME NEW w \in Workers, ReturnWhatIsPresent(w) \/ CancelledAtStart(w) PROVE Answers'
  <2>1. pc[w] = "copied"
    BY <1>9 DEF ReturnWhatIsPresent, CancelledAtStart
  <2>2. /\ Working(w) /\ current \in Irps /\ current # None /\ refs[current] = {}
        /\ filled[current] \in Nat /\ needed \in Nat
        /\ filled[current] + needed = amount[current] /\ info[current] = filled[current]
    BY <2>1, CopiedState, NoneIsNoIrp
  <2>3. /\ UNCHANGED <<queue, current, kind, completions, filled, amount>>
        /\ refs' = refs \/ refs' = [refs EXCEPT ![current] = {}]
        /\ \/ status' = [status EXCEPT ![current] = "success"] /\ info' = info
           \/ /\ status' = [status EXCEPT ![current] = "cancelled"]
              /\ info' = [info EXCEPT ![current] = 0]
    BY <1>9 DEF ReturnWhatIsPresent, CancelledAtStart
  <2>4. /\ refs'[current] = {}
        /\ \A i \in Irps : i # current => status'[i] = status[i] /\ info'[i] = info[i]
        /\ \/ status'[current] = "success" /\ info'[current] = filled[current]
           \/ status'[current] = "cancelled" /\ info'[current] = 0
    BY <1>1, <2>2, <2>3
  <2>5. Told(current)'
    BY <2>2, <2>3, <2>4 DEF Told
  <2> QED BY <1>4, <2>2, <2>3, <2>4, <2>5
<1>10. ASSUME NEW w \in Workers, SwitchToUser(w) PROVE Answers'
  <2> DEFINE wanted == IF mode = "one" THEN 1 ELSE needed
             n      == Smaller(Release(ring, copied).count, wanted)
  <2>1. pc[w] = "copied" /\ ~Satisfied
    BY <1>10 DEF SwitchToUser
  <2>2. /\ Working(w) /\ current \in Irps /\ current # None /\ base = "int"
        /\ filled[current] \in Nat /\ needed \in Nat
        /\ filled[current] + needed = amount[current] /\ info[current] = filled[current]
        /\ IsRing(ring, Chars) /\ copied \in 0 .. ring.count /\ ring.count \in Nat
    BY <2>1, CopiedState, NoneIsNoIrp
  <2>3. /\ amount' = [amount EXCEPT ![current] = IF mode = "one" THEN 1 ELSE @]
        /\ info' = [info EXCEPT ![current] = @ + n]
        /\ filled' = [filled EXCEPT ![current] = @ + n]
        /\ UNCHANGED <<queue, current, kind, completions>>
        /\ \/ /\ n = wanted
              /\ refs' = [refs EXCEPT ![current] = {}]
              /\ status' = [status EXCEPT ![current] = "success"]
           \/ /\ n # wanted
              /\ base' = current
              /\ status' = [status EXCEPT ![current] = "pending"]
              /\ pc' = [pc EXCEPT ![w] = "idle"]
    BY <1>10 DEF SwitchToUser, Goto, Leave
  <2>4. /\ wanted \in Nat /\ (mode = "one" => filled[current] = 0)
        /\ amount'[current] = filled[current] + wanted
    <3>1. mode = "one" => filled[current] = 0
      BY <2>1, <2>2 DEF Satisfied
    <3>2. amount'[current] = IF mode = "one" THEN 1 ELSE amount[current]
      BY <1>1, <2>2, <2>3
    <3> QED BY <2>2, <3>1, <3>2
  <2>5. Release(ring, copied).count \in Nat
    BY <2>2, ReleaseFields
  <2>6. n \in Nat /\ n <= wanted
    BY <2>4, <2>5 DEF Smaller
  <2> HIDE DEF wanted, n
  <2>7. /\ info'[current] = filled[current] + n /\ filled'[current] = filled[current] + n
        /\ \A i \in Irps : i # current => /\ info'[i] = info[i] /\ filled'[i] = filled[i]
                                          /\ amount'[i] = amount[i] /\ status'[i] = status[i]
    <3>1. /\ info'[current] = filled[current] + n /\ filled'[current] = filled[current] + n
          /\ \A i \in Irps : i # current => /\ info'[i] = info[i] /\ filled'[i] = filled[i]
                                            /\ amount'[i] = amount[i]
      BY <1>1, <2>2, <2>3, <2>6
    <3>2. \A i \in Irps : i # current => status'[i] = status[i]
      BY <1>1, <2>3
    <3> QED BY <3>1, <3>2
  <2>8. CASE n = wanted
    <3>1. refs'[current] = {} /\ status'[current] = "success"
      BY <1>1, <2>2, <2>3, <2>8
    <3>2. filled'[current] <= amount'[current]
      BY <2>2, <2>4, <2>6, <2>7
    <3>3. Told(current)'
      BY <2>3, <2>7, <3>1, <3>2 DEF Told
    <3> QED BY <1>4, <2>2, <2>3, <2>7, <3>1, <3>3
  <2>9. CASE n # wanted
    <3>1. base' = current /\ current # "int"
      BY <2>2, <2>3, <2>9, IntIsNoIrp
    <3>2. \A v \in Workers : pc'[v] # "getnext"
      BY <1>1, <1>3, <2>2, <2>3, <2>9 DEF Working
    <3> QED BY <1>4, <2>2, <2>3, <2>7, <3>1, <3>2
  <2> QED BY <2>8, <2>9
<1>11. ASSUME NEW w \in Workers, GetNextIrp(w) PROVE Answers'
  <2>1. /\ pc[w] = "getnext" /\ Working(w)
        /\ completions' = [completions EXCEPT ![current] = @ + 1]
        /\ UNCHANGED <<kind, status, info, filled, amount, refs>>
        /\ \/ queue' = queue /\ current' = None /\ pc' = [pc EXCEPT ![w] = "idle"]
           \/ /\ queue # <<>> /\ queue' = Tail(queue) /\ current' = Head(queue)
              /\ pc' = [pc EXCEPT ![w] = "start"]
    BY <1>11 DEF GetNextIrp, Complete, Leave, Goto, Working
  <2>2. /\ current \in Irps
        /\ \A i \in Irps : i # current => completions'[i] = completions[i]
    BY <1>1, <1>3, <2>1
  <2>3. \A i : Told(i)' <=> Told(i)
    BY <2>1 DEF Told
  <2>4. \A i \in Irps : Queued(i)' => Queued(i)
    <3>1. CASE queue' = queue
      BY <3>1 DEF Queued
    <3>2. CASE queue # <<>> /\ queue' = Tail(queue)
      BY <1>1, <3>2, HeadTail DEF Queued
    <3> QED BY <2>1, <3>1, <3>2
  <2>5. \A v \in Workers : pc'[v] # "getnext"
    BY <1>1, <1>3, <2>1 DEF Working
  <2>6. current' # None => refs'[current'] = {}
    <3>1. CASE queue # <<>> /\ current' = Head(queue)
      <4>1. Head(queue) \in Irps /\ Head(queue) = queue[1] /\ 1 \in DOMAIN queue
        BY <1>1, <3>1, HeadTail
      <4>2. Head(queue) # current
        BY <4>1 DEF IInv, Bookkeeping, WaitingAreOpen
      <4> QED BY <2>1, <3>1, <4>1, <4>2 DEF IInv, Bookkeeping, OnlyCurrentIsHeld
    <3> QED BY <2>1, <3>1
  <2>7. ASSUME NEW i \in Irps, kind'[i] = "read", completions'[i] = 1 PROVE Told(i)'
    <3>1. CASE i = current
      BY <2>1, <2>3, <2>7, <3>1 DEF Answers
    <3>2. CASE i # current
      BY <2>1, <2>2, <2>3, <2>7, <3>2 DEF Answers
    <3> QED BY <3>1, <3>2
  <2>8. \A i \in Irps : kind'[i] = "new" \/ Queued(i)' => info'[i] = 0 /\ filled'[i] = 0
    BY <2>1, <2>4 DEF Answers
  <2> QED BY <2>5, <2>6, <2>7, <2>8 DEF Answers
<1>12. ASSUME NEW w \in Workers, DropsOne(w) PROVE Answers'
  <2>1. PICK ref \in Refs, grab \in BOOLEAN, s \in {"success", "timeout", "cancelled"},
             busy \in BOOLEAN, flags \in SUBSET Irps : Drops(w, ref, grab, s, busy, flags)
    BY <1>12 DEF DropsOne
  <2> DEFINE counted == InfoAfterGrab(current, grab /\ base # "int")
  <2>2. /\ ~Working(w) /\ current # None /\ refs[current] # {} /\ (grab \/ base = "int")
        /\ UNCHANGED <<queue, current, kind, completions, filled, amount>>
        /\ \/ /\ status' = [status EXCEPT ![current] = s]
              /\ info' = [info EXCEPT ![current] = IF s = "cancelled" THEN 0 ELSE counted]
              /\ refs' = [refs EXCEPT ![current] = {}]
              /\ pc' = [pc EXCEPT ![w] = "getnext"]
           \/ /\ status' = status
              /\ info' = [info EXCEPT ![current] = counted]
              /\ pc' = [pc EXCEPT ![w] = "idle"]
    BY <2>1 DEF Drops, TryToComplete, LastReference, Goto
  <2>3. /\ current \in Irps /\ \A v \in Workers : ~Working(v)
    BY <2>2, HeldIsCurrent
  <2>4. counted = filled[current] /\ filled[current] <= amount[current]
    <3>1. CASE base = "int"
      BY <2>2, <3>1 DEF Answers, InfoAfterGrab
    <3>2. CASE base # "int"
      BY <1>1, <2>2, <2>3, <3>2 DEF InfoAfterGrab, IInv, Bookkeeping, StarterState
    <3> QED BY <3>1, <3>2
  <2> HIDE DEF counted
  <2>5. CASE /\ status' = [status EXCEPT ![current] = s]
             /\ info' = [info EXCEPT ![current] = IF s = "cancelled" THEN 0 ELSE counted]
             /\ refs' = [refs EXCEPT ![current] = {}]
    <3>1. /\ status'[current] = s /\ refs'[current] = {}
          /\ info'[current] = IF s = "cancelled" THEN 0 ELSE filled[current]
          /\ \A i \in Irps : i # current => status'[i] = status[i] /\ info'[i] = info[i]
      BY <1>1, <2>3, <2>4, <2>5
    <3>2. Told(current)'
      BY <2>2, <2>4, <3>1 DEF Told
    <3> QED BY <1>4, <2>2, <2>3, <3>1, <3>2
  <2>6. CASE /\ status' = status
             /\ info' = [info EXCEPT ![current] = counted]
             /\ pc' = [pc EXCEPT ![w] = "idle"]
    <3>1. /\ info'[current] = filled[current]
          /\ \A i \in Irps : i # current => info'[i] = info[i]
      BY <1>1, <2>3, <2>4, <2>6
    <3>2. \A v \in Workers : pc'[v] # "getnext"
      BY <1>1, <2>3, <2>6 DEF Working
    <3> QED BY <1>4, <2>2, <2>3, <2>4, <2>6, <3>1, <3>2
  <2> QED BY <2>2, <2>5, <2>6
<1>13. ASSUME NEW k \in DOMAIN queue, CancelQueued(k), pc' = pc PROVE Answers'
  <2> DEFINE i == queue[k]
  <2>1. i \in Irps /\ i # current /\ kind[i] # "new" /\ Queued(i)
    BY <1>1 DEF IInv, Bookkeeping, WaitingAreOpen, Queued
  <2>2. /\ status' = [status EXCEPT ![i] = "cancelled"] /\ queue' = RemoveAt(queue, k)
        /\ completions' = [completions EXCEPT ![i] = @ + 1]
        /\ UNCHANGED <<current, kind, info, filled, amount, refs, base>>
    BY <1>13 DEF CancelQueued, Complete, bufVars
  <2> HIDE DEF i
  <2>3. \A j \in Irps : j # i => status'[j] = status[j] /\ completions'[j] = completions[j]
    BY <1>1, <2>2
  <2>4. ASSUME NEW j \in Irps, Queued(j)' PROVE Queued(j)
    <3>1. PICK m \in DOMAIN RemoveAt(queue, k) : RemoveAt(queue, k)[m] = j
      BY <2>2, <2>4 DEF Queued
    <3>2. /\ DOMAIN RemoveAt(queue, k) = 1 .. Len(queue) - 1
          /\ \A l \in DOMAIN RemoveAt(queue, k) :
               /\ l < k => l \in DOMAIN queue /\ RemoveAt(queue, k)[l] = queue[l]
               /\ l >= k => l + 1 \in DOMAIN queue /\ RemoveAt(queue, k)[l] = queue[l + 1]
      BY <1>1, <1>13, Removed
    <3>3. \E l \in DOMAIN queue : queue[l] = j
      <4>1. m \in Int /\ k \in Int
        BY <1>1, <1>13, <3>1, <3>2
      <4>2. m < k \/ m >= k
        BY <4>1
      <4> QED BY <3>1, <3>2, <4>2
    <3> QED BY <3>3 DEF Queued
  <2>5. ASSUME NEW j \in Irps, kind'[j] = "read", completions'[j] = 1 PROVE Told(j)'
    <3>1. CASE j = i
      <4>1. info[i] = 0 /\ filled[i] = 0 /\ amount[i] \in Nat
        BY <1>1, <2>1 DEF Answers
      <4> QED BY <2>2, <3>1, <4>1 DEF Told
    <3>2. CASE j # i
      <4>1. Told(j)
        BY <2>2, <2>3, <2>5, <3>2 DEF Answers
      <4> QED BY <2>2, <2>3, <3>2, <4>1 DEF Told
    <3> QED BY <3>1, <3>2
  <2>6. ASSUME NEW v \in Workers, pc'[v] = "getnext", kind'[current'] = "read"
        PROVE  Told(current)'
    <3>1. pc[v] = "getnext" /\ current \in Irps
      BY <1>3, <1>13, <2>6 DEF Working
    <3>2. Told(current)
      BY <2>2, <2>6, <3>1 DEF Answers
    <3>3. status'[current] = status[current] /\ UNCHANGED <<current, info, filled, amount>>
      BY <2>1, <2>2, <2>3, <3>1
    <3> QED BY <3>2, <3>3 DEF Told
  <2> QED BY <2>2, <2>4, <2>5, <2>6 DEF Answers
<1>14. CASE "INT" \in dpcs /\ \E n : PollAgain(n)
  BY <1>5, <1>14 DEF PollAgain, irpVars, bufVars
<1>15. ASSUME NEW t \in Timers, TimerExpires(t) PROVE Answers'
  BY <1>5, <1>15 DEF TimerExpires, irpVars, bufVars
<1>16. CASE FlagsOnly
  BY <1>5, <1>16 DEF FlagsOnly, bufVars
<1>17. CASE PutChar
  <2>1. UNCHANGED <<queue, current, kind, amount, status, refs, completions, pc>>
    BY <1>17 DEF PutChar
  <2>2. CASE UNCHANGED <<base, filled, info>>
    BY <1>5, <2>1, <2>2
  <2>3. CASE base # "int"
    <3>1. base = current /\ current # None /\ current \in Irps
      BY <1>2, <2>3 DEF IInv, ReferenceProtocol, ReferencesMatch
    <3>2. /\ filled' = [filled EXCEPT ![current] = @ + 1]
          /\ \/ /\ filled[current] = amount[current] - 1
                /\ info' = [info EXCEPT ![current] = amount[current]]
             \/ UNCHANGED <<base, info>>
      BY <1>17, <2>3, <3>1 DEF PutChar
    <3>3. /\ filled'[current] = filled[current] + 1
          /\ \A i \in Irps : i # current => filled'[i] = filled[i] /\ info'[i] = info[i]
      BY <1>1, <3>1, <3>2
    <3>4. \A v \in Workers : pc'[v] # "getnext"
      BY <1>3, <2>1, <2>3 DEF Working
    <3>5. base' = "int" => info'[current] = amount[current] /\ filled'[current] = amount[current]
      <4>1. CASE /\ filled[current] = amount[current] - 1
                 /\ info' = [info EXCEPT ![current] = amount[current]]
        <5>1. filled[current] \in Nat /\ amount[current] \in Nat
          BY <1>1, <3>1
        <5> QED BY <1>1, <3>1, <3>3, <4>1, <5>1
      <4> QED BY <2>3, <3>2, <4>1
    <3>6. amount[current] \in Nat
      BY <1>1, <3>1
    <3> QED BY <1>4, <2>1, <3>1, <3>3, <3>4, <3>5, <3>6
  <2> QED BY <1>17, <2>2, <2>3 DEF PutChar
<1>18. CASE PurgeInterruptBuff
  BY <1>5, <1>18 DEF PurgeInterruptBuff, irpVars, SwitchBack
<1> QED BY <1>6, <1>7, <1>8, <1>9, <1>10, <1>11, <1>12, <1>13, <1>14, <1>15, <1>16, <1>17, <1>18,
        StepKinds

-----------------------------------------------------------------------------
(* The order of the characters. *)

\* The characters of s are in order, and with those of g they are the first n.
InOrder(s, g, n) ==
  /\ \A k, l \in DOMAIN s : k < l => s[k] < s[l]
  /\ ToSet(s) \union g = 1 .. n

\* Another one arrives and comes last.
LEMMA OneMoreInOrder ==
  ASSUME NEW S, NEW s \in Seq(S), NEW g, NEW n \in Nat, InOrder(s, g, n), n + 1 \in S
  PROVE  InOrder(Append(s, n + 1), g, n + 1)
<1> DEFINE t == Append(s, n + 1)
<1>1. /\ DOMAIN t = 1 .. Len(s) + 1 /\ DOMAIN s = 1 .. Len(s) /\ Len(s) \in Nat
      /\ Len(s) + 1 \in DOMAIN t /\ t[Len(s) + 1] = n + 1
      /\ \A k \in DOMAIN s : k \in DOMAIN t /\ t[k] = s[k]
      /\ \A k \in DOMAIN t : k # Len(s) + 1 => k \in DOMAIN s
  BY Appended
<1>2. \A k \in DOMAIN s : s[k] \in 1 .. n
  BY DEF InOrder, ToSet
<1> HIDE DEF t
<1>3. ASSUME NEW k \in DOMAIN t, NEW l \in DOMAIN t, k < l PROVE t[k] < t[l]
  <2>1. k \in DOMAIN s
    BY <1>1, <1>3
  <2>2. CASE l = Len(s) + 1
    <3>1. t[l] = n + 1 /\ t[k] = s[k] /\ s[k] \in 1 .. n
      BY <1>1, <1>2, <2>1, <2>2
    <3> QED BY <3>1
  <2>3. CASE l # Len(s) + 1
    <3>1. l \in DOMAIN s
      BY <1>1, <2>3
    <3> QED BY <1>1, <1>3, <2>1, <3>1 DEF InOrder
  <2> QED BY <2>2, <2>3
<1>4. ToSet(t) = ToSet(s) \union {n + 1}
  <2>1. ASSUME NEW x PROVE x \in ToSet(t) <=> x \in ToSet(s) \/ x = n + 1
    <3>1. ASSUME x \in ToSet(t) PROVE x \in ToSet(s) \/ x = n + 1
      BY <1>1, <3>1 DEF ToSet
    <3>2. ASSUME x \in ToSet(s) PROVE x \in ToSet(t)
      BY <1>1, <3>2 DEF ToSet
    <3>3. n + 1 \in ToSet(t)
      BY <1>1 DEF ToSet
    <3> QED BY <3>1, <3>2, <3>3
  <2> QED BY <2>1
<1>5. (1 .. n) \union {n + 1} = 1 .. n + 1
  OBVIOUS
<1>6. ToSet(t) \union g = 1 .. n + 1
  BY <1>4, <1>5 DEF InOrder
<1> QED BY <1>3, <1>6 DEF InOrder, t

\* Another one arrives and is dropped.
LEMMA OneMoreIsLost ==
  ASSUME NEW s, NEW g, NEW n \in Nat, InOrder(s, g, n)
  PROVE  InOrder(s, g \union {n + 1}, n + 1)
<1>1. (1 .. n) \union {n + 1} = 1 .. n + 1
  OBVIOUS
<1> QED BY <1>1 DEF InOrder

\* Those that come last are dropped.
LEMMA LastAreLost ==
  ASSUME NEW S, NEW a \in Seq(S), NEW b \in Seq(S), NEW g, NEW n, InOrder(a \o b, g, n)
  PROVE  InOrder(a, g \union ToSet(b), n)
<1> DEFINE s == a \o b
<1>1. /\ s \in Seq(S) /\ Len(s) = Len(a) + Len(b) /\ DOMAIN s = 1 .. Len(s)
      /\ \A k \in 1 .. Len(a) + Len(b) : s[k] = IF k <= Len(a) THEN a[k] ELSE b[k - Len(a)]
  BY ConcatProperties
<1>2. Len(a) \in Nat /\ Len(b) \in Nat /\ DOMAIN a = 1 .. Len(a) /\ DOMAIN b = 1 .. Len(b)
  OBVIOUS
<1> HIDE DEF s
<1>3. \A k \in DOMAIN a : k \in DOMAIN s /\ s[k] = a[k]
  BY <1>1, <1>2
<1>4. \A k \in DOMAIN b : k + Len(a) \in DOMAIN s /\ s[k + Len(a)] = b[k]
  <2> SUFFICES ASSUME NEW k \in DOMAIN b
               PROVE  k + Len(a) \in DOMAIN s /\ s[k + Len(a)] = b[k]
    OBVIOUS
  <2>1. k + Len(a) \in 1 .. Len(a) + Len(b) /\ ~(k + Len(a) <= Len(a)) /\ (k + Len(a)) - Len(a) = k
    BY <1>2
  <2> QED BY <1>1, <2>1
<1>5. \A k \in DOMAIN s : (\E l \in DOMAIN a : s[k] = a[l]) \/ (\E l \in DOMAIN b : s[k] = b[l])
  <2> SUFFICES ASSUME NEW k \in DOMAIN s
               PROVE  (\E l \in DOMAIN a : s[k] = a[l]) \/ (\E l \in DOMAIN b : s[k] = b[l])
    OBVIOUS
  <2>1. CASE k <= Len(a)
    BY <1>1, <1>2, <2>1
  <2>2. CASE ~(k <= Len(a))
    <3>1. k - Len(a) \in DOMAIN b /\ s[k] = b[k - Len(a)]
      BY <1>1, <1>2, <2>2
    <3> QED BY <3>1
  <2> QED BY <2>1, <2>2
<1>6. ToSet(s) = ToSet(a) \union ToSet(b)
  <2>1. ASSUME NEW x PROVE x \in ToSet(s) <=> x \in ToSet(a) \/ x \in ToSet(b)
    <3>1. ASSUME x \in ToSet(s) PROVE x \in ToSet(a) \/ x \in ToSet(b)
      BY <1>5, <3>1 DEF ToSet
    <3>2. ASSUME x \in ToSet(a) PROVE x \in ToSet(s)
      BY <1>3, <3>2 DEF ToSet
    <3>3. ASSUME x \in ToSet(b) PROVE x \in ToSet(s)
      BY <1>4, <3>3 DEF ToSet
    <3> QED BY <3>1, <3>2, <3>3
  <2> QED BY <2>1
<1>7. InOrder(s, g, n)
  BY DEF s
<1> QED BY <1>3, <1>6, <1>7 DEF InOrder

-----------------------------------------------------------------------------
(* The stream of characters, from the line to the reads. *)

\* The characters in the ring that no read has copied yet.
Waiting == CopyOut(ring, ring.count - copied)

\* While the interrupt routine has the buffer of a read the ring is empty.
Stream ==
  /\ StreamIntact
  /\ ~skewed /\ base # "int" => ring.count = 0

LEMMA StreamMeansInOrder ==
  StreamInOrder <=> (~skewed => InOrder(delivered \o Waiting, lost, arrived))
BY DEF StreamInOrder, InOrder, Waiting

LEMMA RingState ==
  ASSUME IInv
  PROVE  /\ IsRing(ring, Chars) /\ ring.size \in Nat \ {0} /\ ring.count \in 0 .. ring.size
         /\ copied \in Nat /\ copied <= ring.count /\ ring.count - copied \in 0 .. ring.size
         /\ delivered \in Seq(Chars) /\ Waiting \in Seq(Chars)
         /\ Stale \in Chars
<1>1. /\ IsRing(ring, Chars) /\ copied \in Nat /\ delivered \in Seq(Chars) /\ Stale \in Chars
  BY DEF IInv, TypeOK, BufferTypes, HistoryTypes, Chars
<1>2. ring.size \in Nat \ {0} /\ ring.count \in 0 .. ring.size
  BY <1>1, RingFields
<1>3. copied <= ring.count
  <2>1. CASE copied = 0
    BY <1>2, <2>1
  <2>2. CASE copied # 0
    BY <2>2 DEF IInv, Bookkeeping, StarterState, ControlLockFree
  <2> QED BY <2>1, <2>2
<1>4. ring.count - copied \in 0 .. ring.size
  BY <1>1, <1>2, <1>3
<1> QED BY <1>1, <1>2, <1>3, <1>4, CopyOutIsSeq DEF Waiting

LEMMA NothingCopied ==
  ASSUME NEW r
  PROVE  CopyOut(r, 0) = <<>>
BY DEF CopyOut

LEMMA TakenInTwo ==
  ASSUME NEW S, NEW d \in Seq(S), NEW a \in Seq(S), NEW b \in Seq(S)
  PROVE  (d \o a) \o b = d \o (a \o b)
BY ConcatAssociative

LEMMA StreamStep ==
  ASSUME IInv, IInv', Stream, Next
  PROVE  Stream'
<1>1. /\ IsRing(ring, Chars) /\ ring.size \in Nat \ {0} /\ ring.count \in 0 .. ring.size
      /\ copied \in Nat /\ copied <= ring.count /\ ring.count - copied \in 0 .. ring.size
      /\ delivered \in Seq(Chars) /\ Waiting \in Seq(Chars) /\ Stale \in Chars
  BY RingState
<1>2. ~skewed => /\ InOrder(delivered \o Waiting, lost, arrived)
                 /\ base = "int" => Aligned(ring, copied)
                 /\ base # "int" => ring.count = 0
  BY StreamMeansInOrder DEF Stream, StreamIntact, RingAligned
<1>3. ASSUME ~skewed' => /\ InOrder(delivered' \o Waiting', lost', arrived')
                         /\ base' = "int" => Aligned(ring', copied')
                         /\ base' # "int" => ring'.count = 0
      PROVE  Stream'
  <2>1. StreamInOrder'
    BY <1>3 DEF StreamInOrder, InOrder, Waiting
  <2> QED BY <1>3, <2>1 DEF Stream, StreamIntact, RingAligned
\* A step that moves no character.
<1>4. ASSUME UNCHANGED <<ring, copied, delivered, lost, arrived, skewed, base>>
      PROVE  Stream'
  <2>1. Waiting' = Waiting
    BY <1>4 DEF Waiting
  <2> QED BY <1>2, <1>3, <1>4, <2>1
<1>5. ASSUME NEW w \in Workers, NEW i \in Irps, Read(w, i) \/ SetQueueSize(w, i)
      PROVE  Stream'
  BY <1>4, <1>5 DEF Read, SetQueueSize, bufVars, histVars
<1>6. ASSUME NEW w \in Workers, pc[w] = "start"
      PROVE  copied = 0 /\ base = "int" /\ current \in Irps
  <2>1. /\ base = "int" /\ current \in Irps
        /\ \A v \in Workers : v # w => ~Working(v)
    BY <1>6, WorkingIsAlone DEF Working
  <2> QED BY <1>6, <2>1 DEF IInv, Bookkeeping, StarterState, ControlLockFree, Working
<1>7. ASSUME NEW w \in Workers, ResizeBuffer(w) PROVE Stream'
  <2>1. /\ copied = 0 /\ base = "int" /\ current \in Irps
        /\ UNCHANGED <<copied, delivered, lost, arrived, skewed, base>>
    BY <1>6, <1>7 DEF ResizeBuffer, histVars
  <2>2. CASE ring' = ring
    BY <1>4, <2>1, <2>2
  <2>3. CASE ~(amount[current] <= ring.size) /\ ring' = Resized(ring, amount[current])
    <3>1. amount[current] \in Nat /\ ring.size < amount[current]
      BY <1>1, <2>1, <2>3 DEF IInv, TypeOK, RequestTypes
    <3>2. /\ CopyOut(ring', ring.count) = CopyOut(ring, ring.count)
          /\ Aligned(ring', 0) /\ ring'.count = ring.count
      BY <1>1, <2>3, <3>1, ResizedHoldsTheSame
    <3>3. ring.count - 0 = ring.count
      BY <1>1
    <3>4. Waiting' = Waiting
      BY <2>1, <3>2, <3>3 DEF Waiting
    <3> QED BY <1>2, <1>3, <2>1, <3>2, <3>4
  <2> QED BY <1>7, <2>2, <2>3 DEF ResizeBuffer
\* What a read takes out of the ring waits no more.
<1>8. ASSUME NEW r, IsRing(r, Chars), NEW n \in 0 .. r.count,
             CopyOut(r, r.count) = Waiting
      PROVE  (delivered \o CopyOut(r, n)) \o CopyOut(Skip(r, n), r.count - n)
               = delivered \o Waiting
  <2>1. r.size \in Nat /\ r.count \in 0 .. r.size
    BY <1>8, RingFields
  <2>2. n \in Nat /\ r.count - n \in Nat /\ n + (r.count - n) = r.count
        /\ n \in 0 .. r.size /\ r.count - n \in 0 .. r.size /\ n + (r.count - n) <= r.size
    BY <2>1
  <2>3. CopyOut(r, n) \o CopyOut(Skip(r, n), r.count - n) = Waiting
    BY <1>8, <2>2, SkipTakesTheFirst
  <2>4. Skip(r, n).size = r.size /\ IsRing(Skip(r, n), Chars)
    BY <1>8, SkipIsRing, SkipFields
  <2>5. CopyOut(r, n) \in Seq(Chars) /\ CopyOut(Skip(r, n), r.count - n) \in Seq(Chars)
    BY <1>8, <2>2, <2>4, CopyOutIsSeq
  <2>6. \A d, a, b \in Seq(Chars) : (d \o a) \o b = d \o (a \o b)
    BY TakenInTwo
  <2>7. PICK a \in Seq(Chars) : a = CopyOut(r, n)
    BY <2>5
  <2>8. PICK b \in Seq(Chars) : b = CopyOut(Skip(r, n), r.count - n)
    BY <2>5
  <2>9. PICK d \in Seq(Chars) : d = delivered
    BY <1>1
  <2>10. (d \o a) \o b = d \o (a \o b)
    BY <2>6
  <2>11. a \o b = Waiting
    BY <2>3, <2>7, <2>8
  <2>12. (d \o a) \o b = d \o Waiting
    BY <2>10, <2>11
  <2> QED BY <2>7, <2>8, <2>9, <2>12
<1>9. ASSUME NEW w \in Workers, CopyFromRing(w) PROVE Stream'
  <2> DEFINE n == Smaller(ring.count, amount[current])
  <2>1. /\ copied = 0 /\ base = "int" /\ current \in Irps
        /\ ring' = Skip(ring, n) /\ delivered' = delivered \o CopyOut(ring, n) /\ copied' = n
        /\ UNCHANGED <<lost, arrived, skewed, base>>
    BY <1>6, <1>9 DEF CopyFromRing
  <2>2. n \in 0 .. ring.count
    <3>1. amount[current] \in Nat
      BY <2>1 DEF IInv, TypeOK, RequestTypes
    <3> QED BY <1>1, <3>1 DEF Smaller
  <2> HIDE DEF n
  <2>3. CopyOut(ring, ring.count) = Waiting
    <3>1. ring.count - copied = ring.count
      BY <1>1, <2>1
    <3> QED BY <3>1 DEF Waiting
  <2>4. ring'.count = ring.count
    BY <1>1, <2>1, SkipFields
  <2>5. delivered' \o Waiting' = delivered \o Waiting
    <3>1. Waiting' = CopyOut(Skip(ring, n), ring.count - n)
      BY <2>1, <2>4 DEF Waiting
    <3> QED BY <1>1, <1>8, <2>1, <2>2, <2>3, <3>1
  <2>6. Aligned(ring, 0) => Aligned(ring', copied')
    BY <1>1, <2>1, <2>2, SkipKeepsAligned
  <2> QED BY <1>2, <1>3, <2>1, <2>5, <2>6
<1>10. ASSUME NEW w \in Workers, ReturnWhatIsPresent(w) PROVE Stream'
  <2>1. /\ ring' = Release(ring, copied) /\ copied' = 0
        /\ UNCHANGED <<delivered, lost, arrived, skewed, base>> /\ pc[w] = "copied"
    BY <1>10 DEF ReturnWhatIsPresent, histVars
  <2>2. base = "int"
    BY <2>1, CopiedState
  <2>3. ring'.count - copied' = ring.count - copied
    BY <1>1, <2>1, ReleaseFields
  <2>4. Waiting' = Waiting
    BY <1>1, <2>1, <2>3, ReleaseKeepsTheRest DEF Waiting
  <2>5. Aligned(ring, copied) => Aligned(ring', copied')
    BY <1>1, <2>1, ReleaseKeepsAligned
  <2> QED BY <1>2, <1>3, <2>1, <2>2, <2>4, <2>5
<1>11. ASSUME NEW w \in Workers, CancelledAtStart(w) PROVE Stream'
  <2>1. /\ copied' = 0 /\ skewed' = (skewed \/ copied > 0)
        /\ UNCHANGED <<ring, base, arrived, delivered, lost>>
    BY <1>11 DEF CancelledAtStart
  <2>2. ~skewed' => ~skewed /\ copied = 0
    <3>1. skewed \in BOOLEAN
      BY DEF IInv, TypeOK, HistoryTypes
    <3>2. CASE skewed = TRUE
      BY <2>1, <3>2
    <3>3. CASE skewed = FALSE
      <4>1. ~(copied > 0) => copied = 0
        BY <1>1
      <4> QED BY <2>1, <3>3, <4>1
    <3> QED BY <3>1, <3>2, <3>3
  <2>3. copied = 0 => Waiting' = Waiting
    BY <2>1 DEF Waiting
  <2> QED BY <1>2, <1>3, <2>1, <2>2, <2>3
<1>12. ASSUME NEW w \in Workers, SwitchToUser(w) PROVE Stream'
  <2> DEFINE wanted   == IF mode = "one" THEN 1 ELSE needed
             released == Release(ring, copied)
             n        == Smaller(released.count, wanted)
  <2>1. /\ pc[w] = "copied"
        /\ ring' = Release(Skip(released, n), n)
        /\ delivered' = delivered \o CopyOut(released, n) /\ copied' = 0
        /\ UNCHANGED <<lost, arrived, skewed>>
        /\ (n = wanted /\ base' = base) \/ n # wanted
    BY <1>12 DEF SwitchToUser
  <2>2. base = "int" /\ needed \in Nat
    BY <2>1, CopiedState
  <2>3. wanted \in Nat
    BY <2>2
  <2>4. /\ IsRing(released, Chars) /\ released.count = ring.count - copied
        /\ CopyOut(released, released.count) = Waiting
        /\ Aligned(ring, copied) => Aligned(released, 0)
    BY <1>1, ReleaseIsRing, ReleaseKeepsTheRest, ReleaseKeepsAligned DEF Waiting
  <2> HIDE DEF wanted, released
  <2>5. n \in 0 .. released.count /\ (n # wanted => n = released.count)
        /\ released.count \in Nat
    BY <1>1, <2>3, <2>4 DEF Smaller
  <2> HIDE DEF n
  <2>6. /\ IsRing(Skip(released, n), Chars) /\ Skip(released, n).count = released.count
        /\ Aligned(released, 0) => Aligned(Skip(released, n), n)
    BY <2>4, <2>5, SkipIsRing, SkipKeepsAligned
  <2>7. /\ ring'.count = released.count - n
        /\ CopyOut(ring', released.count - n) = CopyOut(Skip(released, n), released.count - n)
        /\ Aligned(Skip(released, n), n) => Aligned(ring', 0)
    <3>1. n \in Nat
      BY <2>5
    <3> QED BY <2>1, <2>6, <3>1, ReleaseFields, ReleaseKeepsTheRest, ReleaseKeepsAligned
  <2>8. delivered' \o Waiting' = delivered \o Waiting
    <3>1. ring'.count - copied' = released.count - n
      BY <2>1, <2>5, <2>7
    <3>2. Waiting' = CopyOut(Skip(released, n), released.count - n)
      BY <2>7, <3>1 DEF Waiting
    <3> QED BY <1>8, <2>1, <2>4, <2>5, <3>2
  <2>9. base' # "int" => ring'.count = 0
    BY <2>1, <2>2, <2>5, <2>7
  <2> QED BY <1>2, <1>3, <2>1, <2>2, <2>4, <2>6, <2>7, <2>8, <2>9
<1>13. ASSUME NEW w \in Workers, GetNextIrp(w) PROVE Stream'
  BY <1>4, <1>13 DEF GetNextIrp, bufVars, histVars
\* The ring is empty before the step and after it.
<1>14. ASSUME ~skewed, ring.count = 0, copied = 0, copied' = 0,
              ring' = ring \/ ring' = Reset(ring)
       PROVE  /\ Waiting = <<>> /\ Waiting' = <<>> /\ ring'.count = 0
              /\ ring' = Reset(ring) => Aligned(ring', copied')
  <2>1. ring'.count = 0
    BY <1>1, <1>14, ResetIsRing
  <2>2. ring.count - copied = 0 /\ ring'.count - copied' = 0
    BY <1>14, <2>1
  <2>3. Waiting = <<>> /\ Waiting' = <<>>
    BY <2>2, NothingCopied DEF Waiting
  <2> QED BY <1>1, <1>14, <2>1, <2>3, ResetIsAligned
<1>15. ASSUME NEW w \in Workers, DropsOne(w) PROVE Stream'
  <2>1. PICK ref \in Refs, grab \in BOOLEAN, s \in {"success", "timeout", "cancelled"},
             busy \in BOOLEAN, flags \in SUBSET Irps : Drops(w, ref, grab, s, busy, flags)
    BY <1>15 DEF DropsOne
  <2>2. /\ current # None /\ refs[current] # {}
        /\ \/ base # "int" /\ base' = "int" /\ ring' = Reset(ring)
           \/ UNCHANGED <<base, ring>>
        /\ UNCHANGED <<copied, delivered, lost, arrived, skewed>>
    BY <2>1 DEF Drops, TryToComplete, SwitchBack, histVars
  <2>3. copied = 0
    BY <2>2, HeldIsCurrent
  <2>4. CASE UNCHANGED <<base, ring>>
    BY <1>4, <2>2, <2>4
  <2>5. CASE base # "int" /\ base' = "int" /\ ring' = Reset(ring)
    <3>1. ~skewed => /\ Waiting = <<>> /\ Waiting' = <<>> /\ ring'.count = 0
                     /\ Aligned(ring', copied')
      BY <1>2, <1>14, <2>2, <2>3, <2>5
    <3> QED BY <1>2, <1>3, <2>2, <2>5, <3>1
  <2> QED BY <2>2, <2>4, <2>5
<1>16. CASE "INT" \in dpcs /\ \E n : PollAgain(n)
  BY <1>4, <1>16 DEF PollAgain, bufVars, histVars
<1>17. ASSUME NEW t \in Timers, TimerExpires(t) PROVE Stream'
  BY <1>4, <1>17 DEF TimerExpires, bufVars, histVars
<1>18. ASSUME NEW k \in DOMAIN queue, CancelQueued(k), pc' = pc PROVE Stream'
  BY <1>4, <1>18 DEF CancelQueued, bufVars, histVars
<1>19. CASE FlagsOnly
  BY <1>4, <1>19 DEF FlagsOnly, bufVars, histVars
<1>20. CASE PutChar
  <2> DEFINE c == arrived + 1
  <2>1. arrived < MaxChars /\ arrived' = c /\ UNCHANGED <<copied, skewed>>
    BY <1>20 DEF PutChar
  <2>2. arrived \in Nat /\ c \in Chars
    BY <2>1, BoundsAssumption DEF IInv, TypeOK, HistoryTypes, Chars
  <2>3. CASE base # "int"
    <3>1. base = current /\ current # None /\ "ISR" \in refs[current]
      BY <2>3 DEF IInv, ReferenceProtocol, ReferencesMatch
    <3>2. copied = 0
      BY <3>1, HeldIsCurrent
    <3>3. /\ delivered' = Append(delivered, c) /\ lost' = lost
          /\ \/ base' = "int" /\ ring' = Reset(ring)
             \/ base' = base /\ ring' = ring
      BY <1>20, <2>3 DEF PutChar, SwitchBack
    <3>4. ~skewed => /\ Waiting = <<>> /\ Waiting' = <<>> /\ ring'.count = 0
                     /\ base' = "int" => Aligned(ring', copied')
      BY <1>2, <1>14, <2>1, <2>3, <3>2, <3>3
    <3>5. /\ Append(delivered, c) \in Seq(Chars)
          /\ delivered \o <<>> = delivered /\ Append(delivered, c) \o <<>> = Append(delivered, c)
      BY <1>1, <2>2, Appended, ConcatEmptySeq
    <3>6. ~skewed => InOrder(delivered' \o Waiting', lost', arrived')
      <4>1. ~skewed => InOrder(delivered, lost, arrived)
        BY <1>2, <3>4, <3>5
      <4>2. ~skewed => InOrder(Append(delivered, c), lost, c)
        BY <1>1, <2>2, <4>1, OneMoreInOrder
      <4> QED BY <2>1, <3>3, <3>4, <3>5, <4>2
    <3> QED BY <1>3, <2>1, <3>4, <3>6
  <2>4. CASE base = "int" /\ ring.count < ring.size /\ ring' = Put(ring, c) /\ lost' = lost
             /\ UNCHANGED <<base, delivered>>
    <3>1. ~skewed => /\ CopyOut(ring', (ring.count + 1) - copied) = Append(Waiting, c)
                     /\ Aligned(ring', copied)
                     /\ ring'.count = ring.count + 1
      BY <1>1, <1>2, <2>2, <2>4, PutComesLast DEF Waiting
    <3>2. ~skewed => Waiting' = Append(Waiting, c)
      BY <2>1, <3>1 DEF Waiting
    <3>3. delivered \o Append(Waiting, c) = Append(delivered \o Waiting, c)
      <4>1. /\ delivered \o Waiting \in Seq(Chars) /\ <<c>> \in Seq(Chars)
            /\ Append(Waiting, c) = Waiting \o <<c>>
        BY <1>1, <2>2, ConcatProperties, AppendIsConcat
      <4>2. Append(delivered \o Waiting, c) = (delivered \o Waiting) \o <<c>>
        BY <2>2, <4>1, AppendIsConcat
      <4> QED BY <1>1, <4>1, <4>2, ConcatAssociative
    <3>4. ~skewed => InOrder(Append(delivered \o Waiting, c), lost, c)
      <4>1. delivered \o Waiting \in Seq(Chars)
        BY <1>1, ConcatProperties
      <4> QED BY <1>2, <2>2, <4>1, OneMoreInOrder
    <3> QED BY <1>3, <2>1, <2>4, <3>1, <3>2, <3>3, <3>4
  <2>5. CASE base = "int" /\ ring' = ring /\ lost' = lost \union {c}
             /\ UNCHANGED <<base, delivered>>
    <3>1. Waiting' = Waiting
      BY <2>1, <2>5 DEF Waiting
    <3>2. ~skewed => InOrder(delivered \o Waiting, lost \union {c}, c)
      BY <1>2, <2>2, OneMoreIsLost
    <3> QED BY <1>2, <1>3, <2>1, <2>5, <3>1, <3>2
  <2> QED BY <1>20, <2>3, <2>4, <2>5 DEF PutChar
<1>21. CASE PurgeInterruptBuff
  <2>1. /\ base = "int" /\ base' = "int" /\ ring' = Reset(ring) /\ ControlLockFree
        /\ lost' = lost \union ToSet(Content(ring))
        /\ UNCHANGED <<copied, arrived, delivered, skewed>>
    BY <1>21 DEF PurgeInterruptBuff, SwitchBack
  <2>2. copied = 0
    BY <2>1 DEF IInv, Bookkeeping, StarterState
  <2>3. Content(ring) = Waiting
    <3>1. ring.count - copied = ring.count
      BY <1>1, <2>2
    <3> QED BY <3>1 DEF Content, Waiting
  <2>4. ring'.count = 0 /\ Aligned(ring', 0)
    BY <1>1, <2>1, ResetIsRing, ResetIsAligned
  <2>5. Waiting' = <<>>
    <3>1. ring'.count - copied' = 0
      BY <2>1, <2>2, <2>4
    <3> QED BY <3>1, NothingCopied DEF Waiting
  <2>6. delivered' \o Waiting' = delivered
    BY <1>1, <2>1, <2>5, ConcatEmptySeq
  <2>7. ~skewed => InOrder(delivered, lost', arrived)
    BY <1>1, <1>2, <2>1, <2>3, LastAreLost
  <2> QED BY <1>3, <2>1, <2>2, <2>4, <2>6, <2>7
<1> QED BY <1>5, <1>7, <1>9, <1>10, <1>11, <1>12, <1>13, <1>15, <1>16, <1>17, <1>18, <1>19,
        <1>20, <1>21, StepKinds

-----------------------------------------------------------------------------
(* All of it together, and what it shows. *)

Full == IInv /\ Pool /\ Counts /\ Answers /\ Stream

LEMMA InitFull == Init => Full
<1> SUFFICES ASSUME Init PROVE Full
  OBVIOUS
<1>1. IInv
  BY InitIInv
<1>2. /\ queue = <<>> /\ current = None /\ base = "int"
      /\ kind = [i \in Irps |-> "new"] /\ refs = [i \in Irps |-> {}]
      /\ status = [i \in Irps |-> "none"] /\ completions = [i \in Irps |-> 0]
      /\ newBuffer = [i \in Irps |-> "none"]
      /\ info = [i \in Irps |-> 0] /\ filled = [i \in Irps |-> 0]
      /\ armed = {} /\ dpcs = {} /\ inDpc = {} /\ dpcCount = 1
      /\ pc = [w \in Workers |-> "idle"]
      /\ ring = EmptyRing(InitialSize) /\ copied = 0
      /\ delivered = <<>> /\ lost = {} /\ arrived = 0
  BY DEF Init
<1>3. Pool
  BY <1>2 DEF Pool, PoolAccounted
<1>4. Counts
  BY <1>2, FS_EmptySet DEF Counts, DpcCountExact
<1>5. Answers
  BY <1>2 DEF Answers
<1>6. Stream
  <2>1. InitialSize \in Nat \ {0}
    BY BoundsAssumption
  <2>2. ring.count = 0 /\ Aligned(ring, 0)
    BY <1>2, <2>1, EmptyRingIsAligned DEF EmptyRing
  <2>3. Waiting = <<>>
    BY <1>2, <2>2, NothingCopied DEF Waiting
  <2>4. delivered \o Waiting = <<>>
    BY <1>2, <2>3
  <2>5. InOrder(<<>>, {}, 0)
    <3>1. DOMAIN <<>> = {} /\ ToSet(<<>>) = {}
      BY DEF ToSet
    <3>2. 1 .. 0 = {}
      OBVIOUS
    <3> QED BY <3>1, <3>2 DEF InOrder
  <2>6. StreamInOrder
    BY <1>2, <2>4, <2>5, StreamMeansInOrder
  <2> QED BY <1>2, <2>2, <2>6 DEF Stream, StreamIntact, RingAligned
<1> QED BY <1>1, <1>3, <1>4, <1>5, <1>6 DEF Full

LEMMA NextFull == Full /\ [Next]_vars => Full'
<1>1. ASSUME Full, Next PROVE Full'
  <2>1. IInv'
    BY <1>1, NextIInv DEF Full
  <2> QED BY <1>1, <2>1, PoolStep, CountsStep, AnswersStep, StreamStep DEF Full
<1>2. ASSUME Full, UNCHANGED vars PROVE Full'
  <2>1. IInv'
    BY <1>2, NextIInv DEF Full
  <2>2. UNCHANGED <<queue, current, kind, amount, status, info, cancelled, routine, refs,
                    filled, completions, newBuffer, ring, base, needed, copied, mode,
                    countOnLast, readByIsr, polls, armed, dpcs, dpcCount, pc, inDpc,
                    arrived, delivered, lost, skewed>>
    BY <1>2 DEF vars, irpVars, bufVars, timeVars, histVars
  <2>3. Pool'
    BY <1>2, <2>2 DEF Full, Pool, PoolAccounted
  <2>4. Counts'
    BY <1>2, <2>2 DEF Full, Counts, DpcCountExact, Working
  <2>5. Answers'
    BY <1>2, <2>2 DEF Full, Answers, Told, Queued
  <2>6. Stream'
    BY <1>2, <2>2 DEF Full, Stream, StreamIntact, StreamInOrder, RingAligned
  <2> QED BY <2>1, <2>3, <2>4, <2>5, <2>6 DEF Full
<1> QED BY <1>1, <1>2

LEMMA FullInvariance == Spec => []Full
BY InitFull, NextFull, PTL DEF Spec

\* Whichever way a resize ends, its block of pool is freed or installed and
\* never both kept and forgotten; and DpcCount is at every moment one more than
\* the timers that are set, the procedures that are queued and those that run,
\* so that a close neither proceeds under one of them nor waits for ever.
THEOREM NothingIsLeaked == Spec => []ResourcesAccounted
<1>1. Full => ResourcesAccounted
  BY DEF Full, Pool, Counts, ResourcesAccounted
<1> QED BY <1>1, FullInvariance, PTL

\* A read that succeeds or times out is told exactly how many characters are in
\* its buffer, whoever put them there and whoever counted them; a cancelled one
\* is told of none; and no read gets more than it asked for.
THEOREM ReadsAreToldExactly == Spec => []InfoIsExact
<1>1. Full => InfoIsExact
  BY DEF Full, Answers, Told, InfoIsExact
<1> QED BY <1>1, FullInvariance, PTL

\* Characters reach the reads in the order of arrival and none twice, through
\* the ring, through the read's own buffer and across every switch between the
\* two; each one is delivered, waits in the ring or was dropped; and the ring's
\* two places and its count tell the same, unless a start was cancelled between
\* its copy and the release of what it copied.
THEOREM StreamIsKept == Spec => []StreamIntact
<1>1. Full => StreamIntact
  BY DEF Full, Stream
<1> QED BY <1>1, FullInvariance, PTL
=============================================================================
