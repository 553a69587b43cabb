---------------------------- MODULE QueueLemmas ----------------------------
(***************************************************************************)
(* What the list operations of the request queues do to the places of the  *)
(* requests: RemoveHeadList, InsertTailList and RemoveEntryList on any     *)
(* sequence.                                                               *)
(***************************************************************************)
EXTENDS Integers, Sequences, SequencesExt, TLAPS

\* What is left when the first is taken.
LEMMA HeadTail ==
  ASSUME NEW S, NEW q \in Seq(S), q # <<>>
  PROVE  /\ Head(q) \in S /\ Head(q) = q[1] /\ 1 \in DOMAIN q
         /\ Tail(q) \in Seq(S)
         /\ DOMAIN Tail(q) = 1 .. Len(q) - 1
         /\ \A k \in DOMAIN Tail(q) :
              k + 1 \in DOMAIN q /\ k + 1 # 1 /\ Tail(q)[k] = q[k + 1]
         /\ \A k \in DOMAIN q : k # 1 => k - 1 \in DOMAIN Tail(q)
OBVIOUS

\* A new one comes last.
LEMMA Appended ==
  ASSUME NEW S, NEW q \in Seq(S), NEW e \in S
  PROVE  /\ Append(q, e) \in Seq(S)
         /\ DOMAIN Append(q, e) = 1 .. Len(q) + 1
         /\ Len(q) + 1 \in DOMAIN Append(q, e) /\ Append(q, e)[Len(q) + 1] = e
         /\ \A k \in DOMAIN q : k \in DOMAIN Append(q, e) /\ Append(q, e)[k] = q[k]
         /\ \A k \in DOMAIN Append(q, e) : k # Len(q) + 1 => k \in DOMAIN q
OBVIOUS

\* Where the elements of a second sequence end up.
LEMMA SecondHalf ==
  ASSUME NEW S, NEW a \in Seq(S), NEW b \in Seq(S),
         NEW m \in Len(a) + 1 .. Len(a) + Len(b)
  PROVE  (a \o b)[m] = b[m - Len(a)]
OBVIOUS

\* Taking the k-th element out of a sequence keeps the others, in order.
LEMMA Removed ==
  ASSUME NEW S, NEW q \in Seq(S), NEW k \in DOMAIN q
  PROVE  /\ RemoveAt(q, k) \in Seq(S)
         /\ DOMAIN RemoveAt(q, k) = 1 .. Len(q) - 1
         /\ \A m \in DOMAIN RemoveAt(q, k) :
              /\ m < k => m \in DOMAIN q /\ RemoveAt(q, k)[m] = q[m]
              /\ m >= k => m + 1 \in DOMAIN q /\ RemoveAt(q, k)[m] = q[m + 1]
         /\ \A m \in DOMAIN q :
              /\ m < k => m \in DOMAIN RemoveAt(q, k)
              /\ m > k => m - 1 \in DOMAIN RemoveAt(q, k)
<1>1. k \in 1 .. Len(q) /\ Len(q) \in Nat
  OBVIOUS
<1> DEFINE a == SubSeq(q, 1, k - 1)
           b == SubSeq(q, k + 1, Len(q))
<1>2. a \in Seq(S) /\ Len(a) = k - 1 /\ \A m \in 1 .. k - 1 : a[m] = q[m]
  BY <1>1
<1>3. b \in Seq(S) /\ Len(b) = Len(q) - k /\ \A m \in 1 .. Len(q) - k : b[m] = q[m + k]
  BY <1>1
<1>4. RemoveAt(q, k) = a \o b
  BY DEF RemoveAt
<1> HIDE DEF a, b
<1>5. a \o b \in Seq(S) /\ Len(a \o b) = Len(q) - 1
  BY <1>1, <1>2, <1>3
<1>6. \A m \in 1 .. Len(q) - 1 : (a \o b)[m] = IF m < k THEN q[m] ELSE q[m + 1]
  <2> SUFFICES ASSUME NEW m \in 1 .. Len(q) - 1
               PROVE  (a \o b)[m] = IF m < k THEN q[m] ELSE q[m + 1]
    OBVIOUS
  <2>1. CASE m < k
    BY <1>1, <1>2, <1>3, <2>1
  <2>2. CASE ~(m < k)
    <3>0. a \in Seq(S) /\ b \in Seq(S) /\ m \in Len(a) + 1 .. Len(a) + Len(b)
      BY <1>1, <1>2, <1>3, <2>2
    <3>1. (a \o b)[m] = b[m - Len(a)]
      BY <3>0, SecondHalf
    <3>2. m - (k - 1) \in 1 .. Len(q) - k /\ (m - (k - 1)) + k = m + 1
      BY <1>1, <2>2
    <3> QED BY <3>1, <3>2, <1>2, <1>3, <2>2
  <2> QED BY <2>1, <2>2
<1>7. DOMAIN (a \o b) = 1 .. Len(q) - 1 /\ DOMAIN q = 1 .. Len(q)
  BY <1>5
<1> QED BY SMTT(30), <1>1, <1>4, <1>5, <1>6, <1>7
-----------------------------------------------------------------------------
(* The same, told of the members of a queue that holds each only once.     *)

Distinct(q) == \A k, m \in DOMAIN q : q[k] = q[m] => k = m
Among(x, q) == \E k \in DOMAIN q : q[k] = x

\* A new one joins the others.
LEMMA Joined ==
  ASSUME NEW S, NEW q \in Seq(S), Distinct(q), NEW e \in S, ~Among(e, q)
  PROVE  /\ Append(q, e) \in Seq(S) /\ Distinct(Append(q, e))
         /\ \A x : Among(x, Append(q, e)) <=> Among(x, q) \/ x = e
<1> DEFINE r == Append(q, e)
<1>1. /\ r \in Seq(S)
      /\ Len(q) + 1 \in DOMAIN r /\ r[Len(q) + 1] = e
      /\ \A k \in DOMAIN q : k \in DOMAIN r /\ r[k] = q[k]
      /\ \A k \in DOMAIN r : k # Len(q) + 1 => k \in DOMAIN q
  BY Appended
<1> HIDE DEF r
<1>2. Distinct(r) /\ \A x : Among(x, r) <=> Among(x, q) \/ x = e
  BY <1>1 DEF Distinct, Among
<1> QED BY <1>1, <1>2 DEF r

\* The first leaves.
LEMMA HeadLeft ==
  ASSUME NEW S, NEW q \in Seq(S), Distinct(q), q # <<>>
  PROVE  /\ Tail(q) \in Seq(S) /\ Distinct(Tail(q))
         /\ Head(q) \in S /\ Among(Head(q), q)
         /\ \A x : Among(x, Tail(q)) <=> Among(x, q) /\ x # Head(q)
<1> DEFINE r == Tail(q)
<1>1. /\ Head(q) \in S /\ Head(q) = q[1] /\ 1 \in DOMAIN q /\ r \in Seq(S)
      /\ \A k \in DOMAIN r :
           k \in Int /\ k + 1 \in DOMAIN q /\ k + 1 # 1 /\ r[k] = q[k + 1]
      /\ \A k \in DOMAIN q : k \in Int /\ (k # 1 => k - 1 \in DOMAIN r)
  BY HeadTail
<1> HIDE DEF r
<1>2. Distinct(r)
  BY <1>1 DEF Distinct
<1>3. ASSUME NEW x, Among(x, r)
      PROVE  Among(x, q) /\ x # Head(q)
  <2>1. PICK k \in DOMAIN r : r[k] = x
    BY <1>3 DEF Among
  <2> QED BY <2>1, <1>1 DEF Among, Distinct
<1>4. ASSUME NEW x, Among(x, q), x # Head(q)
      PROVE  Among(x, r)
  <2>1. PICK k \in DOMAIN q : q[k] = x
    BY <1>4 DEF Among
  <2>2. k - 1 \in DOMAIN r /\ (k - 1) + 1 = k
    BY <2>1, <1>1, <1>4
  <2> QED BY <2>1, <2>2, <1>1 DEF Among
<1>5. Among(Head(q), q)
  BY <1>1 DEF Among
<1> QED BY <1>1, <1>2, <1>3, <1>4, <1>5 DEF r

\* One of them leaves, wherever it is.
LEMMA OneLeft ==
  ASSUME NEW S, NEW q \in Seq(S), Distinct(q), NEW k \in DOMAIN q
  PROVE  /\ RemoveAt(q, k) \in Seq(S) /\ Distinct(RemoveAt(q, k))
         /\ q[k] \in S /\ Among(q[k], q) /\ q # <<>>
         /\ \A x : Among(x, RemoveAt(q, k)) <=> Among(x, q) /\ x # q[k]
<1> DEFINE r == RemoveAt(q, k)
<1>1. /\ r \in Seq(S) /\ DOMAIN r = 1 .. Len(q) - 1
      /\ \A m \in DOMAIN r :
           /\ m < k => m \in DOMAIN q /\ r[m] = q[m]
           /\ m >= k => m + 1 \in DOMAIN q /\ r[m] = q[m + 1]
      /\ \A m \in DOMAIN q :
           /\ m < k => m \in DOMAIN r
           /\ m > k => m - 1 \in DOMAIN r
  BY Removed
<1>2. DOMAIN q = 1 .. Len(q) /\ Len(q) \in Nat /\ q[k] \in S /\ q # <<>>
  OBVIOUS
<1> HIDE DEF r
<1>3. Distinct(r)
  <2> SUFFICES ASSUME NEW m \in DOMAIN r, NEW n \in DOMAIN r, r[m] = r[n]
               PROVE  m = n
    BY DEF Distinct
  <2> QED BY <1>1, <1>2 DEF Distinct
<1>4. ASSUME NEW x, Among(x, r)
      PROVE  Among(x, q) /\ x # q[k]
  <2>1. PICK m \in DOMAIN r : r[m] = x
    BY <1>4 DEF Among
  <2> QED BY <2>1, <1>1, <1>2 DEF Among, Distinct
<1>5. ASSUME NEW x, Among(x, q), x # q[k]
      PROVE  Among(x, r)
  <2>1. PICK m \in DOMAIN q : q[m] = x
    BY <1>5 DEF Among
  <2>2. CASE m < k
    BY <2>1, <2>2, <1>1 DEF Among
  <2>3. CASE m > k
    <3>1. m - 1 \in DOMAIN r /\ m - 1 >= k /\ (m - 1) + 1 = m
      BY <2>1, <2>3, <1>1, <1>2
    <3> QED BY <3>1, <2>1, <1>1 DEF Among
  <2> QED BY <2>1, <2>2, <2>3, <1>2, <1>5
<1>6. Among(q[k], q)
  BY DEF Among
<1> QED BY <1>1, <1>2, <1>3, <1>4, <1>5, <1>6 DEF r
=============================================================================
