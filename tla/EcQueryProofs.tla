---------------------------- MODULE EcQueryProofs ----------------------------
(***************************************************************************)
(* Proofs about the query events of the embedded controller, for any       *)
(* numbers, chunk, threads, handlers and order of events: that the three   *)
(* lists linked through QueryMap and VectorTable hold what the bits and    *)
(* the map say, that the one request for control methods is used by one    *)
(* thread at a time, and that a handler is called for its own number.      *)
(*                                                                         *)
(* A list is reasoned about through a function that tells of each element  *)
(* how many come after it; that the walk of EcQuery meets exactly these    *)
(* elements and ends is shown once (ListIsWalked), and each way the code   *)
(* changes a list - push, pop, unlink - keeps such a function.             *)
(***************************************************************************)
EXTENDS EcQuery, FiniteSetTheorems, WellFoundedInduction, TLAPS

-----------------------------------------------------------------------------
(* Walks. *)

\* What holds at 0 and goes on from each number to the next holds up to the
\* end of the interval.
LEMMA UpTo ==
  ASSUME NEW m \in Nat, NEW T, 0 \in T, \A n \in Nat : n < m /\ n \in T => n + 1 \in T
  PROVE  0 .. m \subseteq T
<1> SUFFICES ASSUME NEW l \in 0 .. m, l \notin T PROVE FALSE
  OBVIOUS
<1> DEFINE U == {0 .. n : n \in (0 .. m) \ T}
<1>1. U # {} /\ U \subseteq FiniteSubsetsOf(Nat)
  <2>1. ASSUME NEW n \in 0 .. m PROVE 0 .. n \in FiniteSubsetsOf(Nat)
    BY FS_Interval DEF FiniteSubsetsOf
  <2> QED BY <2>1
<1>2. PICK x \in U : \A y \in U : ~(<<y, x>> \in StrictSubsetOrdering(Nat))
  BY <1>1, FS_StrictSubsetOrderingWellFounded, WFMin
<1>3. PICK n \in (0 .. m) \ T : x = 0 .. n
  OBVIOUS
<1>4. n # 0 /\ n - 1 \in 0 .. m /\ n - 1 < m /\ (n - 1) + 1 = n
  BY <1>3
<1>5. n - 1 \notin T
  BY <1>3, <1>4
<1>6. 0 .. n - 1 \in U
  BY <1>4, <1>5
<1>7. 0 .. n - 1 \subseteq 0 .. n /\ n \in 0 .. n /\ n \notin 0 .. n - 1
  BY <1>3
<1>8. 0 .. n - 1 \in SUBSET Nat /\ 0 .. n \in SUBSET Nat /\ 0 .. n - 1 # 0 .. n
  BY <1>3, <1>7
<1>9. <<0 .. n - 1, 0 .. n>> \in StrictSubsetOrdering(Nat)
  BY <1>7, <1>8 DEF StrictSubsetOrdering
<1> QED BY <1>2, <1>3, <1>6, <1>9

\* One step of a walk.
Onward(link, at) == IF at = 0 THEN 0 ELSE IF at \in DOMAIN link THEN link[at] ELSE at

Defines(head, link, m, f) ==
  f = [n \in 0 .. m |-> IF n = 0 THEN head ELSE Onward(link, f[n - 1])]

LEMMA WalkExists ==
  ASSUME NEW head, NEW link, NEW m \in Nat
  PROVE  \E f : Defines(head, link, m, f)
<1> DEFINE T == {n \in Nat : \E f : Defines(head, link, n, f)}
<1>1. 0 \in T
  <2> DEFINE f == [n \in 0 .. 0 |-> head]
  <2>1. Defines(head, link, 0, f)
    BY DEF Defines
  <2> QED BY <2>1
<1>2. ASSUME NEW n \in Nat, n \in T PROVE n + 1 \in T
  <2>1. PICK f : Defines(head, link, n, f)
    BY <1>2
  <2> DEFINE g == [k \in 0 .. n + 1 |-> IF k <= n THEN f[k] ELSE Onward(link, f[n])]
  <2>2. f = [k \in 0 .. n |-> IF k = 0 THEN head ELSE Onward(link, f[k - 1])]
    BY <2>1 DEF Defines
  <2>3. ASSUME NEW k \in 0 .. n + 1
        PROVE  g[k] = IF k = 0 THEN head ELSE Onward(link, g[k - 1])
    <3>1. CASE k = 0
      <4>1. f[0] = head
        BY <2>2
      <4> QED BY <3>1, <4>1
    <3>2. CASE k # 0 /\ k <= n
      <4>1. k \in 0 .. n /\ k - 1 \in 0 .. n + 1 /\ k - 1 <= n
        BY <3>2
      <4>2. f[k] = Onward(link, f[k - 1])
        BY <2>2, <3>2, <4>1
      <4> QED BY <3>2, <4>1, <4>2
    <3>3. CASE k = n + 1
      <4>1. k # 0 /\ ~(k <= n) /\ k - 1 = n /\ n \in 0 .. n + 1 /\ n <= n
        BY <3>3
      <4> QED BY <4>1
    <3> QED BY <3>1, <3>2, <3>3
  <2>4. Defines(head, link, n + 1, g)
    BY <2>3 DEF Defines
  <2> QED BY <2>4
<1> HIDE DEF T
<1>3. m \in 0 .. m /\ 0 .. m \subseteq T
  BY <1>1, <1>2, UpTo
<1> QED BY <1>3 DEF T

LEMMA WalkSteps ==
  ASSUME NEW head, NEW link
  PROVE  /\ Walk(head, link)[0] = head
         /\ \A n \in 0 .. MaxQuery : Walk(head, link)[n + 1] = Onward(link, Walk(head, link)[n])
<1>1. MaxQuery + 1 \in Nat
  BY SizesAssumption
<1>2. PICK f : Defines(head, link, MaxQuery + 1, f)
  BY <1>1, WalkExists
<1>3. Defines(head, link, MaxQuery + 1, Walk(head, link))
  BY <1>2, Zenon DEF Defines, Walk, Onward
<1>4. Walk(head, link) = [n \in 0 .. MaxQuery + 1 |->
         IF n = 0 THEN head ELSE Onward(link, Walk(head, link)[n - 1])]
  BY <1>3 DEF Defines
<1>5. ASSUME NEW n \in 0 .. MaxQuery
      PROVE  n + 1 \in 0 .. MaxQuery + 1 /\ n + 1 # 0 /\ (n + 1) - 1 = n
  BY SizesAssumption
<1>6. 0 \in 0 .. MaxQuery + 1
  BY <1>1
<1> HIDE DEF Walk
<1> QED BY <1>4, <1>5, <1>6

-----------------------------------------------------------------------------
(* Lists by what is left of them. *)

\* L is a list from head on: `left' tells of each element how many come after it.
ListBy(left, L, head, link) ==
  /\ 0 \notin L /\ L \subseteq DOMAIN link
  /\ left \in [L -> Nat]
  /\ \A j, k \in L : left[j] = left[k] => j = k
  /\ \/ head = 0 /\ L = {}
     \/ head \in L /\ \A k \in L : left[k] <= left[head]
  /\ \A k \in L : IF left[k] = 0 THEN link[k] = 0
                  ELSE link[k] \in L /\ left[link[k]] = left[k] - 1
  /\ \A k \in L : k # head => \E j \in L : link[j] = k

IsList(L, head, link) == \E left \in [L -> Nat] : ListBy(left, L, head, link)

\* A walk along a list meets its elements one after the other, then its end.
LEMMA WalkAlong ==
  ASSUME NEW L, NEW head, NEW link, NEW left, ListBy(left, L, head, link), head \in L,
         NEW n \in 0 .. MaxQuery + 1
  PROVE  IF n <= left[head] THEN /\ Walk(head, link)[n] \in L
                                 /\ left[Walk(head, link)[n]] = left[head] - n
                            ELSE Walk(head, link)[n] = 0
<1> DEFINE W == Walk(head, link)
           Good(k) == IF k <= left[head] THEN W[k] \in L /\ left[W[k]] = left[head] - k
                                         ELSE W[k] = 0
           T == {k \in Nat : Good(k)}
<1>0. /\ W[0] = head /\ left[head] \in Nat
      /\ \A k \in 0 .. MaxQuery : W[k + 1] = Onward(link, W[k])
  BY WalkSteps DEF ListBy
<1> HIDE DEF W
<1>1. 0 \in T
  BY <1>0
<1>2. ASSUME NEW k \in Nat, k < MaxQuery + 1, k \in T PROVE k + 1 \in T
  <2>1. W[k + 1] = Onward(link, W[k]) /\ Good(k)
    BY <1>0, <1>2, SizesAssumption
  <2>2. CASE k + 1 <= left[head]
    <3>1. W[k] \in L /\ left[W[k]] = left[head] - k /\ left[W[k]] # 0 /\ W[k] # 0
      BY <1>0, <2>1, <2>2 DEF ListBy
    <3>2. /\ link[W[k]] \in L /\ left[link[W[k]]] = left[W[k]] - 1 /\ W[k] \in DOMAIN link
      BY <3>1 DEF ListBy
    <3>3. W[k + 1] = link[W[k]]
      BY <2>1, <3>1, <3>2 DEF Onward
    <3> QED BY <1>0, <2>2, <3>1, <3>2, <3>3
  <2>3. CASE ~(k + 1 <= left[head]) /\ k <= left[head]
    <3>1. W[k] \in L /\ left[W[k]] = 0 /\ W[k] # 0
      BY <1>0, <2>1, <2>3 DEF ListBy
    <3>2. link[W[k]] = 0 /\ W[k] \in DOMAIN link
      BY <3>1 DEF ListBy
    <3> QED BY <2>1, <2>3, <3>1, <3>2 DEF Onward
  <2>4. CASE ~(k + 1 <= left[head]) /\ ~(k <= left[head])
    BY <2>1, <2>4 DEF Onward
  <2> QED BY <1>0, <2>2, <2>3, <2>4
<1> HIDE DEF T
<1>3. MaxQuery + 1 \in Nat
  BY SizesAssumption
<1>4. 0 .. MaxQuery + 1 \subseteq T
  BY <1>1, <1>2, <1>3, UpTo
<1>5. n \in T
  BY <1>4
<1> QED BY <1>5 DEF T, W

LEMMA WalkOfEmpty ==
  ASSUME NEW link, NEW n \in 0 .. MaxQuery + 1
  PROVE  Walk(0, link)[n] = 0
<1> DEFINE T == {k \in Nat : Walk(0, link)[k] = 0}
<1>1. 0 \in T
  BY WalkSteps
<1>2. ASSUME NEW k \in Nat, k < MaxQuery + 1, k \in T PROVE k + 1 \in T
  <2>1. k \in 0 .. MaxQuery /\ Walk(0, link)[k] = 0
    BY <1>2, SizesAssumption
  <2>2. Walk(0, link)[k + 1] = Onward(link, Walk(0, link)[k])
    BY <2>1, WalkSteps
  <2> QED BY <2>1, <2>2 DEF Onward
<1> HIDE DEF T
<1>3. MaxQuery + 1 \in Nat
  BY SizesAssumption
<1>4. 0 .. MaxQuery + 1 \subseteq T
  BY <1>1, <1>2, <1>3, UpTo
<1>5. n \in T
  BY <1>4
<1> QED BY <1>5 DEF T

\* A list of numbers up to MaxQuery has no more than MaxQuery elements.
LEMMA ListIsShort ==
  ASSUME NEW L \in SUBSET (1 .. MaxQuery), NEW head \in L, NEW link, NEW left,
         ListBy(left, L, head, link)
  PROVE  left[head] < MaxQuery
<1> SUFFICES ASSUME ~(left[head] < MaxQuery) PROVE FALSE
  OBVIOUS
<1> DEFINE W == Walk(head, link)
           f == [n \in 0 .. MaxQuery |-> W[n]]
<1>1. left[head] \in Nat /\ MaxQuery \in Nat
  BY SizesAssumption DEF ListBy
<1>2. ASSUME NEW n \in 0 .. MaxQuery
      PROVE  W[n] \in L /\ left[W[n]] = left[head] - n
  <2>1. n \in 0 .. MaxQuery + 1 /\ n <= left[head]
    BY <1>1
  <2> QED BY <2>1, WalkAlong
<1> HIDE DEF W
<1>3. f \in [0 .. MaxQuery -> 1 .. MaxQuery]
  BY <1>2
<1>4. /\ IsFiniteSet(0 .. MaxQuery) /\ Cardinality(0 .. MaxQuery) = MaxQuery + 1
      /\ IsFiniteSet(1 .. MaxQuery) /\ Cardinality(1 .. MaxQuery) = MaxQuery
  <2>1. IsFiniteSet(0 .. MaxQuery)
        /\ Cardinality(0 .. MaxQuery) = IF 0 > MaxQuery THEN 0 ELSE MaxQuery - 0 + 1
    BY <1>1, FS_Interval
  <2>2. IsFiniteSet(1 .. MaxQuery)
        /\ Cardinality(1 .. MaxQuery) = IF 1 > MaxQuery THEN 0 ELSE MaxQuery - 1 + 1
    BY <1>1, FS_Interval
  <2> QED BY <1>1, <2>1, <2>2
<1>5. PICK m, n \in 0 .. MaxQuery : m # n /\ f[m] = f[n]
  <2>1. Cardinality(1 .. MaxQuery) < Cardinality(0 .. MaxQuery)
    BY <1>1, <1>4
  <2> HIDE DEF f
  <2> QED BY <1>3, <1>4, <2>1, FS_PigeonHole
<1>6. left[head] - m = left[head] - n
  BY <1>2, <1>5
<1> QED BY <1>1, <1>5, <1>6

\* What is walked is what the list holds, and the walk ends.
LEMMA ListIsWalked ==
  ASSUME NEW L \in SUBSET (1 .. MaxQuery), NEW head, NEW link, IsList(L, head, link)
  PROVE  Listed(head, link) = L /\ Ends(head, link)
<1>1. PICK left \in [L -> Nat] : ListBy(left, L, head, link)
  BY DEF IsList
<1> DEFINE W == Walk(head, link)
<1>2. CASE head \in L
  <2>1. left[head] \in Nat /\ left[head] < MaxQuery /\ MaxQuery \in Nat
    BY <1>1, <1>2, ListIsShort, SizesAssumption DEF ListBy
  <2>2. ASSUME NEW n \in 0 .. MaxQuery + 1
        PROVE  IF n <= left[head] THEN W[n] \in L /\ left[W[n]] = left[head] - n ELSE W[n] = 0
    BY <1>1, <1>2, WalkAlong
  <2> HIDE DEF W
  <2>3. W[MaxQuery + 1] = 0
    BY <2>1, <2>2
  <2>4. ASSUME NEW n \in 0 .. MaxQuery, W[n] # 0 PROVE W[n] \in L
    BY <2>1, <2>2, <2>4
  <2>5. ASSUME NEW k \in L PROVE \E n \in 0 .. MaxQuery : W[n] = k /\ k # 0
    <3> DEFINE n == left[head] - left[k]
    <3>1. left[k] \in Nat /\ left[k] <= left[head] /\ k # 0
      BY <1>1, <1>2 DEF ListBy
    <3>2. n \in 0 .. MaxQuery /\ n \in 0 .. MaxQuery + 1 /\ n <= left[head]
          /\ left[head] - n = left[k]
      BY <2>1, <3>1
    <3> HIDE DEF n
    <3>3. W[n] \in L /\ left[W[n]] = left[k]
      BY <2>2, <3>2
    <3>4. W[n] = k
      BY <1>1, <3>3 DEF ListBy
    <3> QED BY <3>1, <3>2, <3>4
  <2>6. {W[n] : n \in 0 .. MaxQuery} \ {0} = L
    BY <2>4, <2>5
  <2> QED BY <2>3, <2>6 DEF W, Listed, Ends
<1>3. CASE head = 0 /\ L = {}
  <2>1. \A n \in 0 .. MaxQuery + 1 : Walk(0, link)[n] = 0
    BY WalkOfEmpty
  <2>2. MaxQuery \in Nat
    BY SizesAssumption
  <2>3. \A n \in 0 .. MaxQuery : n \in 0 .. MaxQuery + 1
    BY <2>2
  <2>4. MaxQuery + 1 \in 0 .. MaxQuery + 1
    BY <2>2
  <2> QED BY <1>3, <2>1, <2>3, <2>4 DEF Listed, Ends
<1> QED BY <1>1, <1>2, <1>3 DEF ListBy

-----------------------------------------------------------------------------
(* Push, pop and unlink. *)

LEMMA ListHead ==
  ASSUME NEW L, NEW head, NEW link, IsList(L, head, link)
  PROVE  /\ head # 0 => head \in L
         /\ head = 0 => L = {}
         /\ 0 \notin L /\ L \subseteq DOMAIN link
         /\ \A k \in L : link[k] \in L \union {0} /\ link[k] # head
         /\ \A j, k \in L : link[j] = link[k] /\ link[j] # 0 => j = k
<1>1. PICK left \in [L -> Nat] : ListBy(left, L, head, link)
  BY DEF IsList
<1>2. /\ head # 0 => head \in L
      /\ head = 0 => L = {}
      /\ 0 \notin L /\ L \subseteq DOMAIN link
  BY <1>1 DEF ListBy
<1>3. ASSUME NEW k \in L PROVE link[k] \in L \union {0} /\ link[k] # head
  BY <1>1, <1>2 DEF ListBy
<1>4. ASSUME NEW j \in L, NEW k \in L, link[j] = link[k], link[j] # 0 PROVE j = k
  BY <1>1, <1>4 DEF ListBy
<1> QED BY <1>2, <1>3, <1>4

\* The list as far as it is not touched.
LEMMA SameList ==
  ASSUME NEW L, NEW head, NEW link, IsList(L, head, link),
         NEW link2, L \subseteq DOMAIN link2, \A k \in L : link2[k] = link[k]
  PROVE  IsList(L, head, link2)
<1>1. PICK left \in [L -> Nat] : ListBy(left, L, head, link)
  BY DEF IsList
<1>2. ListBy(left, L, head, link2)
  BY <1>1 DEF ListBy
<1> QED BY <1>2 DEF IsList

\* A new element becomes the head.
LEMMA PushKeepsList ==
  ASSUME NEW L, NEW head, NEW link, IsList(L, head, link),
         NEW item, item \notin L, item # 0,
         NEW link2, L \union {item} \subseteq DOMAIN link2, link2[item] = head,
         \A k \in L : link2[k] = link[k]
  PROVE  IsList(L \union {item}, item, link2)
<1>1. PICK left \in [L -> Nat] : ListBy(left, L, head, link)
  BY DEF IsList
<1> DEFINE M == L \union {item}
           more == [k \in M |-> IF k # item THEN left[k]
                                ELSE IF head = 0 THEN 0 ELSE left[head] + 1]
<1>2. more \in [M -> Nat] /\ \A k \in L : more[k] = left[k]
  BY <1>1 DEF ListBy
<1>3. more[item] = IF head = 0 THEN 0 ELSE left[head] + 1
  OBVIOUS
<1>4. \A k \in L : more[k] < more[item]
  BY <1>1, <1>2, <1>3 DEF ListBy
<1> HIDE DEF more
<1>5. 0 \notin M /\ M \subseteq DOMAIN link2
  BY <1>1 DEF ListBy
<1>6. ASSUME NEW j \in M, NEW k \in M, more[j] = more[k] PROVE j = k
  BY <1>1, <1>2, <1>4, <1>6 DEF ListBy
<1>7. item \in M /\ \A k \in M : more[k] <= more[item]
  BY <1>2, <1>4
<1>8. ASSUME NEW k \in M
      PROVE  IF more[k] = 0 THEN link2[k] = 0
             ELSE link2[k] \in M /\ more[link2[k]] = more[k] - 1
  <2>1. CASE k = item
    BY <1>1, <1>2, <1>3, <2>1 DEF ListBy
  <2>2. CASE k \in L
    BY <1>1, <1>2, <2>2 DEF ListBy
  <2> QED BY <2>1, <2>2
<1>9. ASSUME NEW k \in M, k # item PROVE \E j \in M : link2[j] = k
  <2>1. CASE k = head
    BY <2>1
  <2>2. CASE k # head
    BY <1>1, <1>9, <2>2 DEF ListBy
  <2> QED BY <2>1, <2>2
<1>10. ListBy(more, M, item, link2)
  BY <1>2, <1>5, <1>6, <1>7, <1>8, <1>9 DEF ListBy
<1> QED BY <1>2, <1>10 DEF IsList

\* The head is taken.
LEMMA PopKeepsList ==
  ASSUME NEW L, NEW head, NEW link, IsList(L, head, link), head # 0,
         NEW link2, L \ {head} \subseteq DOMAIN link2,
         \A k \in L \ {head} : link2[k] = link[k]
  PROVE  head \in L /\ IsList(L \ {head}, link[head], link2)
<1>1. PICK left \in [L -> Nat] : ListBy(left, L, head, link)
  BY DEF IsList
<1>2. head \in L /\ left[head] \in Nat /\ \A k \in L : left[k] <= left[head] /\ left[k] \in Nat
  BY <1>1 DEF ListBy
<1> DEFINE M == L \ {head}
           next == link[head]
           less == [k \in M |-> left[k]]
<1>3. less \in [M -> Nat] /\ \A k \in M : less[k] = left[k] /\ left[k] < left[head]
  <2>1. \A k \in M : left[k] # left[head]
    BY <1>1, <1>2 DEF ListBy
  <2> QED BY <1>2, <2>1
<1> HIDE DEF less
<1>4. CASE left[head] = 0
  <2>1. M = {} /\ next = 0
    BY <1>1, <1>2, <1>3, <1>4 DEF ListBy
  <2>2. ListBy(less, M, next, link2)
    BY <1>3, <2>1 DEF ListBy
  <2> QED BY <1>2, <1>3, <2>2 DEF IsList
<1>5. CASE left[head] # 0
  <2>1. next \in M /\ left[next] = left[head] - 1
    BY <1>1, <1>2, <1>5 DEF ListBy
  <2>2. \A k \in M : less[k] <= less[next]
    BY <1>2, <1>3, <2>1
  <2>3. 0 \notin M /\ M \subseteq DOMAIN link2 /\ \A j, k \in M : less[j] = less[k] => j = k
    BY <1>1, <1>3 DEF ListBy
  <2>4. ASSUME NEW k \in M
        PROVE  IF less[k] = 0 THEN link2[k] = 0
               ELSE link2[k] \in M /\ less[link2[k]] = less[k] - 1
    <3>1. IF left[k] = 0 THEN link[k] = 0
          ELSE link[k] \in L /\ left[link[k]] = left[k] - 1
      BY <1>1 DEF ListBy
    <3>2. left[k] < left[head] /\ less[k] = left[k] /\ link2[k] = link[k] /\ left[k] \in Nat
      BY <1>2, <1>3
    <3> QED BY <1>2, <1>3, <3>1, <3>2
  <2>5. ASSUME NEW k \in M, k # next PROVE \E j \in M : link2[j] = k
    <3>1. PICK j \in L : link[j] = k
      BY <1>1 DEF ListBy
    <3>2. j \in M
      BY <2>5, <3>1
    <3> QED BY <3>1, <3>2
  <2>6. ListBy(less, M, next, link2)
    BY <1>3, <2>1, <2>2, <2>3, <2>4, <2>5 DEF ListBy
  <2> QED BY <1>2, <1>3, <2>6 DEF IsList
<1> QED BY <1>4, <1>5

\* An element behind the head is taken out.
LEMMA UnlinkKeepsList ==
  ASSUME NEW L, NEW head, NEW link, IsList(L, head, link), NEW item \in L, item # head,
         NEW link2, L \ {item} \subseteq DOMAIN link2,
         \A k \in L \ {item} : link2[k] = IF link[k] = item THEN link[item] ELSE link[k]
  PROVE  IsList(L \ {item}, head, link2)
<1>1. PICK left \in [L -> Nat] : ListBy(left, L, head, link)
  BY DEF IsList
<1>2. /\ head \in L /\ \A k \in L : left[k] <= left[head] /\ left[k] \in Nat
      /\ \A j, k \in L : left[j] = left[k] => j = k
  BY <1>1 DEF ListBy
<1> DEFINE M == L \ {item}
           less == [k \in M |-> IF left[k] > left[item] THEN left[k] - 1 ELSE left[k]]
<1>3. less \in [M -> Nat]
  BY <1>2
<1>4. \A k \in M : less[k] = IF left[k] > left[item] THEN left[k] - 1 ELSE left[k]
  OBVIOUS
<1> HIDE DEF less
<1>5. 0 \notin M /\ M \subseteq DOMAIN link2 /\ head \in M
  BY <1>1, <1>2 DEF ListBy
<1>6. ASSUME NEW j \in M, NEW k \in M, less[j] = less[k] PROVE j = k
  <2>1. left[j] # left[item] /\ left[k] # left[item]
    BY <1>2
  <2>2. left[j] = left[k]
    BY <1>2, <1>4, <1>6, <2>1
  <2> QED BY <1>2, <2>2
<1>7. ASSUME NEW k \in M PROVE less[k] <= less[head]
  <2>1. left[k] <= left[head] /\ left[k] # left[item] /\ left[head] > left[item]
    <3>1. left[head] # left[item] /\ left[item] <= left[head]
      BY <1>2
    <3> QED BY <1>2, <3>1
  <2> QED BY <1>2, <1>4, <1>5, <2>1
<1>8. ASSUME NEW k \in M
      PROVE  IF less[k] = 0 THEN link2[k] = 0
             ELSE link2[k] \in M /\ less[link2[k]] = less[k] - 1
  <2>1. /\ IF left[k] = 0 THEN link[k] = 0
           ELSE link[k] \in L /\ left[link[k]] = left[k] - 1
        /\ IF left[item] = 0 THEN link[item] = 0
           ELSE link[item] \in L /\ left[link[item]] = left[item] - 1
        /\ left[k] \in Nat /\ left[item] \in Nat /\ left[k] # left[item]
    BY <1>1, <1>2 DEF ListBy
  <2>2. less[k] = IF left[k] > left[item] THEN left[k] - 1 ELSE left[k]
    BY <1>4
  <2>3. CASE link[k] = item
    <3>1. left[k] = left[item] + 1 /\ less[k] = left[item] /\ link2[k] = link[item]
      BY <1>1, <2>1, <2>2, <2>3 DEF ListBy
    <3>2. CASE left[item] = 0
      BY <2>1, <3>1, <3>2
    <3>3. CASE left[item] # 0
      <4>1. link[item] \in M /\ left[link[item]] = left[item] - 1
        BY <2>1, <3>3
      <4>2. less[link[item]] = left[item] - 1
        BY <1>4, <2>1, <3>3, <4>1
      <4> QED BY <3>1, <3>3, <4>1, <4>2
    <3> QED BY <3>2, <3>3
  <2>4. CASE link[k] # item
    <3>1. link2[k] = link[k]
      BY <2>4
    <3>2. CASE left[k] = 0
      BY <2>1, <2>2, <3>1, <3>2
    <3>3. CASE left[k] # 0
      <4>1. link[k] \in M /\ left[link[k]] = left[k] - 1 /\ left[link[k]] # left[item]
        BY <1>2, <2>1, <2>4, <3>3
      <4>2. less[link[k]] = IF left[link[k]] > left[item] THEN left[link[k]] - 1
                            ELSE left[link[k]]
        BY <1>4, <4>1
      <4> QED BY <2>1, <2>2, <3>1, <3>3, <4>1, <4>2
    <3> QED BY <3>2, <3>3
  <2> QED BY <2>3, <2>4
<1>9. ASSUME NEW k \in M, k # head PROVE \E j \in M : link2[j] = k
  <2>1. PICK j \in L : link[j] = k
    BY <1>1, <1>9 DEF ListBy
  <2>2. CASE j # item
    BY <2>1, <2>2
  <2>3. CASE j = item
    <3>1. PICK i \in L : link[i] = item
      BY <1>1 DEF ListBy
    <3>2. i # item
      BY <2>1, <2>3, <3>1
    <3>3. link2[i] = k
      BY <2>1, <2>3, <3>1, <3>2
    <3> QED BY <3>2, <3>3
  <2> QED BY <2>2, <2>3
<1>10. ListBy(less, M, head, link2)
  BY <1>3, <1>5, <1>6, <1>7, <1>8, <1>9 DEF ListBy
<1> QED BY <1>3, <1>10 DEF IsList

-----------------------------------------------------------------------------
(* The inductive invariant. *)

Mapped    == {queryMap[v] : v \in queryType}
Spare     == (DOMAIN vectorTable \ {0}) \ Mapped
Asked     == querySet \ queryType
Signalled == {queryMap[v] : v \in querySet \intersect queryType}

\* The number of entries the table has, which the driver remembers in a UCHAR.
Sized(n) ==
  /\ n % Chunk = 0 /\ DOMAIN vectorTable = 0 .. n - 1
  /\ vectorTableSize = IF n = MaxQuery + 1 THEN 0 ELSE n

Owned ==
  /\ \A v \in queryType : /\ queryMap[v] \in DOMAIN vectorTable \ {0}
                          /\ vectorTable[queryMap[v]].vector = v
                          /\ vectorTable[queryMap[v]].handler = connected[v]
  /\ \A v \in Queries : connected[v] # None <=> v \in queryType

SpareList     == IsList(Spare, vectorFree, NextOf(vectorTable))
AskedList     == IsList(Asked, queryHead, queryMap)
SignalledList == IsList(Signalled, vectorHead, NextOf(vectorTable))

ListsKept ==
  /\ \E n \in 0 .. MaxQuery + 1 : Sized(n)
  /\ Owned /\ SpareList /\ AskedList /\ SignalledList

Sends(w) == pc[w] \in {"method", "after"}

Threads ==
  /\ \A w, x \in Workers : Sends(w) /\ Sends(x) => w = x
  /\ \A w \in Workers : pc[w] = "method" => request = None /\ queryState = "dispatch"
  /\ request # None => queryState \in {"dispatch", "waiting"}
  /\ (\E w \in Workers : Sends(w)) <=> queryState \in {"dispatch", "complete"}

IInv ==
  /\ TypeOK /\ Threads
  /\ damage = "none" => ListsKept
  /\ damage # "none" => ~(EntriesAreOwned /\ PendingIsListed)

-----------------------------------------------------------------------------
(* What the lists say of the state. *)

LEMMA MappedApart ==
  ASSUME Owned, NEW v \in queryType, NEW u \in queryType, queryMap[v] = queryMap[u]
  PROVE  v = u
BY DEF Owned

LEMMA MappedInTable ==
  ASSUME TypeOK, Owned
  PROVE  /\ Mapped \subseteq DOMAIN vectorTable \ {0} /\ DOMAIN vectorTable \subseteq Indices
         /\ DOMAIN vectorTable \ {0} \subseteq 1 .. MaxQuery
         /\ Signalled \subseteq Mapped
  <1>1. DOMAIN vectorTable \subseteq Indices /\ MaxQuery \in Nat
    BY SizesAssumption DEF TypeOK
  <1> QED BY <1>1 DEF Owned, Mapped, Signalled, Indices

LEMMA QueriesFinite ==
  /\ IsFiniteSet(Queries) /\ Cardinality(Queries) = MaxQuery
  /\ MaxQuery \in Nat /\ Queries = 1 .. MaxQuery
<1>1. MaxQuery \in Nat
  BY SizesAssumption
<1>2. IsFiniteSet(1 .. MaxQuery)
      /\ Cardinality(1 .. MaxQuery) = IF 1 > MaxQuery THEN 0 ELSE MaxQuery - 1 + 1
  BY <1>1, FS_Interval
<1> QED BY <1>1, <1>2 DEF Queries

\* Every connected number has an entry of its own.
LEMMA MappedCount ==
  ASSUME TypeOK, Owned
  PROVE  IsFiniteSet(Mapped) /\ Cardinality(Mapped) = Cardinality(queryType)
         /\ IsFiniteSet(queryType)
<1> DEFINE f == [v \in queryType |-> queryMap[v]]
<1>1. IsFiniteSet(queryType)
  BY QueriesFinite, FS_Subset DEF TypeOK
<1>2. f \in Bijection(queryType, Mapped)
  <2>1. f \in [queryType -> Mapped]
    BY DEF Mapped
  <2>2. \A a, b \in queryType : f[a] = f[b] => a = b
    BY MappedApart
  <2>3. \A t \in Mapped : \E s \in queryType : f[s] = t
    BY DEF Mapped
  <2> HIDE DEF f
  <2> QED BY <2>1, <2>2, <2>3 DEF Bijection, Injection, Surjection, IsInjective
<1> HIDE DEF f
<1>3. ExistsBijection(queryType, Mapped)
  BY <1>2 DEF ExistsBijection
<1> QED BY <1>1, <1>3, FS_Bijection

LEMMA ListsMatchKept ==
  ASSUME TypeOK, ListsKept
  PROVE  EntriesAreOwned /\ PendingIsListed
<1>1. Owned /\ SpareList /\ AskedList /\ SignalledList
  BY DEF ListsKept
<1>2. /\ Mapped \subseteq DOMAIN vectorTable \ {0}
      /\ DOMAIN vectorTable \ {0} \subseteq 1 .. MaxQuery
      /\ Signalled \subseteq Mapped
  BY <1>1, MappedInTable
<1>3. Spare \subseteq 1 .. MaxQuery /\ Signalled \subseteq 1 .. MaxQuery
      /\ Asked \subseteq 1 .. MaxQuery
  BY <1>2 DEF Spare, Asked, TypeOK, Queries
<1>4. Listed(vectorFree, NextOf(vectorTable)) = Spare
      /\ Ends(vectorFree, NextOf(vectorTable))
  BY <1>1, <1>3, ListIsWalked DEF SpareList
<1>5. Listed(queryHead, queryMap) = Asked /\ Ends(queryHead, queryMap)
  BY <1>1, <1>3, ListIsWalked DEF AskedList
<1>6. Listed(vectorHead, NextOf(vectorTable)) = Signalled
      /\ Ends(vectorHead, NextOf(vectorTable))
  BY <1>1, <1>3, ListIsWalked DEF SignalledList
<1>7. Cardinality(Mapped) = Cardinality(queryType)
  BY <1>1, MappedCount
<1>8. Mapped \intersect Spare = {} /\ Mapped \union Spare = DOMAIN vectorTable \ {0}
  BY <1>2 DEF Spare
<1>9. EntriesAreOwned
  BY <1>1, <1>4, <1>7, <1>8 DEF EntriesAreOwned, Mapped, Owned
<1>10. PendingIsListed
  BY <1>5, <1>6 DEF PendingIsListed, Asked, Signalled
<1> QED BY <1>9, <1>10

LEMMA InitIInv == Init => IInv
<1> SUFFICES ASSUME Init PROVE IInv
  OBVIOUS
<1>1. MaxQuery \in Nat /\ Chunk \in Nat /\ Chunk > 1 /\ MaxReports \in Nat /\ MaxConnects \in Nat
  BY SizesAssumption
<1>2. TypeOK
  <2>1. DOMAIN vectorTable = {}
    BY DEF Init
  <2>2. DOMAIN call = Workers /\ \A w \in Workers : pc[w] = "idle" /\ call[w] = None
    BY DEF Init
  <2>3. /\ querySet = {} /\ queryType = {} /\ queryMap \in [Queries -> Indices]
        /\ {queryHead, vectorHead, vectorFree, vectorTableSize} \subseteq Indices
    BY <1>1 DEF Init, Indices
  <2>4. /\ queryState = "idle" /\ request = None /\ processQuery = FALSE
        /\ pc \in [Workers -> {"idle", "lists", "handler", "method", "after"}]
        /\ connected \in [Queries -> Handlers \union {None}] /\ damage = "none"
    BY DEF Init
  <2>5. reports \in 0 .. MaxReports /\ connects \in 0 .. MaxConnects
    BY <1>1 DEF Init
  <2> QED BY <2>1, <2>2, <2>3, <2>4, <2>5 DEF TypeOK
<1>3. Threads
  BY DEF Init, Threads, Sends
<1>4. ListsKept
  <2>1. DOMAIN vectorTable = {} /\ Mapped = {} /\ Spare = {} /\ Asked = {} /\ Signalled = {}
    BY DEF Init, Mapped, Spare, Asked, Signalled
  <2>2. \A link : IsList({}, 0, link)
    <3> SUFFICES ASSUME NEW link PROVE IsList({}, 0, link)
      OBVIOUS
    <3>1. ListBy([k \in {} |-> 0], {}, 0, link)
      BY DEF ListBy
    <3> QED BY <3>1 DEF IsList
  <2>3. Sized(0) /\ 0 \in 0 .. MaxQuery + 1
    <3>1. 0 % Chunk = 0 /\ 0 # MaxQuery + 1 /\ 0 .. 0 - 1 = {} /\ 0 \in 0 .. MaxQuery + 1
      BY <1>1
    <3>2. vectorTableSize = 0
      BY DEF Init
    <3> QED BY <2>1, <3>1, <3>2 DEF Sized
  <2>4. Owned
    BY DEF Owned, Init
  <2>5. SpareList /\ AskedList /\ SignalledList
    BY <2>1, <2>2 DEF Init, SpareList, AskedList, SignalledList
  <2> QED BY <2>3, <2>4, <2>5 DEF ListsKept
<1> QED BY <1>2, <1>3, <1>4 DEF IInv, Init

-----------------------------------------------------------------------------
(* Sizes of the table. *)

\* A table that is not full has room for another chunk.
LEMMA RoomForChunk ==
  ASSUME NEW n \in Nat, NEW m \in Nat, NEW c \in Nat, c > 1, n % c = 0, m % c = 0, n < m
  PROVE  n + c <= m /\ (n + c) % c = 0
<1>1. n = c * (n \div c) + (n % c) /\ m = c * (m \div c) + (m % c)
      /\ n \div c \in Int /\ m \div c \in Int
  OBVIOUS
<1>2. PICK a, b \in Int : n = c * a /\ m = c * b
  BY <1>1
<1>3. a < b
  BY <1>2
<1>4. c * (a + 1) <= c * b
  BY <1>3
<1>5. (n + c) = c * (a + 1)
  BY <1>2
<1>6. (c * (a + 1)) % c = 0
  OBVIOUS
<1> QED BY <1>2, <1>4, <1>5, <1>6

LEMMA SmallRemainder ==
  ASSUME NEW n \in Nat, NEW m \in Nat, 0 < m, n <= m
  PROVE  n % m = IF n = m THEN 0 ELSE n
OBVIOUS

-----------------------------------------------------------------------------
(* The lists through the steps of the service loop and of the dispatchers. *)

LEMMA KeptUnchanged ==
  ASSUME ListsKept, UNCHANGED <<lists, connected>>
  PROVE  ListsKept'
BY DEF ListsKept, Sized, Owned, SpareList, AskedList, SignalledList, Spare, Asked, Signalled,
       Mapped, NextOf, lists

LEMMA KeptReportVector ==
  ASSUME TypeOK, ListsKept, NEW q \in Queries, ReportVector(q), connected' = connected
  PROVE  ListsKept'
<1> DEFINE i == queryMap[q]
           link == NextOf(vectorTable)
<1>1. /\ Owned /\ SpareList /\ AskedList /\ SignalledList
      /\ q \notin querySet /\ q \in queryType /\ querySet' = querySet \union {q}
      /\ vectorTable' = [vectorTable EXCEPT ![i].next = vectorHead]
      /\ vectorHead' = i
      /\ UNCHANGED <<queryType, queryMap, queryHead, vectorFree, vectorTableSize>>
  BY DEF ListsKept, ReportVector
<1>2. /\ Mapped \subseteq DOMAIN vectorTable \ {0}
      /\ Signalled \subseteq Mapped /\ i \in Mapped
  BY <1>1, MappedInTable DEF Mapped
<1>3. i \notin Signalled
  BY <1>1, MappedApart DEF Signalled
<1>4. Mapped' = Mapped /\ Signalled' = Signalled \union {i} /\ Asked' = Asked
  BY <1>1 DEF Mapped, Signalled, Asked
<1>5. /\ DOMAIN vectorTable' = DOMAIN vectorTable
      /\ \A k \in DOMAIN vectorTable : k # i => vectorTable'[k] = vectorTable[k]
      /\ vectorTable'[i].next = vectorHead
      /\ \A k \in DOMAIN vectorTable : vectorTable'[k].vector = vectorTable[k].vector
                                       /\ vectorTable'[k].handler = vectorTable[k].handler
  <2>1. \A k \in DOMAIN vectorTable : vectorTable[k] \in Entries
    BY DEF TypeOK
  <2> QED BY <1>1, <1>2, <2>1 DEF Entries
<1>6. /\ DOMAIN link = DOMAIN vectorTable /\ DOMAIN link' = DOMAIN vectorTable
      /\ \A k \in DOMAIN vectorTable : k # i => link'[k] = link[k]
      /\ link'[i] = vectorHead
  BY <1>2, <1>5 DEF NextOf
<1> HIDE DEF link, i
<1>7. SpareList'
  <2>1. IsList(Spare, vectorFree, link) /\ Spare' = Spare /\ Spare \subseteq DOMAIN link'
        /\ \A k \in Spare : link'[k] = link[k]
    BY <1>1, <1>2, <1>4, <1>5, <1>6 DEF SpareList, Spare, link
  <2>2. IsList(Spare, vectorFree, link')
    BY <2>1, SameList
  <2> QED BY <1>1, <2>1, <2>2 DEF SpareList, link
<1>8. SignalledList'
  <2>1. IsList(Signalled, vectorHead, link)
    BY <1>1 DEF SignalledList, link
  <2>2. /\ i # 0 /\ Signalled \union {i} \subseteq DOMAIN link'
        /\ \A k \in Signalled : link'[k] = link[k]
    BY <1>2, <1>3, <1>6
  <2>3. IsList(Signalled \union {i}, i, link')
    BY <1>3, <1>6, <2>1, <2>2, PushKeepsList
  <2> QED BY <1>1, <1>4, <2>3 DEF SignalledList, link
<1>9. AskedList'
  BY <1>1, <1>4 DEF AskedList
<1>10. Owned'
  BY <1>1, <1>5 DEF Owned
<1>11. \E n \in 0 .. MaxQuery + 1 : Sized(n)'
  BY <1>1, <1>5 DEF ListsKept, Sized
<1> QED BY <1>7, <1>8, <1>9, <1>10, <1>11 DEF ListsKept

LEMMA KeptReportQuery ==
  ASSUME TypeOK, ListsKept, NEW q \in Queries, ReportQuery(q), connected' = connected
  PROVE  ListsKept'
<1>1. /\ Owned /\ SpareList /\ AskedList /\ SignalledList
      /\ q \notin querySet /\ q \notin queryType /\ querySet' = querySet \union {q}
      /\ queryMap' = [queryMap EXCEPT ![q] = queryHead] /\ queryHead' = q
      /\ UNCHANGED <<queryType, vectorHead, vectorFree, vectorTable, vectorTableSize>>
  BY DEF ListsKept, ReportQuery
<1>2. /\ queryMap \in [Queries -> Indices] /\ querySet \subseteq Queries
      /\ queryType \subseteq Queries /\ q # 0
  BY SizesAssumption DEF TypeOK, Queries
<1>3. DOMAIN queryMap' = Queries /\ \A v \in Queries : v # q => queryMap'[v] = queryMap[v]
  BY <1>1, <1>2
<1>4. Mapped' = Mapped /\ Signalled' = Signalled /\ Asked' = Asked \union {q}
  BY <1>1, <1>2, <1>3 DEF Mapped, Signalled, Asked
<1>5. AskedList'
  <2>1. IsList(Asked, queryHead, queryMap) /\ q \notin Asked
    BY <1>1 DEF AskedList, Asked
  <2>2. /\ Asked \union {q} \subseteq DOMAIN queryMap' /\ queryMap'[q] = queryHead
        /\ \A k \in Asked : queryMap'[k] = queryMap[k]
    BY <1>1, <1>2, <1>3 DEF Asked
  <2>3. IsList(Asked \union {q}, q, queryMap')
    BY <1>2, <2>1, <2>2, PushKeepsList
  <2> QED BY <1>1, <1>4, <2>3 DEF AskedList
<1>6. SpareList' /\ SignalledList'
  BY <1>1, <1>4 DEF SpareList, SignalledList, Spare, NextOf
<1>7. Owned'
  BY <1>1, <1>2, <1>3 DEF Owned
<1>8. \E n \in 0 .. MaxQuery + 1 : Sized(n)'
  BY <1>1 DEF ListsKept, Sized
<1> QED BY <1>5, <1>6, <1>7, <1>8 DEF ListsKept

\* The entry at the head of the pending vectors is the one of a pending vector.
LEMMA HeadIsSignalled ==
  ASSUME TypeOK, ListsKept, vectorHead # 0
  PROVE  \E v \in querySet \intersect queryType :
           /\ vectorHead = queryMap[v] /\ vectorHead \in DOMAIN vectorTable
           /\ vectorTable[vectorHead].vector = v
           /\ vectorTable[vectorHead].handler = connected[v]
           /\ connected[v] # None
<1>1. vectorHead \in Signalled
  BY ListHead DEF ListsKept, SignalledList
<1> QED BY <1>1 DEF Signalled, ListsKept, Owned, TypeOK

LEMMA KeptTakeVector ==
  ASSUME TypeOK, ListsKept, NEW w \in Workers, TakeVector(w)
  PROVE  ListsKept'
<1> DEFINE link == NextOf(vectorTable)
<1>1. /\ Owned /\ SpareList /\ AskedList /\ SignalledList /\ vectorHead # 0
      /\ querySet' = querySet \ {vectorTable[vectorHead].vector}
      /\ vectorHead' = vectorTable[vectorHead].next
      /\ UNCHANGED <<queryType, queryMap, queryHead, vectorFree, vectorTable, vectorTableSize,
                     connected>>
  BY DEF ListsKept, TakeVector
<1>2. PICK v \in querySet \intersect queryType :
        /\ vectorHead = queryMap[v] /\ vectorHead \in DOMAIN vectorTable
        /\ vectorTable[vectorHead].vector = v
  BY <1>1, HeadIsSignalled
<1>3. Signalled' = Signalled \ {vectorHead}
  BY <1>1, <1>2, MappedApart DEF Signalled
<1>4. Mapped' = Mapped /\ Asked' = Asked
  BY <1>1, <1>2 DEF Mapped, Asked
<1>5. SignalledList'
  <2>1. link' = link /\ vectorHead' = link[vectorHead]
    BY <1>1, <1>2 DEF NextOf
  <2>2. IsList(Signalled, vectorHead, link) /\ Signalled \subseteq DOMAIN link
    BY <1>1, ListHead DEF SignalledList
  <2> HIDE DEF link
  <2>3. Signalled \ {vectorHead} \subseteq DOMAIN link
        /\ \A k \in Signalled \ {vectorHead} : link[k] = link[k]
    BY <2>2
  <2>4. IsList(Signalled \ {vectorHead}, link[vectorHead], link)
    BY <1>1, <2>2, <2>3, PopKeepsList
  <2> QED BY <1>3, <2>1, <2>4 DEF SignalledList, link
<1>6. SpareList' /\ AskedList'
  BY <1>1, <1>4 DEF SpareList, AskedList, Spare, NextOf
<1>7. Owned'
  BY <1>1 DEF Owned
<1>8. \E n \in 0 .. MaxQuery + 1 : Sized(n)'
  BY <1>1 DEF ListsKept, Sized
<1> QED BY <1>5, <1>6, <1>7, <1>8 DEF ListsKept

LEMMA KeptNextQuery ==
  ASSUME TypeOK, ListsKept, NEW w \in Workers, NextQuery(w), connected' = connected
  PROVE  ListsKept'
<1>1. CASE queryHead = 0
  BY <1>1, KeptUnchanged DEF NextQuery, lists
<1>2. CASE queryHead # 0
  <2>1. /\ Owned /\ SpareList /\ AskedList /\ SignalledList
        /\ querySet' = querySet \ {queryHead} /\ queryHead' = queryMap[queryHead]
        /\ UNCHANGED <<queryType, queryMap, vectorHead, vectorFree, vectorTable, vectorTableSize>>
    BY <1>2 DEF ListsKept, NextQuery
  <2>2. IsList(Asked, queryHead, queryMap) /\ Asked \subseteq DOMAIN queryMap
    BY <2>1, ListHead DEF AskedList
  <2>3. \A k \in Asked \ {queryHead} : queryMap[k] = queryMap[k]
    OBVIOUS
  <2>4. queryHead \in Asked /\ IsList(Asked \ {queryHead}, queryMap[queryHead], queryMap)
    BY <1>2, <2>2, <2>3, PopKeepsList
  <2>5. Mapped' = Mapped /\ Asked' = Asked \ {queryHead} /\ Signalled' = Signalled
    BY <2>1, <2>4 DEF Mapped, Asked, Signalled
  <2>6. AskedList'
    BY <2>1, <2>4, <2>5 DEF AskedList
  <2>7. SpareList' /\ SignalledList'
    BY <2>1, <2>5 DEF SpareList, SignalledList, Spare, NextOf
  <2>8. Owned'
    BY <2>1 DEF Owned
  <2>9. \E n \in 0 .. MaxQuery + 1 : Sized(n)'
    BY <2>1 DEF ListsKept, Sized
  <2> QED BY <2>6, <2>7, <2>8, <2>9 DEF ListsKept
<1> QED BY <1>1, <1>2

-----------------------------------------------------------------------------
(* Disconnection. *)

LEMMA Unlinked ==
  ASSUME NEW L \in SUBSET (1 .. MaxQuery), NEW head, NEW link, IsList(L, head, link), NEW item
  PROVE  /\ DOMAIN Unlink(item, head, link) = DOMAIN link
         /\ \A k \in DOMAIN link : Unlink(item, head, link)[k] =
              IF k \in L /\ link[k] = item THEN link[item] ELSE link[k]
<1>1. Listed(head, link) = L
  BY ListIsWalked
<1> QED BY <1>1 DEF Unlink

\* The sets whose members are listed are numbers and indices.
LEMMA ListedSets ==
  ASSUME TypeOK, Owned
  PROVE  /\ Spare \in SUBSET (1 .. MaxQuery) /\ Signalled \in SUBSET (1 .. MaxQuery)
         /\ Asked \in SUBSET (1 .. MaxQuery)
BY MappedInTable DEF Spare, Signalled, Asked, TypeOK, Queries

\* The links a disconnection leaves.
LEMMA DisconnectLinks ==
  ASSUME TypeOK, ListsKept, NEW v \in queryType, Disconnect(v)
  PROVE  /\ DOMAIN vectorTable' = DOMAIN vectorTable
         /\ queryMap[v] \in DOMAIN vectorTable \ {0} /\ vectorTable'[queryMap[v]].next = vectorFree
         /\ \A k \in DOMAIN vectorTable :
              k # queryMap[v] =>
                vectorTable'[k].next = IF v \in querySet /\ k \in Signalled
                                          /\ vectorTable[k].next = queryMap[v]
                                       THEN vectorTable[queryMap[v]].next
                                       ELSE vectorTable[k].next
         /\ \A k \in DOMAIN vectorTable : vectorTable'[k].vector = vectorTable[k].vector
                                          /\ vectorTable'[k].handler = vectorTable[k].handler
<1> DEFINE i == queryMap[v]
           link == NextOf(vectorTable)
<1>1. vectorTable' = [k \in DOMAIN vectorTable |->
       [vectorTable[k] EXCEPT !.next = IF k = i THEN vectorFree ELSE DropPending(v)[k]]]
  BY DEF Disconnect
<1>2. \A k \in DOMAIN vectorTable : vectorTable[k] \in Entries
  BY DEF TypeOK
<1>3. /\ DOMAIN vectorTable' = DOMAIN vectorTable
      /\ \A k \in DOMAIN vectorTable :
           /\ vectorTable'[k].next = IF k = i THEN vectorFree ELSE DropPending(v)[k]
           /\ vectorTable'[k].vector = vectorTable[k].vector
           /\ vectorTable'[k].handler = vectorTable[k].handler
  BY <1>1, <1>2 DEF Entries
<1>4. Owned /\ i \in DOMAIN vectorTable \ {0}
  BY DEF ListsKept, Owned
<1>5. Signalled \in SUBSET (1 .. MaxQuery) /\ IsList(Signalled, vectorHead, link)
  BY <1>4, ListedSets DEF ListsKept, SignalledList
<1>6. DOMAIN link = DOMAIN vectorTable /\ \A k \in DOMAIN vectorTable : link[k] = vectorTable[k].next
  BY DEF NextOf
<1>7. DropPending(v) = IF v \in querySet THEN Unlink(i, vectorHead, link) ELSE link
  BY DEF DropPending
<1> HIDE DEF link, i
<1>8. \A k \in DOMAIN vectorTable :
        Unlink(i, vectorHead, link)[k] =
          IF k \in Signalled /\ link[k] = i THEN link[i] ELSE link[k]
  <2>1. \A k \in DOMAIN link :
          Unlink(i, vectorHead, link)[k] =
            IF k \in Signalled /\ link[k] = i THEN link[i] ELSE link[k]
    BY <1>5, Unlinked
  <2> QED BY <1>6, <2>1
<1>9. ASSUME NEW k \in DOMAIN vectorTable, k # i
      PROVE  vectorTable'[k].next = IF v \in querySet /\ k \in Signalled
                                       /\ vectorTable[k].next = i
                                    THEN vectorTable[i].next ELSE vectorTable[k].next
  <2>1. /\ vectorTable'[k].next = DropPending(v)[k]
        /\ link[k] = vectorTable[k].next /\ link[i] = vectorTable[i].next
    BY <1>3, <1>4, <1>6, <1>9
  <2>2. CASE v \in querySet
    BY <1>7, <1>8, <2>1, <2>2
  <2>3. CASE v \notin querySet
    BY <1>7, <2>1, <2>3
  <2> QED BY <2>2, <2>3
<1>10. vectorTable'[i].next = vectorFree
  BY <1>3, <1>4
<1> QED BY <1>3, <1>4, <1>9, <1>10 DEF i

LEMMA KeptDisconnect ==
  ASSUME TypeOK, ListsKept, NEW v \in queryType, Disconnect(v),
         ~(v \in querySet /\ vectorHead = queryMap[v])
  PROVE  ListsKept'
<1> DEFINE i == queryMap[v]
           link == NextOf(vectorTable)
<1>1. /\ Owned /\ SpareList /\ AskedList /\ SignalledList
      /\ queryType' = queryType \ {v} /\ querySet' = querySet \ {v}
      /\ vectorFree' = i /\ connected' = [connected EXCEPT ![v] = None]
      /\ UNCHANGED <<queryMap, queryHead, vectorHead, vectorTableSize>>
  BY DEF ListsKept, Disconnect
<1>2. /\ DOMAIN link = DOMAIN vectorTable /\ DOMAIN link' = DOMAIN vectorTable
      /\ DOMAIN vectorTable' = DOMAIN vectorTable
      /\ i \in DOMAIN vectorTable \ {0} /\ link'[i] = vectorFree
      /\ \A k \in DOMAIN vectorTable :
           k # i => link'[k] = IF v \in querySet /\ k \in Signalled /\ link[k] = i
                               THEN link[i] ELSE link[k]
      /\ \A k \in DOMAIN vectorTable : vectorTable'[k].vector = vectorTable[k].vector
                                       /\ vectorTable'[k].handler = vectorTable[k].handler
  BY DisconnectLinks DEF NextOf
<1>3. /\ Mapped \subseteq DOMAIN vectorTable \ {0} /\ Signalled \subseteq Mapped /\ i \in Mapped
      /\ i \in Signalled <=> v \in querySet
  <2>1. i \in Signalled <=> v \in querySet
    BY <1>1, MappedApart DEF Signalled
  <2> QED BY <1>1, <2>1, MappedInTable DEF Mapped
<1>4. /\ Mapped' = Mapped \ {i} /\ Signalled' = Signalled \ {i} /\ Asked' = Asked
      /\ Spare' = Spare \union {i}
  <2>1. Mapped' = Mapped \ {i}
    BY <1>1, MappedApart DEF Mapped
  <2>2. Signalled' = Signalled \ {i}
    BY <1>1, MappedApart DEF Signalled
  <2>3. Asked' = Asked
    BY <1>1 DEF Asked
  <2> QED BY <1>2, <1>3, <2>1, <2>2, <2>3 DEF Spare
<1> HIDE DEF link
<1>5. SpareList'
  <2>1. IsList(Spare, vectorFree, link) /\ i \notin Spare /\ i # 0
    BY <1>1, <1>2, <1>3 DEF SpareList, Spare, link
  <2>2. /\ Spare \union {i} \subseteq DOMAIN link'
        /\ \A k \in Spare : link'[k] = link[k]
    BY <1>2, <1>3 DEF Spare
  <2> HIDE DEF i
  <2>3. IsList(Spare \union {i}, i, link')
    BY <1>2, <2>1, <2>2, PushKeepsList
  <2> QED BY <1>1, <1>4, <2>3 DEF SpareList, link
<1>6. SignalledList'
  <2>1. IsList(Signalled, vectorHead, link)
    BY <1>1 DEF SignalledList, link
  <2>2. CASE v \in querySet
    <3>1. i \in Signalled /\ i # vectorHead
      BY <1>3, <2>2
    <3>2. /\ Signalled \ {i} \subseteq DOMAIN link'
          /\ \A k \in Signalled \ {i} : link'[k] = IF link[k] = i THEN link[i] ELSE link[k]
      BY <1>2, <1>3, <2>2
    <3> HIDE DEF i
    <3>3. IsList(Signalled \ {i}, vectorHead, link')
      BY <2>1, <3>1, <3>2, UnlinkKeepsList
    <3> QED BY <1>1, <1>4, <3>3 DEF SignalledList, link
  <2>3. CASE v \notin querySet
    <3>1. /\ Signalled \subseteq DOMAIN link' /\ \A k \in Signalled : link'[k] = link[k]
          /\ Signalled \ {i} = Signalled
      BY <1>2, <1>3, <2>3
    <3>2. IsList(Signalled, vectorHead, link')
      BY <2>1, <3>1, SameList
    <3> QED BY <1>1, <1>4, <3>1, <3>2 DEF SignalledList, link
  <2> QED BY <2>2, <2>3
<1>7. AskedList'
  BY <1>1, <1>4 DEF AskedList
<1>8. Owned'
  <2>1. connected \in [Queries -> Handlers \union {None}] /\ queryType \subseteq Queries
    BY DEF TypeOK
  <2>2. \A u \in Queries : connected'[u] = IF u = v THEN None ELSE connected[u]
    BY <1>1, <2>1
  <2>3. ASSUME NEW u \in queryType'
        PROVE  /\ queryMap'[u] \in DOMAIN vectorTable' \ {0}
               /\ vectorTable'[queryMap'[u]].vector = u
               /\ vectorTable'[queryMap'[u]].handler = connected'[u]
    <3>1. u \in queryType /\ u # v /\ u \in Queries
      BY <1>1, <2>1
    <3>2. /\ queryMap[u] \in DOMAIN vectorTable \ {0} /\ vectorTable[queryMap[u]].vector = u
          /\ vectorTable[queryMap[u]].handler = connected[u]
      BY <1>1, <3>1 DEF Owned
    <3> QED BY <1>1, <1>2, <2>2, <3>1, <3>2
  <2>4. ASSUME NEW u \in Queries PROVE connected'[u] # None <=> u \in queryType'
    BY <1>1, <2>2 DEF Owned
  <2> QED BY <2>3, <2>4 DEF Owned
<1>9. \E n \in 0 .. MaxQuery + 1 : Sized(n)'
  BY <1>1, <1>2 DEF ListsKept, Sized
<1> QED BY <1>5, <1>6, <1>7, <1>8, <1>9 DEF ListsKept

-----------------------------------------------------------------------------
(* Connection: the query list. *)

LEMMA ForgetMap ==
  ASSUME TypeOK, ListsKept, NEW v \in Queries, v \notin queryType, NEW index,
         ForgetQuery(v, index)
  PROVE  /\ DOMAIN queryMap' = Queries /\ queryMap'[v] = index
         /\ \A u \in Queries \ {v} :
              queryMap'[u] = IF queryMap[v] # 0 /\ u \in Asked /\ queryMap[u] = v
                             THEN queryMap[v] ELSE queryMap[u]
         /\ querySet' = IF queryMap[v] = 0 THEN querySet ELSE querySet \ {v}
<1>1. /\ Owned /\ IsList(Asked, queryHead, queryMap)
      /\ queryMap \in [Queries -> Indices]
  BY DEF ListsKept, AskedList, TypeOK
<1>2. Asked \in SUBSET (1 .. MaxQuery)
  BY <1>1, ListedSets
<1>3. /\ DOMAIN Unlink(v, queryHead, queryMap) = DOMAIN queryMap
      /\ \A k \in DOMAIN queryMap :
           Unlink(v, queryHead, queryMap)[k] =
             IF k \in Asked /\ queryMap[k] = v THEN queryMap[v] ELSE queryMap[k]
  BY <1>1, <1>2, Unlinked
<1>5. CASE queryMap[v] # 0
  <2>1. queryMap' = [Unlink(v, queryHead, queryMap) EXCEPT ![v] = index]
        /\ querySet' = querySet \ {v}
    BY <1>5 DEF ForgetQuery
  <2>2. DOMAIN queryMap = Queries
    BY <1>1
  <2> QED BY <1>3, <1>5, <2>1, <2>2
<1>6. CASE queryMap[v] = 0
  <2>1. queryMap' = [queryMap EXCEPT ![v] = index] /\ querySet' = querySet
    BY <1>6 DEF ForgetQuery
  <2>2. DOMAIN queryMap' = Queries /\ queryMap'[v] = index
        /\ \A u \in Queries \ {v} : queryMap'[u] = queryMap[u]
    BY <1>1, <2>1
  <2> QED BY <1>6, <2>1, <2>2
<1> QED BY <1>5, <1>6

LEMMA KeptForgetQuery ==
  ASSUME TypeOK, ListsKept, NEW v \in Queries, v \notin queryType, NEW index,
         ForgetQuery(v, index), ~StaysListed(v),
         queryType' = queryType \union {v}, queryHead' = queryHead
  PROVE  /\ AskedList' /\ queryMap'[v] = index /\ v \notin querySet'
         /\ \A u \in queryType : queryMap'[u] = queryMap[u]
         /\ querySet' \intersect queryType' = querySet \intersect queryType
<1>1. /\ DOMAIN queryMap' = Queries /\ queryMap'[v] = index
      /\ \A u \in Queries \ {v} :
           queryMap'[u] = IF queryMap[v] # 0 /\ u \in Asked /\ queryMap[u] = v
                          THEN queryMap[v] ELSE queryMap[u]
      /\ querySet' = IF queryMap[v] = 0 THEN querySet ELSE querySet \ {v}
  BY ForgetMap
<1>2. IsList(Asked, queryHead, queryMap) /\ Asked \subseteq Queries /\ queryType \subseteq Queries
      /\ v # 0
  BY SizesAssumption DEF ListsKept, AskedList, TypeOK, Asked, Queries
<1>3. querySet' = querySet \ {v} /\ (v \in querySet => v # queryHead /\ queryMap[v] # 0)
  BY <1>1 DEF StaysListed
<1>4. Asked' = Asked \ {v}
  BY <1>3 DEF Asked
<1>5. AskedList'
  <2>1. CASE v \in querySet
    <3>1. v \in Asked /\ v # queryHead
      BY <1>3, <2>1 DEF Asked
    <3>2. /\ Asked \ {v} \subseteq DOMAIN queryMap'
          /\ \A k \in Asked \ {v} : queryMap'[k] = IF queryMap[k] = v THEN queryMap[v]
                                                   ELSE queryMap[k]
      BY <1>1, <1>2, <1>3, <2>1
    <3>3. IsList(Asked \ {v}, queryHead, queryMap')
      BY <1>2, <3>1, <3>2, UnlinkKeepsList
    <3> QED BY <1>4, <3>3 DEF AskedList
  <2>2. CASE v \notin querySet
    <3>1. v \notin Asked /\ Asked \ {v} = Asked
      BY <2>2 DEF Asked
    <3>2. \A k \in Asked : queryMap[k] \in Asked \union {0}
      BY <1>2, ListHead
    <3>3. Asked \subseteq DOMAIN queryMap' /\ \A k \in Asked : queryMap'[k] = queryMap[k]
      BY <1>1, <1>2, <3>1, <3>2
    <3>4. IsList(Asked, queryHead, queryMap')
      BY <1>2, <3>3, SameList
    <3> QED BY <1>4, <3>1, <3>4 DEF AskedList
  <2> QED BY <2>1, <2>2
<1>6. \A u \in queryType : queryMap'[u] = queryMap[u]
  BY <1>1, <1>2 DEF Asked
<1> QED BY <1>1, <1>3, <1>5, <1>6

-----------------------------------------------------------------------------
(* Connection: the entry. *)

\* With no spare entry and a number still to connect the table is not full.
LEMMA TableNotFull ==
  ASSUME TypeOK, ListsKept, NEW v \in Queries, v \notin queryType, vectorFree = 0
  PROVE  \E n \in 0 .. MaxQuery + 1 : /\ Sized(n) /\ n < MaxQuery + 1
                                      /\ Mapped = DOMAIN vectorTable \ {0}
<1>1. PICK n \in 0 .. MaxQuery + 1 : Sized(n)
  BY DEF ListsKept
<1>2. Owned /\ Spare = {}
  BY ListHead DEF ListsKept, SpareList
<1>3. Mapped = DOMAIN vectorTable \ {0}
  BY <1>2, MappedInTable DEF Spare
<1>4. ASSUME n = MaxQuery + 1 PROVE FALSE
  <2>1. Mapped = 1 .. MaxQuery
    BY <1>1, <1>3, <1>4, QueriesFinite DEF Sized
  <2>2. Cardinality(queryType) = Cardinality(Queries) /\ IsFiniteSet(Queries)
        /\ queryType \subseteq Queries
    BY <1>2, <2>1, MappedCount, QueriesFinite DEF TypeOK
  <2>3. queryType = Queries
    BY <2>2, FS_Subset
  <2> QED BY <2>3
<1>5. n < MaxQuery + 1
  BY <1>1, <1>4, QueriesFinite
<1> QED BY <1>1, <1>3, <1>5

\* What a connection does to the table, and the entry it takes.
Takes(v, h, index) ==
  /\ index \in (1 .. MaxQuery) \ Mapped
  /\ DOMAIN vectorTable \union {index} \subseteq DOMAIN vectorTable'
  /\ DOMAIN vectorTable' \subseteq Indices
  /\ vectorTable'[index] = [next |-> 0, vector |-> v, handler |-> h]
  /\ \A k \in DOMAIN vectorTable \ {index} : vectorTable'[k] = vectorTable[k]
  /\ \A k \in DOMAIN vectorTable' : vectorTable'[k] \in Entries
  /\ vectorFree' \in Indices
  /\ \E n \in 0 .. MaxQuery + 1 : Sized(n)'
  /\ IsList((DOMAIN vectorTable' \ {0}) \ (Mapped \union {index}), vectorFree',
            NextOf(vectorTable'))
  /\ ForgetQuery(v, index)

LEMMA TakesSpare ==
  ASSUME TypeOK, ListsKept, NEW v \in Queries, NEW h \in Handlers, Connect(v, h), vectorFree # 0
  PROVE  Takes(v, h, vectorFree)
<1> DEFINE link == NextOf(vectorTable)
<1>1. /\ vectorFree' = vectorTable[vectorFree].next
      /\ vectorTable' = [vectorTable EXCEPT ![vectorFree] = [next |-> 0, vector |-> v, handler |-> h]]
      /\ ForgetQuery(v, vectorFree) /\ vectorTableSize' = vectorTableSize
  BY DEF Connect
<1>2. /\ Owned /\ IsList(Spare, vectorFree, link)
      /\ \A k \in DOMAIN vectorTable : vectorTable[k] \in Entries
      /\ DOMAIN vectorTable \subseteq Indices
  BY DEF ListsKept, SpareList, TypeOK
<1>3. vectorFree \in Spare /\ Spare \in SUBSET (1 .. MaxQuery)
  BY <1>2, ListHead, ListedSets
<1>4. vectorFree \in DOMAIN vectorTable /\ vectorFree \in (1 .. MaxQuery) \ Mapped
  BY <1>3 DEF Spare
<1>5. /\ DOMAIN vectorTable' = DOMAIN vectorTable
      /\ vectorTable'[vectorFree] = [next |-> 0, vector |-> v, handler |-> h]
      /\ \A k \in DOMAIN vectorTable \ {vectorFree} : vectorTable'[k] = vectorTable[k]
  BY <1>1, <1>4
<1>6. [next |-> 0, vector |-> v, handler |-> h] \in Entries
  BY SizesAssumption DEF Entries, Indices
<1>7. \A k \in DOMAIN vectorTable' : vectorTable'[k] \in Entries
  BY <1>2, <1>5, <1>6
<1>8. vectorFree' \in Indices
  BY <1>1, <1>2, <1>4 DEF Entries
<1>9. \E n \in 0 .. MaxQuery + 1 : Sized(n)'
  BY <1>1, <1>5 DEF ListsKept, Sized
<1>10. /\ DOMAIN link' = DOMAIN vectorTable /\ link[vectorFree] = vectorFree'
       /\ \A k \in Spare \ {vectorFree} : link'[k] = link[k]
  BY <1>1, <1>4, <1>5 DEF NextOf, Spare
<1>11. (DOMAIN vectorTable' \ {0}) \ (Mapped \union {vectorFree}) = Spare \ {vectorFree}
  BY <1>5 DEF Spare
<1> HIDE DEF link
<1>12. Spare \ {vectorFree} \subseteq DOMAIN link'
  BY <1>10 DEF Spare
<1>13. IsList(Spare \ {vectorFree}, link[vectorFree], link')
  BY <1>2, <1>10, <1>12, PopKeepsList
<1> QED BY <1>1, <1>2, <1>4, <1>5, <1>7, <1>8, <1>9, <1>10, <1>11, <1>13 DEF Takes, link

LEMMA TakesGrown ==
  ASSUME TypeOK, ListsKept, NEW v \in Queries, NEW h \in Handlers, Connect(v, h), vectorFree = 0
  PROVE  Takes(v, h, vectorTableSize + Chunk - 1)
<1>1. PICK n \in 0 .. MaxQuery + 1 : /\ Sized(n) /\ n < MaxQuery + 1
                                     /\ Mapped = DOMAIN vectorTable \ {0}
  BY TableNotFull DEF Connect
<1> DEFINE m == n + Chunk
           index == m - 1
<1>2. /\ n \in Nat /\ Chunk \in Nat /\ Chunk > 1 /\ MaxQuery \in Nat
      /\ n % Chunk = 0 /\ (MaxQuery + 1) % Chunk = 0
      /\ DOMAIN vectorTable = 0 .. n - 1 /\ vectorTableSize = n
  BY <1>1, SizesAssumption DEF Sized
<1>3. m <= MaxQuery + 1 /\ m % Chunk = 0
  <2>1. MaxQuery + 1 \in Nat
    BY <1>2
  <2>2. n + Chunk <= MaxQuery + 1 /\ (n + Chunk) % Chunk = 0
    BY <1>1, <1>2, <2>1, RoomForChunk
  <2> QED BY <2>2
<1>4. m \in 0 .. MaxQuery + 1 /\ index \in 1 .. MaxQuery /\ index > n - 1 /\ index # n /\ m \in Nat
      /\ index \in Nat /\ m - 1 = index
  BY <1>2, <1>3
<1>5. m % (MaxQuery + 1) = IF m = MaxQuery + 1 THEN 0 ELSE m
  BY <1>2, <1>3, <1>4, SmallRemainder
<1>6. /\ Grown = [k \in 0 .. index |-> IF k < n THEN vectorTable[k]
                   ELSE [next |-> IF k = n THEN 0 ELSE k - 1, vector |-> None, handler |-> None]]
      /\ vectorTableSize' = m % (MaxQuery + 1)
      /\ vectorFree' = Grown[index].next
      /\ vectorTable' = [Grown EXCEPT ![index] = [next |-> 0, vector |-> v, handler |-> h]]
      /\ ForgetQuery(v, index)
  <2>1. Grown = [k \in 0 .. index |-> IF k < n THEN vectorTable[k]
                   ELSE [next |-> IF k = n THEN 0 ELSE k - 1, vector |-> None, handler |-> None]]
    BY <1>2 DEF Grown
  <2> DEFINE i == vectorTableSize + Chunk - 1
  <2>2. /\ vectorTableSize' = (vectorTableSize + Chunk) % (MaxQuery + 1)
        /\ vectorFree' = Grown[i].next
        /\ vectorTable' = [Grown EXCEPT ![i] = [next |-> 0, vector |-> v, handler |-> h]]
        /\ ForgetQuery(v, i)
    BY DEF Connect
  <2>3. vectorTableSize = n /\ i = index
    BY <1>2
  <2> HIDE DEF i, index, m
  <2>4. vectorTableSize' = m % (MaxQuery + 1)
    BY <2>2, <2>3 DEF m
  <2>5. vectorFree' = Grown[index].next
    BY <2>2, <2>3
  <2>6. vectorTable' = [Grown EXCEPT ![index] = [next |-> 0, vector |-> v, handler |-> h]]
    BY <2>2, <2>3
  <2>7. ForgetQuery(v, index)
    BY <2>2, <2>3 DEF ForgetQuery
  <2> QED BY <2>1, <2>4, <2>5, <2>6, <2>7
<1> HIDE DEF m, index
<1>7. /\ DOMAIN Grown = 0 .. index
      /\ \A k \in 0 .. n - 1 : Grown[k] = vectorTable[k]
      /\ Grown[n] = [next |-> 0, vector |-> None, handler |-> None]
      /\ \A k \in n + 1 .. index : Grown[k] = [next |-> k - 1, vector |-> None, handler |-> None]
  BY <1>2, <1>4, <1>6
<1>8. /\ DOMAIN vectorTable' = 0 .. index /\ vectorFree' = index - 1
      /\ vectorTable'[index] = [next |-> 0, vector |-> v, handler |-> h]
      /\ \A k \in 0 .. n - 1 : vectorTable'[k] = vectorTable[k]
      /\ vectorTable'[n] = [next |-> 0, vector |-> None, handler |-> None]
      /\ \A k \in n + 1 .. index - 1 :
           vectorTable'[k] = [next |-> k - 1, vector |-> None, handler |-> None]
  BY <1>2, <1>4, <1>6, <1>7
<1>9. /\ DOMAIN vectorTable \union {index} \subseteq DOMAIN vectorTable'
      /\ DOMAIN vectorTable' \subseteq Indices /\ index \notin Mapped /\ vectorFree' \in Indices
      /\ \A k \in DOMAIN vectorTable \ {index} : vectorTable'[k] = vectorTable[k]
  BY <1>1, <1>2, <1>4, <1>8 DEF Indices
<1>10. ASSUME NEW k \in DOMAIN vectorTable' PROVE vectorTable'[k] \in Entries
  <2>1. k \in 0 .. n - 1 \/ k = n \/ k \in n + 1 .. index - 1 \/ k = index
    BY <1>2, <1>4, <1>8
  <2>2. \A j \in DOMAIN vectorTable : vectorTable[j] \in Entries
    BY DEF TypeOK
  <2>3. k \in 0 .. n - 1 => vectorTable'[k] \in Entries
    BY <1>2, <1>8, <2>2
  <2>4. k = n => vectorTable'[k] \in Entries
    BY <1>2, <1>8 DEF Entries, Indices
  <2>5. k \in n + 1 .. index - 1 => vectorTable'[k] \in Entries
    <3> SUFFICES ASSUME k \in n + 1 .. index - 1 PROVE vectorTable'[k] \in Entries
      OBVIOUS
    <3>1. vectorTable'[k] = [next |-> k - 1, vector |-> None, handler |-> None]
      BY <1>8
    <3>2. k - 1 \in Indices
      BY <1>2, <1>4 DEF Indices
    <3> QED BY <3>1, <3>2 DEF Entries
  <2>6. k = index => vectorTable'[k] \in Entries
    BY <1>2, <1>8 DEF Entries, Indices
  <2> QED BY <2>1, <2>3, <2>4, <2>5, <2>6
<1>11. Sized(m)'
  BY <1>3, <1>4, <1>5, <1>6, <1>8 DEF Sized
<1>12. IsList((DOMAIN vectorTable' \ {0}) \ (Mapped \union {index}), vectorFree', NextOf(vectorTable'))
  <2> DEFINE first == IF n = 0 THEN 1 ELSE n
             L == first .. index - 1
             left == [k \in L |-> k - first]
             link == NextOf(vectorTable')
  <2>1. (DOMAIN vectorTable' \ {0}) \ (Mapped \union {index}) = L
    BY <1>1, <1>2, <1>4, <1>8
  <2>2. /\ first \in Nat /\ first >= 1 /\ first >= n
        /\ left \in [L -> Nat] /\ \A k \in L : left[k] = k - first
    BY <1>2, <1>4
  <2>3. DOMAIN link = 0 .. index /\ \A k \in L : link[k] = IF k = first THEN 0 ELSE k - 1
    <3>1. DOMAIN link = 0 .. index /\ \A k \in 0 .. index : link[k] = vectorTable'[k].next
      BY <1>8 DEF NextOf
    <3>2. ASSUME NEW k \in L PROVE link[k] = IF k = first THEN 0 ELSE k - 1
      <4>1. k \in 0 .. index /\ (k = n \/ k \in n + 1 .. index - 1)
        BY <1>2, <1>4
      <4>2. link[k] = IF k = n THEN 0 ELSE k - 1
        <5>1. k = n => vectorTable'[k].next = 0
          BY <1>8
        <5>2. k \in n + 1 .. index - 1 => vectorTable'[k].next = k - 1 /\ k # n
          <6> SUFFICES ASSUME k \in n + 1 .. index - 1
                       PROVE  vectorTable'[k].next = k - 1 /\ k # n
            OBVIOUS
          <6>1. vectorTable'[k] = [next |-> k - 1, vector |-> None, handler |-> None]
            BY <1>8
          <6> QED BY <1>2, <1>4, <6>1
        <5> QED BY <3>1, <4>1, <5>1, <5>2
      <4> QED BY <1>2, <1>4, <4>1, <4>2
    <3> QED BY <3>1, <3>2
  <2> HIDE DEF link, left
  <2>4. first <= index
    BY <1>2, <1>4 DEF m, index
  <2>5. 0 \notin L /\ L \subseteq DOMAIN link
    BY <1>4, <2>2, <2>3
  <2>6. \A j, k \in L : left[j] = left[k] => j = k
    BY <2>2
  <2>7. \/ vectorFree' = 0 /\ L = {}
        \/ vectorFree' \in L /\ \A k \in L : left[k] <= left[vectorFree']
    <3>1. vectorFree' = index - 1
      BY <1>8
    <3>2. CASE first = index
      <4>1. n = 0 /\ index = 1
        BY <1>2, <1>4, <3>2
      <4> QED BY <3>1, <4>1
    <3>3. CASE first < index
      <4>1. index - 1 \in L /\ left[index - 1] = index - 1 - first
        BY <1>4, <2>2, <3>3
      <4>2. \A k \in L : left[k] <= left[index - 1]
        BY <1>4, <2>2, <4>1
      <4> QED BY <3>1, <4>1, <4>2
    <3>4. first = index \/ first < index
      BY <1>4, <2>2, <2>4
    <3> QED BY <3>2, <3>3, <3>4
  <2>8. ASSUME NEW k \in L
        PROVE  IF left[k] = 0 THEN link[k] = 0
               ELSE link[k] \in L /\ left[link[k]] = left[k] - 1
    <3>1. left[k] = k - first /\ link[k] = IF k = first THEN 0 ELSE k - 1
      BY <2>2, <2>3
    <3>2. CASE k = first
      BY <2>2, <3>1, <3>2
    <3>3. CASE k # first
      <4>1. k - 1 \in L /\ link[k] = k - 1
        BY <1>4, <2>2, <3>1, <3>3
      <4>2. left[k - 1] = k - 1 - first
        BY <2>2, <4>1
      <4> QED BY <1>4, <2>2, <3>1, <3>3, <4>1, <4>2
    <3> QED BY <3>2, <3>3
  <2>9. ASSUME NEW k \in L, k # vectorFree' PROVE \E j \in L : link[j] = k
    <3>1. k + 1 \in L /\ k + 1 # first /\ k + 1 - 1 = k
      BY <1>4, <1>8, <2>2, <2>9
    <3> QED BY <2>3, <3>1
  <2>10. ListBy(left, L, vectorFree', link)
    BY <2>2, <2>5, <2>6, <2>7, <2>8, <2>9 DEF ListBy
  <2>11. IsList(L, vectorFree', link)
    BY <2>2, <2>10 DEF IsList
  <2> QED BY <2>1, <2>11 DEF link
<1>13. vectorTableSize + Chunk - 1 = index
  BY <1>2 DEF m, index
<1>14. index \in (1 .. MaxQuery) \ Mapped /\ \E k \in 0 .. MaxQuery + 1 : Sized(k)'
  BY <1>4, <1>9, <1>11
<1> QED BY <1>6, <1>8, <1>9, <1>10, <1>12, <1>13, <1>14 DEF Takes

-----------------------------------------------------------------------------
(* Connection. *)

LEMMA ConnectTakes ==
  ASSUME TypeOK, ListsKept, NEW v \in Queries, NEW h \in Handlers, Connect(v, h)
  PROVE  \E index \in 1 .. MaxQuery : Takes(v, h, index)
<1>1. CASE vectorFree = 0
  BY <1>1, TakesGrown DEF Takes
<1>2. CASE vectorFree # 0
  BY <1>2, TakesSpare DEF Takes
<1> QED BY <1>1, <1>2

LEMMA KeptConnect ==
  ASSUME TypeOK, ListsKept, NEW v \in Queries, NEW h \in Handlers, Connect(v, h),
         ~StaysListed(v)
  PROVE  ListsKept'
<1> DEFINE link == NextOf(vectorTable)
<1>1. PICK index \in 1 .. MaxQuery : Takes(v, h, index)
  BY ConnectTakes
<1>2. /\ v \notin queryType /\ queryType' = queryType \union {v}
      /\ connected' = [connected EXCEPT ![v] = h]
      /\ queryHead' = queryHead /\ vectorHead' = vectorHead
  BY DEF Connect
<1>3. /\ index \notin Mapped /\ index \in DOMAIN vectorTable'
      /\ DOMAIN vectorTable \subseteq DOMAIN vectorTable'
      /\ vectorTable'[index] = [next |-> 0, vector |-> v, handler |-> h]
      /\ \A k \in DOMAIN vectorTable \ {index} : vectorTable'[k] = vectorTable[k]
      /\ \E n \in 0 .. MaxQuery + 1 : Sized(n)'
      /\ IsList((DOMAIN vectorTable' \ {0}) \ (Mapped \union {index}), vectorFree', link')
      /\ ForgetQuery(v, index)
  BY <1>1 DEF Takes
<1>4. /\ AskedList' /\ queryMap'[v] = index /\ v \notin querySet'
      /\ \A u \in queryType : queryMap'[u] = queryMap[u]
      /\ querySet' \intersect queryType' = querySet \intersect queryType
  BY <1>2, <1>3, KeptForgetQuery
<1>5. /\ Owned /\ SignalledList /\ Mapped \subseteq DOMAIN vectorTable \ {0}
      /\ Signalled \subseteq Mapped
  BY MappedInTable DEF ListsKept
<1>6. Mapped' = Mapped \union {index}
  BY <1>2, <1>4 DEF Mapped
<1>7. Signalled' = Signalled
  BY <1>4 DEF Signalled
<1>8. SpareList'
  BY <1>3, <1>6 DEF SpareList, Spare
<1>9. SignalledList'
  <2>1. IsList(Signalled, vectorHead, link)
    BY <1>5 DEF SignalledList
  <2>2. Signalled \subseteq DOMAIN link' /\ \A k \in Signalled : link'[k] = link[k]
    BY <1>3, <1>5 DEF NextOf
  <2> HIDE DEF link
  <2>3. IsList(Signalled, vectorHead, link')
    BY <2>1, <2>2, SameList
  <2> QED BY <1>2, <1>7, <2>3 DEF SignalledList, link
<1>10. Owned'
  <2>1. connected \in [Queries -> Handlers \union {None}] /\ h # None /\ queryType \subseteq Queries
    BY SizesAssumption DEF TypeOK
  <2>2. \A u \in Queries : connected'[u] = IF u = v THEN h ELSE connected[u]
    BY <1>2, <2>1
  <2>3. ASSUME NEW u \in queryType'
        PROVE  /\ queryMap'[u] \in DOMAIN vectorTable' \ {0}
               /\ vectorTable'[queryMap'[u]].vector = u
               /\ vectorTable'[queryMap'[u]].handler = connected'[u]
    <3>1. CASE u = v
      <4>1. index # 0 /\ vectorTable'[index].vector = v /\ vectorTable'[index].handler = h
        BY <1>3
      <4> QED BY <1>3, <1>4, <2>2, <3>1, <4>1
    <3>2. CASE u # v
      <4>1. /\ u \in queryType /\ u \in Queries /\ queryMap'[u] = queryMap[u]
            /\ queryMap[u] \in Mapped
        BY <1>2, <1>4, <2>1, <3>2 DEF Mapped
      <4>2. /\ queryMap[u] \in DOMAIN vectorTable \ {0} /\ vectorTable[queryMap[u]].vector = u
            /\ vectorTable[queryMap[u]].handler = connected[u]
        BY <1>5, <4>1 DEF Owned
      <4>3. vectorTable'[queryMap[u]] = vectorTable[queryMap[u]]
        BY <1>3, <4>1, <4>2
      <4> QED BY <1>3, <2>2, <3>2, <4>1, <4>2, <4>3
    <3> QED BY <3>1, <3>2
  <2>4. ASSUME NEW u \in Queries PROVE connected'[u] # None <=> u \in queryType'
    BY <1>2, <1>5, <2>1, <2>2 DEF Owned
  <2> QED BY <2>3, <2>4 DEF Owned
<1> QED BY <1>3, <1>4, <1>8, <1>9, <1>10 DEF ListsKept

-----------------------------------------------------------------------------
(* The three steps that lose a list. *)

LEMMA WalkOne ==
  ASSUME NEW head, NEW link, head # 0, head \in DOMAIN link
  PROVE  Walk(head, link)[1] = link[head]
<1>1. 0 \in 0 .. MaxQuery /\ 0 + 1 = 1
  BY SizesAssumption
<1>2. Walk(head, link)[0] = head /\ Walk(head, link)[0 + 1] = Onward(link, Walk(head, link)[0])
  BY <1>1, WalkSteps
<1> QED BY <1>1, <1>2 DEF Onward

LEMMA HeadListed ==
  ASSUME NEW head, NEW link, head # 0
  PROVE  head \in Listed(head, link)
<1>1. 0 \in 0 .. MaxQuery
  BY SizesAssumption
<1> QED BY <1>1, WalkSteps DEF Listed

\* With the walk ending, what a listed element links to is listed.
LEMMA NextListed ==
  ASSUME NEW head, NEW link, Ends(head, link), NEW k \in Listed(head, link), k \in DOMAIN link,
         link[k] # 0
  PROVE  link[k] \in Listed(head, link)
<1>1. PICK n \in 0 .. MaxQuery : Walk(head, link)[n] = k
  BY DEF Listed
<1>2. k # 0 /\ MaxQuery \in Nat
  BY SizesAssumption DEF Listed
<1>3. Walk(head, link)[n + 1] = link[k]
  BY <1>1, <1>2, WalkSteps DEF Onward
<1>4. n # MaxQuery
  BY <1>3 DEF Ends
<1>5. n + 1 \in 0 .. MaxQuery
  BY <1>1, <1>2, <1>4
<1> QED BY <1>3, <1>5 DEF Listed

LEMMA LostByConnect ==
  ASSUME TypeOK, ListsKept, NEW v \in Queries, NEW h \in Handlers, Connect(v, h),
         StaysListed(v)
  PROVE  ~PendingIsListed'
<1> SUFFICES ASSUME PendingIsListed' PROVE FALSE
  OBVIOUS
<1>1. PICK index \in 1 .. MaxQuery : ForgetQuery(v, index)
  BY ConnectTakes DEF Takes
<1>2. /\ v \notin queryType /\ v \in querySet /\ queryType' = queryType \union {v}
      /\ queryHead' = queryHead /\ v # 0
  BY SizesAssumption DEF Connect, StaysListed, Queries
<1>3. /\ Ends(queryHead, queryMap') /\ Listed(queryHead, queryMap') = querySet' \ queryType'
      /\ v \notin Listed(queryHead, queryMap')
  BY <1>2 DEF PendingIsListed
<1>4. queryHead # v
  BY <1>2, <1>3, HeadListed
<1>5. /\ queryMap[v] = 0 /\ DOMAIN queryMap' = Queries
      /\ \A u \in Queries \ {v} : queryMap'[u] = queryMap[u]
      /\ querySet' = querySet
  BY <1>1, <1>2, <1>4, ForgetMap DEF StaysListed
<1>6. PICK left \in [Asked -> Nat] : ListBy(left, Asked, queryHead, queryMap)
  BY DEF ListsKept, AskedList, IsList
<1>7. v \in Asked
  BY <1>2 DEF Asked
<1>8. PICK j \in Asked : queryMap[j] = v
  BY <1>4, <1>6, <1>7 DEF ListBy
<1>9. j # v /\ j \in Queries
  BY <1>2, <1>5, <1>8 DEF Asked, TypeOK
<1>10. j \in querySet' \ queryType'
  BY <1>2, <1>5, <1>8, <1>9 DEF Asked
<1>11. queryMap'[j] = v
  BY <1>5, <1>8, <1>9
<1>12. v \in Listed(queryHead, queryMap')
  BY <1>2, <1>3, <1>5, <1>9, <1>10, <1>11, NextListed
<1> QED BY <1>3, <1>12

LEMMA LostByDisconnect ==
  ASSUME TypeOK, ListsKept, NEW v \in queryType, Disconnect(v),
         v \in querySet, vectorHead = queryMap[v]
  PROVE  ~(EntriesAreOwned /\ PendingIsListed)'
<1> SUFFICES ASSUME EntriesAreOwned', PendingIsListed' PROVE FALSE
  OBVIOUS
<1> DEFINE i == queryMap[v]
           link == NextOf(vectorTable')
<1>1. /\ queryType' = queryType \ {v} /\ querySet' = querySet \ {v}
      /\ vectorFree' = i /\ vectorHead' = i /\ queryMap' = queryMap
  BY DEF Disconnect
<1>2. i # 0
  BY DEF ListsKept, Owned
<1>3. /\ Listed(i, link) = {queryMap[u] : u \in querySet' \intersect queryType'}
      /\ {queryMap[u] : u \in queryType'} \intersect Listed(i, link) = {}
  BY <1>1 DEF EntriesAreOwned, PendingIsListed
<1> HIDE DEF i, link
<1>4. i \in Listed(i, link)
  BY <1>2, HeadListed
<1> QED BY <1>3, <1>4

LEMMA LostByAllocation ==
  ASSUME TypeOK, ListsKept, NEW v \in Queries, ConnectFails(v)
  PROVE  ~EntriesAreOwned'
<1> SUFFICES ASSUME EntriesAreOwned' PROVE FALSE
  OBVIOUS
<1> DEFINE More == {queryMap[u] : u \in queryType \union {v}}
<1>1. /\ v \notin queryType /\ vectorFree = 0 /\ queryType' = queryType \union {v}
      /\ UNCHANGED <<queryMap, vectorTable, vectorFree>>
  BY DEF ConnectFails
<1>2. Cardinality(More) = Cardinality(queryType \union {v})
      /\ More \subseteq DOMAIN vectorTable \ {0}
  BY <1>1 DEF EntriesAreOwned
<1>3. Mapped = DOMAIN vectorTable \ {0}
  BY <1>1, TableNotFull
<1>4. IsFiniteSet(Mapped) /\ Cardinality(Mapped) = Cardinality(queryType) /\ IsFiniteSet(queryType)
  BY MappedCount DEF ListsKept
<1>5. Mapped \subseteq More
  BY DEF Mapped
<1>6. More = Mapped
  BY <1>2, <1>3, <1>5
<1>7. Cardinality(queryType \union {v}) = Cardinality(queryType) + 1
      /\ Cardinality(queryType) \in Nat
  BY <1>1, <1>4, FS_AddElement, FS_CardinalityType
<1>8. Cardinality(Mapped) = Cardinality(queryType \union {v})
  BY <1>2, <1>6
<1>9. Cardinality(queryType) = Cardinality(queryType) + 1
  BY <1>4, <1>7, <1>8
<1> QED BY <1>7, <1>9

-----------------------------------------------------------------------------
(* Types. *)

ListsTyped ==
  /\ querySet \subseteq Queries /\ queryType \subseteq Queries
  /\ queryMap \in [Queries -> Indices]
  /\ queryHead \in Indices /\ vectorHead \in Indices /\ vectorFree \in Indices
  /\ vectorTableSize \in Indices
  /\ DOMAIN vectorTable \subseteq Indices
  /\ \A k \in DOMAIN vectorTable : vectorTable[k] \in Entries

ThreadsTyped ==
  /\ queryState \in {"idle", "dispatch", "waiting", "complete"}
  /\ request \in Queries \union {None} /\ processQuery \in BOOLEAN
  /\ pc \in [Workers -> {"idle", "lists", "handler", "method", "after"}]
  /\ DOMAIN call = Workers
  /\ \A w \in Workers :
       /\ pc[w] = "handler" => call[w] \in Calls
       /\ pc[w] \in {"method", "after"} => call[w] \in Queries
       /\ pc[w] \in {"idle", "lists"} => call[w] = None

CountsTyped ==
  /\ connected \in [Queries -> Handlers \union {None}]
  /\ reports \in 0 .. MaxReports /\ connects \in 0 .. MaxConnects
  /\ damage \in {"none", "connect", "allocate", "disconnect"}

LEMMA TypeParts == TypeOK <=> ListsTyped /\ ThreadsTyped /\ CountsTyped
BY DEF TypeOK, ListsTyped, ThreadsTyped, CountsTyped

LEMMA ListsTypedUnchanged == ListsTyped /\ UNCHANGED lists => ListsTyped'
BY DEF ListsTyped, lists

LEMMA ListsTypedReport ==
  ASSUME TypeOK, ListsKept, NEW q \in Queries, Report(q)
  PROVE  ListsTyped'
<1>1. ListsTyped
  BY TypeParts
<1>2. CASE ReportVector(q)
  <2>1. /\ querySet' = querySet \union {q}
        /\ vectorTable' = [vectorTable EXCEPT ![queryMap[q]].next = vectorHead]
        /\ vectorHead' = queryMap[q]
        /\ UNCHANGED <<queryType, queryMap, queryHead, vectorFree, vectorTableSize>>
    BY <1>2 DEF ReportVector
  <2>2. DOMAIN vectorTable' = DOMAIN vectorTable
        /\ \A k \in DOMAIN vectorTable : vectorTable'[k] \in Entries
    BY <1>1, <2>1 DEF ListsTyped, Entries
  <2> QED BY <1>1, <2>1, <2>2 DEF ListsTyped
<1>3. CASE ReportQuery(q)
  BY <1>1, <1>3 DEF ListsTyped, ReportQuery, Queries, Indices
<1>4. CASE ReportAgain(q)
  BY <1>1, <1>4, ListsTypedUnchanged DEF ReportAgain
<1> QED BY <1>2, <1>3, <1>4 DEF Report

LEMMA ListsTypedNextQuery ==
  ASSUME TypeOK, ListsKept, NEW w \in Workers, NextQuery(w)
  PROVE  ListsTyped' /\ (queryHead # 0 => queryHead \in Queries)
<1>1. ListsTyped
  BY TypeParts
<1>2. CASE queryHead = 0
  BY <1>1, <1>2, ListsTypedUnchanged DEF NextQuery
<1>3. CASE queryHead # 0
  <2>1. queryHead \in Asked
    BY <1>3, ListHead DEF ListsKept, AskedList
  <2>2. queryHead \in Queries
    BY <1>1, <2>1 DEF Asked, ListsTyped
  <2> QED BY <1>1, <1>3, <2>2 DEF ListsTyped, NextQuery
<1> QED BY <1>2, <1>3

LEMMA TakenVector ==
  ASSUME TypeOK, ListsKept, NEW w \in Workers, TakeVector(w)
  PROVE  /\ ListsTyped' /\ call'[w] \in Calls
         /\ connected[call'[w].vector] = call'[w].handler /\ call'[w].handler # None
<1>1. ListsTyped /\ ThreadsTyped
  BY TypeParts
<1>2. /\ vectorHead # 0 /\ querySet' = querySet \ {vectorTable[vectorHead].vector}
      /\ vectorHead' = vectorTable[vectorHead].next
      /\ call' = [call EXCEPT ![w] = [vector |-> vectorTable[vectorHead].vector,
                                      handler |-> vectorTable[vectorHead].handler]]
      /\ UNCHANGED <<queryType, queryMap, queryHead, vectorFree, vectorTable, vectorTableSize>>
  BY DEF TakeVector
<1>3. PICK v \in querySet \intersect queryType :
        /\ vectorHead = queryMap[v] /\ vectorHead \in DOMAIN vectorTable
        /\ vectorTable[vectorHead].vector = v
        /\ vectorTable[vectorHead].handler = connected[v]
        /\ connected[v] # None
  BY <1>2, HeadIsSignalled
<1>4. vectorTable[vectorHead] \in Entries /\ v \in Queries
  BY <1>1, <1>3 DEF ListsTyped
<1>5. call'[w] = [vector |-> v, handler |-> connected[v]]
  BY <1>1, <1>2, <1>3 DEF ThreadsTyped
<1>6. connected[v] \in Handlers \union {None}
  BY <1>3, <1>4 DEF Entries
<1>7. ListsTyped'
  BY <1>1, <1>2, <1>4 DEF ListsTyped, Entries
<1> QED BY <1>3, <1>4, <1>5, <1>6, <1>7 DEF Calls

LEMMA ListsTypedConnect ==
  ASSUME TypeOK, ListsKept, NEW v \in Queries, NEW h \in Handlers, Connect(v, h)
  PROVE  ListsTyped'
<1>1. ListsTyped
  BY TypeParts
<1>2. PICK index \in 1 .. MaxQuery : Takes(v, h, index)
  BY ConnectTakes
<1>3. /\ v \notin queryType /\ queryType' = queryType \union {v}
      /\ queryHead' = queryHead /\ vectorHead' = vectorHead
      /\ MaxQuery \in Nat
  BY SizesAssumption DEF Connect
<1>4. /\ DOMAIN vectorTable' \subseteq Indices
      /\ \A k \in DOMAIN vectorTable' : vectorTable'[k] \in Entries
      /\ vectorFree' \in Indices /\ ForgetQuery(v, index)
      /\ \E n \in 0 .. MaxQuery + 1 : Sized(n)'
  BY <1>2 DEF Takes
<1>5. vectorTableSize' \in Indices
  BY <1>3, <1>4 DEF Sized, Indices
<1>6. /\ DOMAIN queryMap' = Queries /\ queryMap'[v] = index
      /\ \A u \in Queries \ {v} : queryMap'[u] \in Indices
      /\ querySet' \subseteq querySet
  <2>1. /\ DOMAIN queryMap' = Queries /\ queryMap'[v] = index
        /\ \A u \in Queries \ {v} : queryMap'[u] = IF queryMap[v] # 0 /\ u \in Asked /\ queryMap[u] = v
                                                   THEN queryMap[v] ELSE queryMap[u]
        /\ querySet' = IF queryMap[v] = 0 THEN querySet ELSE querySet \ {v}
    BY <1>3, <1>4, ForgetMap
  <2> QED BY <1>1, <2>1 DEF ListsTyped
<1>7. queryMap' \in [Queries -> Indices]
  <2>1. index \in Indices /\ \A u \in Queries : queryMap'[u] \in Indices
    BY <1>3, <1>6 DEF Indices
  <2>2. \E x, y : queryMap' = [x EXCEPT ![v] = y]
    BY <1>4 DEF ForgetQuery
  <2> QED BY <1>6, <2>1, <2>2
<1> QED BY <1>1, <1>3, <1>4, <1>5, <1>6, <1>7 DEF ListsTyped

LEMMA ListsTypedDisconnect ==
  ASSUME TypeOK, ListsKept, NEW v \in queryType, Disconnect(v)
  PROVE  ListsTyped'
<1>1. ListsTyped
  BY TypeParts
<1>2. /\ queryType' = queryType \ {v} /\ querySet' = querySet \ {v} /\ vectorFree' = queryMap[v]
      /\ UNCHANGED <<queryMap, queryHead, vectorHead, vectorTableSize>>
  BY DEF Disconnect
<1>3. /\ DOMAIN vectorTable' = DOMAIN vectorTable
      /\ \A k \in DOMAIN vectorTable : vectorTable'[k] \in Entries
  <2>1. vectorTable' = [k \in DOMAIN vectorTable |-> [vectorTable[k] EXCEPT !.next =
                          IF k = queryMap[v] THEN vectorFree ELSE DropPending(v)[k]]]
    BY DEF Disconnect
  <2>2. \A k \in DOMAIN vectorTable : vectorTable'[k].next \in Indices
    BY <1>1, DisconnectLinks DEF ListsTyped, Entries
  <2>3. ASSUME NEW k \in DOMAIN vectorTable PROVE vectorTable'[k] \in Entries
    <3>1. vectorTable[k] \in Entries /\ vectorTable'[k].next \in Indices
      BY <1>1, <2>2 DEF ListsTyped
    <3>2. vectorTable'[k] = [vectorTable[k] EXCEPT !.next =
                               IF k = queryMap[v] THEN vectorFree ELSE DropPending(v)[k]]
      BY <2>1
    <3> QED BY <3>1, <3>2 DEF Entries
  <2> QED BY <2>1, <2>3
<1>4. queryMap[v] \in Indices
  BY <1>1 DEF ListsTyped
<1> QED BY <1>1, <1>2, <1>3, <1>4 DEF ListsTyped

-----------------------------------------------------------------------------
(* The threads and the one request. *)

LEMMA ThreadsUnchanged ==
  ThreadsTyped /\ Threads /\ UNCHANGED threads => ThreadsTyped' /\ Threads'
BY DEF ThreadsTyped, Threads, Sends, threads

\* A thread takes a step of its own: what becomes of the others.
LEMMA OneThreadMoves ==
  ASSUME ThreadsTyped, NEW w \in Workers, NEW at \in {"idle", "lists", "handler", "method", "after"},
         NEW about, pc' = [pc EXCEPT ![w] = at], call' = [call EXCEPT ![w] = about],
         at = "handler" => about \in Calls,
         at \in {"method", "after"} => about \in Queries,
         at \in {"idle", "lists"} => about = None,
         queryState' \in {"idle", "dispatch", "waiting", "complete"},
         request' \in Queries \union {None}, processQuery' \in BOOLEAN
  PROVE  /\ ThreadsTyped' /\ pc'[w] = at
         /\ \A x \in Workers \ {w} : pc'[x] = pc[x]
<1>1. /\ DOMAIN call' = Workers /\ call'[w] = about /\ pc'[w] = at
      /\ \A x \in Workers \ {w} : pc'[x] = pc[x] /\ call'[x] = call[x]
      /\ pc' \in [Workers -> {"idle", "lists", "handler", "method", "after"}]
  BY DEF ThreadsTyped
<1>2. ASSUME NEW x \in Workers
      PROVE  /\ pc'[x] = "handler" => call'[x] \in Calls
             /\ pc'[x] \in {"method", "after"} => call'[x] \in Queries
             /\ pc'[x] \in {"idle", "lists"} => call'[x] = None
  <2>1. CASE x = w
    BY <1>1, <2>1
  <2>2. CASE x # w
    BY <1>1, <2>2 DEF ThreadsTyped
  <2> QED BY <2>1, <2>2
<1> QED BY <1>1, <1>2 DEF ThreadsTyped

LEMMA ThreadsStartDispatch ==
  ASSUME ThreadsTyped, Threads, StartDispatch
  PROVE  ThreadsTyped' /\ Threads'
<1>1. /\ pc[Service] = "idle" /\ pc' = [pc EXCEPT ![Service] = "lists"] /\ processQuery' = FALSE
      /\ UNCHANGED <<queryState, request, call>> /\ Service \in Workers
  BY DEF StartDispatch, Workers
<1>2. /\ pc'[Service] = "lists" /\ \A x \in Workers \ {Service} : pc'[x] = pc[x]
      /\ pc' \in [Workers -> {"idle", "lists", "handler", "method", "after"}]
  BY <1>1 DEF ThreadsTyped
<1>3. ThreadsTyped'
  BY <1>1, <1>2 DEF ThreadsTyped
<1>4. Threads'
  BY <1>1, <1>2 DEF Threads, Sends
<1> QED BY <1>3, <1>4

LEMMA ThreadsTakeVector ==
  ASSUME TypeOK, ListsKept, Threads, NEW w \in Workers, TakeVector(w)
  PROVE  ThreadsTyped' /\ Threads'
<1>1. ThreadsTyped /\ call'[w] \in Calls
  BY TakenVector, TypeParts
<1>2. /\ pc[w] = "lists" /\ pc' = [pc EXCEPT ![w] = "handler"]
      /\ UNCHANGED <<queryState, request, processQuery>>
  BY DEF TakeVector
<1>3. PICK about : call' = [call EXCEPT ![w] = about]
  BY DEF TakeVector
<1>4. about \in Calls
  BY <1>1, <1>3 DEF ThreadsTyped
<1>5. ThreadsTyped' /\ pc'[w] = "handler" /\ \A x \in Workers \ {w} : pc'[x] = pc[x]
  BY <1>1, <1>2, <1>3, <1>4, OneThreadMoves DEF ThreadsTyped
<1>6. Threads'
  BY <1>2, <1>5 DEF Threads, Sends
<1> QED BY <1>5, <1>6

LEMMA ThreadsHandlerReturns ==
  ASSUME ThreadsTyped, Threads, NEW w \in Workers, HandlerReturns(w)
  PROVE  ThreadsTyped' /\ Threads'
<1>1. /\ pc[w] = "handler" /\ pc' = [pc EXCEPT ![w] = "lists"]
      /\ call' = [call EXCEPT ![w] = None]
      /\ UNCHANGED <<queryState, request, processQuery>>
  BY DEF HandlerReturns
<1>2. ThreadsTyped' /\ pc'[w] = "lists" /\ \A x \in Workers \ {w} : pc'[x] = pc[x]
  BY <1>1, OneThreadMoves DEF ThreadsTyped
<1>3. Threads'
  BY <1>1, <1>2 DEF Threads, Sends
<1> QED BY <1>2, <1>3

\* The turn of the loop over the pending queries, taken when no other
\* thread is about to send the request and the request is back.
LEMMA ThreadsNextQuery ==
  ASSUME TypeOK, ListsKept, NEW w \in Workers, NextQuery(w), request = None,
         \A x \in Workers \ {w} : ~Sends(x), UNCHANGED <<request, processQuery>>
  PROVE  ThreadsTyped' /\ Threads' /\ pc'[w] # "handler"
         /\ \A x \in Workers \ {w} : pc'[x] = pc[x]
<1>1. ThreadsTyped /\ (queryHead # 0 => queryHead \in Queries)
  BY ListsTypedNextQuery, TypeParts
<1>2. CASE queryHead # 0
  <2>1. /\ queryState' = "dispatch" /\ call' = [call EXCEPT ![w] = queryHead]
        /\ pc' = [pc EXCEPT ![w] = "method"]
    BY <1>2 DEF NextQuery
  <2>2. ThreadsTyped' /\ pc'[w] = "method" /\ \A x \in Workers \ {w} : pc'[x] = pc[x]
    BY <1>1, <1>2, <2>1, OneThreadMoves DEF ThreadsTyped
  <2>3. Threads'
    BY <2>1, <2>2 DEF Threads, Sends
  <2> QED BY <2>2, <2>3
<1>3. CASE queryHead = 0
  <2>1. /\ queryState' = "idle" /\ call' = [call EXCEPT ![w] = None]
        /\ pc' = [pc EXCEPT ![w] = "idle"]
    BY <1>3 DEF NextQuery
  <2>2. ThreadsTyped' /\ pc'[w] = "idle" /\ \A x \in Workers \ {w} : pc'[x] = pc[x]
    BY <1>1, <2>1, OneThreadMoves DEF ThreadsTyped
  <2>3. Threads'
    BY <2>1, <2>2 DEF Threads, Sends
  <2> QED BY <2>2, <2>3
<1> QED BY <1>2, <1>3

LEMMA ThreadsStartQueries ==
  ASSUME TypeOK, ListsKept, Threads, NEW w \in Workers, StartQueries(w)
  PROVE  ThreadsTyped' /\ Threads' /\ pc'[w] # "handler"
         /\ \A x \in Workers \ {w} : pc'[x] = pc[x]
<1>1. queryState = "idle" /\ NextQuery(w) /\ UNCHANGED <<request, processQuery>>
  BY DEF StartQueries
<1>2. request = None /\ \A x \in Workers : ~Sends(x)
  BY <1>1 DEF Threads
<1> QED BY <1>1, <1>2, ThreadsNextQuery

LEMMA ThreadsLeaveQueries ==
  ASSUME ThreadsTyped, Threads, NEW w \in Workers, LeaveQueries(w)
  PROVE  ThreadsTyped' /\ Threads'
<1>1. /\ pc[w] = "lists" /\ pc' = [pc EXCEPT ![w] = "idle"]
      /\ UNCHANGED <<queryState, request, processQuery, call>>
  BY DEF LeaveQueries
<1>2. /\ pc'[w] = "idle" /\ \A x \in Workers \ {w} : pc'[x] = pc[x]
      /\ pc' \in [Workers -> {"idle", "lists", "handler", "method", "after"}]
  BY <1>1 DEF ThreadsTyped
<1>3. ThreadsTyped'
  BY <1>1, <1>2 DEF ThreadsTyped
<1>4. Threads'
  BY <1>1, <1>2 DEF Threads, Sends
<1> QED BY <1>3, <1>4

LEMMA ThreadsRunQueryMethod ==
  ASSUME ThreadsTyped, Threads, NEW w \in Workers, RunQueryMethod(w)
  PROVE  ThreadsTyped' /\ Threads'
<1>1. /\ pc[w] = "method" /\ pc' = [pc EXCEPT ![w] = "after"] /\ request' = call[w]
      /\ UNCHANGED <<queryState, processQuery, call>>
  BY DEF RunQueryMethod
<1>2. /\ pc'[w] = "after" /\ \A x \in Workers \ {w} : pc'[x] = pc[x]
      /\ pc' \in [Workers -> {"idle", "lists", "handler", "method", "after"}]
      /\ call[w] \in Queries
  BY <1>1 DEF ThreadsTyped
<1>3. ThreadsTyped'
  BY <1>1, <1>2 DEF ThreadsTyped
<1>4. /\ queryState = "dispatch" /\ Sends(w) /\ \A x \in Workers \ {w} : ~Sends(x)
  BY <1>1 DEF Threads, Sends
<1>5. Threads'
  BY <1>1, <1>2, <1>4 DEF Threads, Sends
<1> QED BY <1>3, <1>5

LEMMA ThreadsAfterMethod ==
  ASSUME TypeOK, ListsKept, Threads, NEW w \in Workers, AfterMethod(w)
  PROVE  ThreadsTyped' /\ Threads' /\ pc'[w] # "handler"
         /\ \A x \in Workers \ {w} : pc'[x] = pc[x]
<1>1. ThreadsTyped /\ pc[w] = "after" /\ UNCHANGED <<request, processQuery>>
  BY TypeParts DEF AfterMethod
<1>2. /\ queryState \in {"dispatch", "complete"}
      /\ \A x \in Workers \ {w} : ~Sends(x)
  BY <1>1 DEF Threads, Sends
<1>3. CASE queryState = "dispatch"
  <2>1. /\ queryState' = "waiting" /\ pc' = [pc EXCEPT ![w] = "idle"]
        /\ call' = [call EXCEPT ![w] = None]
    BY <1>3 DEF AfterMethod
  <2>2. ThreadsTyped' /\ pc'[w] = "idle" /\ \A x \in Workers \ {w} : pc'[x] = pc[x]
    BY <1>1, <2>1, OneThreadMoves DEF ThreadsTyped
  <2>3. Threads'
    BY <1>2, <2>1, <2>2 DEF Threads, Sends
  <2> QED BY <2>2, <2>3
<1>4. CASE queryState = "complete"
  <2>1. NextQuery(w) /\ request = None
    BY <1>4 DEF AfterMethod, Threads
  <2> QED BY <1>1, <1>2, <2>1, ThreadsNextQuery
<1> QED BY <1>2, <1>3, <1>4

LEMMA ThreadsComplete ==
  ASSUME ThreadsTyped, Threads, Complete
  PROVE  ThreadsTyped' /\ Threads' /\ \A x \in Workers : pc'[x] # "handler" \/ pc'[x] = pc[x]
<1>1. CASE CompleteEarly
  <2>1. /\ request # None /\ queryState = "dispatch" /\ request' = None /\ queryState' = "complete"
        /\ UNCHANGED <<processQuery, pc, call>>
    BY <1>1 DEF CompleteEarly
  <2> QED BY <2>1 DEF ThreadsTyped, Threads, Sends
<1>2. ASSUME NEW w \in Completers, CompleteLate(w) PROVE ThreadsTyped' /\ Threads'
              /\ \A x \in Workers : pc'[x] # "handler" \/ pc'[x] = pc[x]
  <2>1. /\ queryState = "waiting" /\ pc[w] = "idle" /\ request' = None /\ queryState' = "idle"
        /\ pc' = [pc EXCEPT ![w] = "lists"] /\ w \in Workers
        /\ UNCHANGED <<processQuery, call>>
    BY <1>2 DEF CompleteLate, Workers
  <2>2. /\ pc'[w] = "lists" /\ \A x \in Workers \ {w} : pc'[x] = pc[x]
        /\ pc' \in [Workers -> {"idle", "lists", "handler", "method", "after"}]
    BY <2>1 DEF ThreadsTyped
  <2>3. ThreadsTyped'
    BY <2>1, <2>2 DEF ThreadsTyped
  <2>4. Threads'
    BY <2>1, <2>2 DEF Threads, Sends
  <2> QED BY <2>2, <2>3, <2>4
<1> QED BY <1>1, <1>2 DEF Complete

-----------------------------------------------------------------------------
(* The invariant. *)

LEMMA CountsUnchanged ==
  CountsTyped /\ UNCHANGED <<connected, reports, connects, damage>> => CountsTyped'
BY DEF CountsTyped

\* A step that loses nothing keeps the invariant if it keeps its parts.
LEMMA IInvKept ==
  ASSUME IInv, damage = "none", damage' = damage, ListsTyped', ThreadsTyped', CountsTyped',
         Threads', ListsKept'
  PROVE  IInv'
<1>1. TypeOK'
  BY DEF TypeOK, ListsTyped, ThreadsTyped, CountsTyped
<1> QED BY <1>1 DEF IInv

\* A step that loses a list says so.
LEMMA IInvLost ==
  ASSUME damage' # "none", ListsTyped', ThreadsTyped', CountsTyped', Threads',
         ~(EntriesAreOwned /\ PendingIsListed)'
  PROVE  IInv'
<1>1. TypeOK'
  BY DEF TypeOK, ListsTyped, ThreadsTyped, CountsTyped
<1> QED BY <1>1 DEF IInv

LEMMA DispatchIInv ==
  ASSUME IInv, damage = "none", NEW w \in Workers, Dispatch(w)
  PROVE  IInv'
<1>1. /\ TypeOK /\ ListsKept /\ Threads /\ ListsTyped /\ ThreadsTyped /\ CountsTyped
  BY TypeParts DEF IInv
<1>2. UNCHANGED <<connected, reports, connects, damage>>
  BY DEF Dispatch, TakeVector, HandlerReturns, StartQueries, LeaveQueries, RunQueryMethod,
         AfterMethod
<1>3. CountsTyped' /\ damage' = damage /\ connected' = connected
  BY <1>1, <1>2, CountsUnchanged
<1>4. CASE TakeVector(w)
  BY <1>1, <1>3, <1>4, TakenVector, KeptTakeVector, ThreadsTakeVector, IInvKept
<1>5. CASE HandlerReturns(w)
  <2>1. UNCHANGED lists
    BY <1>5 DEF HandlerReturns
  <2>2. UNCHANGED <<lists, connected>>
    BY <1>3, <2>1
  <2> QED BY <1>1, <1>3, <1>5, <2>1, <2>2, ListsTypedUnchanged, KeptUnchanged, ThreadsHandlerReturns,
             IInvKept
<1>6. CASE StartQueries(w)
  <2>1. NextQuery(w)
    BY <1>6 DEF StartQueries
  <2> QED BY <1>1, <1>3, <1>6, <2>1, ListsTypedNextQuery, KeptNextQuery, ThreadsStartQueries, IInvKept
<1>7. CASE LeaveQueries(w)
  <2>1. UNCHANGED lists
    BY <1>7 DEF LeaveQueries
  <2>2. UNCHANGED <<lists, connected>>
    BY <1>3, <2>1
  <2> QED BY <1>1, <1>3, <1>7, <2>1, <2>2, ListsTypedUnchanged, KeptUnchanged, ThreadsLeaveQueries,
             IInvKept
<1>8. CASE RunQueryMethod(w)
  <2>1. UNCHANGED lists
    BY <1>8 DEF RunQueryMethod
  <2>2. UNCHANGED <<lists, connected>>
    BY <1>3, <2>1
  <2> QED BY <1>1, <1>3, <1>8, <2>1, <2>2, ListsTypedUnchanged, KeptUnchanged, ThreadsRunQueryMethod,
             IInvKept
<1>9. CASE AfterMethod(w)
  <2>1. NextQuery(w) \/ UNCHANGED lists
    BY <1>9 DEF AfterMethod
  <2>2. ListsTyped' /\ ListsKept'
    <3>1. UNCHANGED lists => UNCHANGED <<lists, connected>>
      BY <1>3
    <3> QED BY <1>1, <1>3, <2>1, <3>1, ListsTypedUnchanged, KeptUnchanged, ListsTypedNextQuery,
               KeptNextQuery
  <2> QED BY <1>1, <1>3, <1>9, <2>2, ThreadsAfterMethod, IInvKept
<1> QED BY <1>4, <1>5, <1>6, <1>7, <1>8, <1>9 DEF Dispatch

LEMMA ReportIInv ==
  ASSUME IInv, damage = "none", NEW q \in Queries, Report(q)
  PROVE  IInv'
<1>1. /\ TypeOK /\ ListsKept /\ Threads /\ ListsTyped /\ ThreadsTyped /\ CountsTyped
  BY TypeParts DEF IInv
<1>2. /\ reports < MaxReports /\ reports' = reports + 1 /\ processQuery' = TRUE
      /\ UNCHANGED <<queryState, request, pc, call, connected, connects, damage>>
      /\ MaxReports \in Nat
  BY SizesAssumption DEF Report
<1>3. ThreadsTyped'
  BY <1>1, <1>2 DEF ThreadsTyped
<1>4. Threads'
  BY <1>1, <1>2 DEF Threads, Sends
<1>5. CountsTyped'
  BY <1>1, <1>2 DEF CountsTyped
<1>6. ListsKept'
  <2>1. UNCHANGED lists => UNCHANGED <<lists, connected>>
    BY <1>2
  <2> QED BY <1>1, <1>2, <2>1, KeptReportVector, KeptReportQuery, KeptUnchanged DEF Report, ReportAgain
<1>7. ListsTyped'
  BY <1>1, ListsTypedReport
<1> QED BY <1>2, <1>3, <1>4, <1>5, <1>6, <1>7, IInvKept

LEMMA ConnectIInv ==
  ASSUME IInv, damage = "none", NEW v \in Queries, NEW h \in Handlers, Connect(v, h)
  PROVE  IInv'
<1>1. /\ TypeOK /\ ListsKept /\ Threads /\ ListsTyped /\ ThreadsTyped /\ CountsTyped
  BY TypeParts DEF IInv
<1>2. /\ connects < MaxConnects /\ connects' = connects + 1 /\ reports' = reports
      /\ connected' = [connected EXCEPT ![v] = h] /\ UNCHANGED threads
      /\ damage' = (IF StaysListed(v) THEN "connect" ELSE damage) /\ MaxConnects \in Nat
  BY SizesAssumption DEF Connect
<1>3. ListsTyped' /\ ThreadsTyped' /\ Threads'
  BY <1>1, <1>2, ListsTypedConnect, ThreadsUnchanged
<1>4. CountsTyped'
  BY <1>1, <1>2 DEF CountsTyped
<1>5. CASE StaysListed(v)
  BY <1>1, <1>2, <1>3, <1>4, <1>5, LostByConnect, IInvLost
<1>6. CASE ~StaysListed(v)
  BY <1>1, <1>2, <1>3, <1>4, <1>6, KeptConnect, IInvKept
<1> QED BY <1>5, <1>6

LEMMA ConnectFailsIInv ==
  ASSUME IInv, damage = "none", NEW v \in Queries, ConnectFails(v)
  PROVE  IInv'
<1>1. /\ TypeOK /\ ListsKept /\ Threads /\ ListsTyped /\ ThreadsTyped /\ CountsTyped
  BY TypeParts DEF IInv
<1>2. /\ connects < MaxConnects /\ connects' = connects + 1 /\ damage' = "allocate"
      /\ queryType' = queryType \union {v}
      /\ UNCHANGED <<querySet, queryMap, queryHead, vectorHead, vectorFree, vectorTable,
                     vectorTableSize, connected, reports>>
      /\ UNCHANGED threads /\ MaxConnects \in Nat
  BY SizesAssumption DEF ConnectFails
<1>3. ListsTyped'
  BY <1>1, <1>2 DEF ListsTyped
<1>4. ThreadsTyped' /\ Threads'
  BY <1>1, <1>2, ThreadsUnchanged
<1>5. CountsTyped'
  BY <1>1, <1>2 DEF CountsTyped
<1> QED BY <1>1, <1>2, <1>3, <1>4, <1>5, LostByAllocation, IInvLost

LEMMA DisconnectIInv ==
  ASSUME IInv, damage = "none", NEW v \in Queries, Disconnect(v)
  PROVE  IInv'
<1>1. /\ TypeOK /\ ListsKept /\ Threads /\ ListsTyped /\ ThreadsTyped /\ CountsTyped
  BY TypeParts DEF IInv
<1>2. /\ v \in queryType /\ connected' = [connected EXCEPT ![v] = None]
      /\ UNCHANGED threads /\ UNCHANGED <<reports, connects>>
      /\ damage' = IF v \in querySet /\ vectorHead = queryMap[v] THEN "disconnect" ELSE damage
  BY DEF Disconnect
<1>3. ListsTyped' /\ ThreadsTyped' /\ Threads'
  BY <1>1, <1>2, ListsTypedDisconnect, ThreadsUnchanged
<1>4. CountsTyped'
  BY <1>1, <1>2 DEF CountsTyped
<1>5. CASE v \in querySet /\ vectorHead = queryMap[v]
  BY <1>1, <1>2, <1>3, <1>4, <1>5, LostByDisconnect, IInvLost
<1>6. CASE ~(v \in querySet /\ vectorHead = queryMap[v])
  BY <1>1, <1>2, <1>3, <1>4, <1>6, KeptDisconnect, IInvKept
<1> QED BY <1>5, <1>6

LEMMA StepIInv == IInv /\ [Next]_vars => IInv'
<1> SUFFICES ASSUME IInv, [Next]_vars PROVE IInv'
  OBVIOUS
<1>1. /\ TypeOK /\ Threads /\ ListsTyped /\ ThreadsTyped /\ CountsTyped
  BY TypeParts DEF IInv
<1>2. CASE UNCHANGED vars
  <2>1. UNCHANGED lists /\ UNCHANGED threads /\ UNCHANGED <<connected, reports, connects, damage>>
    BY <1>2 DEF vars
  <2>2. ListsTyped' /\ ThreadsTyped' /\ CountsTyped' /\ Threads'
    BY <1>1, <2>1, ListsTypedUnchanged, ThreadsUnchanged, CountsUnchanged
  <2>3. CASE damage = "none"
    <3>1. UNCHANGED <<lists, connected>>
      BY <2>1
    <3>2. ListsKept'
      BY <2>3, <3>1, KeptUnchanged DEF IInv
    <3> QED BY <2>1, <2>2, <2>3, <3>2, IInvKept
  <2>4. CASE damage # "none"
    <3>1. ~(EntriesAreOwned /\ PendingIsListed)
      BY <2>4 DEF IInv
    <3>2. ~(EntriesAreOwned /\ PendingIsListed)'
      <4>1. UNCHANGED <<querySet, queryType, queryMap, queryHead, vectorHead, vectorFree,
                        vectorTable, vectorTableSize, connected>>
        BY <2>1 DEF lists
      <4>2. EntriesAreOwned' <=> EntriesAreOwned
        BY <4>1 DEF EntriesAreOwned, NextOf, Listed, Ends, Walk
      <4>3. PendingIsListed' <=> PendingIsListed
        BY <4>1 DEF PendingIsListed, NextOf, Listed, Ends, Walk
      <4> QED BY <3>1, <4>2, <4>3
    <3> QED BY <2>1, <2>2, <2>4, <3>2, IInvLost
  <2> QED BY <2>3, <2>4
<1>3. CASE Next
  <2>1. damage = "none" /\ ListsKept
    BY <1>3 DEF Next, IInv
  <2>2. ASSUME NEW q \in Queries, Report(q) PROVE IInv'
    BY <2>1, <2>2, ReportIInv
  <2>3. CASE StartDispatch
    <3>1. UNCHANGED lists /\ UNCHANGED <<connected, reports, connects, damage>>
      BY <2>3 DEF StartDispatch
    <3>2. UNCHANGED <<lists, connected>>
      BY <3>1
    <3> QED BY <1>1, <2>1, <2>3, <3>1, <3>2, ThreadsStartDispatch, ListsTypedUnchanged, KeptUnchanged,
               CountsUnchanged, IInvKept
  <2>4. ASSUME NEW w \in Workers, Dispatch(w) PROVE IInv'
    BY <2>1, <2>4, DispatchIInv
  <2>5. CASE Complete
    <3>1. UNCHANGED lists /\ UNCHANGED <<connected, reports, connects, damage>>
      BY <2>5 DEF Complete, CompleteEarly, CompleteLate
    <3>2. UNCHANGED <<lists, connected>>
      BY <3>1
    <3> QED BY <1>1, <2>1, <2>5, <3>1, <3>2, ThreadsComplete, ListsTypedUnchanged, KeptUnchanged,
               CountsUnchanged, IInvKept
  <2>6. ASSUME NEW v \in Queries, NEW h \in Handlers, Connect(v, h) PROVE IInv'
    BY <2>1, <2>6, ConnectIInv
  <2>7. ASSUME NEW v \in Queries, ConnectFails(v) PROVE IInv'
    BY <2>1, <2>7, ConnectFailsIInv
  <2>8. ASSUME NEW v \in Queries, Disconnect(v) PROVE IInv'
    BY <2>1, <2>8, DisconnectIInv
  <2> QED BY <1>3, <2>2, <2>3, <2>4, <2>5, <2>6, <2>7, <2>8 DEF Next
<1> QED BY <1>2, <1>3

LEMMA InvariantHolds == Spec => []IInv
<1>1. Init => IInv
  BY InitIInv
<1>2. IInv /\ [Next]_vars => IInv'
  BY StepIInv
<1> QED BY <1>1, <1>2, PTL DEF Spec

-----------------------------------------------------------------------------
(* The theorems. *)

\* The free list and the two pending lists, which share QueryMap and
\* VectorTable, hold exactly what the bits and the map say, through every
\* order of reports, dispatches, connections and disconnections and for
\* every size of the table, until one of the three steps the model names
\* has been taken - and then they do not.
THEOREM QueryListsMatch == Spec => []ListsMatch
<1>1. IInv => ListsMatch
  BY ListsMatchKept DEF IInv, ListsMatch
<1> QED BY <1>1, InvariantHolds, PTL

\* The one pre-allocated request of AcpiEcDispatchQueries is sent only when
\* it has come back, by one thread at a time, and its completion never
\* finds a QueryState it does not expect.
THEOREM QueryRequestIsOne == Spec => []OneRequest
<1>1. IInv => OneRequest
  <2> SUFFICES ASSUME IInv PROVE OneRequest
    OBVIOUS
  <2> DEFINE Sending == {w \in Workers : pc[w] \in {"method", "after"}}
  <2>1. TypeOK /\ Threads
    BY DEF IInv
  <2>2. Cardinality(Sending) <= 1
    <3>1. CASE Sending = {}
      BY <3>1, FS_EmptySet
    <3>2. CASE Sending # {}
      <4>1. PICK w \in Sending : Sending = {w}
        BY <2>1, <3>2 DEF Threads, Sends
      <4>2. Cardinality({w}) = 1
        BY FS_Singleton
      <4> HIDE DEF Sending
      <4> QED BY <4>1, <4>2
    <3> QED BY <3>1, <3>2
  <2>3. /\ \A w \in Sending : pc[w] = "method" => request = None
        /\ request # None => queryState \in {"dispatch", "waiting"}
    BY <2>1 DEF Threads
  <2>4. queryState \in {"dispatch", "complete"} <=> Sending # {}
    BY <2>1 DEF Threads, Sends
  <2> HIDE DEF Sending
  <2> QED BY <2>1, <2>2, <2>3, <2>4 DEF OneRequest, Sending
<1> QED BY <1>1, InvariantHolds, PTL

\* A dispatcher that takes a pending vector takes with it the handler that
\* is connected to that number at the time.
THEOREM QueryCallsConnected == Spec => CallsWhatIsConnected
<1> DEFINE Calling == \A w \in Workers :
       pc[w] = "lists" /\ pc'[w] = "handler" =>
         connected[call'[w].vector] = call'[w].handler /\ call'[w].handler # None
<1>1. IInv /\ [Next]_vars => [Calling]_vars
  <2> SUFFICES ASSUME IInv, Next, NEW w \in Workers, pc[w] = "lists", pc'[w] = "handler"
               PROVE  connected[call'[w].vector] = call'[w].handler /\ call'[w].handler # None
    BY DEF vars
  <2>1. /\ TypeOK /\ Threads /\ ListsKept /\ ThreadsTyped
    BY TypeParts DEF IInv, Next
  <2>2. pc \in [Workers -> {"idle", "lists", "handler", "method", "after"}]
    BY <2>1 DEF ThreadsTyped
  <2>3. TakeVector(w)
    <3>1. pc'[w] # pc[w]
      OBVIOUS
    <3>2. ~Complete
      BY <2>1, <3>1, ThreadsComplete
    <3>3. ~StartDispatch
      BY <2>2 DEF StartDispatch
    <3>4. PICK x \in Workers : Dispatch(x)
      BY <3>1, <3>2, <3>3 DEF Next, Report, Connect, ConnectFails, Disconnect, threads
    <3>5. ~StartQueries(x) /\ ~AfterMethod(x)
      BY <2>1, <3>1, ThreadsStartQueries, ThreadsAfterMethod
    <3>6. ~HandlerReturns(x) /\ ~LeaveQueries(x) /\ ~RunQueryMethod(x)
      BY <2>2 DEF HandlerReturns, LeaveQueries, RunQueryMethod
    <3>7. TakeVector(x)
      BY <3>4, <3>5, <3>6 DEF Dispatch
    <3>8. x = w
      BY <2>2, <3>1, <3>7 DEF TakeVector
    <3> QED BY <3>7, <3>8
  <2> QED BY <2>1, <2>3, TakenVector
<1> QED BY <1>1, InvariantHolds, PTL DEF Spec, CallsWhatIsConnected
=============================================================================
