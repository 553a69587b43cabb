------------------------------ MODULE IrpQueue ------------------------------
(***************************************************************************)
(* What every request queue of serial.sys promises, stated without the     *)
(* locks, reference bits, timers and deferred procedures that implement    *)
(* it.  A request is refused at once, or becomes the current request, or   *)
(* waits behind it; the queue is served in the order of arrival; a waiting *)
(* request may be cancelled; only the current request is completed by the  *)
(* device, and its completion and the start of its successor are one step, *)
(* so nobody ever sees a queue that waits for nothing.                     *)
(***************************************************************************)
EXTENDS Sequences, SequencesExt

CONSTANTS Irps, None

VARIABLES pending,  \* requests that wait, oldest first
          active,   \* the request being served, or None
          done      \* requests that were completed

vars == <<pending, active, done>>

Init == pending = <<>> /\ active = None /\ done = {}

Known == done \union ToSet(pending) \union {active}

Refuse(i) ==
  /\ i \notin Known
  /\ done' = done \union {i}
  /\ UNCHANGED <<pending, active>>

Begin(i) ==
  /\ i \notin Known /\ active = None /\ pending = <<>>
  /\ active' = i
  /\ UNCHANGED <<pending, done>>

Enqueue(i) ==
  /\ i \notin Known /\ active # None
  /\ pending' = Append(pending, i)
  /\ UNCHANGED <<active, done>>

Withdraw(k) ==
  /\ pending' = RemoveAt(pending, k)
  /\ done' = done \union {pending[k]}
  /\ UNCHANGED active

Finish ==
  /\ active # None
  /\ done' = done \union {active}
  /\ IF pending = <<>>
       THEN active' = None /\ pending' = pending
       ELSE active' = Head(pending) /\ pending' = Tail(pending)

Next ==
  \/ \E i \in Irps : Refuse(i) \/ Begin(i) \/ Enqueue(i)
  \/ \E k \in DOMAIN pending : Withdraw(k)
  \/ Finish

Spec == Init /\ [][Next]_vars
=============================================================================
