---------------------------- MODULE FifoServer ----------------------------
(***************************************************************************)
(* What a device that serves its requests one after the other promises: a  *)
(* request is refused at once or waits in the order of arrival, only the   *)
(* first is finished, and each is finished in the end.                     *)
(***************************************************************************)
EXTENDS Sequences, SequencesExt

CONSTANT Requests

VARIABLES waiting,  \* accepted and not finished, oldest first
          finished  \* refused or finished

vars == <<waiting, finished>>

Init == waiting = <<>> /\ finished = {}

Submit(i) ==
  /\ i \notin ToSet(waiting) \union finished
  /\ waiting' = Append(waiting, i)
  /\ UNCHANGED finished

Refuse(i) ==
  /\ i \notin ToSet(waiting) \union finished
  /\ finished' = finished \union {i}
  /\ UNCHANGED waiting

Serve ==
  /\ waiting # <<>>
  /\ waiting' = Tail(waiting)
  /\ finished' = finished \union {Head(waiting)}

Next == Serve \/ \E i \in Requests : Submit(i) \/ Refuse(i)

Spec == Init /\ [][Next]_vars /\ WF_vars(Serve)
=============================================================================
