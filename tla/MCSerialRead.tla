---------------------------- MODULE MCSerialRead ----------------------------
(* Instances of SerialRead for TLC. *)
EXTENDS SerialRead, TLC

\* Threads are interchangeable, and so are requests: none has a fixed role.
Symmetry == Permutations(Workers) \union Permutations(Irps)
=============================================================================
