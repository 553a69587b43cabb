--------------------------- MODULE MCSerialWrite ---------------------------
(* Instances of SerialWrite for TLC. *)
EXTENDS SerialWrite

\* Threads are interchangeable, and so are requests of one kind.
Symmetry == Permutations(Workers) \union Permutations(Writes) \union Permutations(Flushes)
              \union Permutations(Xoffs) \union Permutations(Immediates)
=============================================================================
