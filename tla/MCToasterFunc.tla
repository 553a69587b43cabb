--------------------------- MODULE MCToasterFunc ---------------------------
(* Instances of ToasterFunc for TLC. *)
EXTENDS ToasterFunc
============================================================================
