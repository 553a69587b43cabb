----------------------------- MODULE MCEcQuery -----------------------------
(* Instances of EcQuery for TLC. *)
EXTENDS EcQuery
============================================================================
