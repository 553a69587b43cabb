---------------------------- MODULE MCEcService ----------------------------
(* Instances of EcService for TLC. *)
EXTENDS EcService
============================================================================
