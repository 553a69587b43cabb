---------------------------- MODULE MCSerialWait ----------------------------
(* Instances of SerialWait for TLC. *)
EXTENDS SerialWait
=============================================================================
