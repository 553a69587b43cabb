---------------------------- MODULE MCSerialPnp ----------------------------
(* Instances of SerialPnp for TLC: the minor functions a run allows. *)
EXTENDS SerialPnp

AllMinors    == {"query_stop", "cancel_stop", "stop", "start", "query_remove", "cancel_remove",
                 "surprise", "remove"}
RemoveMinors == {"query_remove", "cancel_remove", "surprise", "remove"}
============================================================================
