---------------------------- MODULE MCEventStream ----------------------------
(* A model of EventStream for TLC. *)
EXTENDS EventStream
=============================================================================
