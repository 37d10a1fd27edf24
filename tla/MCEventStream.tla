---------------------------- MODULE MCEventStream ----------------------------
(* A person and some code, a queue that fills up, and a feed that is cut.     *)
EXTENDS EventStream
=============================================================================
