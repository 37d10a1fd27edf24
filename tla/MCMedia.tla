------------------------------- MODULE MCMedia -------------------------------
(* MediaQueue on a small instance: more pictures asked for than the queue    *)
(* holds, and than a session may take.                                       *)
EXTENDS MediaQueue
=============================================================================
