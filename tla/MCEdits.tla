------------------------------- MODULE MCEdits -------------------------------
(* Edits on a small instance: every recording of a few things that happened  *)
(* and a few edits.                                                          *)
EXTENDS Edits
=============================================================================
