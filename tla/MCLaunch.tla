------------------------------ MODULE MCLaunch ------------------------------
(* Starting and closing on a machine where other processes come and go.     *)
EXTENDS Launch
=============================================================================
