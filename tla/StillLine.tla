------------------------------ MODULE StillLine ------------------------------
(****************************************************************************)
(* What the camera behind the recorder promises whoever asks it for a still *)
(* (the abstract view of qat_recorder/media.py, class SessionMedia).        *)
(*                                                                          *)
(* A name handed out is a place in a line.  The line is served in the order *)
(* the names were handed out, one at a time, nobody leaves it unserved, and *)
(* no more than Room names are waiting at once: further requests are        *)
(* refused and leave no trace.                                              *)
(****************************************************************************)
EXTENDS Naturals, Sequences

CONSTANTS Names,    \* the names a still can be given
          Room      \* how many names may be waiting to be served

VARIABLES accepted, \* every name handed out, in order
          served    \* the names the camera is through with, in order

vars == <<accepted, served>>

Init == accepted = <<>> /\ served = <<>>

Accept == /\ Len(accepted) < Len(served) + Room
          /\ \E name \in Names : accepted' = Append(accepted, name)
          /\ UNCHANGED served

Serve == /\ Len(served) < Len(accepted)
         /\ served' = Append(served, accepted[Len(served) + 1])
         /\ UNCHANGED accepted

Next == Accept \/ Serve

Spec == Init /\ [][Next]_vars /\ WF_vars(Serve)
=============================================================================
