------------------------------ MODULE LineFeed ------------------------------
(****************************************************************************)
(* What the filter inside the application promises the recorder about the   *)
(* lines it reports (the abstract view of native/qatrec.cpp with the        *)
(* EventReceiver of qat_recorder/events.py).                                *)
(*                                                                          *)
(* Lines are heard in the order they were said, none twice and none made    *)
(* up.  While the feed is open a line is refused only when Room others are  *)
(* waiting; what was not refused is heard, unless the feed is cut first:    *)
(* then the last of the waiting lines are lost, and all that follow.        *)
(****************************************************************************)
EXTENDS Naturals, Sequences

CONSTANTS Lines,  \* the lines that can be said
          Room    \* how many lines may be waiting

VARIABLES said,    \* the lines said, refused ones among them
          waiting, \* lines not refused and not yet heard
          got,     \* lines heard
          open     \* the feed has not been cut

vars == <<said, waiting, got, open>>

Init == said = <<>> /\ waiting = <<>> /\ got = <<>> /\ open = TRUE

Say == \E line \in Lines : /\ said' = Append(said, line)
                           /\ \/ open /\ waiting' = Append(waiting, line)
                              \/ (open => Len(waiting) >= Room) /\ UNCHANGED waiting
                           /\ UNCHANGED <<got, open>>

Hear == \E n \in 1..Len(waiting) : /\ got' = got \o SubSeq(waiting, 1, n)
                                   /\ waiting' = SubSeq(waiting, n + 1, Len(waiting))
                                   /\ UNCHANGED <<said, open>>

Cut == /\ open' = FALSE
       /\ \E n \in 0..Len(waiting) : waiting' = SubSeq(waiting, 1, n)
       /\ UNCHANGED <<said, got>>

Next == Say \/ Hear \/ Cut

Spec == Init /\ [][Next]_vars /\ WF_vars(Hear)
=============================================================================
