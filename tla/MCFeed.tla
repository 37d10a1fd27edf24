------------------------------- MODULE MCFeed -------------------------------
(* A session watched by the panel of another machine, or by a browser, with  *)
(* commands and faults; or by both at once, without.                         *)
EXTENDS Feed

MCInit == /\ Init
          /\ \E r \in Readers : open[r]
          /\ troubles = IF \A r \in Readers : open[r] THEN MaxTroubles ELSE 0

MCSpec == MCInit /\ [][Next]_vars /\ Fairness
=============================================================================
