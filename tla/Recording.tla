------------------------------ MODULE Recording ------------------------------
(****************************************************************************)
(* A recording and its edits: qat_recorder/ir.py, class Recording.          *)
(*                                                                          *)
(* A recording is a record of two sequences, the steps (`actions`) and the  *)
(* gaps (`drops`).  A gap's place is the number of steps recorded before it *)
(* (`after`), so every edit of the steps has to think of the gaps.  What a  *)
(* step or a gap says besides its place is the caller's: any record with    *)
(* the field `after`, and `repaired` for a gap, will do.                    *)
(****************************************************************************)
EXTENDS Naturals, Sequences

\* A new recording: the application is launched and nothing has happened.
NewRecording(launch) == [actions |-> <<launch>>, drops |-> <<>>]

Add(rec, step) == [rec EXCEPT !.actions = Append(@, step)]

AddDrop(rec, drop) == [rec EXCEPT !.drops = Append(@, drop)]

\* `step` put in front of all but the first `index` elements of `steps`.
Inserted(steps, index, step) ==
  [i \in 1..(Len(steps) + 1) |-> IF i <= index THEN steps[i]
                                 ELSE IF i = index + 1 THEN step
                                 ELSE steps[i - 1]]

\* Mutant: a gap exactly at the place stays where it is.
MovedStrictly(drop, at) ==
  IF drop.after > at THEN [drop EXCEPT !.after = @ + 1] ELSE drop

\* A gap at or after the place where a step goes in moves along.
Moved(drop, at) ==
  IF drop.after >= at THEN [drop EXCEPT !.after = @ + 1] ELSE drop

\* An index past the end means the end.
Clamped(rec, index) == IF index > Len(rec.actions) THEN Len(rec.actions) ELSE index

\* insert_at.
InsertAt(rec, index, step) ==
  LET at == Clamped(rec, index)
  IN  [actions |-> Inserted(rec.actions, at, step),
       drops |-> [d \in DOMAIN rec.drops |-> Moved(rec.drops[d], at)]]

\* Mutant: every gap, filled or not.
AllDrops(rec) == DOMAIN rec.drops

\* The positions `repair` takes: gaps there are that nobody has filled.
OpenDrops(rec) == {d \in DOMAIN rec.drops : ~rec.drops[d].repaired}

\* Mutant: the step goes in and the other gaps are forgotten.
RepairOneGap(rec, position, step) ==
  [actions |-> Inserted(rec.actions, Clamped(rec, rec.drops[position].after), step),
   drops |-> [rec.drops EXCEPT ![position].repaired = TRUE]]

\* repair: the step goes where the gap is, and the gap stays where it was.
Repair(rec, position, step) ==
  LET at == rec.drops[position].after
      inserted == InsertAt(rec, at, step)
  IN  [actions |-> inserted.actions,
       drops |-> [inserted.drops EXCEPT ![position] = [@ EXCEPT !.after = at, !.repaired = TRUE]]]

\* The last step taken off again.  The gaps are left alone: this is
\* `actions.pop()`, done by the undo of the controller and by the folding of a
\* click on a combo box into the choice made from it.
WithoutLast(rec) ==
  [rec EXCEPT !.actions = SubSeq(@, 1, Len(@) - 1)]
=============================================================================
