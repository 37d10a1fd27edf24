-------------------------------- MODULE Edits --------------------------------
(****************************************************************************)
(* What may happen to one recording (qat_recorder/ir.py, Recording) while   *)
(* it is made and edited: capture.py appends steps and gaps and replaces a  *)
(* click by a choice, ui/controller.py appends the operator's own steps,    *)
(* fills gaps and takes the last step back.  Any of these may follow any.   *)
(*                                                                          *)
(* Things happen one after another in the application and are numbered.  A  *)
(* step or a gap knows the number of what it stands for: 0 for the launch   *)
(* and for a step of the operator's own, the gap's number for the step that *)
(* fills it.  Everything else a step says is left out.  The numbers are     *)
(* those of the order in which folding records things; what it records late *)
(* (a typing run, a value) is the subject of Capture.                       *)
(****************************************************************************)
EXTENDS Recording

CONSTANTS MaxHappened,  \* bound: how many things happen in the application
          MaxEdits      \* bound: how many times the operator edits

ASSUME EditsAssumption == MaxHappened \in Nat /\ MaxEdits \in Nat

VARIABLES rec,       \* the recording
          happened,  \* how much has happened in the application
          edits,     \* how much the operator has edited
          undone,    \* what the steps stood for that were taken back
          cut        \* the gaps a step taken off left without a place

vars == <<rec, happened, edits, undone, cut>>

Step(of, fill) == [of |-> of, fill |-> fill]

Init == /\ rec = NewRecording(Step(0, FALSE))
        /\ happened = 0
        /\ edits = 0
        /\ undone = {}
        /\ cut = {}

Happens == /\ happened < MaxHappened
           /\ happened' = happened + 1
           /\ UNCHANGED <<edits, undone, cut>>

\* A step is folded: self.recording.add in capture.py.
FoldStep == Happens /\ rec' = Add(rec, Step(happened + 1, FALSE))

\* Mutant: the gap is put behind the step that comes next.
FoldGapBehind == Happens /\ rec' = AddDrop(rec, [after |-> Len(rec.actions) + 1, of |-> happened + 1,
                                                 repaired |-> FALSE])

\* An event becomes a gap, _record_drop.
FoldGap == Happens /\ rec' = AddDrop(rec, [after |-> Len(rec.actions), of |-> happened + 1,
                                           repaired |-> FALSE])

\* A choice from a combo box replaces the click that opened it, whether that
\* click was folded or fills a gap: _drop_click_on, then add.
FoldChoice == /\ rec.actions[Len(rec.actions)].of # 0
              /\ Happens
              /\ rec' = Add(WithoutLast(rec), rec.actions[Len(rec.actions)])

\* What a pop of the last step does, and what it leaves behind.
PopLast == /\ rec' = WithoutLast(rec)
           /\ undone' = undone \cup {rec.actions[Len(rec.actions)].of}
           /\ cut' = cut \cup {d \in DOMAIN rec.drops : rec.drops[d].after >= Len(rec.actions)}

\* The same, but the choice is only known when the combo box is read: the click
\* goes now, and what replaces it is folded later, or never if it cannot be read.
AwaitChoice == /\ Len(rec.actions) > 1
               /\ rec.actions[Len(rec.actions)].of # 0
               /\ happened < MaxHappened
               /\ happened' = happened + 1
               /\ PopLast
               /\ UNCHANGED edits

Edit == /\ edits < MaxEdits
        /\ edits' = edits + 1
        /\ UNCHANGED happened

\* A checkpoint or a step the operator wrote.
AddOwnStep == Edit /\ rec' = Add(rec, Step(0, FALSE)) /\ UNCHANGED <<undone, cut>>

\* A gap is filled, by any of the ways the controller has.
FillGap == /\ Edit
           /\ \E position \in OpenDrops(rec) :
                rec' = Repair(rec, position, Step(rec.drops[position].of, TRUE))
           /\ UNCHANGED <<undone, cut>>

\* drop_last_action: never the launch.
TakeBack == Len(rec.actions) > 1 /\ Edit /\ PopLast

Next == \/ FoldStep
        \/ FoldGap
        \/ FoldChoice
        \/ AwaitChoice
        \/ AddOwnStep
        \/ FillGap
        \/ TakeBack

Spec == Init /\ [][Next]_vars

-----------------------------------------------------------------------------
Steps == rec.actions
Gaps == rec.drops

StepType == [of : Nat, fill : BOOLEAN]
GapType == [after : Nat, of : Nat, repaired : BOOLEAN]

TypeOK == /\ happened \in Nat /\ edits \in Nat
          /\ rec \in [actions : Seq(StepType), drops : Seq(GapType)]
          /\ Steps # <<>>
          /\ \A i \in DOMAIN Steps : Steps[i].of <= happened
          /\ \A d \in DOMAIN Gaps : Gaps[d].of \in 1..happened
          /\ undone \subseteq Nat
          /\ cut \subseteq DOMAIN Gaps

\* A gap that no step taken off has cut off has a place among the steps, so the generated
\* script marks it (emit/python.py:863-869), whatever was filled before it.
PlacedUnlessCut == \A d \in DOMAIN Gaps : d \in cut \/ Gaps[d].after <= Len(Steps)

\* Appending, choosing and filling gaps in any order leave each gap between the
\* steps it fell between: those recorded before it are in front of it and those
\* recorded later are behind it (ir.py:337-368).
GapsKeepTheirPlace ==
  \A d \in DOMAIN Gaps : \A i \in DOMAIN Steps :
    d \in cut \/ Steps[i].of = 0 \/ Steps[i].fill
      \/ (i <= Gaps[d].after <=> Steps[i].of < Gaps[d].of)

\* A filled gap goes on pointing at the step that fills it, however much is
\* inserted around it, until that step is taken back (ir.py:352-368).
FillsStayWithTheirGaps ==
  \A d \in DOMAIN Gaps :
    Gaps[d].repaired =>
      \/ d \in cut \/ Gaps[d].of \in undone
      \/ Gaps[d].after < Len(Steps) /\ Steps[Gaps[d].after + 1].of = Gaps[d].of

\* A gap is filled by one step at most, and nothing that happened is two steps
\* (ir.py:360-361, capture.py:893-901).
OneStepForEach ==
  \A i, j \in DOMAIN Steps : i # j /\ Steps[i].of # 0 => Steps[i].of # Steps[j].of
=============================================================================
