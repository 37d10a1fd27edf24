-------------------------- MODULE MCCapturePointer --------------------------
(* Capture with the mouse alone: a button, a control nobody can identify, a  *)
(* combo box and a row of its popup, two entries of a menu.                  *)
EXTENDS Capture

CONSTANTS button, unknown, combo, choice, file, open, window

MCControls == {button, unknown, combo, choice, file, open, window}
MCPointed == {button, unknown, combo, choice, file}

MCKind == [c \in MCControls |-> CASE c = choice         -> "popup"
                                  [] c \in {file, open} -> "menu"
                                  [] c = window         -> "window"
                                  [] OTHER              -> "plain"]

MCOwner == [c \in MCControls |-> IF c = choice THEN combo ELSE c]

MCKnown == [c \in MCControls |-> IF c = unknown THEN {"missing"} ELSE {"found"}]

\* Where a drag or the release of a menu press can end.
MCElsewhere == {unknown, open}
=============================================================================
