--------------------------- MODULE MCCaptureInput ---------------------------
(* Capture with keyboard, wheel and window closing among the clicks: a text  *)
(* field, a spin box that may vanish before it is read, a slider, a row only *)
(* the view's selection tells of, a control nobody can identify, a dialog.   *)
EXTENDS Capture

CONSTANTS field, spin, slider, row, list, unknown, dialog

MCControls == {field, spin, slider, row, list, unknown, dialog}

MCKind == [c \in MCControls |-> CASE c = field  -> "field"
                                  [] c \in {spin, slider} -> "value"
                                  [] c = row    -> "row_selected"
                                  [] c = dialog -> "window"
                                  [] OTHER      -> "plain"]

MCOwner == [c \in MCControls |-> IF c = row THEN list ELSE c]

MCKnown == [c \in MCControls |-> CASE c = unknown -> {"missing"}
                                   [] c = spin    -> {"found", "fading"}
                                   [] c = row     -> {"found", "reported"}
                                   [] OTHER       -> {"found"}]

MCPointed == {spin, row, unknown}
MCTyped == {<<field, "text">>, <<field, "other">>, <<field, "command">>, <<unknown, "text">>}
MCHot == {field}
MCTurned == {spin, slider, unknown}
MCClosed == {dialog}
=============================================================================
