----------------------------- MODULE MCController -----------------------------
(* The controller over an application with a button, which is a widget in a  *)
(* window that sees every click first, an item of a Qt Quick window, whose   *)
(* copies the filter holds back, and a control nobody can identify.          *)
EXTENDS Controller

CONSTANTS button, item, unknown, window

MCControls == {button, item, unknown, window}
MCPressable == {button, item, unknown}
MCKind == [c \in MCControls |-> IF c = window THEN "window" ELSE "plain"]
MCOwner == [c \in MCControls |-> c]
MCThrough == [c \in MCControls |-> IF c = button THEN window ELSE c]
MCKnown == [c \in MCControls |-> IF c = unknown THEN {"missing"} ELSE {"found"}]
=============================================================================
