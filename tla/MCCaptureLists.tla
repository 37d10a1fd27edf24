--------------------------- MODULE MCCaptureLists ---------------------------
(* Capture with the kinds of list the other instances leave out: a combo box *)
(* whose popup does not say which row was chosen, rows of a view that are    *)
(* numbered or ambiguous, and the window furniture around them.              *)
EXTENDS Capture

CONSTANTS combo, choice, row, twin, list, frame

MCControls == {combo, choice, row, twin, list, frame}
MCPressable == {combo, choice, row, twin, frame}

MCKind == [c \in MCControls |-> CASE c = choice -> "popup_unread"
                                  [] c = row    -> "row"
                                  [] c = twin   -> "row_ambiguous"
                                  [] c = frame  -> "chrome"
                                  [] OTHER      -> "plain"]

MCOwner == [c \in MCControls |-> CASE c = choice        -> combo
                                   [] c \in {row, twin} -> list
                                   [] OTHER             -> c]

\* The combo box can be gone when its choice is read.
MCKnown == [c \in MCControls |-> CASE c = choice -> {"found", "fading", "missing"}
                                   [] c = row    -> {"found", "reported"}
                                   [] OTHER      -> {"found"}]
=============================================================================
