------------------------------ MODULE MCReplay ------------------------------
(* An input above two pages; a button, two inputs and a list on the first, a *)
(* button on the second; a dialog with two check boxes of one text and a     *)
(* list.  Names and texts of the rest differ or are the same.                *)
EXTENDS Replay

MCNodes == 1..13
MCParentOf == <<0, 1, 1, 3, 3, 3, 3, 1, 8, 1, 10, 10, 10>>
MCClassOf == <<"Window", "LineEdit", "Page", "Button", "LineEdit", "LineEdit", "List", "Page", "ToolButton",
               "Dialog", "CheckBox", "CheckBox", "List">>
MCInherits == {<<"ToolButton", "Button">>}
MCControls == {4, 5, 7, 9, 12, 13}
MCViews == {7, 13}
MCPageOf == <<0, 0, 3, 3, 3, 3, 3, 8, 8, 10, 10, 10, 10>>

\* Two rows, one with the text of the first, one without any, a new one.
MCRowText == <<"r", "s", "r", "", "n">>

Props(name, label, text) == [objectName |-> name, id |-> "", accessibleName |-> label, text |-> text]
Bare == Props("", "", "")

\* An identity: named, labelled, a text and no more, or nothing.
Looks == {Props("a", "", "t"), Props("", "b", "t"), Props("", "", "t"), Bare}
Pages == {<<Bare, Bare>>, <<Props("p", "", ""), Bare>>, <<Props("p", "", ""), Props("p", "", "")>>}

List(tells, bounds, selects, plain, places) ==
  [tells |-> tells, bounds |-> bounds, selects |-> selects, plain |-> plain, places |-> places]
Plainest == List(TRUE, TRUE, TRUE, TRUE, TRUE)

Scene(pages, x, y, z, v, act, rows, list, later) ==
  [props |-> <<Bare, Bare, pages[1], x, Bare, Bare, v, pages[2], y, Bare, Props("", "", z.text), z, v>>,
   does |-> [n \in MCNodes |-> IF n = 4 THEN act ELSE "switch"],
   rows |-> [n \in MCViews |-> IF n = 13 THEN SelectSeq(rows, LAMBDA r : r # 2) ELSE rows], list |-> list, later |-> later]

\* What objects are named by, without rows.  The dialog is only seen if it opens.
NameScenes ==
  {Scene(pages, x, y, z, Bare, "open", <<>>, Plainest, <<>>) : pages \in Pages, x \in Looks, y \in Looks, z \in Looks}
  \cup {Scene(pages, x, y, Bare, Bare, "switch", <<>>, Plainest, <<>>) : pages \in Pages, x \in Looks, y \in Looks}

\* Lists whose rows are told, found at the point or read when chosen, some without
\* the text as a property or a rectangle to click; rows that move and repeat.
ListKinds == {Plainest, List(FALSE, TRUE, FALSE, TRUE, TRUE), List(FALSE, FALSE, TRUE, FALSE, TRUE),
              List(FALSE, FALSE, TRUE, TRUE, FALSE), List(TRUE, FALSE, FALSE, TRUE, FALSE)}
Button == Props("a", "", "t")
RowScenes ==
  {Scene(<<Bare, Bare>>, Button, Bare, Bare, how[1], how[2], rows[1], list, rows[2]) :
     how \in {<<Bare, "open">>, <<Props("v", "", ""), "open">>, <<Bare, "fill">>},
     rows \in {<<<<1, 2>>, <<>>>>, <<<<1, 2>>, <<3>>>>, <<<<4, 2>>, <<3>>>>}, list \in ListKinds}

MCScenes == NameScenes \cup RowScenes
=============================================================================
