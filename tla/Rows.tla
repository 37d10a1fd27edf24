-------------------------------- MODULE Rows --------------------------------
(****************************************************************************)
(* Rows of lists, trees and tables (qat_recorder/items.py, _handle_item of  *)
(* capture.py, and the row and click_row a generated test carries,          *)
(* emit/python.py).                                                         *)
(*                                                                          *)
(* A row is no object: Qat has it by the view's definition and a number.  A *)
(* number says nothing once the list has changed, so the text that was read *)
(* goes with it, and a test looks for the text.                             *)
(*                                                                          *)
(* A world has, besides its objects, the rows of each view, the one chosen  *)
(* in each, and a `list`: what the filter and the views are able to tell.   *)
(****************************************************************************)
EXTENDS Naming

CONSTANTS Views,     \* objects that draw rows
          RowText    \* what each row shows, None when it shows no text

ASSUME RowsAssumption == Views \subseteq Nodes

Lists == [tells : BOOLEAN,    \* the filter reports the row clicked and its text
          bounds : BOOLEAN,   \* a row has geometry
          selects : BOOLEAN,  \* a view has a property that says what is chosen
          plain : BOOLEAN,    \* a row's text is its property `text`
          places : BOOLEAN]   \* a row can be clicked: its rectangle is in the view

NoRow == [at |-> 0, text |-> None, select |-> FALSE, set |-> FALSE]

NoPress == [on |-> 0, point |-> 0, row |-> 0, text |-> None, view |-> None]

\* What a press on row r says of it, besides the locator: the number, the text and
\* the name of the view if the filter can tell; and the point, which is the row's.
Pressed(w, v, r) ==
  [on |-> v, point |-> r,
   row |-> IF w.list.tells THEN r ELSE 0,
   text |-> IF w.list.tells THEN RowText[w.rows[v][r]] ELSE None,
   view |-> IF w.list.tells THEN w.props[v]["objectName"] ELSE None]

\* find_all of a row: as many as views that have the definition and so many rows.
ViewsWith(w, d, r) == {v \in Views \cap Range(FindAll(w, d)) : r \in DOMAIN w.rows[v]}
IsOne(w, d, r) == Cardinality(ViewsWith(w, d, r)) = 1
RowAt(w, d, r) == w.rows[CHOOSE v \in ViewsWith(w, d, r) : TRUE][r]

\* discover_row: from the first row on, until one is not to be had.
Hit(w, d, point) ==
  IF w.list.bounds /\ \A r \in 1..point : IsOne(w, d, r) THEN point ELSE 0

\* _view_target: by the name the filter gave, if it is one object's and that can
\* be named; else as any object is named.
ViewByName(w, press) ==
  LET named == IF press.view = None THEN <<>> ELSE FindAll(w, Plain([objectName |-> press.view]))
  IN  IF Len(named) = 1 THEN StepIfNamed(named[1], Resolve(w, named[1]), "found", Gap("not unique"))
      ELSE Gap("no name")

\* item_text_of: every label a row publishes, and then its model.
Label(w, d, r, text) == IF text # None THEN text ELSE RowText[RowAt(w, d, r)]

\* _handle_item: the row as told, or as found at the point, or, when nothing says
\* where, whatever is chosen by now, as a row or else as a number to set.
RowOf(w, press, view) ==
  LET d == view.target.definition
      selects == view.node \in Views /\ w.list.selects
      hit == Hit(w, d, press.point)
      chosen == w.chosen[view.node]
      Row(r, text) == [at |-> r, text |-> Label(w, d, r, text), select |-> selects, set |-> FALSE]
  IN  CASE press.row # 0 /\ IsOne(w, d, press.row) -> Row(press.row, press.text)
        [] press.row = 0 /\ hit # 0                -> Row(hit, None)
        [] press.row = 0 /\ hit = 0 /\ selects     ->
             IF IsOne(w, d, chosen) THEN Row(chosen, None)
             ELSE [at |-> chosen, text |-> None, select |-> TRUE, set |-> TRUE]
        [] OTHER -> NoRow

----------------------------------------------------------------------------
(* The generated test.                                                      *)

\* What `text` of a row is.
TextOf(w, v, r) == IF w.list.plain THEN RowText[w.rows[v][r]] ELSE None

\* row: the first with the text, however far it has moved; where nothing was to
\* be read, the one with the number.  0: there is none, and the test fails.
RowByText(w, v, row) ==
  LET same == {r \in DOMAIN w.rows[v] : TextOf(w, v, r) = row.text}
  IN  CASE row.text = None /\ row.at \in DOMAIN w.rows[v] -> row.at
        [] row.text # None /\ same # {} -> CHOOSE r \in same : \A other \in same : r <= other
        [] OTHER -> 0

\* click_row: by clicking it, or by the view's own property.
CanChoose(w, row) == w.list.places \/ row.select

\* _preconditions, of one row: its view is on screen and shows its text.
IsThere(w, d, row) == LET views == WaitFor(w, d)
                      IN  Len(views) = 1 /\ views[1] \in Views /\ RowByText(w, views[1], row) # 0
=============================================================================
