------------------------------- MODULE Folding -------------------------------
(****************************************************************************)
(* How raw events become steps: qat_recorder/capture.py, CaptureSession,    *)
(* as operators on its state, which is a record `cap`:                      *)
(*                                                                          *)
(*   rec      the recording: steps and gaps                                 *)
(*   failed   the events self.failures has a line for                       *)
(*   group    self._group: what is still being collected into one           *)
(*            interaction                                                   *)
(*   pending  self._pending: <<>> or the press waiting for its release      *)
(*   menuAt   self._menu_press_t: <<>> or a time                            *)
(*   menuOn   self._menu_definition                                         *)
(*   itemAt   self._item_press_t: <<>> or a time                            *)
(*   typing   self._typing_*: <<>> or the typing run in progress            *)
(*   value    self._value_*: <<>> or the value change in progress           *)
(*   cache    self._resolved_cache: what was found out about each control   *)
(*                                                                          *)
(* An event is a record: its number n, its kind, the control it was         *)
(* delivered to (on), its time t, what the application answers when asked   *)
(* about the control at that moment (answer), and for a key which sort of   *)
(* key it was.  Buttons, modifiers, texts and coordinates only decorate a   *)
(* step and are left out; so is the filter's `hello`, which changes only    *)
(* the wording of a reason.                                                 *)
(*                                                                          *)
(* A step knows the events it stands for (`of`).  The code does not keep    *)
(* them; every property about lost, invented or reordered steps is about    *)
(* them.                                                                    *)
(****************************************************************************)
EXTENDS Integers, Sequences, FiniteSets, Recording

CONSTANTS
  Controls,   \* what an event can be delivered to
  NoControl,  \* no control
  Kind,       \* what sort of control each one is, of Kinds
  Owner,      \* the control a step on it is attributed to: a popup's combo
              \* box, a row's view, otherwise itself
  GroupMs,    \* how far apart the deliveries of one interaction can be
  ClickMs,    \* how far apart a press and its release can be
  FoldMs      \* _SAME_INTERACTION_S, for two gaps that are one

Kinds ==
  {"plain",         \* a button, a label, a check box
   "field",         \* takes text
   "value",         \* a spin box, a slider: has a value to read
   "bar",           \* a menu whose entries the filter does not name
   "menu",          \* an entry of a menu
   "row",           \* a row the filter or Qat can number
   "row_ambiguous", \* numbered, and Qat lists no one item there
   "row_selected",  \* only the view's selection says which it was
   "row_lost",      \* not even that
   "popup",         \* a row of a combo box's popup, with its text
   "popup_unread",  \* the same, the filter did not say which row
   "chrome",        \* window furniture
   "window"}        \* the window an event passes through on its way

\* What asking the application about a control finds: the object, an object
\* that will be gone when its value is read, only the filter's own report of
\* it, or nothing that identifies it.
Answers == {"found", "fading", "reported", "missing"}

ASSUME FoldingAssumption ==
  /\ NoControl \notin Controls
  /\ Kind \in [Controls -> Kinds]
  /\ Owner \in [Controls -> Controls]
  /\ GroupMs \in Nat /\ ClickMs \in Nat /\ FoldMs \in Nat

MouseKinds == {"mouse_press", "mouse_release", "mouse_double"}
EventKinds == MouseKinds \cup {"key_press", "shortcut", "wheel", "close_window"}
KeySorts == {"text", "other", "command"}

\* `shot` is the picture the controller has asked for: 0 is none yet.
Step(kind, on, of) == [kind |-> kind, on |-> on, of |-> of, shot |-> 0]

NewCapture ==
  [rec |-> NewRecording(Step("launch", NoControl, {})),
   failed |-> {}, group |-> <<>>, pending |-> <<>>,
   menuAt |-> <<>>, menuOn |-> NoControl, itemAt |-> <<>>,
   typing |-> <<>>, value |-> <<>>,
   cache |-> [c \in Controls |-> "unknown"]]

Record(cap, step) == [cap EXCEPT !.rec = Add(@, step)]

\* Whether `t` is within `ms` of the moment in `when`, if there is one.
Within(t, when, ms) == when # <<>> /\ t - when[1] <= ms

-----------------------------------------------------------------------------
(* Asking the application.                                                  *)

Target(ev) == Owner[ev.on]

\* _resolve: the first answer about a control is kept for the session.
Resolve(cap, ev) ==
  IF cap.cache[Target(ev)] # "unknown" THEN cap
  ELSE [cap EXCEPT !.cache[Target(ev)] =
          IF Kind[Target(ev)] = "chrome" THEN "missing" ELSE ev.answer]

Answer(cap, ev) == cap.cache[Target(ev)]

-----------------------------------------------------------------------------
(* Events that do not become steps.                                         *)

\* The reasons that are a decision rather than a loss, DELIBERATE.
Deliberate == {"chrome", "scrolling", "dragging"}

Gap(cap, ev, reason) ==
  [after |-> Len(cap.rec.actions), kind |-> ev.kind, on |-> ev.on, reason |-> reason,
   t |-> ev.t, of |-> ev.n, repaired |-> FALSE, shot |-> 0]

\* Mutant: strictly within the window.
SameLossStrict(previous, gap) ==
  /\ previous.after = gap.after
  /\ previous.on = gap.on
  /\ previous.reason = gap.reason
  /\ previous.kind = "mouse_press"
  /\ gap.kind \in {"mouse_release", "mouse_double"}
  /\ gap.t - previous.t < FoldMs

\* _record_drop: a press and what closes it are one gap.  The code compares what the
\* two controls are described as; the controls here are described differently.
SameLoss(previous, gap) ==
  /\ previous.after = gap.after
  /\ previous.on = gap.on
  /\ previous.reason = gap.reason
  /\ previous.kind = "mouse_press"
  /\ gap.kind \in {"mouse_release", "mouse_double"}
  /\ gap.t - previous.t <= FoldMs

Drop(cap, ev, reason) ==
  LET gap == Gap(cap, ev, reason)
      drops == cap.rec.drops
      folded == drops # <<>> /\ SameLoss(drops[Len(drops)], gap)
      counted == [cap EXCEPT !.failed = @ \cup {ev.n}]
  IN  IF reason \in Deliberate \/ folded THEN counted
      ELSE [counted EXCEPT !.rec = AddDrop(@, gap)]

DropUnresolved(cap, ev) ==
  Drop(cap, ev, IF Kind[Target(ev)] = "chrome" THEN "chrome" ELSE "not_found")

-----------------------------------------------------------------------------
(* Runs: typing, and changing a value.  Read when they end.                 *)

FlushTyping(cap) ==
  IF cap.typing = <<>> THEN cap
  ELSE Record([cap EXCEPT !.typing = <<>>],
              Step("type", cap.typing[1].on, cap.typing[1].of))

\* Mutant: a value that cannot be read is nobody's business.
FlushValueQuietly(cap) ==
  LET ended == [cap EXCEPT !.value = <<>>]
  IN  CASE cap.value = <<>>                         -> cap
        [] cap.value # <<>> /\ cap.value[1].fading -> ended
        [] OTHER -> Record(ended, Step("select", cap.value[1].on, cap.value[1].of))

\* _item_from_row: a view's selection becomes a click on the row it reads, any
\* other value a SELECT. (Where no one row has that number the selection stays a
\* SELECT; the two are not told apart.)
ValueStep(run) == Step(IF run.selection THEN "click" ELSE "select", run.on, run.of)

FlushValue(cap) ==
  LET run == cap.value[1]
      ended == [cap EXCEPT !.value = <<>>]
  IN  CASE cap.value = <<>>          -> cap
        [] cap.value # <<>> /\ run.fading ->
             [ended EXCEPT !.failed = @ \cup run.of]
        [] OTHER ->
             Record(ended, ValueStep(run))

FlushInput(cap) == FlushValue(FlushTyping(cap))

\* _begin_value_change, for a control whose value can be read.
BeginValue(cap, ev, of, selection, fading) ==
  LET other == cap.value # <<>> /\ cap.value[1].on # Target(ev)
      ready == IF other THEN FlushValue(cap) ELSE cap
      run == ready.value[1]
  IN  IF ready.value = <<>>
      THEN [ready EXCEPT !.value = <<[on |-> Target(ev), of |-> of, selection |-> selection,
                                      fading |-> fading]>>]
      ELSE [ready EXCEPT !.value = <<[run EXCEPT !.of = @ \cup of,
                                                 !.selection = @ \/ selection]>>]

\* The same for a wheel or a drag, which not every control has a value for.
ChangesValue(cap, ev) == /\ Kind[Target(ev)] = "value"
                         /\ Answer(cap, ev) \in {"found", "fading"}

BeginWheelOrDrag(cap, ev) ==
  BeginValue(cap, ev, {ev.n}, FALSE, Answer(cap, ev) = "fading")

\* A step that ends whatever run is in progress and any press being waited on.
Conclude(cap) == [FlushInput(cap) EXCEPT !.pending = <<>>]

-----------------------------------------------------------------------------
(* Clicks on ordinary controls.                                             *)

\* Mutant: any release in time makes a click of the press.
ReleaseAnywhere(cap, press, ev) ==
  IF ev.t - press.t <= ClickMs
  THEN Record(cap, Step("click", Target(ev), {press.n, ev.n}))
  ELSE Drop(cap, press, "dragging")

\* The release that closes `press`, or that shows it was something else.
Release(cap, press, ev) ==
  LET paired == Target(press) = Target(ev) /\ ev.t - press.t <= ClickMs
      menu == Kind[press.on] \in {"bar", "menu"} \/ Kind[ev.on] \in {"bar", "menu"}
  IN  CASE paired ->
             Record(cap, Step("click", Target(ev), {press.n, ev.n}))
        [] ~paired /\ menu ->
             Record(Record(cap, Step("click", Target(press), {press.n})),
                    Step("click", Target(ev), {ev.n}))
        [] ~paired /\ ~menu /\ ChangesValue(cap, press) ->
             FlushValue(BeginWheelOrDrag(cap, press))
        [] OTHER ->
             Drop(cap, press, "dragging")

HandleOrdinary(raw, ev) ==
  LET cap == Resolve(raw, ev)
  IN  CASE Answer(cap, ev) = "missing" ->
             DropUnresolved(cap, ev)
        [] Answer(cap, ev) # "missing" /\ ev.kind = "mouse_double" ->
             Record(Conclude(cap), Step("double_click", Target(ev), {ev.n}))
        [] Answer(cap, ev) # "missing" /\ ev.kind = "mouse_press" ->
             [Conclude(cap) EXCEPT !.pending = <<ev>>]
        [] Answer(cap, ev) # "missing" /\ ev.kind = "mouse_release" ->
             IF cap.pending = <<>> THEN cap
             ELSE Release([cap EXCEPT !.pending = <<>>], cap.pending[1], ev)

-----------------------------------------------------------------------------
(* Rows of views and choices from combo boxes.                              *)

\* _drop_click_on: the click that opened the popup goes, with its events.
ClickToDrop(cap, control) ==
  LET last == cap.rec.actions[Len(cap.rec.actions)]
  IN  IF last.kind = "click" /\ last.on = control THEN last.of ELSE {}

DropClickOn(cap, control) ==
  IF ClickToDrop(cap, control) = {} THEN cap ELSE [cap EXCEPT !.rec = WithoutLast(@)]

HandleCombo(raw, ev) ==
  LET cap == [raw EXCEPT !.itemAt = <<>>]
      ended == [Conclude(cap) EXCEPT !.itemAt = <<ev.t>>]
      of == {ev.n} \cup ClickToDrop(ended, Target(ev))
      chosen == DropClickOn(ended, Target(ev))
  IN  CASE ev.answer \in {"reported", "missing"} -> Drop(cap, ev, "no_combo")
        [] ev.answer \in {"found", "fading"} /\ Kind[ev.on] = "popup" ->
             Record(chosen, Step("select", Target(ev), of))
        [] OTHER -> BeginValue(chosen, ev, of, FALSE, ev.answer = "fading")

\* _record_selection: the row is known once the view has had the press.
RecordSelection(cap, ev) == BeginValue(cap, ev, {ev.n}, TRUE, Answer(cap, ev) = "fading")

\* Mutant: a row that can be numbered is a click whatever is in progress.
HandleRowAlone(raw, ev) ==
  LET cap == Resolve(raw, ev)
      kind == IF ev.kind = "mouse_double" THEN "double_click" ELSE "click"
      pressed == [cap EXCEPT !.itemAt = <<ev.t>>]
  IN  CASE Answer(cap, ev) = "missing" -> HandleOrdinary(cap, ev)
        [] Answer(cap, ev) # "missing" /\ Kind[ev.on] = "row" ->
             Record(pressed, Step(kind, ev.on, {ev.n}))
        [] OTHER -> Drop(cap, ev, "no_item")

\* _handle_item for a row of a view.  The view is looked up by its own name, or, as
\* here, resolved like any control, whose first answer is kept (capture.py:988-1000).
HandleRow(raw, ev) ==
  LET cap == Resolve(raw, ev)
      kind == IF ev.kind = "mouse_double" THEN "double_click" ELSE "click"
      pressed == [Conclude(cap) EXCEPT !.itemAt = <<ev.t>>]
  IN  CASE Answer(cap, ev) = "missing" ->
             HandleOrdinary(cap, ev)
        [] Answer(cap, ev) # "missing" /\ Kind[ev.on] = "row" ->
             Record(pressed, Step(kind, ev.on, {ev.n}))
        [] Answer(cap, ev) # "missing" /\ Kind[ev.on] = "row_ambiguous" ->
             Drop([cap EXCEPT !.itemAt = <<>>], ev, "no_item")
        [] Answer(cap, ev) \in {"found", "fading"} /\ Kind[ev.on] = "row_selected" ->
             RecordSelection(pressed, ev)
        [] OTHER ->
             Drop(cap, ev, "no_item")

\* Mutant: the release after a choice is taken for its own however late.
HandleItemAnyTime(cap, ev) ==
  CASE ev.kind = "mouse_release" /\ cap.itemAt # <<>> -> FlushValue(cap)
    [] ev.kind # "mouse_release" /\ Kind[ev.on] \in {"popup", "popup_unread"} ->
         HandleCombo(cap, ev)
    [] OTHER -> HandleOrdinary(cap, ev)

\* _handle_item: the release of a press on an item is not a step, but it is
\* when the selection the press left is read.
HandleItem(cap, ev) ==
  CASE ev.kind = "mouse_release" /\ Within(ev.t, cap.itemAt, ClickMs) ->
         FlushValue(cap)
    [] ev.kind # "mouse_release" /\ Kind[ev.on] \in {"popup", "popup_unread"} ->
         HandleCombo(cap, ev)
    [] ev.kind # "mouse_release"
         /\ Kind[ev.on] \in {"row", "row_ambiguous", "row_selected", "row_lost"} ->
         HandleRow(cap, ev)
    [] OTHER ->
         HandleOrdinary(cap, ev)

-----------------------------------------------------------------------------
(* Menus.  The press names the item; its release is delivered to whatever   *)
(* popup has appeared, and is a choice only if it names another item.       *)

MenuItem(ev) == Kind[ev.on] = "menu" /\ ev.answer # "missing"

\* Mutant: whatever the release names is a choice.
HandleMenuReleaseAsChoice(cap, ev) ==
  IF MenuItem(ev) THEN Record(cap, Step("click", ev.on, {ev.n})) ELSE cap

HandleMenuRelease(cap, ev) ==
  IF MenuItem(ev) /\ ev.on # cap.menuOn
  THEN Record(cap, Step("click", ev.on, {ev.n}))
  ELSE cap

HandleMenuPress(cap, ev) ==
  CASE ~MenuItem(ev) ->
         Drop(cap, ev, "not_found")
    [] MenuItem(ev) /\ ev.kind = "mouse_double" /\ ev.on = cap.menuOn ->
         [cap EXCEPT !.menuAt = <<ev.t>>]
    [] OTHER ->
         Record([Conclude(cap) EXCEPT !.menuAt = <<ev.t>>, !.menuOn = ev.on],
                Step("click", ev.on, {ev.n}))

HandleMouse(cap, ev) ==
  LET over == [cap EXCEPT !.menuAt = <<>>]
  IN  CASE ev.kind = "mouse_release" /\ Within(ev.t, cap.menuAt, ClickMs) ->
             HandleMenuRelease(over, ev)
        [] ev.kind # "mouse_release" /\ Kind[ev.on] = "menu" ->
             HandleMenuPress(over, ev)
        [] OTHER ->
             HandleItem(over, ev)

-----------------------------------------------------------------------------
(* Everything that is not the mouse.                                        *)

\* A window dismissed from its title bar; any other close is nobody's doing.
HandleClose(raw, ev) ==
  LET cap == Resolve(Conclude(raw), ev)
  IN  CASE Kind[ev.on] # "window" -> raw
        [] Kind[ev.on] = "window" /\ Answer(cap, ev) = "missing" -> DropUnresolved(cap, ev)
        [] OTHER -> Record(cap, Step("close_window", ev.on, {ev.n}))

HandleShortcut(raw, ev) ==
  LET cap == Resolve(FlushInput(raw), ev)
  IN  IF Answer(cap, ev) = "missing" THEN DropUnresolved(cap, ev)
      ELSE Record(cap, Step("shortcut", Target(ev), {ev.n}))

\* A character typed into a field starts a typing run or belongs to it; one
\* for another field ends the run first.
HandleCharacter(cap, ev) ==
  LET other == cap.typing # <<>> /\ cap.typing[1].on # ev.on
      ready == IF other THEN FlushInput(cap) ELSE cap
      run == ready.typing[1]
  IN  IF ready.typing = <<>>
      THEN [ready EXCEPT !.typing = <<[on |-> ev.on, of |-> {ev.n}]>>]
      ELSE [ready EXCEPT !.typing = <<[run EXCEPT !.of = @ \cup {ev.n}]>>]

\* Mutant: a key that is not text does not end the run.
HandleKeyAlone(raw, ev) ==
  LET cap == Resolve(raw, ev)
  IN  CASE Answer(cap, ev) = "missing" -> DropUnresolved(cap, ev)
        [] Answer(cap, ev) # "missing" /\ ev.key = "text" /\ Kind[ev.on] = "field" ->
             HandleCharacter(cap, ev)
        [] OTHER -> Record(cap, Step("key", Target(ev), {ev.n}))

HandleKey(raw, ev) ==
  LET cap == Resolve(raw, ev)
  IN  CASE Answer(cap, ev) = "missing" ->
             DropUnresolved(cap, ev)
        [] Answer(cap, ev) # "missing" /\ ev.key = "command" ->
             Record(FlushInput(cap), Step("shortcut", Target(ev), {ev.n}))
        [] Answer(cap, ev) # "missing" /\ ev.key = "text" /\ Kind[ev.on] = "field" ->
             HandleCharacter(cap, ev)
        [] OTHER ->
             Record(FlushInput(cap), Step("key", Target(ev), {ev.n}))

\* Mutant: a lost turn of the wheel does not end the run.
HandleWheelAlone(raw, ev) ==
  LET cap == Resolve(raw, ev)
  IN  CASE Answer(cap, ev) = "missing" -> DropUnresolved(cap, ev)
        [] Answer(cap, ev) # "missing" /\ ChangesValue(cap, ev) -> BeginWheelOrDrag(cap, ev)
        [] OTHER -> Drop(FlushInput(cap), ev, "scrolling")

HandleWheel(raw, ev) ==
  LET cap == Resolve(raw, ev)
  IN  CASE Answer(cap, ev) = "missing" ->
             DropUnresolved(FlushInput(cap), ev)
        [] Answer(cap, ev) # "missing" /\ ChangesValue(cap, ev) ->
             BeginWheelOrDrag(cap, ev)
        [] OTHER ->
             Drop(FlushInput(cap), ev, "scrolling")

Handle(cap, ev) ==
  CASE ev.kind = "close_window" -> HandleClose(cap, ev)
    [] ev.kind \in MouseKinds   -> HandleMouse(cap, ev)
    [] ev.kind = "key_press"    -> HandleKey(cap, ev)
    [] ev.kind = "shortcut"     -> HandleShortcut(cap, ev)
    [] ev.kind = "wheel"        -> HandleWheel(cap, ev)

-----------------------------------------------------------------------------
(* Grouping: one interaction is delivered to the window and to the widget.  *)

\* Mutant: the recipient that was told first.
FirstRecipient(group) == group[1]

\* The most specific recipient of what was collected, the first of equals.
MostSpecific(group) ==
  LET specific == {i \in DOMAIN group : Kind[group[i].on] # "window"}
      least(S) == CHOOSE i \in S : \A j \in S : i <= j
  IN  IF specific = {} THEN group[1] ELSE group[least(specific)]

FlushGroup(cap) ==
  IF cap.group = <<>> THEN cap
  ELSE Handle([cap EXCEPT !.group = <<>>], MostSpecific(cap.group))

SameInteraction(first, other) ==
  first.kind = other.kind /\ other.t - first.t <= GroupMs

Feed(cap, ev) ==
  LET ready == IF cap.group # <<>> /\ ~SameInteraction(cap.group[1], ev)
               THEN FlushGroup(cap) ELSE cap
  IN  [ready EXCEPT !.group = Append(@, ev)]

\* flush_stale, at a time when the group is `age` old.
IsStale(cap, now, age) == cap.group # <<>> /\ now - cap.group[Len(cap.group)].t >= age

Finish(cap) == Conclude(FlushGroup(cap))
=============================================================================
