------------------------------ MODULE Controller ------------------------------
(****************************************************************************)
(* The recorder as its operator sees it: qat_recorder/ui/controller.py,     *)
(* RecorderController, over a CaptureSession (Folding) and its Recording.   *)
(*                                                                          *)
(* Three parties act.  A person uses the application, and each thing they   *)
(* do reaches the inbox of the EventReceiver.  A timer polls, which empties *)
(* the inbox.  The operator pauses, picks, edits, fills gaps and stops;     *)
(* each command is one call under the session's lock, so commands and polls *)
(* do not overlap, but what is in the inbox when a command comes has not    *)
(* been looked at yet.                                                      *)
(*                                                                          *)
(* The controller is the record `ctl`:                                      *)
(*   state, cap (self.session), repairing (<<>> or a gap), dropRelease      *)
(*   (_drop_next_release), picked (picked_target), photoSteps, photoGaps    *)
(*   (how far the camera has got), raised (an exception is leaving poll).   *)
(* The counters shown to the operator are left out, and so is what a camera *)
(* refuses, which is the subject of MediaQueue.                             *)
(****************************************************************************)
EXTENDS Folding

CONSTANTS
  Known,       \* the answers the application can give about each control
  Pressable,   \* what the person clicks on
  Through,     \* the window a mouse event on each control passes through, or
               \* the control itself: Qt Quick's windows report no copy
  HasMedia,    \* whether the session keeps pictures
  MaxEvents,   \* bound: events in a session
  MaxEdits,    \* bound: edits of the operator in a session
  MaxSessions  \* bound: recordings made one after another

ASSUME ControllerAssumption ==
  /\ Known \in [Controls -> SUBSET Answers]
  /\ Pressable \subseteq Controls
  /\ Through \in [Controls -> Controls]
  /\ \A c \in Pressable : Through[c] # c => Kind[Through[c]] = "window"
  /\ HasMedia \in BOOLEAN
  /\ MaxEvents \in Nat /\ MaxEdits \in Nat /\ MaxSessions \in Nat

VARIABLES
  ctl,       \* the controller
  inbox,     \* what the receiver has and poll has not drained
  log,       \* the events of the session: event n is log[n]
  meant,     \* what each was meant for: "record", "pick", "fill", "away", "either"
  down,      \* <<>> or the press whose button is still down
  armedAt,   \* the first event that can be the pick of the picking last armed
  crossed,   \* the events a change of state overtook in the inbox
  edits,     \* how many edits there were
  sessions   \* how many recordings were begun

history == <<meant, armedAt, crossed>>
bounds == <<edits, sessions>>
vars == <<ctl, inbox, log, history, down, bounds>>

Seqs == INSTANCE SequencesExt

States == {"idle", "recording", "paused", "picking", "stopped"}
Running == {"recording", "paused", "picking"}
Editable == {"recording", "paused", "stopped"}

NewController ==
  [state |-> "idle", cap |-> NewCapture, repairing |-> <<>>, dropRelease |-> FALSE,
   picked |-> NoControl, photoSteps |-> 0, photoGaps |-> 0, raised |-> FALSE]

Init == /\ ctl = NewController
        /\ inbox = <<>> /\ log = <<>> /\ meant = <<>> /\ down = <<>>
        /\ armedAt = 1 /\ crossed = {}
        /\ edits = 0 /\ sessions = 0

Gaps == ctl.cap.rec.drops
Steps == ctl.cap.rec.actions

-----------------------------------------------------------------------------
(* Filling a gap.                                                           *)

\* _REPAIR_KINDS: what the event that was lost should have become.
RepairKind(gap) == CASE gap.kind = "mouse_double" -> "double_click"
                     [] gap.kind = "close_window" -> "close_window"
                     [] OTHER                     -> "click"

\* recording.repair through the controller. A step that fills a gap stands for
\* the event that was lost there.
Fill(c, position, kind, on) ==
  [c EXCEPT !.cap.rec = Repair(@, position, Step(kind, on, {@.drops[position].of}))]

\* _fill_gap_with: a gap that is not in this recording is an IndexError nobody
\* catches, one that is filled by now is only reported.
FillGapWith(c, position, on) ==
  LET rec == c.cap.rec
  IN  CASE position \notin DOMAIN rec.drops -> [c EXCEPT !.raised = TRUE]
        [] position \in OpenDrops(rec) ->
             Fill(c, position, RepairKind(rec.drops[position]), on)
        [] OTHER -> c

-----------------------------------------------------------------------------
(* One event out of the inbox.                                              *)

\* _pick: the press that points. For a gap, the recording stays paused.
Pick(c, ev) ==
  LET cap == Resolve(c.cap, ev)
      over == [c EXCEPT !.cap = cap, !.dropRelease = TRUE, !.repairing = <<>>,
                        !.state = IF c.repairing # <<>> THEN "paused" ELSE "recording"]
      picked == [over EXCEPT !.picked = Target(ev)]
  IN  CASE Answer(cap, ev) \in {"reported", "missing"} -> over
        [] Answer(cap, ev) \in {"found", "fading"} /\ c.repairing = <<>> -> picked
        [] OTHER -> FillGapWith(picked, c.repairing[1], Target(ev))

\* Mutant: what comes while paused is looked at like anything else.
ProcessWhilePaused(c, ev) ==
  LET dropped == c.dropRelease /\ ev.kind = "mouse_release"
  IN  CASE c.raised -> c
        [] ~c.raised /\ dropped -> [c EXCEPT !.dropRelease = FALSE]
        [] ~c.raised /\ c.state = "picking" /\ ~dropped ->
             IF ev.kind = "mouse_press" THEN Pick(c, ev) ELSE c
        [] OTHER -> [c EXCEPT !.cap = Feed(@, ev)]

\* _process. Once one event has raised, poll does not come to the rest.
Process(c, ev) ==
  LET dropped == c.dropRelease /\ ev.kind = "mouse_release"
  IN  CASE c.raised \/ c.state = "paused" -> c
        [] ~c.raised /\ c.state # "paused" /\ dropped -> [c EXCEPT !.dropRelease = FALSE]
        [] ~c.raised /\ c.state = "picking" /\ ~dropped ->
             IF ev.kind = "mouse_press" THEN Pick(c, ev) ELSE c
        [] OTHER -> [c EXCEPT !.cap = Feed(@, ev)]

-----------------------------------------------------------------------------
(* poll.                                                                    *)

\* Pictures of what is behind the cursor; `shot` counts how often one has been
\* asked for, since the latest replaces the one before it.
Shot(items, from) ==
  [i \in DOMAIN items |-> IF i > from /\ items[i].kind # "launch"
                          THEN [items[i] EXCEPT !.shot = @ + 1] ELSE items[i]]

\* Mutant: every step again.
PhotographEverything(c) ==
  [c EXCEPT !.cap.rec = [actions |-> Shot(@.actions, 0), drops |-> Shot(@.drops, 0)]]

\* _photograph_new_steps and _photograph_new_gaps: the cursors count, and only
\* ever go forward.
Photograph(c) ==
  LET rec == c.cap.rec
  IN  IF ~HasMedia THEN c
      ELSE [c EXCEPT !.cap.rec = [actions |-> Shot(@.actions, c.photoSteps),
                                  drops |-> Shot(@.drops, c.photoGaps)],
                     !.photoSteps = IF Len(rec.actions) > @ THEN Len(rec.actions) ELSE @,
                     !.photoGaps = IF Len(rec.drops) > @ THEN Len(rec.drops) ELSE @]

\* poll, where `stale` says whether the group has become old enough to close.
Polled(c, stale) ==
  LET drained == Seqs!FoldLeft(Process, c, inbox)
      flushed == IF stale /\ drained.state = "recording"
                 THEN [drained EXCEPT !.cap = FlushGroup(@)] ELSE drained
  IN  CASE c.state \in {"idle", "stopped"} -> c
        [] c.state \in Running /\ drained.raised -> drained
        [] OTHER -> Photograph(flushed)

Drained == inbox' = IF ctl.state \in Running THEN <<>> ELSE inbox

\* A group can only be old if there is one.
Age(c) == IF c.state = "recording" /\ (c.cap.group # <<>> \/ inbox # <<>>) THEN BOOLEAN
          ELSE {FALSE}

\* Nothing is armed once picking is over.
Armed == IF ctl'.state = "picking" THEN armedAt ELSE 1

\* The timer. What it raised is gone by the next tick.
Poll == /\ ctl.state \in Running
        /\ \E stale \in Age(ctl) : ctl' = [Polled(ctl, stale) EXCEPT !.raised = FALSE]
        /\ Drained
        /\ armedAt' = Armed
        /\ UNCHANGED <<log, meant, crossed, down, bounds>>

-----------------------------------------------------------------------------
(* The person.                                                              *)

\* What a press is meant for: the first since picking was armed points at
\* something to check, or at what fills a gap; the ones behind it are anybody's
\* guess.
PressMeant ==
  CASE ctl.state = "recording" -> "record"
    [] ctl.state = "paused"    -> "away"
    [] OTHER -> IF \E n \in armedAt..Len(log) : log[n].kind = "mouse_press" THEN "either"
                ELSE IF ctl.repairing = <<>> THEN "pick" ELSE "fill"

\* A release is meant for what its press was, unless the state changed between.
ReleaseMeant ==
  LET press == meant[down[1].n]
  IN  CASE down[1].n \in crossed -> "either"
        [] down[1].n \notin crossed /\ press = "record" /\ ctl.state # "recording" -> "either"
        [] OTHER -> press

\* Qt reports a mouse event to the window and then to the widget; a Qt Quick
\* window's copy is held back by the filter.
Deliveries(ev, seen) ==
  IF Through[ev.on] = ev.on THEN <<ev>>
  ELSE <<[ev EXCEPT !.on = Through[ev.on], !.answer = seen], ev>>

Happens(kind, on, meaning) ==
  /\ ctl.state \in Running
  /\ Len(log) < MaxEvents
  /\ \E answer \in Known[on], seen \in Known[Through[on]] :
       LET ev == [n |-> Len(log) + 1, kind |-> kind, on |-> on, t |-> Len(log) + 1,
                  key |-> "none", answer |-> answer]
       IN  /\ log' = Append(log, ev)
           /\ meant' = Append(meant, meaning)
           /\ inbox' = inbox \o Deliveries(ev, seen)
           /\ down' = IF kind = "mouse_press" THEN <<ev>> ELSE <<>>
  /\ UNCHANGED <<ctl, armedAt, crossed, bounds>>

Press == /\ down = <<>>
         /\ \E on \in Pressable : Happens("mouse_press", on, PressMeant)

ReleaseButton == /\ down # <<>>
                 /\ Happens("mouse_release", down[1].on, ReleaseMeant)

-----------------------------------------------------------------------------
(* The operator: starting, stopping, pausing.                               *)

Start == /\ ctl.state \in {"idle", "stopped"}
         /\ sessions < MaxSessions
         /\ ctl' = [ctl EXCEPT !.state = "recording", !.cap = NewCapture,
                               !.photoSteps = 0, !.photoGaps = 0]
         /\ inbox' = <<>> /\ log' = <<>> /\ meant' = <<>> /\ down' = <<>>
         /\ armedAt' = 1 /\ crossed' = {}
         /\ sessions' = sessions + 1
         /\ edits' = 0

\* _forget_missing_stills: pictures that are not there by now, all or none.
Forget(c, arrived) ==
  LET bare(items) == [i \in DOMAIN items |-> [items[i] EXCEPT !.shot = 0]]
  IN  IF arrived THEN c
      ELSE [c EXCEPT !.cap.rec = [actions |-> bare(@.actions), drops |-> bare(@.drops)]]

\* stop, which goes no further if the last poll raises.
Stop == /\ ctl.state # "idle"
        /\ \E stale \in Age(ctl), arrived \in {TRUE, ~HasMedia} :
             LET polled == Polled(ctl, stale)
             IN  ctl' = IF polled.raised THEN [polled EXCEPT !.raised = FALSE]
                        ELSE Forget([polled EXCEPT !.cap = Finish(@), !.state = "stopped"],
                                    arrived)
        /\ Drained
        /\ down' = IF ctl'.state = "stopped" THEN <<>> ELSE down
        /\ armedAt' = Armed
        /\ UNCHANGED <<log, meant, crossed, bounds>>

Pause == /\ ctl.state = "recording"
         /\ \E stale \in Age(ctl) : ctl' = [Polled(ctl, stale) EXCEPT !.state = "paused"]
         /\ Drained
         /\ UNCHANGED <<log, history, down, bounds>>

Resume == /\ ctl.state = "paused"
          /\ ctl' = [ctl EXCEPT !.state = "recording"]
          /\ inbox' = <<>>
          /\ UNCHANGED <<log, history, down, bounds>>

-----------------------------------------------------------------------------
(* The operator: pointing at things.  What is in the inbox is overtaken.    *)

Overtaking == /\ crossed' = crossed \cup {inbox[i].n : i \in DOMAIN inbox}
              /\ armedAt' = IF ctl'.state # "picking" THEN 1
                            ELSE IF inbox = <<>> THEN Len(log) + 1 ELSE inbox[1].n
              /\ UNCHANGED <<inbox, log, meant, down, bounds>>

ArmCheckpoint == /\ ctl.state = "recording"
                 /\ ctl' = [ctl EXCEPT !.state = "picking", !.repairing = <<>>,
                                       !.picked = NoControl]
                 /\ Overtaking

\* arm_repair: a way back to the control first, so the recording pauses.
ArmRepair == /\ ctl.state \in {"recording", "paused"}
             /\ \E position \in OpenDrops(ctl.cap.rec), stale \in Age(ctl) :
                  LET armed == [ctl EXCEPT !.picked = NoControl, !.repairing = <<position>>]
                  IN  ctl' = IF ctl.state = "paused" THEN armed
                             ELSE [Polled(armed, stale) EXCEPT !.state = "paused"]
             /\ inbox' = IF ctl.state = "paused" THEN inbox ELSE <<>>
             /\ UNCHANGED <<log, history, down, bounds>>

PickNow == /\ ctl.repairing # <<>>
           /\ ctl.state = "paused"
           /\ ctl' = [ctl EXCEPT !.state = "picking"]
           /\ Overtaking

CancelRepair == /\ ctl.repairing # <<>> \/ ctl.state = "picking"
                /\ ctl' = [ctl EXCEPT !.repairing = <<>>,
                                      !.state = IF @ = "picking" THEN "paused" ELSE @]
                /\ Overtaking

CancelCheckpoint == /\ ctl.state = "picking"
                    /\ ctl' = [ctl EXCEPT !.repairing = <<>>, !.state = "recording"]
                    /\ Overtaking

-----------------------------------------------------------------------------
(* The operator: editing.                                                   *)

Edited == /\ edits < MaxEdits
          /\ edits' = edits + 1
          /\ UNCHANGED <<inbox, log, meant, armedAt, crossed, down, sessions>>

InjectCustomCode == /\ ctl.state \in Editable
                    /\ ctl' = [ctl EXCEPT !.cap = Record(@, Step("custom", NoControl, {}))]
                    /\ Edited

\* add_checkpoint: whatever the state, on what was picked last.
AddCheckpoint == /\ ctl.picked # NoControl
                 /\ ctl' = [ctl EXCEPT !.cap = Record(@, Step("verify", ctl.picked, {}))]
                 /\ Edited

\* repair_drop: a gap filled with code the operator wrote.
RepairDrop == /\ ctl.state \in Editable
              /\ \E position \in OpenDrops(ctl.cap.rec) :
                   ctl' = Fill(ctl, position, "custom", NoControl)
              /\ Edited

\* repair_suggestion, repair_choose and repair_closed: with an object that was
\* checked, or named, when the event was lost; a key press with its text.
RepairWithObject ==
  /\ ctl.state \in Editable
  /\ \E position \in OpenDrops(ctl.cap.rec) :
       LET gap == Gaps[position]
       IN  ctl' = Fill(ctl, position, IF gap.kind = "key_press" THEN "type" ELSE RepairKind(gap),
                       gap.on)
  /\ Edited

\* drop_last_action: the last step and nothing else.
Undo == /\ ctl.state # "idle"
        /\ Len(Steps) > 1
        /\ ctl' = [ctl EXCEPT !.cap.rec = WithoutLast(@)]
        /\ Edited

Next == \/ Poll
        \/ Press
        \/ ReleaseButton
        \/ Start
        \/ Stop
        \/ Pause
        \/ Resume
        \/ ArmCheckpoint
        \/ ArmRepair
        \/ PickNow
        \/ CancelRepair
        \/ CancelCheckpoint
        \/ InjectCustomCode
        \/ AddCheckpoint
        \/ RepairDrop
        \/ RepairWithObject
        \/ Undo

Spec == Init /\ [][Next]_vars

-----------------------------------------------------------------------------
Events == DOMAIN log

StepKinds == {"launch", "click", "double_click", "select", "type", "key", "shortcut",
              "close_window", "custom", "verify"}

TypeOK ==
  /\ ctl.state \in States
  /\ ctl.repairing = <<>> \/ (Len(ctl.repairing) = 1 /\ ctl.repairing[1] \in 1..MaxEvents)
  /\ ctl.dropRelease \in BOOLEAN
  /\ ctl.picked \in Controls \cup {NoControl}
  /\ ctl.raised = FALSE
  /\ ctl.photoGaps \in 0..Len(Gaps)
  /\ ctl.photoSteps \in 0..(MaxEvents + MaxEdits + 1)
  /\ Len(meant) = Len(log)
  /\ \A i \in DOMAIN Steps : /\ Steps[i].kind \in StepKinds
                             /\ Steps[i].of \subseteq Events
                             /\ Steps[i].shot \in Nat
  /\ \A d \in DOMAIN Gaps : Gaps[d].of \in Events /\ Gaps[d].repaired \in BOOLEAN
  /\ ctl.state = "stopped" => ctl.cap.group = <<>> /\ ctl.cap.pending = <<>>

-----------------------------------------------------------------------------
First(S) == CHOOSE n \in S : \A m \in S : n <= m

\* A step that fills a gap stands for the event that was lost there.
IsFill(step) == \E d \in DOMAIN Gaps : step.of = {Gaps[d].of}
Folded == UNION {Steps[i].of : i \in {j \in DOMAIN Steps : ~IsFill(Steps[j])}}

Filled == {d \in DOMAIN Gaps : Gaps[d].repaired}

\* The first delivery of a press is the pick, and ends the picking: the second
\* one, and the release behind it, are recorded, against what controller.py:561-563
\* says.  Not so of a press that fills a gap, which leaves the recording paused.
SecondDelivery(n) == meant[n] = "pick" /\ Through[log[n].on] # log[n].on

\* What is done while paused, and the click that points at something with its
\* release, is never folded into a step, unless it was still in the inbox when
\* the state changed (controller.py:556-577, 587-594, 634-658), or is the second
\* delivery of a click that points at something to check.
RecordedAsMeant ==
  \A n \in Folded : \/ meant[n] \in {"record", "either"}
                    \/ n \in crossed
                    \/ SecondDelivery(n)

\* No event stands behind two steps: a gap is filled once, however it was armed
\* and whatever else filled it in the meantime (ir.py:360-361, controller.py:699-714).
OneStepPerEvent ==
  \A i, j \in DOMAIN Steps : i # j => Steps[i].of \cap Steps[j].of = {}

\* A step is photographed once, when it appears; only a step inserted in front
\* of it makes the camera come back to it (controller.py:517-533).
PictureTakenOnce ==
  [][\A i \in DOMAIN Steps' :
       Steps'[i].shot > 1 => Filled' # {} \/ \E j \in DOMAIN Steps : Steps[j].shot > 1]_vars
=============================================================================
