------------------------------- MODULE Capture -------------------------------
(****************************************************************************)
(* A person using an application while a CaptureSession                     *)
(* (qat_recorder/capture.py) folds what they do into steps.                 *)
(*                                                                          *)
(* The person presses, releases, types, turns the wheel and closes windows, *)
(* at intervals of their choosing; the event filter reports each event, a   *)
(* mouse event first to the window it passes through; the pump closes a     *)
(* group that has become old (flush_stale); and the session is finished.    *)
(* What was really done is kept in `log`, and the properties compare the    *)
(* recording with it.                                                       *)
(****************************************************************************)
EXTENDS Folding

CONSTANTS
  Known,      \* the answers the application can give about each control
  Pressable,  \* where the button goes down
  Elsewhere,  \* where it can come up besides the control it went down on
  Typed,      \* the sorts of key each control gets: pairs <<control, sort>>
  Hot,        \* which own a shortcut
  Turned,     \* which get the wheel
  Closed,     \* which get a close event
  Window,     \* the window everything is in, or NoControl: report no copies
  Intervals,  \* the times between two events
  StaleMs,    \* flush_stale's max_age_ms
  MaxEvents   \* bound: how many events there are

ASSUME CaptureAssumption ==
  /\ Known \in [Controls -> SUBSET Answers]
  /\ Pressable \cup Elsewhere \cup Hot \cup Turned \cup Closed \subseteq Controls
  /\ Typed \subseteq Controls \X KeySorts
  /\ Window \in Controls \cup {NoControl}
  \* The one window among what a mouse event is delivered to.
  /\ Window # NoControl =>
       /\ Kind[Window] = "window"
       /\ \A c \in Pressable \cup Elsewhere : Kind[c] = "window" => c = Window
  /\ Intervals \subseteq Nat
  /\ StaleMs \in Nat /\ MaxEvents \in Nat

\* What is asked about a control is asked about the control its events are
\* attributed to (_resolve takes the definition of the target), so one is beyond
\* naming when the other is, and window furniture owns nothing but itself.  An
\* event whose target is the window is none of a gesture's: the window only
\* sees it pass through (capture.py:594-601).
ASSUME AddressAssumption ==
  /\ \A c \in Controls : Known[c] = {"missing"} <=> Known[Owner[c]] = {"missing"}
  /\ \A c \in Controls : Kind[Owner[c]] = "chrome" => Kind[c] = "chrome"
  /\ \A c \in Pressable \cup Elsewhere : c # Window /\ Owner[c] # Window

VARIABLES cap,    \* the capture session
          log,    \* the events of the session: event n is log[n]
          now,    \* the clock
          down,   \* <<>> or the press whose button is still down
          done    \* finish() has been called

vars == <<cap, log, now, down, done>>

Init == /\ cap = NewCapture
        /\ log = <<>>
        /\ now = 0
        /\ down = <<>>
        /\ done = FALSE

\* Qt reports a mouse event to the window and then to the widget.
Fed(ev) == IF ev.kind \in MouseKinds /\ Window # NoControl
           THEN Feed(Feed(cap, [ev EXCEPT !.on = Window]), ev)
           ELSE Feed(cap, ev)

Happens(kind, on, key, interval) ==
  /\ ~done
  /\ Len(log) < MaxEvents
  /\ now' = now + interval
  /\ \E answer \in Known[on] :
       LET ev == [n |-> Len(log) + 1, kind |-> kind, on |-> on, t |-> now', key |-> key,
                  answer |-> answer]
       IN  /\ log' = Append(log, ev)
           /\ cap' = Fed(ev)
           /\ down' = CASE kind \in {"mouse_press", "mouse_double"} -> <<ev>>
                        [] kind = "mouse_release" -> <<>>
                        [] OTHER -> down
  /\ UNCHANGED done

\* One person has one pointer: it takes longer from one press to another than
\* the deliveries of one interaction are apart.
Press == /\ down = <<>>
         /\ \E on \in Pressable, interval \in Intervals :
              interval > GroupMs /\ Happens("mouse_press", on, "none", interval)

ReleaseButton == /\ down # <<>>
                 /\ \E on \in {down[1].on} \cup Elsewhere, interval \in Intervals :
                      interval > GroupMs /\ Happens("mouse_release", on, "none", interval)

\* The second press of two on one control, close together.
Double == /\ down = <<>>
          /\ Len(log) >= 2
          /\ LET first == log[Len(log) - 1]
                 last == log[Len(log)]
             IN  /\ first.kind = "mouse_press" /\ last.kind = "mouse_release"
                 /\ first.on = last.on
                 /\ \E interval \in Intervals :
                      /\ interval > GroupMs /\ interval <= FoldMs
                      /\ Happens("mouse_double", last.on, "none", interval)

PressKey == /\ down = <<>>
            /\ \E typed \in Typed, interval \in Intervals :
                 Happens("key_press", typed[1], typed[2], interval)

\* Qt recognises a shortcut and delivers it to whatever owns it.
Shortcut == /\ down = <<>>
            /\ \E on \in Hot, interval \in Intervals :
                 interval > GroupMs /\ Happens("shortcut", on, "none", interval)

TurnWheel == /\ down = <<>>
             /\ \E on \in Turned, interval \in Intervals :
                  Happens("wheel", on, "none", interval)

CloseWindow == /\ down = <<>>
               /\ \E on \in Closed, interval \in Intervals :
                    interval > GroupMs /\ Happens("close_window", on, "none", interval)

\* The pump finds the group old enough.
FlushStale == /\ ~done
              /\ cap.group # <<>>
              /\ now' = IF IsStale(cap, now, StaleMs) THEN now ELSE now + StaleMs
              /\ cap' = FlushGroup(cap)
              /\ UNCHANGED <<log, down, done>>

FinishSession == /\ ~done
                 /\ done' = TRUE
                 /\ cap' = Finish(cap)
                 /\ UNCHANGED <<log, now, down>>

Next == \/ Press
        \/ ReleaseButton
        \/ Double
        \/ PressKey
        \/ Shortcut
        \/ TurnWheel
        \/ CloseWindow
        \/ FlushStale
        \/ FinishSession

Spec == Init /\ [][Next]_vars

-----------------------------------------------------------------------------
Events == DOMAIN log
Steps == cap.rec.actions
Gaps == cap.rec.drops

Optional(s, S) == s = <<>> \/ (Len(s) = 1 /\ s[1] \in S)

StepKinds == {"launch", "click", "double_click", "select", "type", "key", "shortcut",
              "close_window"}
Reasons == {"not_found", "no_item", "no_combo"}

TypeOK ==
  /\ \A i \in DOMAIN Steps :
       /\ Steps[i].kind \in StepKinds /\ Steps[i].on \in Controls \cup {NoControl}
       /\ Steps[i].of \subseteq Events
  /\ \A d \in DOMAIN Gaps :
       Gaps[d].reason \in Reasons /\ Gaps[d].of \in Events /\ ~Gaps[d].repaired
  /\ cap.failed \subseteq Events
  /\ \A i \in DOMAIN cap.group : cap.group[i].n \in Events
  /\ Optional(cap.pending, {log[n] : n \in Events} \cup {[log[n] EXCEPT !.on = Window] : n \in Events})
  /\ Optional(cap.menuAt, 0..now) /\ Optional(cap.itemAt, 0..now)
  /\ cap.menuOn \in Controls \cup {NoControl}
  /\ cap.typing # <<>> => Kind[cap.typing[1].on] = "field" /\ cap.typing[1].of \subseteq Events
  /\ cap.value # <<>> => cap.value[1].of \subseteq Events
  /\ cap.cache \in [Controls -> Answers \cup {"unknown"}]
  /\ done => cap.group = <<>> /\ cap.pending = <<>> /\ cap.typing = <<>> /\ cap.value = <<>>

-----------------------------------------------------------------------------
(* Where the recording stands against what was done.                        *)

First(S) == CHOOSE n \in S : \A m \in S : n <= m

Covered == UNION {Steps[i].of : i \in DOMAIN Steps}

\* Still in the session's hands.
InHand == {cap.group[i].n : i \in DOMAIN cap.group}
            \cup (IF cap.pending = <<>> THEN {} ELSE {cap.pending[1].n})
            \cup (IF cap.typing = <<>> THEN {} ELSE cap.typing[1].of)
            \cup (IF cap.value = <<>> THEN {} ELSE cap.value[1].of)

\* The events of one gesture: a press with its release, and a second press
\* close behind them.
Gesture(n) ==
  LET reach == CASE log[n].kind = "mouse_press"  -> n..(n + 1)
                 [] log[n].kind = "mouse_double" -> (n - 2)..(n + 1)
                 [] OTHER                        -> {n}
  IN  reach \cap Events

\* The gestures: what has been done, all but a press still held down and the
\* close of what is not a window, which is nobody's doing.
Starts == {n \in Events : /\ log[n].kind # "mouse_release"
                          /\ log[n].kind = "mouse_press" => n + 1 \in Events
                          /\ log[n].kind = "close_window" => Kind[log[n].on] = "window"}

Accounted(n) == Gesture(n) \cap (Covered \cup cap.failed \cup InHand) # {}

ItemKinds == {"row", "row_selected", "popup", "popup_unread"}

\* A click is released within ClickMs of a choice from a list: its release is
\* taken for the choice's own.
InTheShadowOfAnItem(n) ==
  /\ n + 1 \in Events
  /\ log[n + 1].kind = "mouse_release"
  /\ \E item \in Events : /\ item < n
                          /\ Kind[log[item].on] \in ItemKinds
                          /\ log[n + 1].t - log[item].t <= ClickMs

\* Another event of the same kind came within GroupMs.
InABurst(n) == \E m \in Events \ {n} : /\ log[m].kind = log[n].kind
                                       /\ log[m].t - log[n].t \in (-GroupMs)..GroupMs

\* The same, but for a click that follows a choice from a list too quickly and
\* for what is folded away as the second delivery of one interaction
\* (capture.py:589-601, 757-761).
NoSilentLoss ==
  \A n \in Starts : Accounted(n) \/ InTheShadowOfAnItem(n) \/ InABurst(n)

\* The release of the press this step was begun with was lost on something
\* unidentified, or was taken for a choice's own, and the press kept waiting
\* (capture.py:655-658 and 763-774 return before _pending is cleared).
ReleaseWasLost(step) ==
  LET press == First(step.of)
  IN  /\ log[press].kind = "mouse_press"
      /\ press + 1 \in cap.failed \/ InTheShadowOfAnItem(press)

\* A click is made of a press and of the release that follows it on the same
\* control; a drag, and two drags, are never taken for one, unless the release
\* was lost (capture.py:675-717).
ClicksAreReal ==
  \A i \in DOMAIN Steps :
    Steps[i].kind = "click" =>
      \A p, r \in Steps[i].of :
        log[p].kind = "mouse_press" /\ log[r].kind = "mouse_release" =>
          /\ Target(log[p]) = Target(log[r])
          /\ r = p + 1 \/ ReleaseWasLost(Steps[i])

\* No event is in two steps, and no click on one control is two steps: the
\* release a popup gets, the second half of a double click on a menu and the
\* window's copy of an event are not a second step
\* (capture.py:1003-1058, 757-768, 594-601). A bar that the filter reports no
\* entry of is two when it is held for longer than click_ms (688-706).
OneStepPerGesture ==
  \A i, j \in DOMAIN Steps :
    i # j => \A p \in Steps[i].of, r \in Steps[j].of :
               /\ p # r
               /\ ~ /\ log[p].kind = "mouse_press" /\ r = p + 1
                    /\ log[r].kind = "mouse_release" /\ log[p].on = log[r].on
                    /\ Kind[log[p].on] # "bar"

\* Steps whose value is read when the run ends.
ReadLate(step) == \/ step.kind \in {"type", "select"}
                  \/ \E c \in Controls : Kind[c] = "row_selected" /\ step.on = Owner[c]

\* The steps are in the order they were begun. Only a run of typing and one of
\* changing a value can change places: both are read together, the typing first,
\* and a value is read alone when another one changes (capture.py:1269-1272,
\* 1152-1154). And only a press whose release was lost is recorded later than
\* what was begun after it; if it was on a menu bar, the release that ends the
\* wait is a click of its own, whatever is being typed (688-706).
StepsInOrder ==
  \A i, j \in 2..Len(Steps) :
    i < j => \/ First(Steps[i].of) < First(Steps[j].of)
             \/ ReadLate(Steps[i]) /\ ReadLate(Steps[j])
             \/ ReleaseWasLost(Steps[j])
             \/ log[First(Steps[i].of)].kind = "mouse_release"

\* Whatever happened before a gap is before it, and after, after.
GapSplits(gap, i) ==
  IF i <= gap.after THEN First(Steps[i].of) < gap.of ELSE First(Steps[i].of) > gap.of

\* A choice from a combo box took the click that opened it back, and the places
\* counted since were left alone (_drop_click_on, capture.py:893-901).
CountedOff(gap) ==
  \E n \in Events : n > gap.of /\ Kind[log[n].on] \in {"popup", "popup_unread"}

\* The same, but for the run or the press that was in progress when the event
\* was lost, which is recorded when it ends. A wheel, a shortcut or a closed
\* window that is lost ends the runs first and has no such exception.
GapsInPlace ==
  \A d \in DOMAIN Gaps : \A i \in 2..Len(Steps) :
    \/ GapSplits(Gaps[d], i)
    \/ i > Gaps[d].after /\ ReleaseWasLost(Steps[i])
    \/ /\ i > Gaps[d].after /\ ReadLate(Steps[i])
       /\ Gaps[d].kind \in MouseKinds \cup {"key_press"}
    \/ CountedOff(Gaps[d])

\* A click nobody could identify is one gap, unless the button was held longer
\* than _SAME_INTERACTION_S (capture.py:1491-1531).
OneGapPerClick ==
  \A d, e \in DOMAIN Gaps :
    /\ log[Gaps[d].of].kind = "mouse_press"
    /\ Gaps[e].of = Gaps[d].of + 1
    /\ Gaps[e].on = Gaps[d].on
    => Gaps[e].t - Gaps[d].t > FoldMs \/ Gaps[e].reason # Gaps[d].reason

\* A step is on something the application could be asked about, never on what
\* it could not name and never on the window an event merely passed through
\* (capture.py:594-601, 669-671, 1035-1042).
StepsAreAddressable ==
  \A i \in 2..Len(Steps) :
    LET kind == Steps[i].kind
    IN  /\ Known[Steps[i].on] # {"missing"}
        /\ Kind[Steps[i].on] # "chrome"
        /\ kind \in {"click", "double_click"} => Steps[i].on # Window
=============================================================================
