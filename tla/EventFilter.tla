----------------------------- MODULE EventFilter -----------------------------
(****************************************************************************)
(* The filter every event of the application passes through                 *)
(* (native/qatrec.cpp, QatRecFilter::eventFilter), on the thread of the     *)
(* windows.  What a person does comes from the window system.  A QML window *)
(* hands it on to its items under another name: the window's event is kept  *)
(* back, and an item that is offered the same kind of event within the      *)
(* moment is reported instead, the last one offered when it is the mouse,   *)
(* once the window is through with it.                                      *)
(*                                                                          *)
(* A handler leaves the lines it reports in toSay; they go into the queue   *)
(* one by one, before the thread handles anything else.  A line is          *)
(* [act, by]: the number of what was done, and whether a person, a person's *)
(* shortcut or code did it.                                                 *)
(****************************************************************************)
EXTENDS Naturals, Sequences

CONSTANT MaxActs  \* bound: what the person does and what code sends of itself

Kinds == {"mouse", "key"}   \* each stands for one type of event
Nothing == [act |-> 0, by |-> "nobody"]
Hello == [act |-> 0, by |-> "filter"]

VARIABLES acts,        \* how many things the person did
          codes,       \* how many events the application's code sent
          pending,     \* g_quickPending: a kind a QML window was given, still fresh
          recent,      \* g_lastSpontaneous is not older than kShortcutWindowMs
          held,        \* g_quickHeld, or Nothing
          timer,       \* the zero timer that sends what is held is set
          dispatching, \* a QML window is handing an event on to its items
          toSay        \* lines the thread is about to put in the queue

filter == <<acts, codes, pending, recent, held, timer, dispatching, toSay>>

Line(by) == [act |-> IF by = "code" THEN codes + 1 ELSE acts + 1, by |-> by]
Flushed == IF held = Nothing THEN <<>> ELSE <<held>>

\* Before the filter is installed, what this build of it can do is said.
FilterInit == /\ acts = 0 /\ codes = 0
              /\ pending = "none" /\ recent = FALSE
              /\ held = Nothing /\ timer = FALSE /\ dispatching = FALSE
              /\ toSay = <<Hello>>

Free == toSay = <<>>
Acts == Free /\ ~dispatching /\ acts + codes < MaxActs /\ acts' = acts + 1
Sends == Free /\ acts + codes < MaxActs /\ codes' = codes + 1

\* A press, release, key or wheel that a widget gets, or a control the focus.
ToWidget == /\ Acts
            /\ recent' = TRUE
            /\ toSay' = Append(Flushed, Line("person"))
            /\ held' = Nothing
            /\ UNCHANGED <<codes, pending, timer, dispatching>>

\* A window closed from its title bar; a popup, or the QWidgetWindow around a
\* widget, closes too but is not reported.
Close == /\ Acts
         /\ \/ toSay' = Append(Flushed, Line("person"))
            \/ toSay' = Flushed
         /\ held' = Nothing
         /\ UNCHANGED <<codes, pending, recent, timer, dispatching>>

\* Mutant: what is held is not sent before the window's next event.
ToQuickWindowHolding(kind) == /\ Acts
                              /\ recent' = TRUE
                              /\ pending' = kind
                              /\ dispatching' = TRUE
                              /\ toSay' = <<>>
                              /\ UNCHANGED <<codes, held, timer>>

ToQuickWindow(kind) == /\ Acts
                       /\ recent' = TRUE
                       /\ pending' = kind
                       /\ dispatching' = TRUE
                       /\ toSay' = Flushed
                       /\ held' = Nothing
                       /\ UNCHANGED <<codes, timer>>

\* The item with the focus is the one a key was meant for.
ItemKey(line) == /\ pending = "key"
                 /\ pending' = "none"
                 /\ toSay' = <<line>>
                 /\ UNCHANGED <<recent, held, timer, dispatching>>

\* Mutant: the timer is not set for what is held.
ItemMouseUntimed(line) == /\ pending = "mouse"
                          /\ held' = line
                          /\ toSay' = <<>>
                          /\ UNCHANGED <<pending, recent, timer, dispatching>>

\* Each item offered a press replaces the one before it.
ItemMouse(line) == /\ pending = "mouse"
                   /\ held' = line
                   /\ timer' = (IF held = Nothing THEN TRUE ELSE timer)
                   /\ toSay' = <<>>
                   /\ UNCHANGED <<pending, recent, dispatching>>

Item(line) == ItemKey(line) \/ ItemMouse(line)

\* The window offers the event to an item.
ToItem == /\ Free /\ dispatching
          /\ Item([act |-> acts, by |-> "person"])
          /\ UNCHANGED <<acts, codes>>

Delivered == /\ Free /\ dispatching
             /\ dispatching' = FALSE
             /\ toSay' = <<>>
             /\ UNCHANGED <<acts, codes, pending, recent, held, timer>>

\* The application's code sends an item an event: taken for the window's while
\* that one is fresh, and otherwise left alone, as it always is for a widget.
FromCode == /\ Sends
            /\ \/ Item(Line("code"))
               \/ toSay' = <<>> /\ UNCHANGED <<pending, recent, held, timer, dispatching>>
            /\ UNCHANGED acts

\* Qt reports a shortcut in its own name.  The keys came from the window system
\* a moment ago, as an event that is not reported and sends nothing held.
Shortcut == /\ Acts
            /\ recent' = TRUE
            /\ toSay' = <<Line("shortcut")>>
            /\ UNCHANGED <<codes, pending, held, timer, dispatching>>

\* One that code triggers is reported only right after real input.
ShortcutFromCode == /\ Sends
                    /\ toSay' = IF recent THEN <<Line("code")>> ELSE <<>>
                    /\ UNCHANGED <<acts, pending, recent, held, timer, dispatching>>

\* The event loop comes round: flushQuickHeld.
ZeroTimer == /\ Free /\ timer /\ ~dispatching
             /\ timer' = FALSE
             /\ toSay' = Flushed
             /\ held' = Nothing
             /\ UNCHANGED <<acts, codes, pending, recent, dispatching>>

\* kQuickDeliveryMs, and later kShortcutWindowMs, have passed.
Lapse == /\ Free
         /\ IF pending # "none" THEN UNCHANGED recent ELSE recent /\ recent' = FALSE
         /\ pending' = "none"
         /\ toSay' = <<>>
         /\ UNCHANGED <<acts, codes, held, timer, dispatching>>

Handles == \/ ToWidget \/ Close
           \/ \E kind \in Kinds : ToQuickWindow(kind)
           \/ ToItem \/ Delivered \/ FromCode
           \/ Shortcut \/ ShortcutFromCode
           \/ ZeroTimer \/ Lapse

Lines == {Hello} \cup [act : 1..MaxActs, by : {"person", "shortcut", "code"}]

FilterTypes == /\ acts \in 0..MaxActs /\ codes \in 0..MaxActs
               /\ pending \in {"none"} \cup Kinds /\ recent \in BOOLEAN
               /\ held \in Lines \cup {Nothing} /\ timer \in BOOLEAN /\ dispatching \in BOOLEAN
               /\ toSay \in Seq(Lines)
=============================================================================
