# Verification of qat-recorder

qat-recorder watches a person use a Qt application and turns what they do into
a test. Whether the test does what the person did depends on code that is hard
to test: events arrive twice and late, a step is only known once a later event
has come, the operator edits the recording while it grows, objects are named
after the application has moved on, a machine is shared by several testers, and
pictures are taken by a thread of their own. This directory models that in
TLA+, checks it with TLC on small instances, and proves with TLAPS the parts
that do not depend on their size.

Paths below are relative to the repository (`qat_recorder/...`, `native/...`).

## 1. The system

```
 application under test          recorder process (or agent on a VM)            tester
 ┌──────────────────────┐  TCP  ┌──────────────┐ poll ┌─────────────────────┐
 │ event filter qatrec  │──────>│EventReceiver │─────>│ RecorderController  │<── panel, or
 │ (queue, writer)      │ lines │(thread+queue)│      │  CaptureSession     │    agent HTTP ── remote
 └──────────────────────┘       └──────────────┘      │   Recording (IR)    │                 controller,
 │ Qat server           │<────── "what is this?" ─────│  SessionMedia ──────┼─> worker        web panel
 └──────────────────────┘                             └──────────┬──────────┘   thread
        ^                                                        v
        └──────────── replay: test, feature, player <──────── emitters
```

| component | source | state | operations | what is hard | what makes it correct |
|---|---|---|---|---|---|
| Event filter | `native/qatrec.cpp` | bounded queue, held Qt Quick event | `eventFilter`, `flushQuickHeld`, `writerLoop`, quit | drops when full, held event against direct ones, lines left at quit | sent lines are the events in order, up to the drops |
| EventReceiver | `qat_recorder/events.py` | socket, buffer, queue | accept, receive, `drain`, stop | one connection in its life, broken silently | everything received is drained once, in order |
| CaptureSession | `qat_recorder/capture.py` | group, pending press, menu and item moments, typing run, value run, lookup cache | `feed`, `flush_stale`, `finish`, one handler per kind of event | steps known late, copies of one event, controls that vanish | nothing is lost silently, invented, doubled or reordered; gaps lie where events were lost |
| Recording | `qat_recorder/ir.py` | steps, gaps with a place each | `add`, `add_drop`, `insert_at`, `repair`, pop | indexes into a list that changes | every gap keeps its place, every fill its gap |
| RecorderController | `qat_recorder/ui/controller.py` | five states, armed gap, pending discard, picked target, photo cursors | start, stop, pause, resume, pick, repair, undo, poll | commands overtake what the inbox holds; flags outlive their use | what is meant for the recorder is not recorded and the rest is |
| SessionMedia | `qat_recorder/media.py` | queue of names, count, worker | `_enqueue`, `_run_queue`, `take`, `settle` | two threads, a worker that comes and goes | names served once, in order, all of them; none after settle |
| Agent | `qat_recorder/agent/server.py` | the host's session, one controller, script and pump per session | start, events, command, release, replay, keep, run_test | two locks, HTTP threads, a replay that holds a lock for minutes | one session per host; a replay runs what was repaired |
| Remote controller | `qat_recorder/agent/remote.py` | read cursor, batches, local copy | reader thread, poll, commands, undo, stop | a slow panel, lost answers, undo against a batch in flight | the local copy follows the agent's recording |
| Web panel | `qat_recorder/web/app.py`, `web/frontend` | cursor per socket, the page's list | `ws_events`, REST | second reader of one session, reconnects | the same |
| Launching | `qat_recorder/launch.py` | processes, port files | `start`, `abandon`, `close` | children of a script, other people's processes, timeouts | connected to our own child; nothing is left running |
| Test library | `qat_recorder/library.py` | directories | `reserve`, `save` | check, then create | no test overwrites another |
| Naming | `naming.py`, `items.py`, `menus.py` | cache of answers | ladder of names, scopes, anchors, positions; rows | ambiguity, and an application that has moved on | an accepted name is the object's, then and at the replay |
| Emitters, replay, player | `emit/`, `player.py`, `replay.py` | the script | recording to script, looking up, acting | gaps among steps, a fresh application with other rows | what is acted on is what was used |
| Panel, launch gate, security, registry, evidence, audit, builds, command lines | the rest | none or files | | sequential | |

How they interact: the filter writes lines to a socket; the receiver's thread
queues them; a timer (the panel's QTimer or the agent's pump) calls `poll`,
which feeds the queue's contents one by one to the controller and through it to
the session; the session asks the application about controls while doing so;
the session appends to the recording, the controller edits it and asks the
camera for pictures, whose names it writes into steps and gaps. Every call into
a controller is made by one thread at a time (the panel's only thread, or under
the agent session's lock), so commands and polls do not overlap; what a command
does overtake is whatever is still in the inbox. On the agent, two locks decide
which request may do what; readers elsewhere follow the recording by a cursor.

The hazards of this code are listed, each at its line, in `PROJECT.json`.

## 2. The modules

| module | models | composed of |
|---|---|---|
| `Recording` | `Recording` of `ir.py` as operators on a pair of sequences | |
| `Folding` | `CaptureSession` as operators on a record | `Recording` |
| `Capture` | a person at an application, with the filter, the pump and `Folding` | `Folding` |
| `Controller` | operator, timer and person around `RecorderController` | `Folding` |
| `Edits` | anything that may happen to one recording, in any order | `Recording` |
| `MediaQueue` | the caller and the worker thread of `SessionMedia` | refines `StillLine` |
| `StillLine` | what the camera promises: a line, served in order, with room for so many | |
| `AgentHost` | requests, sessions and pumps under the agent's two locks; the library | |
| `Feed` | one session's steps on their way to a remote panel and a web page | |
| `EventFilter` | the filter's handlers on the application's own thread | |
| `EventStream` | the filter with its queue, writer, socket, receiver and recorder | `EventFilter`, refines `LineFeed` |
| `LineFeed` | what the filter promises the recorder about the lines it reports | |
| `Launch` | `start`, `abandon` and `close` on a machine with other processes | |
| `ObjectTree` | what Qat finds for a definition | |
| `Naming` | the resolver's ladder; from an event's locator to a named object | `ObjectTree` |
| `Rows` | how a row of a list is told, and found again | `Naming` |
| `Replay` | from a person's clicks through naming and emitting to a replay | `Rows` |
| `EditsProofs`, `MediaQueueProofs`, `AgentHostProofs`, `FeedProofs`, `LaunchProofs`, `EventStreamProofs`, `CaptureProofs` | theorems | `Edits`, `MediaQueue`, `AgentHost`, `Feed`, `Launch`, `EventStream`, `Capture` |
| `ListLemmas` | the least number of a set, and facts about lists of lists, that the proofs use | |
| `MC...` | instances for TLC | |

**Recording.** `NewRecording`, `Add`, `AddDrop`, `InsertAt`, `Repair`,
`OpenDrops`, `WithoutLast` are the methods of the same names (the last is
`actions.pop()`, used by `drop_last_action` and `_drop_click_on`). The elements
are any records with an `after`; `Folding` and `Edits` give them more fields.

**Folding.** One operator per method: `Feed`, `FlushGroup`, `Handle`,
`HandleMouse` (`_handle_mouse` up to the menu's branch), `HandleMenuPress` and
`HandleMenuRelease` (`_handle_menu`), `HandleItem`, `HandleRow`, `HandleCombo`,
`HandleOrdinary` (the rest of `_handle_mouse`), `HandleKey`, `HandleClose`,
`BeginValue`, `FlushValue`, `FlushTyping`, `Drop` (`_drop` with `_record_drop`),
`Finish`. The state record `cap` has one field per attribute the handlers
branch on. Abstracted to what the properties can tell apart:

- a control is a member of `Controls` with a `Kind` (what the class tests of
  `capture.py:82-231` and the lookups find it to be) and an `Owner` (the widget
  a step is attributed to);
- asking the application about a control has one of four `Answers`, chosen by
  the environment per event, and the first is kept, as `_resolved_cache` does;
- a step carries `of`, the events it stands for. The code has no such field; it
  is what lets the properties compare recording and reality. Buttons,
  modifiers, texts and coordinates are left out, and so is the `hello` line.

**Capture.** `log` is what the person really did. `Press`, `ReleaseButton`,
`Double`, `PressKey`, `Shortcut`, `TurnWheel`, `CloseWindow` are the events the
filter reports; a mouse event is fed first as the window's copy, if there is a
`Window`. `FlushStale` is the pump's part, `FinishSession` is `finish()`. The
intervals between events are chosen from `Intervals`, so each timing test of
the code goes both ways.

**Controller.** `ctl` is the controller, one field per attribute; `inbox` is
the receiver's queue. `Poll` folds the whole inbox through `Process`, then
closes a stale group, then photographs: one action, as `poll` is one call under
the lock. Commands are one action each, with the polls they make themselves
(`pause`, `arm_repair`, `stop`). `meant`, `crossed` and `armedAt` are history:
what each event was done for, which events a command overtook in the inbox, and
the first event that can be the pick. `Through` is the window a mouse event
passes through on its way to a widget, and the control itself in Qt Quick:
`Deliveries` puts one or two events in the inbox. An exception that leaves `poll` is the
flag `raised`: the rest of the batch is lost, as in the code.

**Edits.** Folding and the operator reduced to their effects on the two
sequences, in any order, so that what holds of `Edits` holds of every
interleaving of the two. Things that happen are numbered in the order folding
records them. `cut` remembers the gaps a pop left without a place.

**MediaQueue.** An action is what one thread does within one `with self._lock`,
or between two. The caller goes through `Ask`, then `Skip` or `Enqueue` (the
check against `MAX_STILLS` is made before the lock), `TakeNow`, and at the end
of the session `BeginSettle`, `Settled` or `GiveUp`, `ForgetMissing`. The worker
goes `PopLeft`, `Grab`, `CountOff`, or `Leave`.

**AgentHost.** A caller is a thread that serves HTTP requests; `request[c].at`
says which lock it waits for or what it does inside one, so that each critical
section of `Agent` and `Session` is an action: `Claim`, `Displace` (which joins
the old pump inside the agent's lock), `Launch` or `LaunchFails` for
`start_session`; `Change`, `Stop`, `Artifacts`, `SaveScript` for commands under
the session's lock, or `Refused` when they raise; `BeginReplay` and its variants with `Regenerate` and
`Replayed` for a replay, which keeps the session's lock to its end and asks for
the agent's inside it, and falls back on the file there is (`ReplayAsItIs`) when
nothing can be generated; `BeginKeep`, `Reserve`, `MakeDirectory`, `WriteTest`,
`RecordVerdict` for the library; `RunTest`; and `StopForRelease` or, when stop
raises and `release` goes on, `StopRaises`, then `Shutdown` and `Forget`, the
three separate steps of `release`. `Poll` and `PumpEnds` are the pump. What is
recorded is a count of changes, and a script is the count it was generated at;
`coherent` says whether `Recording.validate` finds a recording in order, which
any change decides anew. `forgotten` and `unstopped` are history: sessions a
release took off the host that were not its own, and sessions whose release
could not stop them.

**Feed.** The host's steps grow by `Record`, and are edited by `Repair` and
`Undo`; `Pick` and `Fail` are the notes that are told once. A read is `Ask`,
`Copy` (the first critical section of `events`), `Forget` (the second), then
`Arrive` at the reader, where the cursor moves and the batch is queued, and
`Show`. `Lose` is an answer that does not arrive; `Reopen` is the page's socket
closing and opening again, from the beginning. A command goes out (`Pause`,
`Resume`, `Stop`, `Undo`) and comes back (`Reply`, `UndoReply`, `StopReply`)
with reads in between.

**EventFilter, EventStream.** `ToWidget`, `Close`, `ToQuickWindow`, `ToItem`,
`Delivered`, `Shortcut`, `FromCode`, `ShortcutFromCode`, `ZeroTimer` are what
passes through `eventFilter`; they leave lines in `toSay`. `EventStream` adds
the bounded queue (`Enqueue`), the writer thread (`Connect`, `Take`, `Send` in
two parts, `SendFails`, `Leave`), `Quit` and `Die` of the application, and the
receiver's thread (`Accept`, `Receive`, `Finish`), with the recorder's `Drain`,
`LastPoll` and `StopReceiver`. `AcceptAnother` is a stranger who connects first.

**Launch.** `MachineNext` is the machine: processes of ours fork, strangers
start, any of them announces itself by a port file or exits, and the children
of an exited process belong to init. `start` is `StartDirectly` or
`StartFollowing`, then a loop of `Look` and a judgement (`FollowLaunched`,
`FollowChild`, `LookAgain`, `GiveUp`), then `ReadPort` and `Join`. `abandon` is
`List`, `StopNext` for each on the list, `KillLaunched`: the machine moves
between any two of them. `Descends` is the walk of `descends_from` up the
parents of a pid, over `Generations` processes at most.
`close` is `Close`, `StopApplication`, `Waited`,
`StopRoot`, `QatCloses`.

**ObjectTree, Naming, Rows, Replay.** A world is what an operation sees of the
application: the objects there are, the usable ones, their properties, the rows
of each list. `FindAll`, `FindUsable`, `WaitFor` and `TheOne` are Qat's lookups
as the repository's fake backend has them. `Resolve` is the ladder, `Answer` the way from an
event's locator to a named object (by name, by position, late, or as reported
of an object that is gone), `RowOf` the three ways to tell a row. In `Replay` a
person uses controls (`Click`), the application reacts (`React`: a page turns,
a dialog opens or is destroyed, an input is filled, a row is put on top), and
the recorder names what was used (`Name`), at once or after the reaction.
`Begin` starts a fresh application whose lists have other rows on top, and a
player: the generated test (`ByTest`), the feature or the direct player
(`ByPlayer`). The scenes of `MCReplay` mix equal, different and
missing names and texts on the instance, so an accepted name is met by every
kind of competitor for it.

## 3. The runs

Eleven runs pass, one shows a disagreement between what the repository says and
what the code does. Each property of a passing run is broken by a plausible
bug, listed under `mutants`: the mutated operator stands just above the one it
replaces.

| run | question | instance | properties |
|---|---|---|---|
| `MCMedia` | can a still be lost, served out of turn, or arrive after settle? | queue of 2, 4 stills, 5 requests; 11 thousand states | `TypeOK`, `Handshake`, `NoLateStill`, `KeepsTheLine` |
| `MCCapturePointer` | does the mouse become the right clicks? | 7 controls, 5 events, intervals 1 and 3 against a click of 2; 2.3 million | `NoSilentLoss`, `ClicksAreReal`, `OneStepPerGesture`, `OneGapPerClick`, `StepsAreAddressable` |
| `MCCaptureInput` | do runs of typing and values, and gaps, keep their place among other events? | 7 controls, 4 events of every sort; 2.6 million | `StepsInOrder`, `GapsInPlace` |
| `MCCaptureLists` | are rows, popups read late, and window furniture neither lost nor reordered? | 6 controls, 5 events; 5.8 million | `NoSilentLoss`, `StepsInOrder` |
| `MCController` | do commands and events keep out of each other's way? | 2 sessions of 3 events and 1 edit, with pictures, on a widget, an item and their window; 1.6 million | `RecordedAsMeant`, `OneStepPerEvent`, `PictureTakenOnce` |
| `MCEdits` | do gaps and fills survive any edits? | 5 happenings, 3 edits; 63 thousand | `PlacedUnlessCut`, `GapsKeepTheirPlace`, `FillsStayWithTheirGaps`, `OneStepForEach` |
| `MCAgentHost` | do crossing requests leave one session on the host, current scripts and whole tests, and are all answered? | 2 callers, 3 sessions, 1 change each, 5 requests, 2 tests, 1 stop that raises; 140 thousand | `TypeOK`, `OnlyTheHostRecords`, `ReplaysWhatWasRepaired`, `KeptTestsStay`, `RequestsAreAnswered`, `PumpsEnd` |
| `MCFeed` | do the copies elsewhere follow the recording? | 3 steps, 1 note; 2 commands or faults with one reader, none with both; 1 batch waiting; 240 thousand | `CopiesFollow`, `NotesAreHeard`, `StepsArrive`, `StateIsShown` |
| `MCEventStream` | does what is done reach the recorder in order, and what is lost on the way? | 2 acts of a person or of code, a queue of 1, 2 attempts to connect; 495 thousand | `ReportedInOrder`, `HeldIsReported`, `ImplementsLineFeed` |
| `MCLaunch` | does `start` find its own among the processes, and leave none behind? | 3 processes, a walk over 2 generations; 286 thousand | `ConnectsToItsOwn`, `NothingIsLeft`, `StartEnds` |
| `MCReplay` | is what is clicked again what was clicked? | 13 objects, 240 scenes of names and 45 of rows, 3 clicks, naming one behind, three players; 370 thousand | `NamedAsItself`, `ReplaysTheSame`, `ReplayGetsThrough`, `ScriptInOrder` |
| `MCAgentHostExclusive` | is recording exclusive, as `deploy/README.md:109-110` says? | as `MCAgentHost`, and no stop raises | violated: `RecordingIsExclusive` |

Why these bounds are enough. In `Folding` no handler looks back further than
the group, the pending press, the last menu or item press and the runs that are
open: a pair of clicks and what comes between or behind them (five mouse
events), or two open runs and two events that end them (four of any sort), meet
every combination of these. An interval is either within or beyond each time
the code compares with (`GroupMs` 0, `FoldMs` 1, `ClickMs` 2; intervals 0, 1 and
3), so nothing is gained by others. In `MCController` three events are a click
that leaves a gap and the press that fills it, or a pick, its release and a
press behind it; the second session is there for what `start` does not reset.
One control gets its events through a window first, as widgets do, and one
directly, as Qt Quick items do.
`MCEdits` has room for two gaps at one place, both filled, and an undo before,
between and after; its theorems remove the bound. In `MCMedia` more is asked for
than the queue holds and than the session may keep. In `MCAgentHost` three
sessions are one that records, one that displaces it and one that displaces
that, while the other caller is in the middle of a replay, a keep or a release;
one stop that raises leaves a controller recording that nobody owns; the
theorems remove the bounds. In `MCFeed` two commands or faults are an answer
lost and a stop or an undo on top of it; three steps are the launch, one in a
batch that waits and one in a batch on the way. Two lines and a queue of one
are an event held and one that overtakes it, or one waiting and one refused. In
`MCLaunch` three processes are the script, a shell and the application below
it, or the script, the application and a stranger; with a walk over two
generations the first is a family too deep for `descends_from`, which gives up
on it (the code's limit is 12). In `MCReplay` three clicks
open a dialog or turn the page, use what is there, and go on.

`CHECK_DEADLOCK FALSE` is set because each of these models really ends: a
finished session does nothing more, and the bounds run out.

`TypeOK` is defined in every state machine; two of the runs check it, and it is
proved of `MediaQueue`, `Edits`, `AgentHost`, `Feed`, `EventStream` and `Launch`.

**What the properties exempt, and why.** Each exemption is an operator or a
named conjunct, commented where it stands.

- `NoSilentLoss` exempts `InTheShadowOfAnItem` (a disagreement, below) and
  `InABurst` (two keys or notches within `GroupMs` are one by design). `Starts`
  leaves out a button still held down and the close of what is no window.
- `ReleaseWasLost` is a press whose release was lost on something unidentified,
  or was taken for the release of a choice made just before: the press goes on
  waiting (`capture.py:655-658`, `763-774`). `ClicksAreReal`, `StepsInOrder` and
  `GapsInPlace` exempt it.
- `OneStepPerGesture` exempts a menu bar that reports no entries, held for longer
  than `click_ms` (`688-706`).
- `StepsInOrder` of `Capture` exempts two runs, which are not always ended
  together (`1269-1272`, `1152-1154`), and a bar's release without its press.
- `GapsInPlace` exempts the run or press in progress when an event was lost, and
  a gap counted before a choice took a click back (`CountedOff`; disagreements,
  below).
- `RecordedAsMeant` exempts events a command overtook in the inbox (`crossed`)
  and the second delivery of a pick (`SecondDelivery`; disagreements, below).
- `PictureTakenOnce` exempts a recording with a filled gap, whose last step is
  photographed again.
- `OnlyTheHostRecords` exempts the sessions of `forgotten` (the finding) and
  those of `unstopped` (disagreements, below), and requires of these that their
  pump has been told to stop. `PumpsEnd` exempts `forgotten` too.
- `ReplaysWhatWasRepaired` exempts a recording that is not coherent
  (`UpToDate`): nothing can be generated from it, and what is on disk is run.
- `CopiesFollow` is about a recording that only grows and a page whose socket
  stayed open; `StepsArrive` about one that only grows and a reader that stays;
  `NotesAreHeard` exempts notes the code loses sight of (`excused`).
- `ReportedInOrder` leaves shortcuts out; `HeldIsReported` an event whose place
  was taken by one from code, and an application that died.
- `NothingIsLeft` exempts processes out of reach of `abandon` (`strayed`).
- `NamedAsItself` is about what is named before the application reacted and not
  by counting. `ReplaysTheSame` and `ReplayGetsThrough` are about a faithful
  recording (`Faithful`): no gap so far, each step named as what was clicked, a
  row by a text that tells it; no positional target; rows only by the test, as
  the other two players replay a row by its number.

**The disagreement with a run** (`findings` in `PROJECT.json` quotes the line):
a release stops its session in one critical section and clears `Agent.session`
in another. A claim between the two starts a new session, the release takes
that off the host while it records, and the next claim records beside it.

**Other disagreements**, met while modelling, exempted as above:

- *Folding.* A click made right after a choice from a popup or a row is neither
  a step nor in the report that says "Every event was recorded."
  (`capture.py:764`, `342`). A click lost while a typing run is open gets its gap
  in front of what was typed before it (`1509`, `1471-1473`). A second value ends
  only the first (`1152-1154`), so what was typed before both is recorded behind
  it. A choice from a popup takes the click on its combo box back, and a gap that
  was counted behind that click stays one place too far on (`893-901`).
- *Controller.* Where a press is reported to the window and the widget, as it is
  for every widget, a pick takes the first copy, which names the window itself;
  the second copy, and the release, are recorded as a click, although "a click
  consumed to select a checkpoint target must not also be recorded, and neither
  must its release" (`controller.py:571`, `561-563`).
  After a gap was filled by pointing, the first click after resuming disappears,
  also in the next session (`564`). Undoing the step before a gap leaves the gap
  where the script marks nothing (`739`, `emit/python.py:880-881`). Filling the
  later of two gaps at one place first reverses the two steps (`ir.py:348`,
  `355-357`).
- *Agent.* A session that made way, or whose recording is not coherent, replays
  the file as it was last written, without later repairs (`server.py:667-676`).
  A release swallows whatever `stop()` raises, and `stop()` sets STOPPED on its
  last line: the controller goes on saying that it records, off the host, where
  nobody can reach it (`server.py:682-686`, `controller.py:250`, `282`). A saved test or a replay may run
  beside a recording (`625`, `650-652`). A start that fails leaves its receiver
  listening. A keep does not ask whether the recording has stopped.
- *Readers.* An undo moves the remote cursor while a read made before it is on
  the way, and the page's cursor never (`remote.py:182-183`, `213-215`,
  `web/app.py:317`). `stop` shows what has arrived but not the answer its reader
  still waits for (`remote.py:139`). A page whose socket reopens shows the list
  twice (`App.jsx:265`). A note raised between the two critical sections of
  `events` is forgotten unread (`server.py:230-242`).
- *Filter.* "Anything held comes first" (`qatrec.cpp:551`) is not so for
  shortcuts (`506-524`).
- *Launching.* A connection or a port that fails raises without `abandon`
  (`launch.py:536-545`, `674-688`). Children whose launcher has exited are not
  found (`548-551`). A stale port file of the launched pid is believed (`533`),
  and a new child with a pid of an old file never is (`541`).
- *Naming and replay.* A positional target is emitted as an index among matches,
  but `find` refuses an ambiguous definition before that (`ir.py:107-108`). The
  player looks a definition up without asking for visible ones. A sibling's index
  is used as an index among all matches. The cache of answers is never cleared.
  The feature numbers equal labels by the first action's index. A test that
  chooses a row of a dialog or of another page fails at once, as all rows are
  looked for before the first step. The feature has no sentence for SELECT.

## 4. Fairness and liveness

Nobody has to use the application, give a command, ask for a picture or make a
request: no fairness is put on persons or on the application under test. What
is fair is what a scheduler or a deadline makes go on.

- `MediaQueue`: `WF_vars(Worker)`, an ordinary thread whose one lock is never
  held across anything that blocks; `WF_vars(Settled \/ GiveUp)`, a loop with a
  deadline; `WF_vars(ForgetMissing)`, the next statement of `stop()`. Under
  this, `KeepsTheLine` contains that every name handed out is served
  (`WF_vars(Serve)` of `StillLine`), whether or not its grab works. That a grab
  returns is assumed of the X server and of Qat; external programs are run with
  a timeout (`media.py:240-263`).
- `AgentHost`: `WF_vars(Serve(c))` per caller. A thread that can go on does, a
  started application answers or times out and a test that runs is stopped at
  its timeout. Weak fairness is enough to get a lock because requests are
  bounded, so that a lock is free for good in the end. `WF_vars(PumpEnds(s))`
  per session. `RequestsAreAnswered` is the absence of a circle of waiting:
  a replay takes the agent's lock inside its session's, while a claim inside
  the agent's lock waits for that session's pump, and only the timeout of that
  join breaks the circle.
- `Feed`: the reader's request goes on, the panel's timer or the browser shows
  what came, and a command is answered.
- `EventStream`: the application's event loop comes round, the writer and the
  receiver are scheduled, the recorder polls on a timer. Neither `Quit`, `Die`
  nor a stop has to come. `ImplementsLineFeed` contains that what was not lost
  is heard (`WF_vars(Hear)` of `LineFeed`).
- `Launch`: the recorder's own steps go on and its deadline passes; the machine
  owes nothing, no process has to exit or to announce itself.

`Capture`, `Controller`, `Edits` and `Replay` state no fairness: their
properties are about what has been recorded so far.

## 5. The proofs

Everything under THEOREM or LEMMA is checked to the last leaf, for every value
of the constants that meets the module's assumption (`MediaAssumption`:
`QueueDepth` a positive number, the limits natural numbers; `EditsAssumption`:
both bounds natural numbers; `HostAssumption`: the five bounds natural numbers,
and the holder of a free lock none of the callers; `FeedAssumption`: at least one
step and room for at least one batch; `StreamAssumption`: a queue of at least one
line and at least one attempt to connect; `LaunchAssumption`: at least one process
and at least one generation; `FoldingAssumption` and `CaptureAssumption`: times are
natural numbers, and what is a window among the controls the mouse meets is the one
window every event passes through). `AddressAssumption` is for `StepsAreAddressable`
and nothing else rests on it: a control and the one its steps are attributed to are
named by the application or neither is, since `_resolve` asks about the target of the
event; window furniture owns only furniture; and nobody clicks the bare window, for a
click on it would be on the window rightly.

`MediaQueueProofs`

- `TypeCorrect` (`Spec => []TypeOK`) and `HandshakeHolds` (`Spec =>
  []Handshake`). Neither `TypeOK` nor the handshake is inductive alone: that
  `queued` stays within the depth needs to know that it counts what waits and
  what is in hand, and that the worker's append continues the line needs the
  line. The inductive invariant `IInv` is `TypeOK /\ Handshake` with what each
  caller state implies about the current request (`Requested`). One lemma per
  side, `CallerIInv`, `WorkerIInv`, and `EnqueueIInv`, which is the only action
  of the caller that touches the line.
- `SettledMeansDone` (`Spec => NoLateStill`): the caller is `settled` only if
  nothing is counted, hence nothing is in hand, and nothing can be queued any
  more.
- `KeepsTheLineSafely` (`Spec => Line!Init /\ [][Line!Next]_(Line!vars)`): the
  refinement without its fairness. `Enqueue` maps to `Accept`, because what is
  counted is what has been accepted and not served; `CountOff` maps to `Serve`,
  because what is in hand is next in line; everything else stutters.

`EditsProofs`

- `TypeCorrect`, and on it `GapsArePlaced`, `PlacesKept`, `FillsStay` and
  `OneStepEach`. The argument is the same each time: lemmas say once what each
  action does to the two sequences (`AddShape`, `FoldGapShape`, `PopShape`,
  `FoldChoiceShape`, `FillGapShape`, built on `InsertedShape`, `MovedShape`,
  `FilledShape`), and the step lemmas (`TypeStep`, `PlacedStep`, `PlaceStep`,
  `FillStep`, `OneStep`) compare an index before and after. `FillGap` is the
  case that matters: a step goes in at `after`, steps and gaps from there on
  move along by one, and the gap that is filled does not.
- `OneStepForEach` is not inductive: that no open gap has a step yet has to be
  added (`OneInv`), else filling it could be the second one.

`AgentHostProofs`

- `TypeCorrect` (types, and that a lock is held by exactly the request at work
  inside it), `OneRecording` (`Spec => []OnlyTheHostRecords`) and
  `ReplaysAreCurrent` (`Spec => []ReplaysWhatWasRepaired`), for any number of
  testers, sessions, changes, requests and tests.
- The inductive invariant `IInv` adds to them `Known` (sessions are numbered as
  they start, so a new one is nobody's), `Claiming` (between a claim and its
  launch nothing is recorded on the host, which is what the agent's lock is
  for), `Addressed` (a request is about a session that was started), `Released`
  (a release has stopped its session before it does anything else, or its stop
  has raised, and it tells the pump to stop before it clears the host: `Dealt`) and
  `TypedFiles` (a script the tester saved is what is in the file).
  `OnlyTheHostRecords` alone is not inductive: `Displace` and `Forget` take a
  session off the host, and only `Claiming` and `Released` say that it has
  stopped by then, or which of the two exceptions it is.
- One lemma per action. The many actions that only move a request from one
  place to the next share lemmas on what such a move keeps (`Moves`, `Rests`,
  `Replaying`).
- `TestsStay` (`Spec => KeptTestsStay`), about what a step may do to the library.
  It needs `Shelves`: a directory that is not made holds no test, whoever is
  about to write has made its directory, and no other request keeps a test there.
  Of all requests only `MakeDirectory`, `WriteTest`, `RecordVerdict` and `RunTest`
  touch the library or begin to (`QuietRequests`).

`FeedProofs`

- `TypeCorrect`, `ReadersFollow` (`Spec => []CopiesFollow`) and `NotesReach`
  (`Spec => []NotesAreHeard`), for any number of steps, notes, batches that wait,
  commands and faults.
- `CopiesFollow` needs `AsksFromCursor`: the request on its way asks from where
  the cursor is now, so what comes back continues what was received. An undo
  moves the cursor under a request, and `UndoneIsEdited` is what puts that case
  outside the property. `NotesAreHeard` needs `ForgetsWhatItCopied`: what the
  second critical section of `events` clears is in the answer, or was raised
  between the two (`excused`). `NothingYet` says that an answer is empty until it
  is copied.
- What a reader has is the concatenation of the batches it showed and the batches
  that wait (`StepsOf`, by `FlattenSeq`); the lemmas of `ListLemmas` say that one
  more batch at the end is one more list at the end.

`EventStreamProofs`

- `TypeCorrect`, `ReportsInOrder` (`Spec => []ReportedInOrder`) and
  `KeepsTheLineFeedSafely` (`Spec => Feed!Init /\ [][Feed!Next]_(Feed!vars)`), for
  any number of acts, size of the queue and number of attempts.
- `ReportedInOrder` is about `said` alone. The invariant `Order` is about what is
  said followed by what is about to be (`toSay`), about what is held, which comes
  after all of that, and about a QML window that is handing an event on, whose
  item reports the same act once more.
- The refinement maps the lines that were accepted and not heard (`Waiting`) to
  the line feed: what is in the inbox, then what is complete of the receiver's
  buffer, the wire and the line in the writer's hand, then the queue. `Carriage`
  says that a part of a line only waits for the rest of the same line. One lemma
  per kind of step: `EnqueueSays` and `PollHears` are the two steps of the feed;
  taking from the queue, sending, failing to send and receiving move a line
  along and are stutters (`TakeStays`, `SendStays`, `WriterStays`,
  `ReceiveStays`); a death in the middle of a line and a stop cut the feed off at
  the end (`DieCuts`, `ShutsAll`, `CutAfter`).

`LaunchProofs`

- `TypeCorrect`, `OnlyItsOwn` (`Spec => []ConnectsToItsOwn`) and `LeavesNothing`
  (`Spec => []NothingIsLeft`), for any number of processes and any limit to the
  walk up.
- `OnlyItsOwn` rests on `DescendsIsOurs`: whoever is found on the way up from a
  process that was launched is a process of ours, because only ours have a parent
  that is not init (`Family`). That needs no limit and no absence of cycles.
  `LeavesNothing` rests on `Reached` (what of ours is alive while `abandon` works
  is on its list, is the launched process or is out of its reach) and `AppGone`.

`CaptureProofs`

- `ClicksReal` (`Spec => []ClicksAreReal`), `OneStep` (`Spec => []OneStepPerGesture`),
  `OneGap` (`Spec => []OneGapPerClick`) and `NothingIsLost` (`Spec =>
  []NoSilentLoss`), for any controls, answers and intervals and any number of
  events. The instances of `MCCapturePointer` and `MCCaptureLists` show the same
  for five mouse events on the controls they have.
- None of the four is inductive: each is about steps, and says nothing of what the
  session holds back. `IInv` is about a session, the list of what was done and `h`,
  how much of that list has been folded, that is, all of it but the group.
- `Core` holds at every moment of a handler: an event is in one place only, of the
  steps, the typing, the value and the press that waits (`Apart`); a click is in
  one place (`Together`); every click is a press and its release (`Clicked`); the
  press that waits is the newest (`Waits`); what will become a click holds no
  release (`Selected`); gaps are in order and one per click (`Gapped`).
- `Edge` holds between two events only: a press that waits was just made, or its
  release was lost (`Expects`); the entry of a menu that is remembered is the one
  that was pressed last (`Opened`); the time of a choice is the time of a press on
  an item (`Chosen`); the newest gap has nothing behind it (`Latest`). This is what
  a handler may count on when the next event comes.
- `Accounts` is `NoSilentLoss` for everything but the group, and says that the
  press of a menu is recorded at once, on which the second half of a double click
  on a menu rests. `Grouped` says that the group is the newest events, as they
  happened or as the window was told, so that `MostSpecific` picks a true event
  and what is dropped with the others is a copy or a burst. `Over` is what is
  left when `finish` has been called.
- `Handled` is what a handler owes: `Core`, `Edge` and `Accounts` one event
  further. One lemma per handler proves it (`KeyHandled`, `RowHandled`,
  `ComboHandled` ..., together `EveryHandled`) from what `Record`, `Drop`,
  `FlushInput`, `BeginValue` and `Release` do to `Core`. `FlushFolds`, `FedFolds`
  and `FinishedOver` take this through the group, whichever event closes
  it, and `NextIInv` goes through the actions of `Next`. `Lived` is what a person
  can have done, and comes from the guards of `Capture`.
- `StepsOrdered` (`Spec => []StepsInOrder`) and `GapsPlaced` (`Spec =>
  []GapsInPlace`), under the same conditions. Neither is inductive: a run of typing
  or of a value is in no list yet when events after its first are recorded or
  dropped, and has to be in its place when it is. `Ordered`
  therefore speaks of the steps and gaps there are (`Listed`), of the steps that the
  runs in progress would be (`Open`), each of which could be recorded now without
  being out of order (`Follows`), and of the press that waits, which is older than
  those runs and is no gap. The invariant is `Ordered` next to `IInv`, which says
  what is newest: a step begun with the newest event can always come last
  (`FollowsAt`). `EveryOrdered` is one lemma per handler again. `OrderedLater` says
  that what happens afterwards takes nothing back: a release that was lost stays
  lost, a place that was counted off stays so.
- `AllAddressable` (`Spec => []StepsAreAddressable`). What a step is on was often
  found out long before: the first answer about a control is kept for the session,
  a press waits for its release, and a run is recorded when it ends. `Addressed`
  therefore says of the cache that what it holds as found can be named, and of the
  press, the typing and the value in hand that each is on something a step may be
  on, a selection that will be read as a click included. That a choice from a combo
  box takes a step back disturbs nothing, since the step taken is a click and so
  never the launch that the recording begins with. `Asked` says that each answer in
  the list of what was done is one the control can give.
- `CaptureTypes` (`Spec => []TypeOK`). Beyond `IInv` it needs `Formed`: a moment that
  a later release is measured from is never ahead of the clock, and what is being
  typed is typed into a field. That gaps, lines and steps are about events that
  happened, and that a finished session has nothing in hand, follows from `IInv`.

`ListLemmas`

- `FlattenSeq` is a recursive function, and what it does for lists of any length
  is proved without an induction theorem: `Least` says that a set of natural
  numbers that is not empty has a least member (from the well-founded order of the
  library), and a lemma about all places of a list is proved by looking at the
  least place where it would fail. `DescendsIsOurs` uses `Least` the same way.

Left to TLC: liveness and the fairness halves of the refinements (the prover
does not reason about `ENABLED`); `Naming` and `Replay`, whose lookups are
recursive and where the argument is about the scenes of the instance; and
`Controller`, where the commands of the operator come between (see the plan).

## 6. What is not modelled

- The video recorder process, the programs that photograph a screen, evidence
  collected about a gap, the wording of reasons: they change no decision.
- Exceptions from the application in the middle of a handler: the handlers
  catch those they expect. One that escapes `feed` leaves `poll` as the one of
  a pick does, which `Controller` has (`raised`: the rest of the batch is lost);
  what it leaves of a session in the middle of a handler is not followed.
- The row of a view is resolved like any control, whose first answer is kept; a
  view with a name of its own is looked up anew each time (`capture.py:988-997`).
  Two controls that are described alike count as one for a gap
  (`capture.py:1525`); here each control is described differently.
- Malformed lines, the JSON of a line, the encoding of HTTP, the list routes and
  the health of the agent, the handing out of files: each reads one thing and
  answers.
- Columns of tables, paths of menu items, wheel, drag and verify steps in
  `Replay`: they are in `Folding` as kinds of controls and steps, but their
  names and their replay are not followed.
- The reuse of a pid while `launch.py` waits for its process. The system gives
  pids in order and goes round.
- The panel's widgets, security, registry, reports, builds and command lines are
  sequential and hold no protocol state.

## 7. Plan

1. Done: `Recording`, `Folding`, `Capture`, `MediaQueue` with `StillLine`,
   `Controller`, `Edits`; `AgentHost`, `Feed`, `EventFilter` and `EventStream`
   with `LineFeed`, `Launch`, `ObjectTree`, `Naming`, `Rows`, `Replay`.
2. Done: proofs for `Edits`, `MediaQueue`, `AgentHost`, `Feed`, `EventStream`,
   `Launch` and `Capture`.
3. Proofs for `Controller`, whose `Poll` feeds the session that `CaptureProofs` is
   about, but in batches that the commands cut; the refinement of `Edits` by the
   folding.
4. Replay of table cells, menu paths, wheel, drag and verify steps.
5. Saving a recording and loading it again; evidence beside a gap.
