------------------------------- MODULE Feed -------------------------------
(****************************************************************************)
(* How the steps of a session on the agent reach those who watch it:        *)
(* Session and Agent.events and command (qat_recorder/agent/server.py), the *)
(* panel on another machine (agent/remote.py, RemoteRecorderController with *)
(* its reader thread), and the page in a browser (web/app.py, ws_events,    *)
(* and web/frontend/src/App.jsx).                                           *)
(*                                                                          *)
(* A reader asks for the steps after its cursor.  The host answers in two   *)
(* critical sections: it copies what there is, lets go of the lock, takes   *)
(* it again and forgets the picked control and the errors.  The answer      *)
(* travels, the reader's cursor moves when it arrives, and the answer is    *)
(* shown when the panel, or the page, gets round to it.                     *)
(*                                                                          *)
(* A step is the number it was recorded under; a picked control or an error *)
(* is a note, numbered too.  The page leaves the launch out of its list: it *)
(* is kept here so that both lists are numbered alike.                      *)
(****************************************************************************)
EXTENDS Naturals, Sequences, SequencesExt

CONSTANTS MaxSteps,     \* bound: steps recorded, the launch among them
          MaxNotes,     \* bound: controls picked and errors met
          MaxTroubles,  \* bound: commands given, answers lost, sockets closed
          QueueBound    \* bound: answers waiting to be shown

ASSUME FeedAssumption == /\ MaxSteps \in Nat \ {0} /\ MaxNotes \in Nat
                         /\ MaxTroubles \in Nat /\ QueueBound \in Nat \ {0}

Readers == {"remote", "web"}
Notes == 1..MaxNotes
States == {"recording", "paused", "stopped"}
Nothing == 0                \* nothing is picked

VARIABLES steps,     \* recording.actions on the host
          made,      \* the number of the last step recorded
          state,     \* the state of the controller on the host
          picked,    \* Session.picked
          errors,    \* Session.errors
          told,      \* the number of the last note
          fetch,     \* where each reader's request is: [at, since, batch]
          cursor,    \* each reader's cursor
          queue,     \* answers that arrived and are not yet shown
          shown,     \* the steps each reader shows
          view,      \* the state each reader shows
          command,   \* the command each reader waits for: [name, state], the state as answered
          open,      \* whether each reader is there and goes on asking
          troubles,  \* how many commands and faults there were, or are left out
          edited,    \* history: a step was taken back or put before another
          reopened,  \* history: the page's socket was closed
          heard,     \* history: notes shown to some reader
          excused    \* history: notes of which the code loses sight

recorded == <<steps, made, edited>>
noticed == <<picked, errors, told>>
reading == <<fetch, cursor, queue>>
watching == <<shown, view, heard>>
asking == <<command, open>>
vars == <<recorded, state, noticed, reading, watching, asking, troubles, reopened, excused>>

NoBatch == [steps |-> <<>>, notes |-> {}, state |-> "stopped"]
NoCommand == [name |-> "none", state |-> "stopped"]

Init == /\ steps = <<1>> /\ made = 1
        /\ state = "recording"
        /\ picked = Nothing /\ errors = {} /\ told = 0
        /\ fetch = [r \in Readers |-> [at |-> "ready", since |-> 0, batch |-> NoBatch]]
        /\ cursor = [r \in Readers |-> 0]
        /\ queue = [r \in Readers |-> <<>>]
        /\ shown = [r \in Readers |-> <<>>]
        /\ view = [r \in Readers |-> "recording"]
        /\ command = [r \in Readers |-> NoCommand]
        /\ open \in [Readers -> BOOLEAN]
        /\ troubles \in 0..MaxTroubles
        /\ edited = FALSE /\ reopened = FALSE
        /\ heard = {} /\ excused = {}

\* Some answer has been copied and what it tells is about to be forgotten.
Forgetting == \E r \in Readers : fetch[r].at = "copied"

----------------------------------------------------------------------------
(* The session's pump and its controller.                                   *)

Record == /\ state = "recording" /\ made < MaxSteps
          /\ made' = made + 1
          /\ steps' = Append(steps, made + 1)
          /\ UNCHANGED <<state, noticed, reading, watching, asking, troubles, edited, reopened, excused>>

\* A gap is filled: its step goes where the gap was, before steps recorded since.
Repair(place) == /\ state # "stopped" /\ made < MaxSteps
                 /\ troubles < MaxTroubles
                 /\ troubles' = troubles + 1
                 /\ made' = made + 1
                 /\ steps' = InsertAt(steps, place, made + 1)
                 /\ edited' = TRUE
                 /\ UNCHANGED <<state, noticed, reading, watching, asking, reopened, excused>>

\* A control is picked: one that nobody was told of yet makes way for it.
Pick == /\ state # "stopped" /\ told < MaxNotes
        /\ told' = told + 1
        /\ picked' = told + 1
        /\ excused' = excused \cup ({picked} \ {Nothing})
                              \cup (IF Forgetting THEN {told + 1} ELSE {})
        /\ UNCHANGED <<recorded, state, errors, reading, watching, asking, troubles, reopened>>

Fail == /\ told < MaxNotes
        /\ told' = told + 1
        /\ errors' = errors \cup {told + 1}
        /\ excused' = excused \cup (IF Forgetting THEN {told + 1} ELSE {})
        /\ UNCHANGED <<recorded, state, picked, reading, watching, asking, troubles, reopened>>

----------------------------------------------------------------------------
(* One reading: ask, copy, forget, arrive.                                  *)

Ask(r) == /\ fetch[r].at = "ready" /\ open[r]
          /\ fetch' = [fetch EXCEPT ![r].at = "asked", ![r].since = cursor[r]]
          /\ UNCHANGED <<recorded, state, noticed, cursor, queue, watching, asking, troubles, reopened,
                         excused>>

\* Mutant: the steps alone are copied, and the rest is forgotten all the same.
CopyTheSteps(r) ==
  /\ fetch[r].at = "asked"
  /\ fetch' = [fetch EXCEPT ![r].at = "copied",
                            ![r].batch = [steps |-> SubSeq(steps, fetch[r].since + 1, Len(steps)),
                                          notes |-> {}, state |-> state]]
  /\ UNCHANGED <<recorded, state, noticed, cursor, queue, watching, asking, troubles, reopened, excused>>

\* With nothing to tell, the host looks again until the time allowed has passed.
Copy(r) ==
  /\ fetch[r].at = "asked"
  /\ fetch' = [fetch EXCEPT ![r].at = "copied",
                            ![r].batch = [steps |-> SubSeq(steps, fetch[r].since + 1, Len(steps)),
                                          notes |-> errors \cup ({picked} \ {Nothing}),
                                          state |-> state]]
  /\ UNCHANGED <<recorded, state, noticed, cursor, queue, watching, asking, troubles, reopened, excused>>

Forget(r) == /\ fetch[r].at = "copied"
             /\ picked' = Nothing
             /\ errors' = {}
             /\ fetch' = [fetch EXCEPT ![r].at = "answered"]
             /\ UNCHANGED <<recorded, state, told, cursor, queue, watching, asking, troubles, reopened,
                            excused>>

Rested(r) == [fetch EXCEPT ![r] = [at |-> "ready", since |-> 0, batch |-> NoBatch]]

\* Mutant: the cursor is moved when the answer is shown, not when it arrives.
ArriveUncounted(r) == /\ fetch[r].at = "answered" /\ Len(queue[r]) < QueueBound
                      /\ queue' = [queue EXCEPT ![r] = Append(@, fetch[r].batch)]
                      /\ cursor' = [cursor EXCEPT ![r] = Len(shown[r])]
                      /\ fetch' = Rested(r)
                      /\ UNCHANGED <<recorded, state, noticed, watching, asking, troubles, reopened, excused>>

\* Mutant: an answer without steps is not handed on.
ArriveWithSteps(r) ==
  /\ fetch[r].at = "answered" /\ Len(queue[r]) < QueueBound
  /\ queue' = IF fetch[r].batch.steps = <<>> THEN queue
              ELSE [queue EXCEPT ![r] = Append(@, fetch[r].batch)]
  /\ cursor' = [cursor EXCEPT ![r] = fetch[r].since + Len(fetch[r].batch.steps)]
  /\ fetch' = Rested(r)
  /\ UNCHANGED <<recorded, state, noticed, watching, asking, troubles, reopened, excused>>

Arrive(r) == /\ fetch[r].at = "answered" /\ Len(queue[r]) < QueueBound
             /\ queue' = [queue EXCEPT ![r] = Append(@, fetch[r].batch)]
             /\ cursor' = [cursor EXCEPT ![r] = fetch[r].since + Len(fetch[r].batch.steps)]
             /\ fetch' = Rested(r)
             /\ UNCHANGED <<recorded, state, noticed, watching, asking, troubles, reopened, excused>>

\* Mutant: the reader thread ends with the first answer that is lost.
LoseAndEnd == /\ fetch["remote"].at = "answered" /\ troubles < MaxTroubles
              /\ troubles' = troubles + 1
              /\ excused' = excused \cup fetch["remote"].batch.notes
              /\ fetch' = [Rested("remote") EXCEPT !["remote"].at = "ended"]
              /\ UNCHANGED <<recorded, state, noticed, cursor, queue, watching, asking, reopened>>

\* The answer to the other machine is lost; its reader asks again from where it was.
Lose == /\ fetch["remote"].at = "answered" /\ troubles < MaxTroubles
        /\ troubles' = troubles + 1
        /\ excused' = excused \cup fetch["remote"].batch.notes
        /\ fetch' = Rested("remote")
        /\ UNCHANGED <<recorded, state, noticed, cursor, queue, watching, asking, reopened>>

\* The browser's socket closes and is opened again: its new cursor is the
\* beginning, and the page keeps the list it has.
Reopen == /\ open["web"] /\ troubles < MaxTroubles
          /\ troubles' = troubles + 1
          /\ reopened' = TRUE
          /\ excused' = excused \cup fetch["web"].batch.notes
                                \cup UNION {queue["web"][i].notes : i \in 1..Len(queue["web"])}
          /\ fetch' = Rested("web")
          /\ queue' = [queue EXCEPT !["web"] = <<>>]
          /\ cursor' = [cursor EXCEPT !["web"] = 0]
          /\ UNCHANGED <<recorded, state, noticed, watching, asking>>

----------------------------------------------------------------------------
(* What is shown: poll and _apply on the panel, a message on the page.      *)

Shown(r, batches) ==
  /\ shown' = [shown EXCEPT ![r] = @ \o FlattenSeq([i \in 1..Len(batches) |-> batches[i].steps])]
  /\ heard' = heard \cup UNION {batches[i].notes : i \in 1..Len(batches)}
  /\ queue' = [queue EXCEPT ![r] = <<>>]

Show(r) == /\ open[r] /\ command[r] = NoCommand
           /\ queue[r] # <<>>
           /\ Shown(r, queue[r])
           /\ view' = [view EXCEPT ![r] = Last(queue[r]).state]
           /\ UNCHANGED <<recorded, state, noticed, fetch, cursor, asking, troubles, reopened, excused>>

----------------------------------------------------------------------------
(* Commands: done on the host under the session's lock, and answered.  The  *)
(* panel does nothing else while it waits, and neither does the page with   *)
(* the list it shows.                                                       *)

Give(r, name, result) == /\ troubles < MaxTroubles
                         /\ command[r] = NoCommand /\ open[r]
                         /\ troubles' = troubles + 1
                         /\ command' = [command EXCEPT ![r] = [name |-> name, state |-> result]]
                         /\ state' = result

Pause(r) == /\ state = "recording"
            /\ Give(r, "pause", "paused")
            /\ UNCHANGED <<recorded, noticed, reading, watching, open, reopened, excused>>

Resume(r) == /\ state = "paused"
             /\ Give(r, "resume", "recording")
             /\ UNCHANGED <<recorded, noticed, reading, watching, open, reopened, excused>>

\* stop brings what was still being typed or paired to an end: perhaps a step more.
Stop(r) == /\ state # "stopped"
           /\ Give(r, "stop", "stopped")
           /\ \/ UNCHANGED recorded
              \/ /\ made < MaxSteps
                 /\ made' = made + 1
                 /\ steps' = Append(steps, made + 1)
                 /\ UNCHANGED edited
           /\ UNCHANGED <<noticed, reading, watching, open, reopened, excused>>

\* The launch is never taken back, on the host or on the panel.
Undo(r) == /\ r = "remote" => Len(shown[r]) > 1
           /\ Give(r, "undo", state)
           /\ steps' = IF Len(steps) > 1 THEN Front(steps) ELSE steps
           /\ edited' = TRUE
           /\ UNCHANGED <<made, noticed, reading, watching, open, reopened, excused>>

Reply(r) == /\ command[r].name \in {"pause", "resume"}
            /\ command' = [command EXCEPT ![r] = NoCommand]
            /\ view' = [view EXCEPT ![r] = command[r].state]
            /\ UNCHANGED <<recorded, state, noticed, reading, shown, heard, open, troubles,
                           reopened, excused>>

\* The last step shown goes; the panel's cursor, which is its own, steps back.
UndoReply(r) == /\ command[r].name = "undo"
                /\ command' = [command EXCEPT ![r] = NoCommand]
                /\ view' = [view EXCEPT ![r] = command[r].state]
                /\ shown' = [shown EXCEPT ![r] = IF Len(@) > 1 THEN Front(@) ELSE @]
                /\ cursor' = IF r = "web" THEN cursor
                             ELSE [cursor EXCEPT ![r] = IF @ > 0 THEN @ - 1 ELSE 0]
                /\ UNCHANGED <<recorded, state, noticed, fetch, queue, heard, open, troubles,
                               reopened, excused>>

\* The page goes on listening to a session that has stopped.  The panel shows
\* what has arrived, tells its reader to end, waits for it, and polls no more.
StopReply(r) ==
  /\ command[r].name = "stop"
  /\ command' = [command EXCEPT ![r] = NoCommand]
  /\ view' = [view EXCEPT ![r] = "stopped"]
  /\ IF r = "web" THEN UNCHANGED <<shown, heard, queue, open>>
     ELSE Shown(r, queue[r]) /\ open' = [open EXCEPT ![r] = FALSE]
  /\ UNCHANGED <<recorded, state, noticed, fetch, cursor, troubles, reopened, excused>>

----------------------------------------------------------------------------
ReaderNext(r) == \/ Ask(r) \/ Copy(r) \/ Forget(r) \/ Arrive(r) \/ Show(r)
                 \/ Reply(r) \/ UndoReply(r) \/ StopReply(r)

Next == \/ Record \/ Pick \/ Fail \/ Lose \/ Reopen
        \/ \E place \in 2..Len(steps) : Repair(place)
        \/ \E r \in Readers : Pause(r) \/ Resume(r) \/ Stop(r) \/ Undo(r) \/ ReaderNext(r)

\* The reader's thread, the panel's timer and the browser go on; the operator
\* and the application need not.
Fairness == \A r \in Readers : /\ WF_vars(Ask(r) \/ Copy(r) \/ Forget(r) \/ Arrive(r))
                               /\ WF_vars(Show(r))
                               /\ WF_vars(Reply(r) \/ UndoReply(r) \/ StopReply(r))

Spec == Init /\ [][Next]_vars /\ Fairness
----------------------------------------------------------------------------
OnTheWay(r) == FlattenSeq([i \in 1..Len(queue[r]) |-> queue[r][i].steps])
Received(r) == shown[r] \o OnTheWay(r)

Batch == [steps : Seq(1..MaxSteps), notes : SUBSET Notes, state : States]
Places == {"ready", "asked", "copied", "answered"}
Command == [name : {"none", "pause", "resume", "stop", "undo"}, state : States]

\* Type correctness.
TypeOK == /\ steps \in Seq(1..MaxSteps) /\ made \in 1..MaxSteps
          /\ state \in States
          /\ picked \in {Nothing} \cup Notes /\ errors \subseteq Notes /\ told \in 0..MaxNotes
          /\ fetch \in [Readers -> [at : Places, since : Nat, batch : Batch]]
          /\ cursor \in [Readers -> Nat]
          /\ queue \in [Readers -> Seq(Batch)]
          /\ shown \in [Readers -> Seq(1..MaxSteps)]
          /\ view \in [Readers -> States]
          /\ command \in [Readers -> Command]
          /\ open \in [Readers -> BOOLEAN]
          /\ troubles \in 0..MaxTroubles
          /\ edited \in BOOLEAN /\ reopened \in BOOLEAN
          /\ heard \subseteq Notes /\ excused \subseteq Notes

\* As long as no step is taken back or put before another, each reader has got a
\* beginning of the host's steps, once each and in order, and its cursor is
\* where the next one goes (server.py:247-248, remote.py:199-215): however the
\* pump, the other reader, lost answers and a slow panel come between.  The
\* page is excepted once its socket was closed (App.jsx:265 appends the whole
\* list again).
CopiesFollow ==
  \A r \in Readers : ~edited /\ (r = "web" => ~reopened) =>
    /\ IsPrefix(Received(r), steps)
    /\ cursor[r] = Len(Received(r))
    /\ fetch[r].at \in {"copied", "answered"} => IsPrefix(Received(r) \o fetch[r].batch.steps, steps)

\* A picked control or an error is on the host, on the way to some reader, or
\* was shown, unless it came between the two critical sections of events, made
\* way for a newer pick, or went with a lost answer (server.py:230-242).
NotesAreHeard ==
  \A n \in 1..told : \/ n = picked \/ n \in errors \/ n \in heard \/ n \in excused
                     \/ \E r \in Readers : \/ n \in fetch[r].batch.notes
                                           \/ \E i \in 1..Len(queue[r]) : n \in queue[r][i].notes

\* A reader that goes on asking shows every step in the end, whatever is lost on
\* the way, as long as the steps only grow (remote.py:199-215).  They are bounded
\* here, so that it catches up again and again.
StepsArrive ==
  \A r \in Readers : []<>(Len(shown[r]) >= Len(steps) \/ edited \/ ~open[r])

\* An old answer may show a state the session has left (remote.py:257), but not
\* for good: a reader that goes on asking shows the host's state in the end.
StateIsShown == \A r \in Readers : []<>(view[r] = state \/ ~open[r])
=============================================================================
