----------------------------- MODULE EventStream -----------------------------
(****************************************************************************)
(* From the filter in the application to the recorder: the queue and the    *)
(* writer thread of native/qatrec.cpp, one connection, and the receiver     *)
(* thread and queue of EventReceiver (qat_recorder/events.py), from which   *)
(* the recorder takes what has come.                                        *)
(*                                                                          *)
(* The bytes of a line arrive in two parts, the second of which holds its   *)
(* end: the receiver may get one without the other.                         *)
(****************************************************************************)
EXTENDS EventFilter, SequencesExt

CONSTANTS MaxQueue,    \* kMaxQueue
          MaxAttempts  \* how often the writer tries to connect

ASSUME StreamAssumption == /\ MaxActs \in Nat
                           /\ MaxQueue \in Nat \ {0} /\ MaxAttempts \in Nat \ {0}

VARIABLES queue,     \* g_queue
          running,   \* g_running
          writer,    \* the writer thread: [at, attempts, line]
          wire,      \* parts of lines sent and not read
          server,    \* the receiver's thread: "listening", "serving", "elsewhere", "ended"
          buffer,    \* parts read that do not make a line yet
          inbox,     \* EventReceiver.queue
          recorder,  \* "recording", "polled" for the last time, "stopped"
          got,       \* history: lines the recorder took
          said       \* history: lines given to the queue

stream == <<queue, writer, wire, server, buffer, inbox>>
vars == <<filter, stream, running, recorder, got, said>>

Init == /\ FilterInit
        /\ queue = <<>> /\ said = <<>>
        /\ running = TRUE
        /\ writer = [at |-> "connecting", attempts |-> 0, line |-> Hello]
        /\ wire = <<>> /\ buffer = <<>> /\ inbox = <<>>
        /\ server = "listening"
        /\ recorder = "recording"
        /\ got = <<>>

Alive == writer.at # "dead"

----------------------------------------------------------------------------
(* The application's own thread.                                            *)

Handle == /\ Alive
          /\ Handles
          /\ UNCHANGED <<stream, running, recorder, got, said>>

Enqueue == /\ Alive /\ toSay # <<>>
           /\ queue' = IF Len(queue) >= MaxQueue THEN queue ELSE Append(queue, Head(toSay))
           /\ said' = Append(said, Head(toSay))
           /\ toSay' = Tail(toSay)
           /\ UNCHANGED <<acts, codes, pending, recent, held, timer, dispatching, running, writer, wire,
                          server, buffer, inbox, recorder, got>>

\* aboutToQuit.
Quit == /\ Alive /\ running
        /\ running' = FALSE
        /\ UNCHANGED <<filter, stream, recorder, got, said>>

\* The process ends, by itself after aboutToQuit or not: its threads with it.
Die == /\ Alive
       /\ writer' = [writer EXCEPT !.at = "dead"]
       /\ UNCHANGED <<filter, queue, running, wire, server, buffer, inbox, recorder, got, said>>

----------------------------------------------------------------------------
(* The writer thread.                                                       *)

Reachable == server # "ended"
Written(writing) == /\ writer' = writing
                    /\ UNCHANGED <<filter, running, server, buffer, inbox, recorder, got, said>>

Connect == /\ writer.at = "connecting" /\ running /\ writer.attempts < MaxAttempts
           /\ Reachable
           /\ Written([writer EXCEPT !.at = "waiting"])
           /\ UNCHANGED <<queue, wire>>

ConnectFails == /\ writer.at = "connecting" /\ running /\ writer.attempts < MaxAttempts
                /\ Written([writer EXCEPT !.attempts = @ + 1])
                /\ UNCHANGED <<queue, wire>>

GiveUp == /\ writer.at = "connecting"
          /\ ~running \/ writer.attempts = MaxAttempts
          /\ Written([writer EXCEPT !.at = "ended"])
          /\ UNCHANGED <<queue, wire>>

Take == /\ writer.at = "waiting" /\ running /\ queue # <<>>
        /\ queue' = Tail(queue)
        /\ Written([writer EXCEPT !.at = "sending", !.line = Head(queue)])
        /\ UNCHANGED wire

\* send may take all of what is left of a line, or part of it.
Send == /\ writer.at \in {"sending", "sending on"} /\ Reachable
        /\ \/ /\ writer.at = "sending"
              /\ wire' = Append(wire, [line |-> writer.line, last |-> FALSE])
              /\ Written([writer EXCEPT !.at = "sending on"])
           \/ /\ wire' = (IF writer.at = "sending on" THEN wire
                          ELSE Append(wire, [line |-> writer.line, last |-> FALSE]))
                         \o <<[line |-> writer.line, last |-> TRUE]>>
              /\ Written([writer EXCEPT !.at = "waiting"])
        /\ UNCHANGED queue

SendFails == /\ writer.at \in {"sending", "sending on"} /\ ~Reachable
             /\ Written([writer EXCEPT !.at = "ended"])
             /\ UNCHANGED <<queue, wire>>

\* The loop ends with lines still in the queue.
Leave == /\ writer.at = "waiting" /\ ~running
         /\ Written([writer EXCEPT !.at = "ended"])
         /\ UNCHANGED <<queue, wire>>

WriterNext == Connect \/ ConnectFails \/ GiveUp \/ Take \/ Send \/ SendFails \/ Leave

----------------------------------------------------------------------------
(* The receiver's thread: one connection in its life.                       *)

Connected == writer.at \notin {"connecting", "dead"}
Receives == UNCHANGED <<filter, queue, running, writer, recorder, got, said>>

Accept == /\ server = "listening" /\ recorder # "stopped"
          /\ Connected \/ wire # <<>>
          /\ server' = "serving"
          /\ UNCHANGED <<wire, buffer, inbox>> /\ Receives

\* Another process of the application that uses Qt was there first.
AcceptAnother == /\ server = "listening" /\ writer.at = "connecting"
                 /\ server' = "elsewhere"
                 /\ UNCHANGED <<wire, buffer, inbox>> /\ Receives

Complete(parts) == FlattenSeq([i \in 1..Len(parts) |-> IF parts[i].last THEN <<parts[i].line>> ELSE <<>>])

\* Mutant: what is left of the last read is dropped before the next.
ReceiveAnew == /\ server = "serving" /\ recorder # "stopped"
               /\ \E n \in 1..Len(wire) :
                    LET read == SubSeq(wire, 1, n) IN
                    /\ inbox' = inbox \o IF Head(read).last THEN Complete(Tail(read)) ELSE Complete(read)
                    /\ buffer' = <<>>
                    /\ wire' = SubSeq(wire, n + 1, Len(wire))
               /\ UNCHANGED server /\ Receives

Receive == /\ server = "serving" /\ recorder # "stopped"
           /\ \E n \in 1..Len(wire) :
                LET read == buffer \o SubSeq(wire, 1, n) IN
                /\ inbox' = inbox \o Complete(read)
                /\ buffer' = IF Last(read).last THEN <<>> ELSE <<Last(read)>>
                /\ wire' = SubSeq(wire, n + 1, Len(wire))
           /\ UNCHANGED server /\ Receives

\* The connection was closed at the other end, or stop was called.
Finish == /\ \/ server = "serving" /\ wire = <<>> /\ writer.at \in {"ended", "dead"}
             \/ server # "ended" /\ recorder = "stopped"
          /\ server' = "ended"
          /\ UNCHANGED <<wire, buffer, inbox>> /\ Receives

ReceiverNext == Accept \/ Receive \/ Finish

----------------------------------------------------------------------------
(* The recorder: it polls, polls once more when it stops, and then stops    *)
(* the receiver.                                                            *)

Drain == /\ recorder = "recording" /\ inbox # <<>>
         /\ got' = got \o inbox
         /\ inbox' = <<>>
         /\ UNCHANGED <<filter, queue, running, writer, wire, server, buffer, recorder, said>>

LastPoll == /\ recorder = "recording"
            /\ recorder' = "polled"
            /\ got' = got \o inbox
            /\ inbox' = <<>>
            /\ UNCHANGED <<filter, queue, running, writer, wire, server, buffer, said>>

StopReceiver == /\ recorder = "polled"
                /\ recorder' = "stopped"
                /\ UNCHANGED <<filter, stream, running, got, said>>

----------------------------------------------------------------------------
Next == \/ Handle \/ Enqueue \/ Quit \/ Die
        \/ WriterNext \/ ReceiverNext \/ AcceptAnother
        \/ Drain \/ LastPoll \/ StopReceiver

\* The window is through with an event, and the event loop comes round.
LoopTurns == /\ Alive
             /\ ZeroTimer \/ Delivered
             /\ UNCHANGED <<stream, running, recorder, got, said>>

\* The application's event loop runs, its writer is scheduled, the receiver's
\* thread reads and the recorder polls on a timer.  Nobody has to do anything.
Fairness == /\ WF_vars(Enqueue) /\ WF_vars(LoopTurns)
            /\ WF_vars(WriterNext) /\ WF_vars(ReceiverNext)
            /\ WF_vars(Drain) /\ WF_vars(StopReceiver)

Spec == Init /\ [][Next]_vars /\ Fairness
----------------------------------------------------------------------------
Part == [line : Lines, last : BOOLEAN]

\* Type correctness.
TypeOK == /\ FilterTypes
          /\ queue \in Seq(Lines) /\ Len(queue) <= MaxQueue
          /\ running \in BOOLEAN
          /\ writer \in [at : {"connecting", "waiting", "sending", "sending on", "ended", "dead"},
                         attempts : 0..MaxAttempts, line : Lines]
          /\ wire \in Seq(Part) /\ buffer \in Seq(Part) /\ Len(buffer) <= 1
          /\ server \in {"listening", "serving", "elsewhere", "ended"}
          /\ inbox \in Seq(Lines) /\ got \in Seq(Lines) /\ said \in Seq(Lines)
          /\ recorder \in {"recording", "polled", "stopped"}

\* What the person did is reported in the order it was done, once each
\* (qatrec.cpp:551, "anything held comes first").  A shortcut is excepted: it
\* does not send what is held (qatrec.cpp:506-524).
ReportedInOrder ==
  \A i, j \in 1..Len(said) :
    i < j /\ said[i].by = "person" /\ said[j].by = "person" => said[i].act < said[j].act

\* A press handed on to an item is reported in the end, even when nothing else
\* happens (qatrec.cpp:622-623), as long as the application lives; code that sends
\* the same kind of event within the moment may be reported in its place.
HeldIsReported ==
  \A n \in 1..MaxActs :
    (held = [act |-> n, by |-> "person"]) ~>
      (~Alive \/ held.by = "code" \/ [act |-> n, by |-> "person"] \in ToSet(said))

\* The feed is cut when the application quits, dies, fails to connect or talks
\* to nobody, and when the recorder stops.
Open == /\ running /\ writer.at \notin {"ended", "dead"}
        /\ writer.at = "connecting" => server = "listening" /\ writer.attempts < MaxAttempts
        /\ server \in {"listening", "serving"}
        /\ recorder # "stopped"

\* What will still arrive, if nothing goes wrong.
InHand == IF writer.at \in {"sending", "sending on"} THEN <<writer.line>> ELSE <<>>
OnTheWay == IF server \in {"ended", "elsewhere"} THEN <<>> ELSE Complete(buffer \o wire) \o InHand
Queued == IF Open THEN queue ELSE <<>>
Waiting == IF recorder = "stopped" THEN <<>> ELSE inbox \o OnTheWay \o Queued

Feed == INSTANCE LineFeed WITH Lines <- Lines, Room <- MaxQueue, said <- said, waiting <- Waiting,
                               got <- got, open <- Open

\* The recorder hears the lines in order, none twice and none it was not told;
\* only a full queue or the end of the feed loses any, the end the last ones;
\* and what was not lost is heard (qatrec.cpp:73-84 and 652-689,
\* events.py:218-262).
ImplementsLineFeed == Feed!Spec
=============================================================================
