----------------------------- MODULE MediaQueue -----------------------------
(****************************************************************************)
(* The stills of one session: qat_recorder/media.py, class SessionMedia,    *)
(* with the end of ui/controller.py stop(), which waits for them.           *)
(*                                                                          *)
(* Two threads.  The caller runs under the session's lock, so there is one  *)
(* at a time: the pump asking for a picture of each new step or gap, an     *)
(* HTTP thread taking one now, or stop() waiting for the queue.  The worker *)
(* is started when there is something to do and leaves when there is not.   *)
(* What either does inside one `with self._lock` is one action; between two *)
(* such blocks the other thread may run.                                    *)
(*                                                                          *)
(* A name is the number of the request it was made for: the code's names    *)
(* carry the step's or the gap's index, which never goes back.              *)
(****************************************************************************)
EXTENDS Naturals, Sequences, FiniteSets

CONSTANTS QueueDepth,  \* QUEUE_DEPTH
          MaxStills,   \* MAX_STILLS
          MaxAsks      \* bound: how many pictures are asked for

ASSUME MediaAssumption == /\ QueueDepth \in Nat \ {0}
                          /\ MaxStills \in Nat
                          /\ MaxAsks \in Nat

VARIABLES
  asks,      \* how many pictures have been asked for
  caller,    \* "free", "allowed" (past the check on MAX_STILLS), "settling",
             \* "settled" (the queue was empty), "gave_up", "stopped"
  shots,     \* self._shots
  pending,   \* self._pending
  queued,    \* self._queued
  worker,    \* self._worker is not None
  hand,      \* the worker's local `shot`: <<>> or the one name being taken
  tried,     \* the worker is past the grab and about to count the name off
  files,     \* the names whose picture is on disk
  accepted,  \* the names handed out, in order: the `shot` of steps and gaps
  served,    \* the names the worker is through with, in order
  kept       \* the names the recording still carries

vars == <<asks, caller, shots, pending, queued, worker, hand, tried, files,
          accepted, served, kept>>

callerVars == <<asks, caller, shots, accepted, kept>>
workerVars == <<hand, tried, files, served>>

Requests == 1..MaxAsks

Init == /\ asks = 0
        /\ caller = "free"
        /\ shots = 0
        /\ pending = <<>>
        /\ queued = 0
        /\ worker = FALSE
        /\ hand = <<>>
        /\ tried = FALSE
        /\ files = {}
        /\ accepted = <<>>
        /\ served = <<>>
        /\ kept = {}

-----------------------------------------------------------------------------
(* The caller.                                                              *)

\* _enqueue before the lock: past MAX_STILLS the answer is "" and a note.
Ask == /\ caller = "free"
       /\ asks < MaxAsks
       /\ asks' = asks + 1
       /\ caller' = IF shots >= MaxStills THEN "free" ELSE "allowed"
       /\ UNCHANGED <<shots, pending, queued, worker, accepted, kept, workerVars>>

\* _enqueue inside the lock, the queue full: the shot is skipped.
Skip == /\ caller = "allowed"
        /\ queued >= QueueDepth
        /\ caller' = "free"
        /\ UNCHANGED <<asks, shots, pending, queued, worker, accepted, kept, workerVars>>

\* What _enqueue does to the queue inside the lock.
QueueName(started) == /\ pending' = Append(pending, asks)
                      /\ queued' = queued + 1
                      /\ shots' = shots + 1
                      /\ worker' = started
                      /\ accepted' = Append(accepted, asks)
                      /\ kept' = kept \cup {asks}
                      /\ caller' = "free"
                      /\ UNCHANGED <<asks, workerVars>>

\* Mutants: the depth compared with the names still waiting; a worker started
\* for the first name only.
EnqueuePastDepth == caller = "allowed" /\ Len(pending) < QueueDepth /\ QueueName(TRUE)
EnqueueStartsOnce == caller = "allowed" /\ queued < QueueDepth /\ QueueName(worker \/ shots = 0)

\* _enqueue inside the lock: the name is queued before a worker is started.
Enqueue == /\ caller = "allowed"
           /\ queued < QueueDepth
           /\ QueueName(TRUE)

\* take: a picture the operator asked for, taken here and now, past any queue.
TakeNow == /\ caller = "free"
           /\ asks < MaxAsks
           /\ asks' = asks + 1
           /\ shots' = shots + 1
           /\ UNCHANGED <<caller, pending, queued, worker, accepted, kept, workerVars>>

\* stop() reaches settle(): no further picture is asked for.
BeginSettle == /\ caller = "free"
               /\ caller' = "settling"
               /\ UNCHANGED <<asks, shots, pending, queued, worker, accepted, kept, workerVars>>

\* settle sees nothing queued.
Settled == /\ caller = "settling"
           /\ queued <= 0
           /\ caller' = "settled"
           /\ UNCHANGED <<asks, shots, pending, queued, worker, accepted, kept, workerVars>>

\* settle runs out of time.
GiveUp == /\ caller = "settling"
          /\ caller' = "gave_up"
          /\ UNCHANGED <<asks, shots, pending, queued, worker, accepted, kept, workerVars>>

\* _forget_missing_stills: a name without a file is taken off the recording.
ForgetMissing == /\ caller \in {"settled", "gave_up"}
                 /\ kept' = kept \cap files
                 /\ caller' = "stopped"
                 /\ UNCHANGED <<asks, shots, pending, queued, worker, accepted, workerVars>>

Caller == \/ Ask
          \/ Skip
          \/ Enqueue
          \/ TakeNow
          \/ BeginSettle
          \/ Settled
          \/ GiveUp
          \/ ForgetMissing

-----------------------------------------------------------------------------
(* The worker, _run_queue.                                                  *)

\* Nothing to do: it says it is leaving inside the lock that queues work.
Leave == /\ worker
         /\ hand = <<>>
         /\ pending = <<>>
         /\ worker' = FALSE
         /\ UNCHANGED <<pending, queued, workerVars, callerVars>>

\* Take a name out of the queue; `counted` of them stay counted.
TakeOut(name, rest, counted) == /\ worker
                                /\ hand = <<>>
                                /\ pending # <<>>
                                /\ hand' = <<name>>
                                /\ pending' = rest
                                /\ queued' = counted
                                /\ tried' = FALSE
                                /\ UNCHANGED <<worker, files, served, callerVars>>

\* Mutants: the newest name first; the name counted off before it is taken.
PopRight == TakeOut(pending[Len(pending)], SubSeq(pending, 1, Len(pending) - 1), queued)
PopCountedOff == TakeOut(Head(pending), Tail(pending), queued - 1)

PopLeft == TakeOut(Head(pending), Tail(pending), queued)

\* The grab writes the file, or no way of photographing the screen worked.
Grab(worked) == /\ hand # <<>>
                /\ ~tried
                /\ tried' = TRUE
                /\ files' = IF worked THEN files \cup {hand[1]} ELSE files
                /\ UNCHANGED <<hand, served, pending, queued, worker, callerVars>>

\* Either way the name is counted off, in the `finally`.
CountOff == /\ hand # <<>>
            /\ tried
            /\ served' = Append(served, hand[1])
            /\ hand' = <<>>
            /\ queued' = queued - 1
            /\ UNCHANGED <<tried, files, pending, worker, callerVars>>

Worker == \/ Leave
          \/ PopLeft
          \/ \E worked \in BOOLEAN : Grab(worked)
          \/ CountOff

Next == Caller \/ Worker

\* The worker is an ordinary thread and is scheduled; settle's loop comes to
\* its deadline.  Nobody has to ask for anything.
Fairness == /\ WF_vars(Worker)
            /\ WF_vars(Settled \/ GiveUp)
            /\ WF_vars(ForgetMissing)

Spec == Init /\ [][Next]_vars /\ Fairness

-----------------------------------------------------------------------------
TypeOK == /\ asks \in 0..MaxAsks
          /\ caller \in {"free", "allowed", "settling", "settled", "gave_up", "stopped"}
          /\ shots \in 0..MaxAsks
          /\ pending \in Seq(Requests)
          /\ queued \in 0..QueueDepth
          /\ worker \in BOOLEAN
          /\ hand \in Seq(Requests) /\ Len(hand) <= 1
          /\ tried \in BOOLEAN
          /\ files \subseteq Requests
          /\ accepted \in Seq(Requests)
          /\ served \in Seq(Requests)
          /\ kept \subseteq Requests

\* A name that waits always has a running worker to take it: there is no window
\* in which the caller relies on a worker that is on its way out
\* (media.py:334-343 and 349-355).
NobodyLeftBehind == pending # <<>> \/ hand # <<>> => worker

\* The count the depth is checked against is what is waiting and what is being
\* taken, whatever became of each grab (media.py:332, 339 and 364-366).
QueueCounts == queued = Len(pending) + Len(hand)

\* Every name handed out is served, in hand or waiting, once and in order.
LineInOrder == accepted = served \o hand \o pending

\* The handshake between the caller and the worker that the rest relies on.
Handshake == NobodyLeftBehind /\ QueueCounts /\ LineInOrder

\* Once settle has seen an empty queue no picture arrives any more, so
\* stop() takes no name off the recording whose picture was still to come
\* (media.py:368-375, controller.py:261-264).
NoLateStill == [][caller = "settled" => files' = files]_vars

\* What the caller is promised: names are served in order, and all of them.
Line == INSTANCE StillLine WITH Names <- Requests, Room <- QueueDepth

\* The two threads implement that promise.
KeepsTheLine == Line!Spec
=============================================================================
