----------------------------- MODULE AgentHost -----------------------------
(****************************************************************************)
(* The agent that lends one machine to several testers                      *)
(* (qat_recorder/agent/server.py, Agent and Session).  Every HTTP request   *)
(* is served by a thread of its own.  Two kinds of lock: the agent's        *)
(* protects which session is current and is held while an application is    *)
(* started; a session's protects its controller and its files, and is held  *)
(* by a replay until the replayed test ends.  One pump thread per session   *)
(* polls the controller.                                                    *)
(*                                                                          *)
(* What is recorded is a count of changes, and a script is the count it was *)
(* generated at, or Typed when the tester saved one of their own.  The      *)
(* machine's library of kept tests (library.py) is written here too: all    *)
(* tests are kept under one name, the directories name, name-2, ... are     *)
(* numbered.  A recording is coherent or not (Recording.validate), and      *)
(* nothing can be generated from one that is not; any change may make it    *)
(* so, or mend it.                                                          *)
(****************************************************************************)
EXTENDS Naturals, FiniteSets

CONSTANTS Callers,      \* threads that serve requests
          Nobody,       \* the holder of a free lock
          MaxSessions,  \* bound: sessions started
          MaxChanges,   \* bound: changes of one recording
          MaxRequests,  \* bound: requests in all
          MaxTests,     \* bound: directories in the library
          MaxFaults     \* bound: releases whose stop raises

ASSUME HostAssumption == /\ Nobody \notin Callers
                         /\ MaxSessions \in Nat /\ MaxChanges \in Nat
                         /\ MaxRequests \in Nat /\ MaxTests \in Nat
                         /\ MaxFaults \in Nat

Sessions == 1..MaxSessions
Tests == 1..MaxTests
None == 0                   \* no session, or a session not yet started
Typed == MaxChanges + 1     \* the text of a script the tester saved
Missing == MaxChanges + 2   \* the file is not there
Texts == 0..MaxChanges + 2
States == {"idle", "recording", "stopped"}

VARIABLES current,   \* Agent.session
          started,   \* how many sessions have been started
          agentLock, \* Agent.lock
          lock,      \* Session.lock of each session
          state,     \* the state of each session's controller
          pump,      \* the pump thread of each session: "none", "running", "gone"
          stopping,  \* Session._stop of each session
          changes,   \* what each session has recorded so far
          coherent,  \* whether that is coherent
          typed,     \* whether a session has a script of the tester's own, Session.script
          file,      \* test_recorded.py in each session's directory
          library,   \* the directories of the library, [made, text, proved]
          request,   \* what each caller is doing, [at, of, test]
          asked,     \* how many requests have been made
          forgotten, \* history: sessions a release took off the host that were not its own
          unstopped  \* history: sessions whose release could not stop them

vars == <<current, started, agentLock, lock, state, pump, stopping, changes, coherent, typed, file,
          library, request, asked, forgotten, unstopped>>

files == <<changes, coherent, typed, file>>
history == <<forgotten, unstopped>>
hosting == <<current, started, agentLock, history>>

\* Where a request can be: waiting for the next lock, or at work inside it.
Starting == {"join", "launch"}
Waiting == {"stop", "change", "script", "artifacts", "replay", "keep", "release"}
Holding == {"regenerate", "replaying", "reserve", "make", "write", "verify"}
Leaving == {"shutdown", "forget"}
Places == {"idle", "testing"} \cup Starting \cup Waiting \cup Holding \cup Leaving

Request == [at : Places, of : {None} \cup Sessions, test : {0} \cup Tests]
Idle == [at |-> "idle", of |-> None, test |-> 0]

Init == /\ current = None
        /\ started = 0
        /\ agentLock = Nobody
        /\ lock = [s \in Sessions |-> Nobody]
        /\ state = [s \in Sessions |-> "idle"]
        /\ pump = [s \in Sessions |-> "none"]
        /\ stopping = [s \in Sessions |-> FALSE]
        /\ changes = [s \in Sessions |-> 0]
        /\ coherent = [s \in Sessions |-> TRUE]
        /\ typed = [s \in Sessions |-> FALSE]
        /\ file = [s \in Sessions |-> Missing]
        /\ library = [t \in Tests |-> [made |-> FALSE, text |-> Missing, proved |-> FALSE]]
        /\ request = [c \in Callers |-> Idle]
        /\ asked = 0
        /\ forgotten = {}
        /\ unstopped = {}

\* The script of a session: what the tester saved, else the recording as it is.
Script(s) == IF typed[s] THEN Typed ELSE changes[s]

Busy == current # None /\ state[current] = "recording"

Asks(c) == request[c] = Idle /\ asked < MaxRequests /\ asked' = asked + 1

Moved(c, place) == request' = [request EXCEPT ![c].at = place]
Goes(c, place) == Moved(c, place) /\ UNCHANGED asked

Answered(c) == request' = [request EXCEPT ![c] = Idle] /\ UNCHANGED asked
AnsweredUnlocked(c) == Answered(c) /\ lock' = [lock EXCEPT ![request[c].of] = Nobody]

----------------------------------------------------------------------------
(* start_session: all of it under the agent's lock.  A host whose session   *)
(* has stopped is free to be claimed; that session is shut down first, and  *)
(* its pump is waited for, but no longer than three seconds.                *)

\* Mutant: a host is claimed whatever its session is doing.
ClaimBusy(c) == /\ Asks(c) /\ started < MaxSessions
                /\ agentLock = Nobody
                /\ agentLock' = c
                /\ Moved(c, "join")
                /\ stopping' = [s \in Sessions |-> stopping[s] \/ s = current]
                /\ UNCHANGED <<current, started, lock, state, pump, files, library, history>>

\* Mutant: the session that makes way is not shut down.
ClaimOnly(c) == /\ Asks(c) /\ started < MaxSessions
                /\ agentLock = Nobody
                /\ ~Busy
                /\ agentLock' = c
                /\ Moved(c, "join")
                /\ UNCHANGED <<current, started, lock, state, pump, stopping, files, library, history>>

Claim(c) == /\ Asks(c) /\ started < MaxSessions
            /\ agentLock = Nobody
            /\ ~Busy
            /\ agentLock' = c
            /\ Moved(c, "join")
            /\ stopping' = [s \in Sessions |-> stopping[s] \/ s = current]
            /\ UNCHANGED <<current, started, lock, state, pump, files, library, history>>

\* Mutant: the pump is waited for without a limit.
DisplaceWhenJoined(c) == /\ request[c].at = "join"
                         /\ current # None => pump[current] = "gone"
                         /\ current' = None
                         /\ Goes(c, "launch")
                         /\ UNCHANGED <<started, agentLock, lock, state, pump, stopping, files, library,
                                        history>>

\* The join returns: the pump has ended, or the three seconds have passed.
Displace(c) == /\ request[c].at = "join"
               /\ current' = None
               /\ Goes(c, "launch")
               /\ UNCHANGED <<started, agentLock, lock, state, pump, stopping, files, library, history>>

\* controller.start() works and the session becomes the host's ...
Launch(c) == /\ request[c].at = "launch"
             /\ started' = started + 1
             /\ current' = started + 1
             /\ state' = [state EXCEPT ![started + 1] = "recording"]
             /\ pump' = [pump EXCEPT ![started + 1] = "running"]
             /\ agentLock' = Nobody
             /\ Answered(c)
             /\ UNCHANGED <<lock, stopping, files, library, history>>

\* ... or it raises, and the host has no session at all.
LaunchFails(c) == /\ request[c].at = "launch"
                  /\ agentLock' = Nobody
                  /\ Answered(c)
                  /\ UNCHANGED <<current, started, lock, state, pump, stopping, files, library, history>>

----------------------------------------------------------------------------
(* The other requests look the session up first (_require), let the agent's *)
(* lock go, and only then wait for the session's.                           *)

Free == {t \in Tests : ~library[t].made}

\* Bound: the library has room for every test that is being kept.
HasRoom == Cardinality({c \in Callers : request[c].at \in {"keep", "reserve", "make"}})
             < Cardinality(Free)

Require(c) == /\ Asks(c)
              /\ agentLock = Nobody
              /\ current # None
              /\ \E place \in Waiting :
                   /\ place = "keep" => HasRoom
                   /\ request' = [request EXCEPT ![c] = [at |-> place, of |-> current, test |-> 0]]
              /\ UNCHANGED <<hosting, lock, state, pump, stopping, files, library>>

\* A caller enters the critical section of its session.
Enters(c, place) == request[c].at = place /\ lock[request[c].of] = Nobody

\* Whatever changes a recording decides anew whether it is coherent.
Recorded(s) == /\ changes[s] < MaxChanges
               /\ changes' = [changes EXCEPT ![s] = @ + 1]
               /\ \E fine \in BOOLEAN : coherent' = [coherent EXCEPT ![s] = fine]

\* A command that changes the recording: a checkpoint, a repair, an undo.
Change(c) == /\ Enters(c, "change")
             /\ Recorded(request[c].of)
             /\ Answered(c)
             /\ UNCHANGED <<hosting, lock, state, pump, stopping, typed, file, library>>

\* A request that is refused, 409: a command the controller raises at, a stop
\* included, which then has not stopped; anything to be generated from a
\* recording that is not coherent; a replay while recording.
Refused(c) == LET s == request[c].of IN
              /\ \/ Enters(c, "change")
                 \/ Enters(c, "stop")
                 \/ \E place \in {"artifacts", "script", "keep"} : Enters(c, place) /\ ~coherent[s]
                 \/ Enters(c, "replay") /\ state[s] = "recording"
              /\ Answered(c)
              /\ UNCHANGED <<hosting, lock, state, pump, stopping, files, library>>

Stop(c) == LET s == request[c].of IN
           /\ Enters(c, "stop")
           /\ state' = [state EXCEPT ![s] = "stopped"]
           /\ Answered(c)
           /\ UNCHANGED <<hosting, lock, pump, stopping, files, library>>

\* artifacts() writes the session's files; with a script of the tester's, that
\* is remembered as well.
Artifacts(c) == LET s == request[c].of IN
                /\ Enters(c, "artifacts")
                /\ coherent[s]
                /\ file' = [file EXCEPT ![s] = Script(s)]
                /\ Answered(c)
                /\ UNCHANGED <<hosting, lock, state, pump, stopping, changes, coherent, typed, library>>

SaveScript(c) == LET s == request[c].of IN
                 /\ Enters(c, "script")
                 /\ coherent[s]
                 /\ typed' = [typed EXCEPT ![s] = TRUE]
                 /\ file' = [file EXCEPT ![s] = Typed]
                 /\ Answered(c)
                 /\ UNCHANGED <<hosting, lock, state, pump, stopping, changes, coherent, library>>

----------------------------------------------------------------------------
(* replay: under the session's lock until the replayed test has ended.  The *)
(* script is generated again unless it is the tester's own.                 *)

BeginReplay(c) == LET s == request[c].of IN
                  /\ Enters(c, "replay") /\ state[s] # "recording"
                  /\ ~typed[s] \/ file[s] = Missing
                  /\ lock' = [lock EXCEPT ![s] = c]
                  /\ Goes(c, "regenerate")
                  /\ UNCHANGED <<hosting, state, pump, stopping, files, library>>

\* Mutant: what is on disk is replayed whenever there is something.
ReplayTheFile(c) == LET s == request[c].of IN
                    /\ Enters(c, "replay") /\ state[s] # "recording"
                    /\ file[s] # Missing
                    /\ lock' = [lock EXCEPT ![s] = c]
                    /\ Goes(c, "replaying")
                    /\ UNCHANGED <<hosting, state, pump, stopping, files, library>>

ReplaySaved(c) == LET s == request[c].of IN
                  /\ Enters(c, "replay") /\ state[s] # "recording"
                  /\ typed[s] /\ file[s] # Missing
                  /\ lock' = [lock EXCEPT ![s] = c]
                  /\ Goes(c, "replaying")
                  /\ UNCHANGED <<hosting, state, pump, stopping, files, library>>

\* artifacts(), called from replay, looks the session up again.
CanGenerate(s) == current = s /\ coherent[s]

Regenerate(c) == LET s == request[c].of IN
                 /\ request[c].at = "regenerate"
                 /\ agentLock = Nobody
                 /\ CanGenerate(s)
                 /\ file' = [file EXCEPT ![s] = Script(s)]
                 /\ Goes(c, "replaying")
                 /\ UNCHANGED <<hosting, lock, state, pump, stopping, changes, coherent, typed, library>>

\* If the session has made way meanwhile, or its recording is not coherent, the
\* file on disk is run as it is ...
ReplayAsItIs(c) == LET s == request[c].of IN
                   /\ request[c].at = "regenerate"
                   /\ agentLock = Nobody
                   /\ ~CanGenerate(s) /\ file[s] # Missing
                   /\ Goes(c, "replaying")
                   /\ UNCHANGED <<hosting, lock, state, pump, stopping, files, library>>

\* ... and if there is none, the request fails.
NothingToReplay(c) == LET s == request[c].of IN
                      /\ request[c].at = "regenerate"
                      /\ agentLock = Nobody
                      /\ ~CanGenerate(s) /\ file[s] = Missing
                      /\ AnsweredUnlocked(c)
                      /\ UNCHANGED <<hosting, state, pump, stopping, files, library>>

Replayed(c) == /\ request[c].at = "replaying"
               /\ AnsweredUnlocked(c)
               /\ UNCHANGED <<hosting, state, pump, stopping, files, library>>

----------------------------------------------------------------------------
(* keep: the recording becomes a test of the library, which is run once to  *)
(* see whether it passes.  Two sessions, one of them displaced, can be kept *)
(* at the same time.                                                        *)

BeginKeep(c) == /\ Enters(c, "keep")
                /\ coherent[request[c].of]
                /\ lock' = [lock EXCEPT ![request[c].of] = c]
                /\ Goes(c, "reserve")
                /\ UNCHANGED <<hosting, state, pump, stopping, files, library>>

\* TestLibrary.reserve: the first directory that does not exist yet.
Reserve(c) == /\ request[c].at = "reserve"
              /\ \E t \in Free :
                   /\ \A other \in Free : t <= other
                   /\ request' = [request EXCEPT ![c] = [at |-> "make", of |-> request[c].of, test |-> t]]
                   /\ UNCHANGED asked
              /\ UNCHANGED <<hosting, lock, state, pump, stopping, files, library>>

\* Mutant: mkdir(exist_ok=True).
MakeOrReuseDirectory(c) == /\ request[c].at = "make"
                           /\ library' = [library EXCEPT ![request[c].test].made = TRUE]
                           /\ Goes(c, "write")
                           /\ UNCHANGED <<hosting, lock, state, pump, stopping, files>>

MakeDirectory(c) == /\ request[c].at = "make"
                    /\ ~library[request[c].test].made
                    /\ library' = [library EXCEPT ![request[c].test].made = TRUE]
                    /\ Goes(c, "write")
                    /\ UNCHANGED <<hosting, lock, state, pump, stopping, files>>

\* Mutant: the request that fails keeps the session's lock.
FailsWithTheLock(c) == /\ request[c].at = "make"
                       /\ library[request[c].test].made
                       /\ Answered(c)
                       /\ UNCHANGED <<hosting, lock, state, pump, stopping, files, library>>

\* mkdir fails when somebody else has made the directory since it was reserved.
DirectoryTaken(c) == /\ request[c].at = "make"
                     /\ library[request[c].test].made
                     /\ AnsweredUnlocked(c)
                     /\ UNCHANGED <<hosting, state, pump, stopping, files, library>>

\* The files and meta.json; then the test is run, unless the caller said not to.
Written(c) == library' = [library EXCEPT ![request[c].test] =
                            [made |-> TRUE, text |-> Script(request[c].of), proved |-> FALSE]]

WriteTest(c) == /\ request[c].at = "write"
                /\ Written(c)
                /\ Goes(c, "verify")
                /\ UNCHANGED <<hosting, lock, state, pump, stopping, files>>

WriteUnproved(c) == /\ request[c].at = "write"
                    /\ Written(c)
                    /\ AnsweredUnlocked(c)
                    /\ UNCHANGED <<hosting, state, pump, stopping, files>>

RecordVerdict(c) == /\ request[c].at = "verify"
                    /\ library' = [library EXCEPT ![request[c].test].proved = TRUE]
                    /\ AnsweredUnlocked(c)
                    /\ UNCHANGED <<hosting, state, pump, stopping, files>>

\* run_test: a kept test is run outside any lock, having seen that nothing was
\* being recorded.
RunTest(c) == /\ Asks(c)
              /\ agentLock = Nobody
              /\ ~Busy
              /\ \E t \in Tests :
                   /\ library[t].text # Missing
                   /\ request' = [request EXCEPT ![c] = [at |-> "testing", of |-> None, test |-> t]]
              /\ UNCHANGED <<hosting, lock, state, pump, stopping, files, library>>

TestEnds(c) == /\ request[c].at = "testing"
               /\ Answered(c)
               /\ UNCHANGED <<hosting, lock, state, pump, stopping, files, library>>

----------------------------------------------------------------------------
(* release: the session is stopped and shut down, and then the host has no  *)
(* session, whichever it had by then.                                       *)

StopForRelease(c) == /\ Enters(c, "release")
                     /\ state' = [state EXCEPT ![request[c].of] = "stopped"]
                     /\ Goes(c, "shutdown")
                     /\ UNCHANGED <<hosting, lock, pump, stopping, files, library>>

\* stop() raises before its last line, and the release goes on: the controller is
\* still recording, although nobody will poll it.
StopRaises(c) == LET s == request[c].of IN
                 /\ Enters(c, "release")
                 /\ state[s] = "recording"
                 /\ Cardinality(unstopped) < MaxFaults
                 /\ unstopped' = unstopped \cup {s}
                 /\ Goes(c, "shutdown")
                 /\ UNCHANGED <<current, started, agentLock, forgotten, lock, state, pump, stopping,
                                files, library>>

Shutdown(c) == /\ request[c].at = "shutdown"
               /\ stopping' = [stopping EXCEPT ![request[c].of] = TRUE]
               /\ Goes(c, "forget")
               /\ UNCHANGED <<hosting, lock, state, pump, files, library>>

\* Once the pump is joined, or the three seconds have passed.
Forget(c) == /\ request[c].at = "forget"
             /\ agentLock = Nobody
             /\ current' = None
             /\ forgotten' = forgotten \cup ({current} \ {None, request[c].of})
             /\ Answered(c)
             /\ UNCHANGED <<started, agentLock, unstopped, lock, state, pump, stopping, files, library>>

----------------------------------------------------------------------------
(* The pump: a poll at a time under the session's lock, until told to stop. *)

Poll(s) == /\ pump[s] = "running" /\ ~stopping[s]
           /\ lock[s] = Nobody
           /\ state[s] = "recording"
           /\ Recorded(s)
           /\ UNCHANGED <<hosting, lock, state, pump, stopping, typed, file, library, request, asked>>

\* The flag is looked at between two polls, so not while one waits for the lock.
PumpEnds(s) == /\ pump[s] = "running" /\ stopping[s]
               /\ lock[s] = Nobody
               /\ pump' = [pump EXCEPT ![s] = "gone"]
               /\ UNCHANGED <<hosting, lock, state, stopping, files, library, request, asked>>

Serve(c) == \/ Displace(c) \/ Launch(c) \/ LaunchFails(c)
            \/ Change(c) \/ Refused(c) \/ Stop(c) \/ Artifacts(c) \/ SaveScript(c)
            \/ BeginReplay(c) \/ ReplaySaved(c) \/ Regenerate(c) \/ ReplayAsItIs(c)
            \/ NothingToReplay(c) \/ Replayed(c)
            \/ BeginKeep(c) \/ Reserve(c) \/ MakeDirectory(c) \/ DirectoryTaken(c)
            \/ WriteTest(c) \/ WriteUnproved(c) \/ RecordVerdict(c)
            \/ TestEnds(c)
            \/ StopForRelease(c) \/ StopRaises(c) \/ Shutdown(c) \/ Forget(c)

Ask(c) == Claim(c) \/ Require(c) \/ RunTest(c)

Next == \/ \E c \in Callers : Ask(c) \/ Serve(c)
        \/ \E s \in Sessions : Poll(s) \/ PumpEnds(s)

\* A thread that can go on does, and a test that runs is stopped at its timeout.
\* Requests being bounded, a lock is free for good at last, so weak fairness is
\* enough to get it; and nobody has to ask.
Spec == /\ Init /\ [][Next]_vars
        /\ \A c \in Callers : WF_vars(Serve(c))
        /\ \A s \in Sessions : WF_vars(PumpEnds(s))

----------------------------------------------------------------------------
Types == /\ current \in {None} \cup Sessions
         /\ started \in 0..MaxSessions
         /\ agentLock \in Callers \cup {Nobody}
         /\ lock \in [Sessions -> Callers \cup {Nobody}]
         /\ state \in [Sessions -> States]
         /\ pump \in [Sessions -> {"none", "running", "gone"}]
         /\ stopping \in [Sessions -> BOOLEAN]
         /\ changes \in [Sessions -> 0..MaxChanges]
         /\ coherent \in [Sessions -> BOOLEAN]
         /\ typed \in [Sessions -> BOOLEAN]
         /\ file \in [Sessions -> Texts]
         /\ library \in [Tests -> [made : BOOLEAN, text : Texts, proved : BOOLEAN]]
         /\ request \in [Callers -> Request]
         /\ asked \in 0..MaxRequests
         /\ forgotten \subseteq Sessions
         /\ unstopped \subseteq Sessions

\* A lock is held by the request that is at work inside it, and by no other.
LocksAreHeld == \A c \in Callers :
                  /\ agentLock = c <=> request[c].at \in Starting
                  /\ \A s \in Sessions : lock[s] = c <=> request[c].at \in Holding /\ request[c].of = s

TypeOK == Types /\ LocksAreHeld

\* Whatever requests cross, a session that still records is the host's own, or a
\* release that crossed its start has taken it off the host, or its own release
\* swallowed what its stop raised; and then its pump has been told to stop, so
\* that it records no more although it says so (server.py:176-206, :680-690).
OnlyTheHostRecords == \A s \in Sessions : state[s] = "recording" =>
                        \/ s = current
                        \/ s \in forgotten
                        \/ s \in unstopped /\ stopping[s]

\* What deploy/README.md:109-110 says without those exceptions: recording is
\* exclusive, two sessions on one machine would fight over one display.
RecordingIsExclusive == \A s, t \in Sessions :
                          state[s] = "recording" /\ state[t] = "recording" => s = t

\* What is on disk is what the tester saved, else the recording with every repair
\* made so far, unless nothing can be generated from that.
UpToDate(s) == typed[s] \/ coherent[s] => file[s] = Script(s)

\* As long as the session is the host's, what is replayed is up to date
\* (server.py:656-676).
ReplaysWhatWasRepaired ==
  \A c \in Callers : request[c].at = "replaying" /\ request[c].of = current => UpToDate(current)

\* A kept test is never overwritten: its script stays, and its verdict once there
\* is one, whoever keeps another under the same name meanwhile (library.py:151-165).
KeptTestsStay == [][\A t \in Tests : library[t].text # Missing =>
                      /\ library'[t].text = library[t].text
                      /\ library[t].proved => library'[t] = library[t]]_vars

\* Every request is answered: the threads never wait for each other in a circle,
\* although a replay takes the agent's lock inside its session's while a claim
\* waits inside the agent's lock for that session's pump (server.py:183, :673).
RequestsAreAnswered == \A c \in Callers : request[c].at # "idle" ~> request[c].at = "idle"

\* The pump of a session that made way or was released ends, so nothing goes on
\* polling an application nobody records (server.py:91-94).
PumpsEnd == \A s \in Sessions :
              s <= started /\ s # current /\ s \notin forgotten ~> pump[s] = "gone" \/ s \in forgotten
=============================================================================
