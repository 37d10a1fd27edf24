-------------------------- MODULE AgentHostProofs --------------------------
(****************************************************************************)
(* That the host's sessions and files are in order whatever requests cross, *)
(* for any number of callers, sessions, changes and tests.                  *)
(****************************************************************************)
EXTENDS AgentHost, TLAPS

\* Sessions are numbered as they start; what the host had is among them.
Known == current <= started /\ forgotten \subseteq 1..started

\* Between a claim and its launch nothing is recorded on the host.
Claiming == \A c \in Callers : /\ request[c].at \in Starting => started < MaxSessions
                               /\ request[c].at = "join" => ~Busy
                               /\ request[c].at = "launch" => current = None

\* A request that is past _require is about a session that has started.
Addressed == \A c \in Callers :
               /\ request[c].at \in Waiting \cup Holding \cup Leaving => request[c].of \in 1..started
               /\ request[c].at \in {"make", "write", "verify"} => request[c].test \in Tests

\* A release has stopped its session before it does anything else, or its stop
\* has raised; and it has told the pump to stop before it clears the host.
Dealt(r) == /\ state[r.of] = "stopped" \/ r.of \in unstopped
            /\ r.at = "forget" => stopping[r.of]

Released == \A c \in Callers : request[c].at \in Leaving => Dealt(request[c])

\* Once the tester has saved a script, that is what is on disk.
TypedFiles == \A s \in Sessions : typed[s] => file[s] = Typed

IInv == /\ Types /\ LocksAreHeld /\ Known /\ Claiming /\ Addressed /\ Released
        /\ OnlyTheHostRecords /\ TypedFiles /\ ReplaysWhatWasRepaired

LEMMA InitIInv == Init => IInv
  BY HostAssumption
  DEF Init, IInv, Types, LocksAreHeld, Known, Claiming, Addressed, Released, OnlyTheHostRecords, TypedFiles,
      ReplaysWhatWasRepaired, UpToDate, Sessions, Tests, Texts, Typed, Missing, None, States, Request, Places,
      Starting, Waiting, Holding, Leaving, Idle, Busy, Script

-----------------------------------------------------------------------------
(* What a step does to the requests.                                        *)

LEMMA Moves ==
  ASSUME Types, NEW c \in Callers, NEW place \in Places, Moved(c, place)
  PROVE  /\ request' \in [Callers -> Request]
         /\ request'[c].at = place /\ request'[c].of = request[c].of /\ request'[c].test = request[c].test
         /\ \A d \in Callers : d # c => request'[d] = request[d]
<1>1. request[c] \in Request
  BY DEF Types
<1>2. [request[c] EXCEPT !.at = place] \in Request
  BY <1>1 DEF Request
<1>3. request' = [request EXCEPT ![c] = [request[c] EXCEPT !.at = place]]
  BY DEF Moved
<1> QED BY <1>1, <1>2, <1>3 DEF Types, Request

LEMMA Rests ==
  ASSUME Types, NEW c \in Callers, Answered(c)
  PROVE  /\ request' \in [Callers -> Request] /\ asked' \in 0..MaxRequests
         /\ request'[c].at = "idle"
         /\ \A d \in Callers : d # c => request'[d] = request[d]
  BY DEF Types, Answered, Idle, Request, Places, None

-----------------------------------------------------------------------------
(* One lemma per action, one step per part of the invariant.                *)

LEMMA Replaying ==
  ASSUME IInv, NEW c \in Callers, request[c].at = "replaying", request[c].of = current
  PROVE  current \in Sessions /\ lock[current] = c /\ UpToDate(current)
  BY HostAssumption
  DEF IInv, Types, Addressed, LocksAreHeld, ReplaysWhatWasRepaired, Sessions, Holding

LEMMA ClaimIInv == ASSUME IInv, NEW c \in Callers, Claim(c) PROVE IInv'
<1>1. /\ current \in {None} \cup Sessions /\ started \in 0..MaxSessions /\ MaxSessions \in Nat
      /\ agentLock \in Callers \cup {Nobody} /\ lock \in [Sessions -> Callers \cup {Nobody}]
      /\ state \in [Sessions -> States] /\ Nobody \notin Callers
  BY HostAssumption DEF IInv, Types
<1>2. Moved(c, "join") /\ "join" \in Places
  BY DEF Claim, Starting, Waiting, Holding, Leaving, Places
<1>3. /\ request' \in [Callers -> Request]
      /\ request'[c].at = "join" /\ request'[c].of = request[c].of /\ request'[c].test = request[c].test
      /\ \A d \in Callers : d # c => request'[d] = request[d]
  BY ONLY IInv, <1>2, Moves DEF IInv
<1>4. Types'
  BY <1>1, <1>3, HostAssumption, SMTT(30) DEF Claiming, Addressed, Sessions, Tests, Texts, Typed, Missing,
      None, States, Script, Starting,
      Waiting, Holding, Leaving, Places, IInv, Types, Request, Claim, hosting, history, files, Asks, Idle
<1>5. LocksAreHeld'
  <2> SUFFICES ASSUME NEW d \in Callers
               PROVE  /\ agentLock' = d <=> request'[d].at \in Starting
                      /\ \A s \in Sessions : lock'[s] = d <=> request'[d].at \in Holding /\ request'[d].of = s
    BY DEF LocksAreHeld
  <2>1. CASE d = c
    BY <2>1, <1>1, <1>3, SMTT(20) DEF LocksAreHeld, Addressed, Sessions, Starting, Waiting, Holding,
        Leaving, IInv, Claim, hosting, history, files, Asks, Idle
  <2>2. CASE d # c
    BY <2>2, <1>1, <1>3, SMTT(20) DEF LocksAreHeld, Starting, Holding, IInv, Claim, hosting, history,
        files, Asks, Idle
  <2> QED BY <2>1, <2>2
<1>6. Known'
  BY <1>1, <1>3 DEF IInv, Known, Claiming, Sessions, None, Starting, Waiting, Holding, Leaving, Claim,
      hosting, history, files,
      Asks, Idle
<1>7. Claiming'
  BY <1>1, <1>3 DEF IInv, LocksAreHeld, Claiming, Busy, None, States, Starting, Waiting, Holding, Leaving,
      Claim,
      hosting, history, files, Asks, Idle
<1>8. Addressed'
  BY <1>1, <1>3 DEF IInv, Addressed, Known, Claiming, Sessions, Tests, None, Starting, Waiting, Holding,
      Leaving,
      Claim, hosting, history, files, Asks, Idle
<1>9. Released'
  <2> SUFFICES ASSUME NEW d \in Callers, request'[d].at \in Leaving PROVE Dealt(request[d])'
    BY DEF Released
  <2>1. request'[d] = request[d]
    BY <1>1, <1>3 DEF Leaving, Waiting
  <2>2. request[d].of \in Sessions /\ request[d].of # started + 1 /\ Dealt(request[d])
    BY <2>1, <1>1, <1>3 DEF IInv, Released, Addressed, Sessions
  <2> QED BY <2>1, <2>2, <1>1, <1>3 DEF Dealt, IInv, Claim, hosting, history, files, Asks, Idle
<1>10. OnlyTheHostRecords'
  BY <1>1, <1>3 DEF IInv, Known, Claiming, Released, Dealt, OnlyTheHostRecords, Sessions, Busy, None,
      Starting, Waiting,
      Holding, Leaving, Claim, hosting, history, files, Asks, Idle
<1>11. TypedFiles'
  BY <1>1, <1>3 DEF IInv, TypedFiles, Script, Sessions, Claim, hosting, history, files, Asks, Idle
<1>12. ReplaysWhatWasRepaired'
  <2> SUFFICES ASSUME NEW d \in Callers, request'[d].at = "replaying", request'[d].of = current
               PROVE  UpToDate(current)'
    BY DEF ReplaysWhatWasRepaired, IInv, Claim, hosting, history, files, Asks, Idle
  <2>1. request'[d] = request[d]
    BY <1>1, <1>3 DEF Waiting
  <2>2. current \in Sessions /\ lock[current] = d /\ UpToDate(current)
    BY <2>1, Replaying
  <2> QED BY <1>1, <1>3, <2>1, <2>2 DEF Script, UpToDate, IInv, Claim, hosting, history, files, Asks, Idle
<1> QED BY <1>4, <1>5, <1>6, <1>7, <1>8, <1>9, <1>10, <1>11, <1>12 DEF IInv

LEMMA RequireIInv == ASSUME IInv, NEW c \in Callers, Require(c) PROVE IInv'
<1>1. /\ current \in {None} \cup Sessions /\ started \in 0..MaxSessions /\ MaxSessions \in Nat
      /\ agentLock \in Callers \cup {Nobody} /\ lock \in [Sessions -> Callers \cup {Nobody}]
      /\ state \in [Sessions -> States] /\ Nobody \notin Callers
  BY HostAssumption DEF IInv, Types
<1>2. /\ request' \in [Callers -> Request]
      /\ request'[c].at \in Waiting /\ request'[c].of = current /\ current # None
      /\ request[c].at = "idle" /\ \A d \in Callers : d # c => request'[d] = request[d]
  BY DEF IInv, Types, Request, Require, Asks, Idle, Places, Waiting
<1>3. Types'
  BY <1>1, <1>2, HostAssumption, SMTT(30) DEF Claiming, Addressed, Sessions, Tests, Texts, Typed, Missing,
      None, States, Script, Starting,
      Waiting, Holding, Leaving, Places, IInv, Types, Request, Require, hosting, history, files, Asks, Idle
<1>4. LocksAreHeld'
  <2> SUFFICES ASSUME NEW d \in Callers
               PROVE  /\ agentLock' = d <=> request'[d].at \in Starting
                      /\ \A s \in Sessions : lock'[s] = d <=> request'[d].at \in Holding /\ request'[d].of = s
    BY DEF LocksAreHeld
  <2>1. CASE d = c
    BY <2>1, <1>1, <1>2, SMTT(20) DEF LocksAreHeld, Addressed, Sessions, Starting, Waiting, Holding,
        Leaving, IInv, Require, hosting, history, files, Asks, Idle
  <2>2. CASE d # c
    BY <2>2, <1>1, <1>2, SMTT(20) DEF LocksAreHeld, Starting, Holding, IInv, Require, hosting, history,
        files, Asks, Idle
  <2> QED BY <2>1, <2>2
<1>5. Known'
  BY <1>1, <1>2 DEF IInv, Known, Claiming, Sessions, None, Starting, Waiting, Holding, Leaving, Require,
      hosting, history,
      files, Asks, Idle
<1>6. Claiming'
  BY <1>1, <1>2 DEF IInv, LocksAreHeld, Claiming, Busy, None, States, Starting, Waiting, Holding, Leaving,
      Require,
      hosting, history, files, Asks, Idle
<1>7. Addressed'
  BY <1>1, <1>2 DEF IInv, Addressed, Known, Claiming, Sessions, Tests, None, Starting, Waiting, Holding,
      Leaving,
      Require, hosting, history, files, Asks, Idle
<1>8. Released'
  <2> SUFFICES ASSUME NEW d \in Callers, request'[d].at \in Leaving PROVE Dealt(request[d])'
    BY DEF Released
  <2>1. request'[d] = request[d]
    BY <1>1, <1>2 DEF Leaving, Waiting
  <2>2. request[d].of \in Sessions /\ request[d].of # started + 1 /\ Dealt(request[d])
    BY <2>1, <1>1, <1>2 DEF IInv, Released, Addressed, Sessions
  <2> QED BY <2>1, <2>2, <1>1, <1>2 DEF Dealt, IInv, Require, hosting, history, files, Asks, Idle
<1>9. OnlyTheHostRecords'
  BY <1>1, <1>2 DEF IInv, Known, Claiming, Released, Dealt, OnlyTheHostRecords, Sessions, Busy, None,
      Starting, Waiting,
      Holding, Leaving, Require, hosting, history, files, Asks, Idle
<1>10. TypedFiles'
  BY <1>1, <1>2 DEF IInv, TypedFiles, Script, Sessions, Require, hosting, history, files, Asks, Idle
<1>11. ReplaysWhatWasRepaired'
  <2> SUFFICES ASSUME NEW d \in Callers, request'[d].at = "replaying", request'[d].of = current
               PROVE  UpToDate(current)'
    BY DEF ReplaysWhatWasRepaired, IInv, Require, hosting, history, files, Asks, Idle
  <2>1. request'[d] = request[d]
    BY <1>1, <1>2 DEF Waiting
  <2>2. current \in Sessions /\ lock[current] = d /\ UpToDate(current)
    BY <2>1, Replaying
  <2> QED BY <1>1, <1>2, <2>1, <2>2 DEF Script, UpToDate, IInv, Require, hosting, history, files, Asks, Idle
<1> QED BY <1>3, <1>4, <1>5, <1>6, <1>7, <1>8, <1>9, <1>10, <1>11 DEF IInv

LEMMA RunTestIInv == ASSUME IInv, NEW c \in Callers, RunTest(c) PROVE IInv'
<1>1. /\ current \in {None} \cup Sessions /\ started \in 0..MaxSessions /\ MaxSessions \in Nat
      /\ agentLock \in Callers \cup {Nobody} /\ lock \in [Sessions -> Callers \cup {Nobody}]
      /\ state \in [Sessions -> States] /\ Nobody \notin Callers
  BY HostAssumption DEF IInv, Types
<1>2. /\ request' \in [Callers -> Request]
      /\ request'[c].at = "testing" /\ request[c].at = "idle"
      /\ \A d \in Callers : d # c => request'[d] = request[d]
  BY DEF IInv, Types, Request, RunTest, Asks, Idle, Places, None
<1>3. Types'
  BY <1>1, <1>2, HostAssumption, SMTT(30) DEF Claiming, Addressed, Sessions, Tests, Texts, Typed, Missing,
      None, States, Script, Starting,
      Waiting, Holding, Leaving, Places, IInv, Types, Request, RunTest, hosting, history, files, Asks, Idle
<1>4. LocksAreHeld'
  <2> SUFFICES ASSUME NEW d \in Callers
               PROVE  /\ agentLock' = d <=> request'[d].at \in Starting
                      /\ \A s \in Sessions : lock'[s] = d <=> request'[d].at \in Holding /\ request'[d].of = s
    BY DEF LocksAreHeld
  <2>1. CASE d = c
    BY <2>1, <1>1, <1>2, SMTT(20) DEF LocksAreHeld, Addressed, Sessions, Starting, Waiting, Holding,
        Leaving, IInv, RunTest, hosting, history, files, Asks, Idle
  <2>2. CASE d # c
    BY <2>2, <1>1, <1>2, SMTT(20) DEF LocksAreHeld, Starting, Holding, IInv, RunTest, hosting, history,
        files, Asks, Idle
  <2> QED BY <2>1, <2>2
<1>5. Known'
  BY <1>1, <1>2 DEF IInv, Known, Claiming, Sessions, None, Starting, Waiting, Holding, Leaving, RunTest,
      hosting, history,
      files, Asks, Idle
<1>6. Claiming'
  BY <1>1, <1>2 DEF IInv, LocksAreHeld, Claiming, Busy, None, States, Starting, Waiting, Holding, Leaving,
      RunTest,
      hosting, history, files, Asks, Idle
<1>7. Addressed'
  BY <1>1, <1>2 DEF IInv, Addressed, Known, Claiming, Sessions, Tests, None, Starting, Waiting, Holding,
      Leaving,
      RunTest, hosting, history, files, Asks, Idle
<1>8. Released'
  <2> SUFFICES ASSUME NEW d \in Callers, request'[d].at \in Leaving PROVE Dealt(request[d])'
    BY DEF Released
  <2>1. request'[d] = request[d]
    BY <1>1, <1>2 DEF Leaving, Waiting
  <2>2. request[d].of \in Sessions /\ request[d].of # started + 1 /\ Dealt(request[d])
    BY <2>1, <1>1, <1>2 DEF IInv, Released, Addressed, Sessions
  <2> QED BY <2>1, <2>2, <1>1, <1>2 DEF Dealt, IInv, RunTest, hosting, history, files, Asks, Idle
<1>9. OnlyTheHostRecords'
  BY <1>1, <1>2 DEF IInv, Known, Claiming, Released, Dealt, OnlyTheHostRecords, Sessions, Busy, None,
      Starting, Waiting,
      Holding, Leaving, RunTest, hosting, history, files, Asks, Idle
<1>10. TypedFiles'
  BY <1>1, <1>2 DEF IInv, TypedFiles, Script, Sessions, RunTest, hosting, history, files, Asks, Idle
<1>11. ReplaysWhatWasRepaired'
  <2> SUFFICES ASSUME NEW d \in Callers, request'[d].at = "replaying", request'[d].of = current
               PROVE  UpToDate(current)'
    BY DEF ReplaysWhatWasRepaired, IInv, RunTest, hosting, history, files, Asks, Idle
  <2>1. request'[d] = request[d]
    BY <1>1, <1>2 DEF Waiting
  <2>2. current \in Sessions /\ lock[current] = d /\ UpToDate(current)
    BY <2>1, Replaying
  <2> QED BY <1>1, <1>2, <2>1, <2>2 DEF Script, UpToDate, IInv, RunTest, hosting, history, files, Asks, Idle
<1> QED BY <1>3, <1>4, <1>5, <1>6, <1>7, <1>8, <1>9, <1>10, <1>11 DEF IInv

LEMMA DisplaceIInv == ASSUME IInv, NEW c \in Callers, Displace(c) PROVE IInv'
<1>1. /\ current \in {None} \cup Sessions /\ started \in 0..MaxSessions /\ MaxSessions \in Nat
      /\ agentLock \in Callers \cup {Nobody} /\ lock \in [Sessions -> Callers \cup {Nobody}]
      /\ state \in [Sessions -> States] /\ Nobody \notin Callers
  BY HostAssumption DEF IInv, Types
<1>2. Moved(c, "launch") /\ "launch" \in Places
  BY DEF Displace, Goes, Starting, Waiting, Holding, Leaving, Places
<1>3. /\ request' \in [Callers -> Request]
      /\ request'[c].at = "launch" /\ request'[c].of = request[c].of /\ request'[c].test = request[c].test
      /\ \A d \in Callers : d # c => request'[d] = request[d]
  BY ONLY IInv, <1>2, Moves DEF IInv
<1>4. Types'
  BY <1>1, <1>3, HostAssumption, SMTT(30) DEF Claiming, Addressed, Sessions, Tests, Texts, Typed, Missing,
      None, States, Script, Starting,
      Waiting, Holding, Leaving, Places, IInv, Types, Request, Displace, hosting, history, files, Goes
<1>5. LocksAreHeld'
  <2> SUFFICES ASSUME NEW d \in Callers
               PROVE  /\ agentLock' = d <=> request'[d].at \in Starting
                      /\ \A s \in Sessions : lock'[s] = d <=> request'[d].at \in Holding /\ request'[d].of = s
    BY DEF LocksAreHeld
  <2>1. CASE d = c
    BY <2>1, <1>1, <1>3, SMTT(20) DEF LocksAreHeld, Addressed, Sessions, Starting, Waiting, Holding,
        Leaving, IInv, Displace, hosting, history, files, Goes
  <2>2. CASE d # c
    BY <2>2, <1>1, <1>3, SMTT(20) DEF LocksAreHeld, Starting, Holding, IInv, Displace, hosting, history,
        files, Goes
  <2> QED BY <2>1, <2>2
<1>6. Known'
  BY <1>1, <1>3 DEF IInv, Known, Claiming, Sessions, None, Starting, Waiting, Holding, Leaving, Displace,
      hosting, history,
      files, Goes
<1>7. Claiming'
  BY <1>1, <1>3 DEF IInv, LocksAreHeld, Claiming, Busy, None, States, Starting, Waiting, Holding, Leaving,
      Displace,
      hosting, history, files, Goes
<1>8. Addressed'
  BY <1>1, <1>3 DEF IInv, Addressed, Known, Claiming, Sessions, Tests, None, Starting, Waiting, Holding,
      Leaving,
      Displace, hosting, history, files, Goes
<1>9. Released'
  <2> SUFFICES ASSUME NEW d \in Callers, request'[d].at \in Leaving PROVE Dealt(request[d])'
    BY DEF Released
  <2>1. request'[d] = request[d]
    BY <1>1, <1>3 DEF Leaving, Waiting
  <2>2. request[d].of \in Sessions /\ request[d].of # started + 1 /\ Dealt(request[d])
    BY <2>1, <1>1, <1>3 DEF IInv, Released, Addressed, Sessions
  <2> QED BY <2>1, <2>2, <1>1, <1>3 DEF Dealt, IInv, Displace, hosting, history, files, Goes
<1>10. OnlyTheHostRecords'
  BY <1>1, <1>3 DEF IInv, Known, Claiming, Released, Dealt, OnlyTheHostRecords, Sessions, Busy, None,
      Starting, Waiting,
      Holding, Leaving, Displace, hosting, history, files, Goes
<1>11. TypedFiles'
  BY <1>1, <1>3 DEF IInv, TypedFiles, Script, Sessions, Displace, hosting, history, files, Goes
<1>12. ReplaysWhatWasRepaired'
  <2> SUFFICES ASSUME NEW d \in Callers, request'[d].at = "replaying" PROVE request'[d].of # None
    BY DEF ReplaysWhatWasRepaired, IInv, Displace, hosting, history, files, Goes
  <2>1. request'[d] = request[d]
    BY <1>1, <1>3
  <2> QED BY <2>1, <1>1, <1>3 DEF IInv, Addressed, Holding, None
<1> QED BY <1>4, <1>5, <1>6, <1>7, <1>8, <1>9, <1>10, <1>11, <1>12 DEF IInv

LEMMA LaunchIInv == ASSUME IInv, NEW c \in Callers, Launch(c) PROVE IInv'
<1>1. /\ current \in {None} \cup Sessions /\ started \in 0..MaxSessions /\ MaxSessions \in Nat
      /\ agentLock \in Callers \cup {Nobody} /\ lock \in [Sessions -> Callers \cup {Nobody}]
      /\ state \in [Sessions -> States] /\ Nobody \notin Callers
  BY HostAssumption DEF IInv, Types
<1>2. /\ request' \in [Callers -> Request] /\ asked' \in 0..MaxRequests
      /\ request'[c].at = "idle"
      /\ \A d \in Callers : d # c => request'[d] = request[d]
  BY Rests DEF IInv, Launch
<1>3. Types'
  BY <1>1, <1>2, HostAssumption, SMTT(30) DEF Claiming, Addressed, Sessions, Tests, Texts, Typed, Missing,
      None, States, Script, Starting,
      Waiting, Holding, Leaving, Places, IInv, Types, Request, Launch, hosting, history, files
<1>4. LocksAreHeld'
  <2>1. agentLock = c /\ agentLock' = Nobody /\ lock' = lock /\ \A s \in Sessions : lock[s] # c
    BY <1>1, <1>2 DEF IInv, LocksAreHeld, Starting, Holding, Launch
  <2> SUFFICES ASSUME NEW d \in Callers
               PROVE  /\ agentLock' = d <=> request'[d].at \in Starting
                      /\ \A s \in Sessions : lock'[s] = d <=> request'[d].at \in Holding /\ request'[d].of = s
    BY DEF LocksAreHeld
  <2>2. CASE d = c
    BY <2>1, <2>2, <1>1, <1>2 DEF Starting, Holding
  <2>3. CASE d # c
    BY <2>1, <2>3, <1>1, <1>2 DEF IInv, LocksAreHeld, Starting, Holding
  <2> QED BY <2>2, <2>3
<1>5. Known'
  BY <1>1, <1>2 DEF IInv, Known, Claiming, Sessions, None, Starting, Waiting, Holding, Leaving, Launch,
      hosting, history, files
<1>6. Claiming'
  BY <1>1, <1>2 DEF IInv, LocksAreHeld, Claiming, Busy, None, States, Starting, Waiting, Holding, Leaving,
      Launch,
      hosting, history, files
<1>7. Addressed'
  BY <1>1, <1>2 DEF IInv, Addressed, Known, Claiming, Sessions, Tests, None, Starting, Waiting, Holding,
      Leaving,
      Launch, hosting, history, files
<1>8. Released'
  <2> SUFFICES ASSUME NEW d \in Callers, request'[d].at \in Leaving PROVE Dealt(request[d])'
    BY DEF Released
  <2>1. request'[d] = request[d]
    BY <1>1, <1>2 DEF Leaving, Waiting
  <2>2. request[d].of \in Sessions /\ request[d].of # started + 1 /\ Dealt(request[d])
    BY <2>1, <1>1, <1>2 DEF IInv, Released, Addressed, Sessions
  <2> QED BY <2>1, <2>2, <1>1, <1>2 DEF Dealt, IInv, Launch, hosting, history, files
<1>9. OnlyTheHostRecords'
  BY <1>1, <1>2 DEF IInv, Known, Claiming, Released, Dealt, OnlyTheHostRecords, Sessions, Busy, None,
      Starting, Waiting,
      Holding, Leaving, Launch, hosting, history, files
<1>10. TypedFiles'
  BY <1>1, <1>2 DEF IInv, TypedFiles, Script, Sessions, Launch, hosting, history, files
<1>11. ReplaysWhatWasRepaired'
  <2> SUFFICES ASSUME NEW d \in Callers, request'[d].at = "replaying" PROVE request'[d].of # started + 1
    BY DEF ReplaysWhatWasRepaired, IInv, Launch, hosting, history, files
  <2>1. request'[d] = request[d]
    BY <1>1, <1>2
  <2> QED BY <2>1, <1>1, <1>2 DEF IInv, Addressed, Holding
<1> QED BY <1>3, <1>4, <1>5, <1>6, <1>7, <1>8, <1>9, <1>10, <1>11 DEF IInv

LEMMA LaunchFailsIInv == ASSUME IInv, NEW c \in Callers, LaunchFails(c) PROVE IInv'
<1>1. /\ current \in {None} \cup Sessions /\ started \in 0..MaxSessions /\ MaxSessions \in Nat
      /\ agentLock \in Callers \cup {Nobody} /\ lock \in [Sessions -> Callers \cup {Nobody}]
      /\ state \in [Sessions -> States] /\ Nobody \notin Callers
  BY HostAssumption DEF IInv, Types
<1>2. /\ request' \in [Callers -> Request] /\ asked' \in 0..MaxRequests
      /\ request'[c].at = "idle"
      /\ \A d \in Callers : d # c => request'[d] = request[d]
  BY Rests DEF IInv, LaunchFails
<1>3. Types'
  BY <1>1, <1>2, HostAssumption, SMTT(30) DEF Claiming, Addressed, Sessions, Tests, Texts, Typed, Missing,
      None, States, Script, Starting,
      Waiting, Holding, Leaving, Places, IInv, Types, Request, LaunchFails, hosting, history, files
<1>4. LocksAreHeld'
  <2> SUFFICES ASSUME NEW d \in Callers
               PROVE  /\ agentLock' = d <=> request'[d].at \in Starting
                      /\ \A s \in Sessions : lock'[s] = d <=> request'[d].at \in Holding /\ request'[d].of = s
    BY DEF LocksAreHeld
  <2>1. CASE d = c
    BY <2>1, <1>1, <1>2, SMTT(20) DEF LocksAreHeld, Addressed, Sessions, Starting, Waiting, Holding,
        Leaving, IInv, LaunchFails, hosting, history, files
  <2>2. CASE d # c
    BY <2>2, <1>1, <1>2, SMTT(20) DEF LocksAreHeld, Starting, Holding, IInv, LaunchFails, hosting, history,
        files
  <2> QED BY <2>1, <2>2
<1>5. Known'
  BY <1>1, <1>2 DEF IInv, Known, Claiming, Sessions, None, Starting, Waiting, Holding, Leaving,
      LaunchFails, hosting, history,
      files
<1>6. Claiming'
  BY <1>1, <1>2 DEF IInv, LocksAreHeld, Claiming, Busy, None, States, Starting, Waiting, Holding, Leaving,
      LaunchFails, hosting, history, files
<1>7. Addressed'
  BY <1>1, <1>2 DEF IInv, Addressed, Known, Claiming, Sessions, Tests, None, Starting, Waiting, Holding,
      Leaving,
      LaunchFails, hosting, history, files
<1>8. Released'
  <2> SUFFICES ASSUME NEW d \in Callers, request'[d].at \in Leaving PROVE Dealt(request[d])'
    BY DEF Released
  <2>1. request'[d] = request[d]
    BY <1>1, <1>2 DEF Leaving, Waiting
  <2>2. request[d].of \in Sessions /\ request[d].of # started + 1 /\ Dealt(request[d])
    BY <2>1, <1>1, <1>2 DEF IInv, Released, Addressed, Sessions
  <2> QED BY <2>1, <2>2, <1>1, <1>2 DEF Dealt, IInv, LaunchFails, hosting, history, files
<1>9. OnlyTheHostRecords'
  BY <1>1, <1>2 DEF IInv, Known, Claiming, Released, Dealt, OnlyTheHostRecords, Sessions, Busy, None,
      Starting, Waiting,
      Holding, Leaving, LaunchFails, hosting, history, files
<1>10. TypedFiles'
  BY <1>1, <1>2 DEF IInv, TypedFiles, Script, Sessions, LaunchFails, hosting, history, files
<1>11. ReplaysWhatWasRepaired'
  <2> SUFFICES ASSUME NEW d \in Callers, request'[d].at = "replaying", request'[d].of = current
               PROVE  UpToDate(current)'
    BY DEF ReplaysWhatWasRepaired, IInv, LaunchFails, hosting, history, files
  <2>1. request'[d] = request[d]
    BY <1>1, <1>2 DEF Waiting
  <2>2. current \in Sessions /\ lock[current] = d /\ UpToDate(current)
    BY <2>1, Replaying
  <2> QED BY <1>1, <1>2, <2>1, <2>2 DEF Script, UpToDate, IInv, LaunchFails, hosting, history, files
<1> QED BY <1>3, <1>4, <1>5, <1>6, <1>7, <1>8, <1>9, <1>10, <1>11 DEF IInv

LEMMA ChangeIInv == ASSUME IInv, NEW c \in Callers, Change(c) PROVE IInv'
<1>1. /\ current \in {None} \cup Sessions /\ started \in 0..MaxSessions /\ MaxSessions \in Nat
      /\ agentLock \in Callers \cup {Nobody} /\ lock \in [Sessions -> Callers \cup {Nobody}]
      /\ state \in [Sessions -> States] /\ Nobody \notin Callers
  BY HostAssumption DEF IInv, Types
<1>2. /\ request' \in [Callers -> Request] /\ asked' \in 0..MaxRequests
      /\ request'[c].at = "idle"
      /\ \A d \in Callers : d # c => request'[d] = request[d]
  BY Rests DEF IInv, Change
<1>3. Types'
  <2>1. request[c].of \in Sessions /\ changes[request[c].of] + 1 \in 0..MaxChanges
    BY <1>1, <1>2, HostAssumption DEF Types, Addressed, Waiting, Sessions, IInv, Change, Recorded, hosting,
        history, files, Enters
  <2>2. changes' \in [Sessions -> 0..MaxChanges]
    BY <2>1 DEF Types, IInv, Change, Recorded, hosting, history, files, Enters
  <2> QED BY <1>1, <1>2, <2>2 DEF Types, Request, IInv, Change, Recorded, hosting, history, files, Enters
<1>4. LocksAreHeld'
  <2> SUFFICES ASSUME NEW d \in Callers
               PROVE  /\ agentLock' = d <=> request'[d].at \in Starting
                      /\ \A s \in Sessions : lock'[s] = d <=> request'[d].at \in Holding /\ request'[d].of = s
    BY DEF LocksAreHeld
  <2>1. CASE d = c
    BY <2>1, <1>1, <1>2, SMTT(20) DEF LocksAreHeld, Addressed, Sessions, Starting, Waiting, Holding,
        Leaving, IInv, Change, Recorded, hosting, history, files, Enters
  <2>2. CASE d # c
    BY <2>2, <1>1, <1>2, SMTT(20) DEF LocksAreHeld, Starting, Holding, IInv, Change, Recorded, hosting,
        history, files, Enters
  <2> QED BY <2>1, <2>2
<1>5. Known'
  BY <1>1, <1>2 DEF IInv, Known, Claiming, Sessions, None, Starting, Waiting, Holding, Leaving, Change,
      Recorded, hosting, history,
      files, Enters
<1>6. Claiming'
  BY <1>1, <1>2 DEF IInv, LocksAreHeld, Claiming, Busy, None, States, Starting, Waiting, Holding, Leaving,
      Change, Recorded,
      hosting, history, files, Enters
<1>7. Addressed'
  BY <1>1, <1>2 DEF IInv, Addressed, Known, Claiming, Sessions, Tests, None, Starting, Waiting, Holding,
      Leaving,
      Change, Recorded, hosting, history, files, Enters
<1>8. Released'
  <2> SUFFICES ASSUME NEW d \in Callers, request'[d].at \in Leaving PROVE Dealt(request[d])'
    BY DEF Released
  <2>1. request'[d] = request[d]
    BY <1>1, <1>2 DEF Leaving, Waiting
  <2>2. request[d].of \in Sessions /\ request[d].of # started + 1 /\ Dealt(request[d])
    BY <2>1, <1>1, <1>2 DEF IInv, Released, Addressed, Sessions
  <2> QED BY <2>1, <2>2, <1>1, <1>2 DEF Dealt, IInv, Change, Recorded, hosting, history, files, Enters
<1>9. OnlyTheHostRecords'
  BY <1>1, <1>2 DEF IInv, Known, Claiming, Released, Dealt, OnlyTheHostRecords, Sessions, Busy, None,
      Starting, Waiting,
      Holding, Leaving, Change, Recorded, hosting, history, files, Enters
<1>10. TypedFiles'
  BY <1>1, <1>2 DEF IInv, TypedFiles, Script, Sessions, Change, Recorded, hosting, history, files, Enters
<1>11. ReplaysWhatWasRepaired'
  <2> SUFFICES ASSUME NEW d \in Callers, request'[d].at = "replaying", request'[d].of = current
               PROVE  UpToDate(current)'
    BY DEF ReplaysWhatWasRepaired, IInv, Change, Recorded, hosting, history, files, Enters
  <2>1. request'[d] = request[d]
    BY <1>1, <1>2 DEF Waiting
  <2>2. current \in Sessions /\ lock[current] = d /\ UpToDate(current)
    BY <2>1, Replaying
  <2> QED BY <1>1, <1>2, <2>1, <2>2 DEF Script, UpToDate, IInv, Change, Recorded, hosting, history, files,
      Enters
<1> QED BY <1>3, <1>4, <1>5, <1>6, <1>7, <1>8, <1>9, <1>10, <1>11 DEF IInv

LEMMA RefusedIInv == ASSUME IInv, NEW c \in Callers, Refused(c) PROVE IInv'
<1>1. /\ current \in {None} \cup Sessions /\ started \in 0..MaxSessions /\ MaxSessions \in Nat
      /\ agentLock \in Callers \cup {Nobody} /\ lock \in [Sessions -> Callers \cup {Nobody}]
      /\ state \in [Sessions -> States] /\ Nobody \notin Callers
  BY HostAssumption DEF IInv, Types
<1>2. /\ request' \in [Callers -> Request] /\ asked' \in 0..MaxRequests
      /\ request'[c].at = "idle"
      /\ \A d \in Callers : d # c => request'[d] = request[d]
  BY Rests DEF IInv, Refused
<1>3. Types'
  BY <1>1, <1>2, HostAssumption, SMTT(30) DEF Claiming, Addressed, Sessions, Tests, Texts, Typed, Missing,
      None, States, Script, Starting,
      Waiting, Holding, Leaving, Places, IInv, Types, Request, Refused, hosting, history, files, Enters
<1>4. LocksAreHeld'
  <2> SUFFICES ASSUME NEW d \in Callers
               PROVE  /\ agentLock' = d <=> request'[d].at \in Starting
                      /\ \A s \in Sessions : lock'[s] = d <=> request'[d].at \in Holding /\ request'[d].of = s
    BY DEF LocksAreHeld
  <2>1. CASE d = c
    BY <2>1, <1>1, <1>2, SMTT(20) DEF LocksAreHeld, Addressed, Sessions, Starting, Waiting, Holding,
        Leaving, IInv, Refused, hosting, history, files, Enters
  <2>2. CASE d # c
    BY <2>2, <1>1, <1>2, SMTT(20) DEF LocksAreHeld, Starting, Holding, IInv, Refused, hosting, history,
        files, Enters
  <2> QED BY <2>1, <2>2
<1>5. Known'
  BY <1>1, <1>2 DEF IInv, Known, Claiming, Sessions, None, Starting, Waiting, Holding, Leaving, Refused,
      hosting, history,
      files, Enters
<1>6. Claiming'
  BY <1>1, <1>2 DEF IInv, LocksAreHeld, Claiming, Busy, None, States, Starting, Waiting, Holding, Leaving,
      Refused,
      hosting, history, files, Enters
<1>7. Addressed'
  BY <1>1, <1>2 DEF IInv, Addressed, Known, Claiming, Sessions, Tests, None, Starting, Waiting, Holding,
      Leaving,
      Refused, hosting, history, files, Enters
<1>8. Released'
  <2> SUFFICES ASSUME NEW d \in Callers, request'[d].at \in Leaving PROVE Dealt(request[d])'
    BY DEF Released
  <2>1. request'[d] = request[d]
    BY <1>1, <1>2 DEF Leaving, Waiting
  <2>2. request[d].of \in Sessions /\ request[d].of # started + 1 /\ Dealt(request[d])
    BY <2>1, <1>1, <1>2 DEF IInv, Released, Addressed, Sessions
  <2> QED BY <2>1, <2>2, <1>1, <1>2 DEF Dealt, IInv, Refused, hosting, history, files, Enters
<1>9. OnlyTheHostRecords'
  BY <1>1, <1>2 DEF IInv, Known, Claiming, Released, Dealt, OnlyTheHostRecords, Sessions, Busy, None,
      Starting, Waiting,
      Holding, Leaving, Refused, hosting, history, files, Enters
<1>10. TypedFiles'
  BY <1>1, <1>2 DEF IInv, TypedFiles, Script, Sessions, Refused, hosting, history, files, Enters
<1>11. ReplaysWhatWasRepaired'
  <2> SUFFICES ASSUME NEW d \in Callers, request'[d].at = "replaying", request'[d].of = current
               PROVE  UpToDate(current)'
    BY DEF ReplaysWhatWasRepaired, IInv, Refused, hosting, history, files, Enters
  <2>1. request'[d] = request[d]
    BY <1>1, <1>2 DEF Waiting
  <2>2. current \in Sessions /\ lock[current] = d /\ UpToDate(current)
    BY <2>1, Replaying
  <2> QED BY <1>1, <1>2, <2>1, <2>2 DEF Script, UpToDate, IInv, Refused, hosting, history, files, Enters
<1> QED BY <1>3, <1>4, <1>5, <1>6, <1>7, <1>8, <1>9, <1>10, <1>11 DEF IInv

LEMMA StopIInv == ASSUME IInv, NEW c \in Callers, Stop(c) PROVE IInv'
<1>1. /\ current \in {None} \cup Sessions /\ started \in 0..MaxSessions /\ MaxSessions \in Nat
      /\ agentLock \in Callers \cup {Nobody} /\ lock \in [Sessions -> Callers \cup {Nobody}]
      /\ state \in [Sessions -> States] /\ Nobody \notin Callers
  BY HostAssumption DEF IInv, Types
<1>2. /\ request' \in [Callers -> Request] /\ asked' \in 0..MaxRequests
      /\ request'[c].at = "idle"
      /\ \A d \in Callers : d # c => request'[d] = request[d]
  BY Rests DEF IInv, Stop
<1>3. Types'
  <2>1. UNCHANGED <<current, started, agentLock, lock, pump, stopping, changes, coherent, typed, file,
        library, forgotten, unstopped>>
    BY <1>2 DEF Stop, hosting, history, files, Answered
  <2>2. state' \in [Sessions -> States]
    BY <1>1 DEF Stop, States
  <2> QED BY <1>2, <2>1, <2>2 DEF IInv, Types
<1>4. LocksAreHeld'
  <2> SUFFICES ASSUME NEW d \in Callers
               PROVE  /\ agentLock' = d <=> request'[d].at \in Starting
                      /\ \A s \in Sessions : lock'[s] = d <=> request'[d].at \in Holding /\ request'[d].of = s
    BY DEF LocksAreHeld
  <2>1. CASE d = c
    BY <2>1, <1>1, <1>2, SMTT(20) DEF LocksAreHeld, Addressed, Sessions, Starting, Waiting, Holding,
        Leaving, IInv, Stop, hosting, history, files, Enters
  <2>2. CASE d # c
    BY <2>2, <1>1, <1>2, SMTT(20) DEF LocksAreHeld, Starting, Holding, IInv, Stop, hosting, history, files,
        Enters
  <2> QED BY <2>1, <2>2
<1>5. Known'
  BY <1>1, <1>2 DEF IInv, Known, Claiming, Sessions, None, Starting, Waiting, Holding, Leaving, Stop,
      hosting, history, files,
      Enters
<1>6. Claiming'
  BY <1>1, <1>2 DEF IInv, LocksAreHeld, Claiming, Busy, None, States, Starting, Waiting, Holding, Leaving,
      Stop,
      hosting, history, files, Enters
<1>7. Addressed'
  BY <1>1, <1>2 DEF IInv, Addressed, Known, Claiming, Sessions, Tests, None, Starting, Waiting, Holding,
      Leaving,
      Stop, hosting, history, files, Enters
<1>8. Released'
  <2> SUFFICES ASSUME NEW d \in Callers, request'[d].at \in Leaving PROVE Dealt(request[d])'
    BY DEF Released
  <2>1. request'[d] = request[d]
    BY <1>1, <1>2 DEF Leaving, Waiting
  <2>2. request[d].of \in Sessions /\ request[d].of # started + 1 /\ Dealt(request[d])
    BY <2>1, <1>1, <1>2 DEF IInv, Released, Addressed, Sessions
  <2> QED BY <2>1, <2>2, <1>1, <1>2 DEF Dealt, IInv, Stop, hosting, history, files, Enters
<1>9. OnlyTheHostRecords'
  BY <1>1, <1>2 DEF IInv, Known, Claiming, Released, Dealt, OnlyTheHostRecords, Sessions, Busy, None,
      Starting, Waiting,
      Holding, Leaving, Stop, hosting, history, files, Enters
<1>10. TypedFiles'
  BY <1>1, <1>2 DEF IInv, TypedFiles, Script, Sessions, Stop, hosting, history, files, Enters
<1>11. ReplaysWhatWasRepaired'
  <2> SUFFICES ASSUME NEW d \in Callers, request'[d].at = "replaying", request'[d].of = current
               PROVE  UpToDate(current)'
    BY DEF ReplaysWhatWasRepaired, IInv, Stop, hosting, history, files, Enters
  <2>1. request'[d] = request[d]
    BY <1>1, <1>2 DEF Waiting
  <2>2. current \in Sessions /\ lock[current] = d /\ UpToDate(current)
    BY <2>1, Replaying
  <2> QED BY <1>1, <1>2, <2>1, <2>2 DEF Script, UpToDate, IInv, Stop, hosting, history, files, Enters
<1> QED BY <1>3, <1>4, <1>5, <1>6, <1>7, <1>8, <1>9, <1>10, <1>11 DEF IInv

LEMMA ArtifactsIInv == ASSUME IInv, NEW c \in Callers, Artifacts(c) PROVE IInv'
<1>1. /\ current \in {None} \cup Sessions /\ started \in 0..MaxSessions /\ MaxSessions \in Nat
      /\ agentLock \in Callers \cup {Nobody} /\ lock \in [Sessions -> Callers \cup {Nobody}]
      /\ state \in [Sessions -> States] /\ Nobody \notin Callers
  BY HostAssumption DEF IInv, Types
<1>2. /\ request' \in [Callers -> Request] /\ asked' \in 0..MaxRequests
      /\ request'[c].at = "idle"
      /\ \A d \in Callers : d # c => request'[d] = request[d]
  BY Rests DEF IInv, Artifacts
<1>3. Types'
  <2>1. request[c].of \in Sessions
    BY <1>1, HostAssumption DEF Types, Addressed, Waiting, Sessions, IInv, Artifacts, Enters
  <2>2. Script(request[c].of) \in Texts
    BY <2>1, HostAssumption DEF Types, Script, Typed, Texts, IInv
  <2>3. file' \in [Sessions -> Texts]
    BY <2>1, <2>2 DEF Types, IInv, Artifacts
  <2> QED BY <1>1, <1>2, <2>3 DEF Types, IInv, Artifacts, hosting, history
<1>4. LocksAreHeld'
  <2> SUFFICES ASSUME NEW d \in Callers
               PROVE  /\ agentLock' = d <=> request'[d].at \in Starting
                      /\ \A s \in Sessions : lock'[s] = d <=> request'[d].at \in Holding /\ request'[d].of = s
    BY DEF LocksAreHeld
  <2>1. CASE d = c
    BY <2>1, <1>1, <1>2, SMTT(20) DEF LocksAreHeld, Addressed, Sessions, Starting, Waiting, Holding,
        Leaving, IInv, Artifacts, hosting, history, files, Enters
  <2>2. CASE d # c
    BY <2>2, <1>1, <1>2, SMTT(20) DEF LocksAreHeld, Starting, Holding, IInv, Artifacts, hosting, history,
        files, Enters
  <2> QED BY <2>1, <2>2
<1>5. Known'
  BY <1>1, <1>2 DEF IInv, Known, Claiming, Sessions, None, Starting, Waiting, Holding, Leaving, Artifacts,
      hosting, history,
      files, Enters
<1>6. Claiming'
  BY <1>1, <1>2 DEF IInv, LocksAreHeld, Claiming, Busy, None, States, Starting, Waiting, Holding, Leaving,
      Artifacts,
      hosting, history, files, Enters
<1>7. Addressed'
  BY <1>1, <1>2 DEF IInv, Addressed, Known, Claiming, Sessions, Tests, None, Starting, Waiting, Holding,
      Leaving,
      Artifacts, hosting, history, files, Enters
<1>8. Released'
  <2> SUFFICES ASSUME NEW d \in Callers, request'[d].at \in Leaving PROVE Dealt(request[d])'
    BY DEF Released
  <2>1. request'[d] = request[d]
    BY <1>1, <1>2 DEF Leaving, Waiting
  <2>2. request[d].of \in Sessions /\ request[d].of # started + 1 /\ Dealt(request[d])
    BY <2>1, <1>1, <1>2 DEF IInv, Released, Addressed, Sessions
  <2> QED BY <2>1, <2>2, <1>1, <1>2 DEF Dealt, IInv, Artifacts, hosting, history, files, Enters
<1>9. OnlyTheHostRecords'
  BY <1>1, <1>2 DEF IInv, Known, Claiming, Released, Dealt, OnlyTheHostRecords, Sessions, Busy, None,
      Starting, Waiting,
      Holding, Leaving, Artifacts, hosting, history, files, Enters
<1>10. TypedFiles'
  BY <1>1, <1>2 DEF IInv, TypedFiles, Script, Sessions, Artifacts, hosting, history, files, Enters
<1>11. ReplaysWhatWasRepaired'
  <2> SUFFICES ASSUME NEW d \in Callers, request'[d].at = "replaying", request'[d].of = current
               PROVE  UpToDate(current)'
    BY DEF ReplaysWhatWasRepaired, IInv, Artifacts, hosting, history, files, Enters
  <2>1. request'[d] = request[d]
    BY <1>1, <1>2 DEF Waiting
  <2>2. current \in Sessions /\ lock[current] = d /\ UpToDate(current)
    BY <2>1, Replaying
  <2> QED BY <1>1, <1>2, <2>1, <2>2 DEF Script, UpToDate, IInv, Artifacts, hosting, history, files, Enters
<1> QED BY <1>3, <1>4, <1>5, <1>6, <1>7, <1>8, <1>9, <1>10, <1>11 DEF IInv

LEMMA SaveScriptIInv == ASSUME IInv, NEW c \in Callers, SaveScript(c) PROVE IInv'
<1>1. /\ current \in {None} \cup Sessions /\ started \in 0..MaxSessions /\ MaxSessions \in Nat
      /\ agentLock \in Callers \cup {Nobody} /\ lock \in [Sessions -> Callers \cup {Nobody}]
      /\ state \in [Sessions -> States] /\ Nobody \notin Callers
  BY HostAssumption DEF IInv, Types
<1>2. /\ request' \in [Callers -> Request] /\ asked' \in 0..MaxRequests
      /\ request'[c].at = "idle"
      /\ \A d \in Callers : d # c => request'[d] = request[d]
  BY Rests DEF IInv, SaveScript
<1>3. Types'
  BY <1>1, <1>2, HostAssumption, SMTT(30) DEF Claiming, Addressed, Sessions, Tests, Texts, Typed, Missing,
      None, States, Script, Starting,
      Waiting, Holding, Leaving, Places, IInv, Types, Request, SaveScript, hosting, history, files, Enters
<1>4. LocksAreHeld'
  <2> SUFFICES ASSUME NEW d \in Callers
               PROVE  /\ agentLock' = d <=> request'[d].at \in Starting
                      /\ \A s \in Sessions : lock'[s] = d <=> request'[d].at \in Holding /\ request'[d].of = s
    BY DEF LocksAreHeld
  <2>1. CASE d = c
    BY <2>1, <1>1, <1>2, SMTT(20) DEF LocksAreHeld, Addressed, Sessions, Starting, Waiting, Holding,
        Leaving, IInv, SaveScript, hosting, history, files, Enters
  <2>2. CASE d # c
    BY <2>2, <1>1, <1>2, SMTT(20) DEF LocksAreHeld, Starting, Holding, IInv, SaveScript, hosting, history,
        files, Enters
  <2> QED BY <2>1, <2>2
<1>5. Known'
  BY <1>1, <1>2 DEF IInv, Known, Claiming, Sessions, None, Starting, Waiting, Holding, Leaving, SaveScript,
      hosting, history,
      files, Enters
<1>6. Claiming'
  BY <1>1, <1>2 DEF IInv, LocksAreHeld, Claiming, Busy, None, States, Starting, Waiting, Holding, Leaving,
      SaveScript,
      hosting, history, files, Enters
<1>7. Addressed'
  BY <1>1, <1>2 DEF IInv, Addressed, Known, Claiming, Sessions, Tests, None, Starting, Waiting, Holding,
      Leaving,
      SaveScript, hosting, history, files, Enters
<1>8. Released'
  <2> SUFFICES ASSUME NEW d \in Callers, request'[d].at \in Leaving PROVE Dealt(request[d])'
    BY DEF Released
  <2>1. request'[d] = request[d]
    BY <1>1, <1>2 DEF Leaving, Waiting
  <2>2. request[d].of \in Sessions /\ request[d].of # started + 1 /\ Dealt(request[d])
    BY <2>1, <1>1, <1>2 DEF IInv, Released, Addressed, Sessions
  <2> QED BY <2>1, <2>2, <1>1, <1>2 DEF Dealt, IInv, SaveScript, hosting, history, files, Enters
<1>9. OnlyTheHostRecords'
  BY <1>1, <1>2 DEF IInv, Known, Claiming, Released, Dealt, OnlyTheHostRecords, Sessions, Busy, None,
      Starting, Waiting,
      Holding, Leaving, SaveScript, hosting, history, files, Enters
<1>10. TypedFiles'
  <2>1. typed \in [Sessions -> BOOLEAN] /\ file \in [Sessions -> Texts] /\ TypedFiles
    BY DEF IInv, Types
  <2>2. /\ typed' = [typed EXCEPT ![request[c].of] = TRUE]
        /\ file' = [file EXCEPT ![request[c].of] = Typed]
    BY DEF SaveScript
  <2> QED BY ONLY <2>1, <2>2 DEF TypedFiles
<1>11. ReplaysWhatWasRepaired'
  <2> SUFFICES ASSUME NEW d \in Callers, request'[d].at = "replaying", request'[d].of = current
               PROVE  UpToDate(current)'
    BY DEF ReplaysWhatWasRepaired, IInv, SaveScript, hosting, history, files, Enters
  <2>1. request'[d] = request[d]
    BY <1>1, <1>2 DEF Waiting
  <2>2. current \in Sessions /\ lock[current] = d /\ UpToDate(current)
    BY <2>1, Replaying
  <2> QED BY <1>1, <1>2, <2>1, <2>2 DEF Script, UpToDate, IInv, SaveScript, hosting, history, files, Enters
<1> QED BY <1>3, <1>4, <1>5, <1>6, <1>7, <1>8, <1>9, <1>10, <1>11 DEF IInv

LEMMA BeginReplayIInv == ASSUME IInv, NEW c \in Callers, BeginReplay(c) PROVE IInv'
<1>1. /\ current \in {None} \cup Sessions /\ started \in 0..MaxSessions /\ MaxSessions \in Nat
      /\ agentLock \in Callers \cup {Nobody} /\ lock \in [Sessions -> Callers \cup {Nobody}]
      /\ state \in [Sessions -> States] /\ Nobody \notin Callers
  BY HostAssumption DEF IInv, Types
<1>2. Moved(c, "regenerate") /\ "regenerate" \in Places
  BY DEF BeginReplay, Goes, Starting, Waiting, Holding, Leaving, Places
<1>3. /\ request' \in [Callers -> Request]
      /\ request'[c].at = "regenerate" /\ request'[c].of = request[c].of /\ request'[c].test = request[c].test
      /\ \A d \in Callers : d # c => request'[d] = request[d]
  BY ONLY IInv, <1>2, Moves DEF IInv
<1>4. Types'
  BY <1>1, <1>3, HostAssumption, SMTT(30) DEF Claiming, Addressed, Sessions, Tests, Texts, Typed, Missing,
      None, States, Script, Starting,
      Waiting, Holding, Leaving, Places, IInv, Types, Request, BeginReplay, hosting, history, files, Goes, Enters
<1>5. LocksAreHeld'
  <2> SUFFICES ASSUME NEW d \in Callers
               PROVE  /\ agentLock' = d <=> request'[d].at \in Starting
                      /\ \A s \in Sessions : lock'[s] = d <=> request'[d].at \in Holding /\ request'[d].of = s
    BY DEF LocksAreHeld
  <2>1. CASE d = c
    BY <2>1, <1>1, <1>3, SMTT(20) DEF LocksAreHeld, Addressed, Sessions, Starting, Waiting, Holding,
        Leaving, IInv, BeginReplay, hosting, history, files, Goes, Enters
  <2>2. CASE d # c
    BY <2>2, <1>1, <1>3, SMTT(20) DEF LocksAreHeld, Starting, Holding, IInv, BeginReplay, hosting, history,
        files, Goes, Enters
  <2> QED BY <2>1, <2>2
<1>6. Known'
  BY <1>1, <1>3 DEF IInv, Known, Claiming, Sessions, None, Starting, Waiting, Holding, Leaving,
      BeginReplay, hosting, history,
      files, Goes, Enters
<1>7. Claiming'
  BY <1>1, <1>3 DEF IInv, LocksAreHeld, Claiming, Busy, None, States, Starting, Waiting, Holding, Leaving,
      BeginReplay, hosting, history, files, Goes, Enters
<1>8. Addressed'
  BY <1>1, <1>3 DEF IInv, Addressed, Known, Claiming, Sessions, Tests, None, Starting, Waiting, Holding,
      Leaving,
      BeginReplay, hosting, history, files, Goes, Enters
<1>9. Released'
  <2> SUFFICES ASSUME NEW d \in Callers, request'[d].at \in Leaving PROVE Dealt(request[d])'
    BY DEF Released
  <2>1. request'[d] = request[d]
    BY <1>1, <1>3 DEF Leaving, Waiting
  <2>2. request[d].of \in Sessions /\ request[d].of # started + 1 /\ Dealt(request[d])
    BY <2>1, <1>1, <1>3 DEF IInv, Released, Addressed, Sessions
  <2> QED BY <2>1, <2>2, <1>1, <1>3 DEF Dealt, IInv, BeginReplay, hosting, history, files, Goes, Enters
<1>10. OnlyTheHostRecords'
  BY <1>1, <1>3 DEF IInv, Known, Claiming, Released, Dealt, OnlyTheHostRecords, Sessions, Busy, None,
      Starting, Waiting,
      Holding, Leaving, BeginReplay, hosting, history, files, Goes, Enters
<1>11. TypedFiles'
  BY <1>1, <1>3 DEF IInv, TypedFiles, Script, Sessions, BeginReplay, hosting, history, files, Goes, Enters
<1>12. ReplaysWhatWasRepaired'
  <2> SUFFICES ASSUME NEW d \in Callers, request'[d].at = "replaying", request'[d].of = current
               PROVE  UpToDate(current)'
    BY DEF ReplaysWhatWasRepaired, IInv, BeginReplay, hosting, history, files, Goes, Enters
  <2>1. request'[d] = request[d]
    BY <1>1, <1>3 DEF Waiting
  <2>2. current \in Sessions /\ lock[current] = d /\ UpToDate(current)
    BY <2>1, Replaying
  <2> QED BY <1>1, <1>3, <2>1, <2>2 DEF Script, UpToDate, IInv, BeginReplay, hosting, history, files, Goes,
      Enters
<1> QED BY <1>4, <1>5, <1>6, <1>7, <1>8, <1>9, <1>10, <1>11, <1>12 DEF IInv

LEMMA ReplaySavedIInv == ASSUME IInv, NEW c \in Callers, ReplaySaved(c) PROVE IInv'
<1>1. /\ current \in {None} \cup Sessions /\ started \in 0..MaxSessions /\ MaxSessions \in Nat
      /\ agentLock \in Callers \cup {Nobody} /\ lock \in [Sessions -> Callers \cup {Nobody}]
      /\ state \in [Sessions -> States] /\ Nobody \notin Callers
  BY HostAssumption DEF IInv, Types
<1>2. Moved(c, "replaying") /\ "replaying" \in Places
  BY DEF ReplaySaved, Goes, Starting, Waiting, Holding, Leaving, Places
<1>3. /\ request' \in [Callers -> Request]
      /\ request'[c].at = "replaying" /\ request'[c].of = request[c].of /\ request'[c].test = request[c].test
      /\ \A d \in Callers : d # c => request'[d] = request[d]
  BY ONLY IInv, <1>2, Moves DEF IInv
<1>4. Types'
  BY <1>1, <1>3, HostAssumption, SMTT(30) DEF Claiming, Addressed, Sessions, Tests, Texts, Typed, Missing,
      None, States, Script, Starting,
      Waiting, Holding, Leaving, Places, IInv, Types, Request, ReplaySaved, hosting, history, files, Goes, Enters
<1>5. LocksAreHeld'
  <2> SUFFICES ASSUME NEW d \in Callers
               PROVE  /\ agentLock' = d <=> request'[d].at \in Starting
                      /\ \A s \in Sessions : lock'[s] = d <=> request'[d].at \in Holding /\ request'[d].of = s
    BY DEF LocksAreHeld
  <2>1. CASE d = c
    BY <2>1, <1>1, <1>3, SMTT(20) DEF LocksAreHeld, Addressed, Sessions, Starting, Waiting, Holding,
        Leaving, IInv, ReplaySaved, hosting, history, files, Goes, Enters
  <2>2. CASE d # c
    BY <2>2, <1>1, <1>3, SMTT(20) DEF LocksAreHeld, Starting, Holding, IInv, ReplaySaved, hosting, history,
        files, Goes, Enters
  <2> QED BY <2>1, <2>2
<1>6. Known'
  BY <1>1, <1>3 DEF IInv, Known, Claiming, Sessions, None, Starting, Waiting, Holding, Leaving,
      ReplaySaved, hosting, history,
      files, Goes, Enters
<1>7. Claiming'
  BY <1>1, <1>3 DEF IInv, LocksAreHeld, Claiming, Busy, None, States, Starting, Waiting, Holding, Leaving,
      ReplaySaved, hosting, history, files, Goes, Enters
<1>8. Addressed'
  BY <1>1, <1>3 DEF IInv, Addressed, Known, Claiming, Sessions, Tests, None, Starting, Waiting, Holding,
      Leaving,
      ReplaySaved, hosting, history, files, Goes, Enters
<1>9. Released'
  <2> SUFFICES ASSUME NEW d \in Callers, request'[d].at \in Leaving PROVE Dealt(request[d])'
    BY DEF Released
  <2>1. request'[d] = request[d]
    BY <1>1, <1>3 DEF Leaving, Waiting
  <2>2. request[d].of \in Sessions /\ request[d].of # started + 1 /\ Dealt(request[d])
    BY <2>1, <1>1, <1>3 DEF IInv, Released, Addressed, Sessions
  <2> QED BY <2>1, <2>2, <1>1, <1>3 DEF Dealt, IInv, ReplaySaved, hosting, history, files, Goes, Enters
<1>10. OnlyTheHostRecords'
  BY <1>1, <1>3 DEF IInv, Known, Claiming, Released, Dealt, OnlyTheHostRecords, Sessions, Busy, None,
      Starting, Waiting,
      Holding, Leaving, ReplaySaved, hosting, history, files, Goes, Enters
<1>11. TypedFiles'
  BY <1>1, <1>3 DEF IInv, TypedFiles, Script, Sessions, ReplaySaved, hosting, history, files, Goes, Enters
<1>12. ReplaysWhatWasRepaired'
  <2>1. UNCHANGED <<current, changes, coherent, typed, file>>
    BY DEF ReplaySaved, hosting, history, files
  <2> SUFFICES ASSUME NEW d \in Callers, request'[d].at = "replaying", request'[d].of = current
               PROVE  UpToDate(current)
    BY <2>1 DEF ReplaysWhatWasRepaired, UpToDate, Script
  <2>2. CASE d = c
    <3>1. current \in Sessions /\ typed[current]
      BY <2>2, <1>1, <1>3 DEF IInv, Addressed, Waiting, Sessions, ReplaySaved, Enters
    <3> QED BY <3>1 DEF IInv, TypedFiles, UpToDate, Script
  <2>3. CASE d # c
    BY <2>3, <1>3, Replaying
  <2> QED BY <2>2, <2>3
<1> QED BY <1>4, <1>5, <1>6, <1>7, <1>8, <1>9, <1>10, <1>11, <1>12 DEF IInv

LEMMA RegenerateIInv == ASSUME IInv, NEW c \in Callers, Regenerate(c) PROVE IInv'
<1>1. /\ current \in {None} \cup Sessions /\ started \in 0..MaxSessions /\ MaxSessions \in Nat
      /\ agentLock \in Callers \cup {Nobody} /\ lock \in [Sessions -> Callers \cup {Nobody}]
      /\ state \in [Sessions -> States] /\ Nobody \notin Callers
  BY HostAssumption DEF IInv, Types
<1>2. Moved(c, "replaying") /\ "replaying" \in Places
  BY DEF Regenerate, Goes, Starting, Waiting, Holding, Leaving, Places
<1>3. /\ request' \in [Callers -> Request]
      /\ request'[c].at = "replaying" /\ request'[c].of = request[c].of /\ request'[c].test = request[c].test
      /\ \A d \in Callers : d # c => request'[d] = request[d]
  BY ONLY IInv, <1>2, Moves DEF IInv
<1>4. Types'
  BY <1>1, <1>3, HostAssumption, SMTT(30) DEF Claiming, Addressed, Sessions, Tests, Texts, Typed, Missing,
      None, States, Script, Starting,
      Waiting, Holding, Leaving, Places, IInv, Types, Request, Regenerate, hosting, history, files, Goes
<1>5. LocksAreHeld'
  <2> SUFFICES ASSUME NEW d \in Callers
               PROVE  /\ agentLock' = d <=> request'[d].at \in Starting
                      /\ \A s \in Sessions : lock'[s] = d <=> request'[d].at \in Holding /\ request'[d].of = s
    BY DEF LocksAreHeld
  <2>1. CASE d = c
    BY <2>1, <1>1, <1>3, SMTT(20) DEF LocksAreHeld, Addressed, Sessions, Starting, Waiting, Holding,
        Leaving, IInv, Regenerate, hosting, history, files, Goes
  <2>2. CASE d # c
    BY <2>2, <1>1, <1>3, SMTT(20) DEF LocksAreHeld, Starting, Holding, IInv, Regenerate, hosting, history,
        files, Goes
  <2> QED BY <2>1, <2>2
<1>6. Known'
  BY <1>1, <1>3 DEF IInv, Known, Claiming, Sessions, None, Starting, Waiting, Holding, Leaving, Regenerate,
      hosting, history,
      files, Goes
<1>7. Claiming'
  BY <1>1, <1>3 DEF IInv, LocksAreHeld, Claiming, Busy, None, States, Starting, Waiting, Holding, Leaving,
      Regenerate,
      hosting, history, files, Goes
<1>8. Addressed'
  BY <1>1, <1>3 DEF IInv, Addressed, Known, Claiming, Sessions, Tests, None, Starting, Waiting, Holding,
      Leaving,
      Regenerate, hosting, history, files, Goes
<1>9. Released'
  <2> SUFFICES ASSUME NEW d \in Callers, request'[d].at \in Leaving PROVE Dealt(request[d])'
    BY DEF Released
  <2>1. request'[d] = request[d]
    BY <1>1, <1>3 DEF Leaving, Waiting
  <2>2. request[d].of \in Sessions /\ request[d].of # started + 1 /\ Dealt(request[d])
    BY <2>1, <1>1, <1>3 DEF IInv, Released, Addressed, Sessions
  <2> QED BY <2>1, <2>2, <1>1, <1>3 DEF Dealt, IInv, Regenerate, hosting, history, files, Goes
<1>10. OnlyTheHostRecords'
  BY <1>1, <1>3 DEF IInv, Known, Claiming, Released, Dealt, OnlyTheHostRecords, Sessions, Busy, None,
      Starting, Waiting,
      Holding, Leaving, Regenerate, hosting, history, files, Goes
<1>11. TypedFiles'
  BY <1>1, <1>3 DEF IInv, TypedFiles, Script, Sessions, Regenerate, hosting, history, files, Goes
<1>12. ReplaysWhatWasRepaired'
  <2> SUFFICES ASSUME NEW d \in Callers, request'[d].at = "replaying", request'[d].of = current
               PROVE  UpToDate(current)'
    BY DEF ReplaysWhatWasRepaired, Regenerate, hosting, history
  <2>1. request[c].of = current /\ current \in Sessions
    BY <1>1 DEF IInv, Addressed, Holding, Sessions, Regenerate, CanGenerate
  <2>2. file'[current] = Script(current)
    BY <2>1 DEF IInv, Types, Regenerate
  <2>3. UNCHANGED <<current, changes, typed>>
    BY DEF Regenerate, hosting, history
  <2> QED BY <2>2, <2>3 DEF UpToDate, Script
<1> QED BY <1>4, <1>5, <1>6, <1>7, <1>8, <1>9, <1>10, <1>11, <1>12 DEF IInv

LEMMA ReplayAsItIsIInv == ASSUME IInv, NEW c \in Callers, ReplayAsItIs(c) PROVE IInv'
<1>1. /\ current \in {None} \cup Sessions /\ started \in 0..MaxSessions /\ MaxSessions \in Nat
      /\ agentLock \in Callers \cup {Nobody} /\ lock \in [Sessions -> Callers \cup {Nobody}]
      /\ state \in [Sessions -> States] /\ Nobody \notin Callers
  BY HostAssumption DEF IInv, Types
<1>2. Moved(c, "replaying") /\ "replaying" \in Places
  BY DEF ReplayAsItIs, Goes, Starting, Waiting, Holding, Leaving, Places
<1>3. /\ request' \in [Callers -> Request]
      /\ request'[c].at = "replaying" /\ request'[c].of = request[c].of /\ request'[c].test = request[c].test
      /\ \A d \in Callers : d # c => request'[d] = request[d]
  BY ONLY IInv, <1>2, Moves DEF IInv
<1>4. Types'
  BY <1>1, <1>3, HostAssumption, SMTT(30) DEF Claiming, Addressed, Sessions, Tests, Texts, Typed, Missing,
      None, States, Script, Starting,
      Waiting, Holding, Leaving, Places, IInv, Types, Request, ReplayAsItIs, hosting, history, files, Goes
<1>5. LocksAreHeld'
  <2> SUFFICES ASSUME NEW d \in Callers
               PROVE  /\ agentLock' = d <=> request'[d].at \in Starting
                      /\ \A s \in Sessions : lock'[s] = d <=> request'[d].at \in Holding /\ request'[d].of = s
    BY DEF LocksAreHeld
  <2>1. CASE d = c
    BY <2>1, <1>1, <1>3, SMTT(20) DEF LocksAreHeld, Addressed, Sessions, Starting, Waiting, Holding,
        Leaving, IInv, ReplayAsItIs, hosting, history, files, Goes
  <2>2. CASE d # c
    BY <2>2, <1>1, <1>3, SMTT(20) DEF LocksAreHeld, Starting, Holding, IInv, ReplayAsItIs, hosting,
        history, files, Goes
  <2> QED BY <2>1, <2>2
<1>6. Known'
  BY <1>1, <1>3 DEF IInv, Known, Claiming, Sessions, None, Starting, Waiting, Holding, Leaving, ReplayAsItIs,
      hosting, history, files, Goes
<1>7. Claiming'
  BY <1>1, <1>3 DEF IInv, LocksAreHeld, Claiming, Busy, None, States, Starting, Waiting, Holding, Leaving,
      ReplayAsItIs, hosting, history, files, Goes
<1>8. Addressed'
  BY <1>1, <1>3 DEF IInv, Addressed, Known, Claiming, Sessions, Tests, None, Starting, Waiting, Holding,
      Leaving,
      ReplayAsItIs, hosting, history, files, Goes
<1>9. Released'
  <2> SUFFICES ASSUME NEW d \in Callers, request'[d].at \in Leaving PROVE Dealt(request[d])'
    BY DEF Released
  <2>1. request'[d] = request[d]
    BY <1>1, <1>3 DEF Leaving, Waiting
  <2>2. request[d].of \in Sessions /\ request[d].of # started + 1 /\ Dealt(request[d])
    BY <2>1, <1>1, <1>3 DEF IInv, Released, Addressed, Sessions
  <2> QED BY <2>1, <2>2, <1>1, <1>3 DEF Dealt, IInv, ReplayAsItIs, hosting, history, files, Goes
<1>10. OnlyTheHostRecords'
  BY <1>1, <1>3 DEF IInv, Known, Claiming, Released, Dealt, OnlyTheHostRecords, Sessions, Busy, None,
      Starting, Waiting,
      Holding, Leaving, ReplayAsItIs, hosting, history, files, Goes
<1>11. TypedFiles'
  BY <1>1, <1>3 DEF IInv, TypedFiles, Script, Sessions, ReplayAsItIs, hosting, history, files, Goes
<1>12. ReplaysWhatWasRepaired'
  <2>1. UNCHANGED <<current, changes, coherent, typed, file>>
    BY DEF ReplayAsItIs, hosting, history, files
  <2> SUFFICES ASSUME NEW d \in Callers, request'[d].at = "replaying", request'[d].of = current
               PROVE  UpToDate(current)
    BY <2>1 DEF ReplaysWhatWasRepaired, UpToDate, Script
  <2>2. CASE d = c
    <3>1. request[c].of = current /\ current \in Sessions /\ ~coherent[current]
      BY <2>2, <1>1, <1>3 DEF IInv, Addressed, Holding, Sessions, ReplayAsItIs, CanGenerate
    <3> QED BY <3>1 DEF IInv, TypedFiles, UpToDate, Script
  <2>3. CASE d # c
    BY <2>3, <1>3, Replaying
  <2> QED BY <2>2, <2>3
<1> QED BY <1>4, <1>5, <1>6, <1>7, <1>8, <1>9, <1>10, <1>11, <1>12 DEF IInv

LEMMA NothingToReplayIInv == ASSUME IInv, NEW c \in Callers, NothingToReplay(c) PROVE IInv'
<1>1. /\ current \in {None} \cup Sessions /\ started \in 0..MaxSessions /\ MaxSessions \in Nat
      /\ agentLock \in Callers \cup {Nobody} /\ lock \in [Sessions -> Callers \cup {Nobody}]
      /\ state \in [Sessions -> States] /\ Nobody \notin Callers
  BY HostAssumption DEF IInv, Types
<1>2. /\ request' \in [Callers -> Request] /\ asked' \in 0..MaxRequests
      /\ request'[c].at = "idle"
      /\ \A d \in Callers : d # c => request'[d] = request[d]
  BY Rests DEF IInv, NothingToReplay, AnsweredUnlocked
<1>3. Types'
  <2>1. UNCHANGED <<current, started, agentLock, state, pump, stopping, changes, coherent, typed, file,
        library, forgotten, unstopped>>
    BY <1>2 DEF NothingToReplay, hosting, history, files, AnsweredUnlocked, Answered
  <2>2. lock' \in [Sessions -> Callers \cup {Nobody}]
    BY <1>1 DEF NothingToReplay, AnsweredUnlocked
  <2> QED BY <1>2, <2>1, <2>2 DEF IInv, Types
<1>4. LocksAreHeld'
  <2> SUFFICES ASSUME NEW d \in Callers
               PROVE  /\ agentLock' = d <=> request'[d].at \in Starting
                      /\ \A s \in Sessions : lock'[s] = d <=> request'[d].at \in Holding /\ request'[d].of = s
    BY DEF LocksAreHeld
  <2>1. CASE d = c
    BY <2>1, <1>1, <1>2, SMTT(20) DEF LocksAreHeld, Addressed, Sessions, Starting, Waiting, Holding,
        Leaving, IInv, NothingToReplay, hosting, history, files, AnsweredUnlocked
  <2>2. CASE d # c
    BY <2>2, <1>1, <1>2, SMTT(20) DEF LocksAreHeld, Starting, Holding, IInv, NothingToReplay, hosting,
        history, files, AnsweredUnlocked
  <2> QED BY <2>1, <2>2
<1>5. Known'
  BY <1>1, <1>2 DEF IInv, Known, Claiming, Sessions, None, Starting, Waiting, Holding, Leaving,
      NothingToReplay,
      hosting, history, files, AnsweredUnlocked
<1>6. Claiming'
  BY <1>1, <1>2 DEF IInv, LocksAreHeld, Claiming, Busy, None, States, Starting, Waiting, Holding, Leaving,
      NothingToReplay, hosting, history, files, AnsweredUnlocked
<1>7. Addressed'
  BY <1>1, <1>2 DEF IInv, Addressed, Known, Claiming, Sessions, Tests, None, Starting, Waiting, Holding,
      Leaving,
      NothingToReplay, hosting, history, files, AnsweredUnlocked
<1>8. Released'
  <2> SUFFICES ASSUME NEW d \in Callers, request'[d].at \in Leaving PROVE Dealt(request[d])'
    BY DEF Released
  <2>1. request'[d] = request[d]
    BY <1>1, <1>2 DEF Leaving, Waiting
  <2>2. request[d].of \in Sessions /\ request[d].of # started + 1 /\ Dealt(request[d])
    BY <2>1, <1>1, <1>2 DEF IInv, Released, Addressed, Sessions
  <2> QED BY <2>1, <2>2, <1>1, <1>2 DEF Dealt, IInv, NothingToReplay, hosting, history, files,
      AnsweredUnlocked
<1>9. OnlyTheHostRecords'
  BY <1>1, <1>2 DEF IInv, Known, Claiming, Released, Dealt, OnlyTheHostRecords, Sessions, Busy, None,
      Starting, Waiting,
      Holding, Leaving, NothingToReplay, hosting, history, files, AnsweredUnlocked
<1>10. TypedFiles'
  BY <1>1, <1>2 DEF IInv, TypedFiles, Script, Sessions, NothingToReplay, hosting, history, files,
      AnsweredUnlocked
<1>11. ReplaysWhatWasRepaired'
  <2> SUFFICES ASSUME NEW d \in Callers, request'[d].at = "replaying", request'[d].of = current
               PROVE  UpToDate(current)'
    BY DEF ReplaysWhatWasRepaired, IInv, NothingToReplay, hosting, history, files, AnsweredUnlocked
  <2>1. request'[d] = request[d]
    BY <1>1, <1>2 DEF Waiting
  <2>2. current \in Sessions /\ lock[current] = d /\ UpToDate(current)
    BY <2>1, Replaying
  <2> QED BY <1>1, <1>2, <2>1, <2>2 DEF Script, UpToDate, IInv, NothingToReplay, hosting, history, files,
      AnsweredUnlocked
<1> QED BY <1>3, <1>4, <1>5, <1>6, <1>7, <1>8, <1>9, <1>10, <1>11 DEF IInv

LEMMA ReplayedIInv == ASSUME IInv, NEW c \in Callers, Replayed(c) PROVE IInv'
<1>1. /\ current \in {None} \cup Sessions /\ started \in 0..MaxSessions /\ MaxSessions \in Nat
      /\ agentLock \in Callers \cup {Nobody} /\ lock \in [Sessions -> Callers \cup {Nobody}]
      /\ state \in [Sessions -> States] /\ Nobody \notin Callers
  BY HostAssumption DEF IInv, Types
<1>2. /\ request' \in [Callers -> Request] /\ asked' \in 0..MaxRequests
      /\ request'[c].at = "idle"
      /\ \A d \in Callers : d # c => request'[d] = request[d]
  BY Rests DEF IInv, Replayed, AnsweredUnlocked
<1>3. Types'
  <2>1. UNCHANGED <<current, started, agentLock, state, pump, stopping, changes, coherent, typed, file,
        library, forgotten, unstopped>>
    BY <1>2 DEF Replayed, hosting, history, files, AnsweredUnlocked, Answered
  <2>2. lock' \in [Sessions -> Callers \cup {Nobody}]
    BY <1>1 DEF Replayed, AnsweredUnlocked
  <2> QED BY <1>2, <2>1, <2>2 DEF IInv, Types
<1>4. LocksAreHeld'
  <2> SUFFICES ASSUME NEW d \in Callers
               PROVE  /\ agentLock' = d <=> request'[d].at \in Starting
                      /\ \A s \in Sessions : lock'[s] = d <=> request'[d].at \in Holding /\ request'[d].of = s
    BY DEF LocksAreHeld
  <2>1. CASE d = c
    BY <2>1, <1>1, <1>2, SMTT(20) DEF LocksAreHeld, Addressed, Sessions, Starting, Waiting, Holding,
        Leaving, IInv, Replayed, hosting, history, files, AnsweredUnlocked
  <2>2. CASE d # c
    BY <2>2, <1>1, <1>2, SMTT(20) DEF LocksAreHeld, Starting, Holding, IInv, Replayed, hosting, history,
        files, AnsweredUnlocked
  <2> QED BY <2>1, <2>2
<1>5. Known'
  BY <1>1, <1>2 DEF IInv, Known, Claiming, Sessions, None, Starting, Waiting, Holding, Leaving, Replayed,
      hosting, history,
      files, AnsweredUnlocked
<1>6. Claiming'
  BY <1>1, <1>2 DEF IInv, LocksAreHeld, Claiming, Busy, None, States, Starting, Waiting, Holding, Leaving,
      Replayed,
      hosting, history, files, AnsweredUnlocked
<1>7. Addressed'
  BY <1>1, <1>2 DEF IInv, Addressed, Known, Claiming, Sessions, Tests, None, Starting, Waiting, Holding,
      Leaving,
      Replayed, hosting, history, files, AnsweredUnlocked
<1>8. Released'
  <2> SUFFICES ASSUME NEW d \in Callers, request'[d].at \in Leaving PROVE Dealt(request[d])'
    BY DEF Released
  <2>1. request'[d] = request[d]
    BY <1>1, <1>2 DEF Leaving, Waiting
  <2>2. request[d].of \in Sessions /\ request[d].of # started + 1 /\ Dealt(request[d])
    BY <2>1, <1>1, <1>2 DEF IInv, Released, Addressed, Sessions
  <2> QED BY <2>1, <2>2, <1>1, <1>2 DEF Dealt, IInv, Replayed, hosting, history, files, AnsweredUnlocked
<1>9. OnlyTheHostRecords'
  BY <1>1, <1>2 DEF IInv, Known, Claiming, Released, Dealt, OnlyTheHostRecords, Sessions, Busy, None,
      Starting, Waiting,
      Holding, Leaving, Replayed, hosting, history, files, AnsweredUnlocked
<1>10. TypedFiles'
  BY <1>1, <1>2 DEF IInv, TypedFiles, Script, Sessions, Replayed, hosting, history, files, AnsweredUnlocked
<1>11. ReplaysWhatWasRepaired'
  <2> SUFFICES ASSUME NEW d \in Callers, request'[d].at = "replaying", request'[d].of = current
               PROVE  UpToDate(current)'
    BY DEF ReplaysWhatWasRepaired, IInv, Replayed, hosting, history, files, AnsweredUnlocked
  <2>1. request'[d] = request[d]
    BY <1>1, <1>2 DEF Waiting
  <2>2. current \in Sessions /\ lock[current] = d /\ UpToDate(current)
    BY <2>1, Replaying
  <2> QED BY <1>1, <1>2, <2>1, <2>2 DEF Script, UpToDate, IInv, Replayed, hosting, history, files,
      AnsweredUnlocked
<1> QED BY <1>3, <1>4, <1>5, <1>6, <1>7, <1>8, <1>9, <1>10, <1>11 DEF IInv

LEMMA BeginKeepIInv == ASSUME IInv, NEW c \in Callers, BeginKeep(c) PROVE IInv'
<1>1. /\ current \in {None} \cup Sessions /\ started \in 0..MaxSessions /\ MaxSessions \in Nat
      /\ agentLock \in Callers \cup {Nobody} /\ lock \in [Sessions -> Callers \cup {Nobody}]
      /\ state \in [Sessions -> States] /\ Nobody \notin Callers
  BY HostAssumption DEF IInv, Types
<1>2. Moved(c, "reserve") /\ "reserve" \in Places
  BY DEF BeginKeep, Goes, Starting, Waiting, Holding, Leaving, Places
<1>3. /\ request' \in [Callers -> Request]
      /\ request'[c].at = "reserve" /\ request'[c].of = request[c].of /\ request'[c].test = request[c].test
      /\ \A d \in Callers : d # c => request'[d] = request[d]
  BY ONLY IInv, <1>2, Moves DEF IInv
<1>4. Types'
  <2>1. UNCHANGED <<current, started, agentLock, state, pump, stopping, changes, coherent, typed, file,
        library, asked, forgotten, unstopped>>
    BY <1>3 DEF BeginKeep, hosting, history, files, Goes
  <2>2. lock' \in [Sessions -> Callers \cup {Nobody}]
    BY <1>1 DEF BeginKeep
  <2> QED BY <1>3, <2>1, <2>2 DEF IInv, Types
<1>5. LocksAreHeld'
  <2> SUFFICES ASSUME NEW d \in Callers
               PROVE  /\ agentLock' = d <=> request'[d].at \in Starting
                      /\ \A s \in Sessions : lock'[s] = d <=> request'[d].at \in Holding /\ request'[d].of = s
    BY DEF LocksAreHeld
  <2>1. CASE d = c
    BY <2>1, <1>1, <1>3, SMTT(20) DEF LocksAreHeld, Addressed, Sessions, Starting, Waiting, Holding,
        Leaving, IInv, BeginKeep, hosting, history, files, Goes, Enters
  <2>2. CASE d # c
    BY <2>2, <1>1, <1>3, SMTT(20) DEF LocksAreHeld, Starting, Holding, IInv, BeginKeep, hosting, history,
        files, Goes, Enters
  <2> QED BY <2>1, <2>2
<1>6. Known'
  BY <1>1, <1>3 DEF IInv, Known, Claiming, Sessions, None, Starting, Waiting, Holding, Leaving, BeginKeep,
      hosting, history,
      files, Goes, Enters
<1>7. Claiming'
  BY <1>1, <1>3 DEF IInv, LocksAreHeld, Claiming, Busy, None, States, Starting, Waiting, Holding, Leaving,
      BeginKeep,
      hosting, history, files, Goes, Enters
<1>8. Addressed'
  BY <1>1, <1>3 DEF IInv, Addressed, Known, Claiming, Sessions, Tests, None, Starting, Waiting, Holding,
      Leaving,
      BeginKeep, hosting, history, files, Goes, Enters
<1>9. Released'
  <2> SUFFICES ASSUME NEW d \in Callers, request'[d].at \in Leaving PROVE Dealt(request[d])'
    BY DEF Released
  <2>1. request'[d] = request[d]
    BY <1>1, <1>3 DEF Leaving, Waiting
  <2>2. request[d].of \in Sessions /\ request[d].of # started + 1 /\ Dealt(request[d])
    BY <2>1, <1>1, <1>3 DEF IInv, Released, Addressed, Sessions
  <2> QED BY <2>1, <2>2, <1>1, <1>3 DEF Dealt, IInv, BeginKeep, hosting, history, files, Goes, Enters
<1>10. OnlyTheHostRecords'
  BY <1>1, <1>3 DEF IInv, Known, Claiming, Released, Dealt, OnlyTheHostRecords, Sessions, Busy, None,
      Starting, Waiting,
      Holding, Leaving, BeginKeep, hosting, history, files, Goes, Enters
<1>11. TypedFiles'
  BY <1>1, <1>3 DEF IInv, TypedFiles, Script, Sessions, BeginKeep, hosting, history, files, Goes, Enters
<1>12. ReplaysWhatWasRepaired'
  <2> SUFFICES ASSUME NEW d \in Callers, request'[d].at = "replaying", request'[d].of = current
               PROVE  UpToDate(current)'
    BY DEF ReplaysWhatWasRepaired, IInv, BeginKeep, hosting, history, files, Goes, Enters
  <2>1. request'[d] = request[d]
    BY <1>1, <1>3 DEF Waiting
  <2>2. current \in Sessions /\ lock[current] = d /\ UpToDate(current)
    BY <2>1, Replaying
  <2> QED BY <1>1, <1>3, <2>1, <2>2 DEF Script, UpToDate, IInv, BeginKeep, hosting, history, files, Goes,
      Enters
<1> QED BY <1>4, <1>5, <1>6, <1>7, <1>8, <1>9, <1>10, <1>11, <1>12 DEF IInv

LEMMA ReserveIInv == ASSUME IInv, NEW c \in Callers, Reserve(c) PROVE IInv'
<1>1. /\ current \in {None} \cup Sessions /\ started \in 0..MaxSessions /\ MaxSessions \in Nat
      /\ agentLock \in Callers \cup {Nobody} /\ lock \in [Sessions -> Callers \cup {Nobody}]
      /\ state \in [Sessions -> States] /\ Nobody \notin Callers
  BY HostAssumption DEF IInv, Types
<1>2. /\ request' \in [Callers -> Request]
      /\ request'[c].at = "make" /\ request'[c].of = request[c].of /\ request'[c].test \in Tests
      /\ \A d \in Callers : d # c => request'[d] = request[d]
  BY DEF IInv, Types, Request, Reserve, Free, Places, Holding
<1>3. Types'
  BY <1>1, <1>2, HostAssumption, SMTT(30) DEF Claiming, Addressed, Sessions, Tests, Texts, Typed, Missing,
      None, States, Script, Starting,
      Waiting, Holding, Leaving, Places, IInv, Types, Request, Reserve, hosting, history, files, Free
<1>4. LocksAreHeld'
  <2> SUFFICES ASSUME NEW d \in Callers
               PROVE  /\ agentLock' = d <=> request'[d].at \in Starting
                      /\ \A s \in Sessions : lock'[s] = d <=> request'[d].at \in Holding /\ request'[d].of = s
    BY DEF LocksAreHeld
  <2>1. CASE d = c
    BY <2>1, <1>1, <1>2, SMTT(20) DEF LocksAreHeld, Addressed, Sessions, Starting, Waiting, Holding,
        Leaving, IInv, Reserve, hosting, history, files, Free
  <2>2. CASE d # c
    BY <2>2, <1>1, <1>2, SMTT(20) DEF LocksAreHeld, Starting, Holding, IInv, Reserve, hosting, history,
        files, Free
  <2> QED BY <2>1, <2>2
<1>5. Known'
  BY <1>1, <1>2 DEF IInv, Known, Claiming, Sessions, None, Starting, Waiting, Holding, Leaving, Reserve,
      hosting, history,
      files, Free
<1>6. Claiming'
  BY <1>1, <1>2 DEF IInv, LocksAreHeld, Claiming, Busy, None, States, Starting, Waiting, Holding, Leaving,
      Reserve,
      hosting, history, files, Free
<1>7. Addressed'
  BY <1>1, <1>2 DEF IInv, Addressed, Known, Claiming, Sessions, Tests, None, Starting, Waiting, Holding,
      Leaving,
      Reserve, hosting, history, files, Free
<1>8. Released'
  <2> SUFFICES ASSUME NEW d \in Callers, request'[d].at \in Leaving PROVE Dealt(request[d])'
    BY DEF Released
  <2>1. request'[d] = request[d]
    BY <1>1, <1>2 DEF Leaving, Waiting
  <2>2. request[d].of \in Sessions /\ request[d].of # started + 1 /\ Dealt(request[d])
    BY <2>1, <1>1, <1>2 DEF IInv, Released, Addressed, Sessions
  <2> QED BY <2>1, <2>2, <1>1, <1>2 DEF Dealt, IInv, Reserve, hosting, history, files, Free
<1>9. OnlyTheHostRecords'
  BY <1>1, <1>2 DEF IInv, Known, Claiming, Released, Dealt, OnlyTheHostRecords, Sessions, Busy, None,
      Starting, Waiting,
      Holding, Leaving, Reserve, hosting, history, files, Free
<1>10. TypedFiles'
  BY <1>1, <1>2 DEF IInv, TypedFiles, Script, Sessions, Reserve, hosting, history, files, Free
<1>11. ReplaysWhatWasRepaired'
  <2> SUFFICES ASSUME NEW d \in Callers, request'[d].at = "replaying", request'[d].of = current
               PROVE  UpToDate(current)'
    BY DEF ReplaysWhatWasRepaired, IInv, Reserve, hosting, history, files, Free
  <2>1. request'[d] = request[d]
    BY <1>1, <1>2 DEF Waiting
  <2>2. current \in Sessions /\ lock[current] = d /\ UpToDate(current)
    BY <2>1, Replaying
  <2> QED BY <1>1, <1>2, <2>1, <2>2 DEF Script, UpToDate, IInv, Reserve, hosting, history, files, Free
<1> QED BY <1>3, <1>4, <1>5, <1>6, <1>7, <1>8, <1>9, <1>10, <1>11 DEF IInv

LEMMA MakeDirectoryIInv == ASSUME IInv, NEW c \in Callers, MakeDirectory(c) PROVE IInv'
<1>1. /\ current \in {None} \cup Sessions /\ started \in 0..MaxSessions /\ MaxSessions \in Nat
      /\ agentLock \in Callers \cup {Nobody} /\ lock \in [Sessions -> Callers \cup {Nobody}]
      /\ state \in [Sessions -> States] /\ Nobody \notin Callers
  BY HostAssumption DEF IInv, Types
<1>2. Moved(c, "write") /\ "write" \in Places
  BY DEF MakeDirectory, Goes, Starting, Waiting, Holding, Leaving, Places
<1>3. /\ request' \in [Callers -> Request]
      /\ request'[c].at = "write" /\ request'[c].of = request[c].of /\ request'[c].test = request[c].test
      /\ \A d \in Callers : d # c => request'[d] = request[d]
  BY ONLY IInv, <1>2, Moves DEF IInv
<1>4. Types'
  <2>1. library' \in [Tests -> [made : BOOLEAN, text : Texts, proved : BOOLEAN]]
    BY <1>1, <1>3 DEF Types, Addressed, IInv, MakeDirectory, hosting, history, files, Goes
  <2> QED BY <1>1, <1>3, <2>1, HostAssumption, SMTT(30) DEF Claiming, Addressed, Sessions, Tests, Texts,
      Typed, Missing, None, States, Script, Starting,
        Waiting, Holding, Leaving, Places, IInv, Types, Request, MakeDirectory, hosting, history, files, Goes
<1>5. LocksAreHeld'
  <2> SUFFICES ASSUME NEW d \in Callers
               PROVE  /\ agentLock' = d <=> request'[d].at \in Starting
                      /\ \A s \in Sessions : lock'[s] = d <=> request'[d].at \in Holding /\ request'[d].of = s
    BY DEF LocksAreHeld
  <2>1. CASE d = c
    BY <2>1, <1>1, <1>3, SMTT(20) DEF LocksAreHeld, Addressed, Sessions, Starting, Waiting, Holding,
        Leaving, IInv, MakeDirectory, hosting, history, files, Goes
  <2>2. CASE d # c
    BY <2>2, <1>1, <1>3, SMTT(20) DEF LocksAreHeld, Starting, Holding, IInv, MakeDirectory, hosting,
        history, files, Goes
  <2> QED BY <2>1, <2>2
<1>6. Known'
  BY <1>1, <1>3 DEF IInv, Known, Claiming, Sessions, None, Starting, Waiting, Holding, Leaving, MakeDirectory,
      hosting, history, files, Goes
<1>7. Claiming'
  BY <1>1, <1>3 DEF IInv, LocksAreHeld, Claiming, Busy, None, States, Starting, Waiting, Holding, Leaving,
      MakeDirectory, hosting, history, files, Goes
<1>8. Addressed'
  BY <1>1, <1>3 DEF IInv, Addressed, Known, Claiming, Sessions, Tests, None, Starting, Waiting, Holding,
      Leaving,
      MakeDirectory, hosting, history, files, Goes
<1>9. Released'
  <2> SUFFICES ASSUME NEW d \in Callers, request'[d].at \in Leaving PROVE Dealt(request[d])'
    BY DEF Released
  <2>1. request'[d] = request[d]
    BY <1>1, <1>3 DEF Leaving, Waiting
  <2>2. request[d].of \in Sessions /\ request[d].of # started + 1 /\ Dealt(request[d])
    BY <2>1, <1>1, <1>3 DEF IInv, Released, Addressed, Sessions
  <2> QED BY <2>1, <2>2, <1>1, <1>3 DEF Dealt, IInv, MakeDirectory, hosting, history, files, Goes
<1>10. OnlyTheHostRecords'
  BY <1>1, <1>3 DEF IInv, Known, Claiming, Released, Dealt, OnlyTheHostRecords, Sessions, Busy, None,
      Starting, Waiting,
      Holding, Leaving, MakeDirectory, hosting, history, files, Goes
<1>11. TypedFiles'
  BY <1>1, <1>3 DEF IInv, TypedFiles, Script, Sessions, MakeDirectory, hosting, history, files, Goes
<1>12. ReplaysWhatWasRepaired'
  <2> SUFFICES ASSUME NEW d \in Callers, request'[d].at = "replaying", request'[d].of = current
               PROVE  UpToDate(current)'
    BY DEF ReplaysWhatWasRepaired, IInv, MakeDirectory, hosting, history, files, Goes
  <2>1. request'[d] = request[d]
    BY <1>1, <1>3 DEF Waiting
  <2>2. current \in Sessions /\ lock[current] = d /\ UpToDate(current)
    BY <2>1, Replaying
  <2> QED BY <1>1, <1>3, <2>1, <2>2 DEF Script, UpToDate, IInv, MakeDirectory, hosting, history, files, Goes
<1> QED BY <1>4, <1>5, <1>6, <1>7, <1>8, <1>9, <1>10, <1>11, <1>12 DEF IInv

LEMMA DirectoryTakenIInv == ASSUME IInv, NEW c \in Callers, DirectoryTaken(c) PROVE IInv'
<1>1. /\ current \in {None} \cup Sessions /\ started \in 0..MaxSessions /\ MaxSessions \in Nat
      /\ agentLock \in Callers \cup {Nobody} /\ lock \in [Sessions -> Callers \cup {Nobody}]
      /\ state \in [Sessions -> States] /\ Nobody \notin Callers
  BY HostAssumption DEF IInv, Types
<1>2. /\ request' \in [Callers -> Request] /\ asked' \in 0..MaxRequests
      /\ request'[c].at = "idle"
      /\ \A d \in Callers : d # c => request'[d] = request[d]
  BY Rests DEF IInv, DirectoryTaken, AnsweredUnlocked
<1>3. Types'
  <2>1. UNCHANGED <<current, started, agentLock, state, pump, stopping, changes, coherent, typed, file,
        library, forgotten, unstopped>>
    BY <1>2 DEF DirectoryTaken, hosting, history, files, AnsweredUnlocked, Answered
  <2>2. lock' \in [Sessions -> Callers \cup {Nobody}]
    BY <1>1 DEF DirectoryTaken, AnsweredUnlocked
  <2> QED BY <1>2, <2>1, <2>2 DEF IInv, Types
<1>4. LocksAreHeld'
  <2> SUFFICES ASSUME NEW d \in Callers
               PROVE  /\ agentLock' = d <=> request'[d].at \in Starting
                      /\ \A s \in Sessions : lock'[s] = d <=> request'[d].at \in Holding /\ request'[d].of = s
    BY DEF LocksAreHeld
  <2>1. CASE d = c
    BY <2>1, <1>1, <1>2, SMTT(20) DEF LocksAreHeld, Addressed, Sessions, Starting, Waiting, Holding,
        Leaving, IInv, DirectoryTaken, hosting, history, files, AnsweredUnlocked
  <2>2. CASE d # c
    BY <2>2, <1>1, <1>2, SMTT(20) DEF LocksAreHeld, Starting, Holding, IInv, DirectoryTaken, hosting,
        history, files, AnsweredUnlocked
  <2> QED BY <2>1, <2>2
<1>5. Known'
  BY <1>1, <1>2 DEF IInv, Known, Claiming, Sessions, None, Starting, Waiting, Holding, Leaving,
      DirectoryTaken,
      hosting, history, files, AnsweredUnlocked
<1>6. Claiming'
  BY <1>1, <1>2 DEF IInv, LocksAreHeld, Claiming, Busy, None, States, Starting, Waiting, Holding, Leaving,
      DirectoryTaken, hosting, history, files, AnsweredUnlocked
<1>7. Addressed'
  BY <1>1, <1>2 DEF IInv, Addressed, Known, Claiming, Sessions, Tests, None, Starting, Waiting, Holding,
      Leaving,
      DirectoryTaken, hosting, history, files, AnsweredUnlocked
<1>8. Released'
  <2> SUFFICES ASSUME NEW d \in Callers, request'[d].at \in Leaving PROVE Dealt(request[d])'
    BY DEF Released
  <2>1. request'[d] = request[d]
    BY <1>1, <1>2 DEF Leaving, Waiting
  <2>2. request[d].of \in Sessions /\ request[d].of # started + 1 /\ Dealt(request[d])
    BY <2>1, <1>1, <1>2 DEF IInv, Released, Addressed, Sessions
  <2> QED BY <2>1, <2>2, <1>1, <1>2 DEF Dealt, IInv, DirectoryTaken, hosting, history, files, AnsweredUnlocked
<1>9. OnlyTheHostRecords'
  BY <1>1, <1>2 DEF IInv, Known, Claiming, Released, Dealt, OnlyTheHostRecords, Sessions, Busy, None,
      Starting, Waiting,
      Holding, Leaving, DirectoryTaken, hosting, history, files, AnsweredUnlocked
<1>10. TypedFiles'
  BY <1>1, <1>2 DEF IInv, TypedFiles, Script, Sessions, DirectoryTaken, hosting, history, files,
      AnsweredUnlocked
<1>11. ReplaysWhatWasRepaired'
  <2> SUFFICES ASSUME NEW d \in Callers, request'[d].at = "replaying", request'[d].of = current
               PROVE  UpToDate(current)'
    BY DEF ReplaysWhatWasRepaired, IInv, DirectoryTaken, hosting, history, files, AnsweredUnlocked
  <2>1. request'[d] = request[d]
    BY <1>1, <1>2 DEF Waiting
  <2>2. current \in Sessions /\ lock[current] = d /\ UpToDate(current)
    BY <2>1, Replaying
  <2> QED BY <1>1, <1>2, <2>1, <2>2 DEF Script, UpToDate, IInv, DirectoryTaken, hosting, history, files,
      AnsweredUnlocked
<1> QED BY <1>3, <1>4, <1>5, <1>6, <1>7, <1>8, <1>9, <1>10, <1>11 DEF IInv

LEMMA WriteTestIInv == ASSUME IInv, NEW c \in Callers, WriteTest(c) PROVE IInv'
<1>1. /\ current \in {None} \cup Sessions /\ started \in 0..MaxSessions /\ MaxSessions \in Nat
      /\ agentLock \in Callers \cup {Nobody} /\ lock \in [Sessions -> Callers \cup {Nobody}]
      /\ state \in [Sessions -> States] /\ Nobody \notin Callers
  BY HostAssumption DEF IInv, Types
<1>2. Moved(c, "verify") /\ "verify" \in Places
  BY DEF WriteTest, Goes, Starting, Waiting, Holding, Leaving, Places
<1>3. /\ request' \in [Callers -> Request]
      /\ request'[c].at = "verify" /\ request'[c].of = request[c].of /\ request'[c].test = request[c].test
      /\ \A d \in Callers : d # c => request'[d] = request[d]
  BY ONLY IInv, <1>2, Moves DEF IInv
<1>4. Types'
  <2>1. Script(request[c].of) \in Texts /\ request[c].test \in Tests
    BY HostAssumption DEF Script, Texts, Typed, Types, Addressed, Sessions, Holding, IInv, WriteTest,
        hosting, history, files, Goes, Written
  <2>2. library' \in [Tests -> [made : BOOLEAN, text : Texts, proved : BOOLEAN]]
    BY <2>1 DEF Types, IInv, WriteTest, hosting, history, files, Goes, Written
  <2> QED BY <1>1, <1>3, <2>2, HostAssumption DEF Claiming, Addressed, Sessions, Tests, Texts, Typed,
      Missing, None, States, Script, Starting,
        Waiting, Holding, Leaving, Places, IInv, Types, Request, WriteTest, hosting, history, files, Goes,
        Written
<1>5. LocksAreHeld'
  <2> SUFFICES ASSUME NEW d \in Callers
               PROVE  /\ agentLock' = d <=> request'[d].at \in Starting
                      /\ \A s \in Sessions : lock'[s] = d <=> request'[d].at \in Holding /\ request'[d].of = s
    BY DEF LocksAreHeld
  <2>1. CASE d = c
    BY <2>1, <1>1, <1>3, SMTT(20) DEF LocksAreHeld, Addressed, Sessions, Starting, Waiting, Holding,
        Leaving, IInv, WriteTest, hosting, history, files, Goes, Written
  <2>2. CASE d # c
    BY <2>2, <1>1, <1>3, SMTT(20) DEF LocksAreHeld, Starting, Holding, IInv, WriteTest, hosting, history,
        files, Goes, Written
  <2> QED BY <2>1, <2>2
<1>6. Known'
  BY <1>1, <1>3 DEF IInv, Known, Claiming, Sessions, None, Starting, Waiting, Holding, Leaving, WriteTest,
      hosting, history,
      files, Goes, Written
<1>7. Claiming'
  BY <1>1, <1>3 DEF IInv, LocksAreHeld, Claiming, Busy, None, States, Starting, Waiting, Holding, Leaving,
      WriteTest,
      hosting, history, files, Goes, Written
<1>8. Addressed'
  BY <1>1, <1>3 DEF IInv, Addressed, Known, Claiming, Sessions, Tests, None, Starting, Waiting, Holding,
      Leaving,
      WriteTest, hosting, history, files, Goes, Written
<1>9. Released'
  <2> SUFFICES ASSUME NEW d \in Callers, request'[d].at \in Leaving PROVE Dealt(request[d])'
    BY DEF Released
  <2>1. request'[d] = request[d]
    BY <1>1, <1>3 DEF Leaving, Waiting
  <2>2. request[d].of \in Sessions /\ request[d].of # started + 1 /\ Dealt(request[d])
    BY <2>1, <1>1, <1>3 DEF IInv, Released, Addressed, Sessions
  <2> QED BY <2>1, <2>2, <1>1, <1>3 DEF Dealt, IInv, WriteTest, hosting, history, files, Goes, Written
<1>10. OnlyTheHostRecords'
  BY <1>1, <1>3 DEF IInv, Known, Claiming, Released, Dealt, OnlyTheHostRecords, Sessions, Busy, None,
      Starting, Waiting,
      Holding, Leaving, WriteTest, hosting, history, files, Goes, Written
<1>11. TypedFiles'
  BY <1>1, <1>3 DEF IInv, TypedFiles, Script, Sessions, WriteTest, hosting, history, files, Goes, Written
<1>12. ReplaysWhatWasRepaired'
  <2> SUFFICES ASSUME NEW d \in Callers, request'[d].at = "replaying", request'[d].of = current
               PROVE  UpToDate(current)'
    BY DEF ReplaysWhatWasRepaired, IInv, WriteTest, hosting, history, files, Goes, Written
  <2>1. request'[d] = request[d]
    BY <1>1, <1>3 DEF Waiting
  <2>2. current \in Sessions /\ lock[current] = d /\ UpToDate(current)
    BY <2>1, Replaying
  <2> QED BY <1>1, <1>3, <2>1, <2>2 DEF Script, UpToDate, IInv, WriteTest, hosting, history, files, Goes,
      Written
<1> QED BY <1>4, <1>5, <1>6, <1>7, <1>8, <1>9, <1>10, <1>11, <1>12 DEF IInv

LEMMA WriteUnprovedIInv == ASSUME IInv, NEW c \in Callers, WriteUnproved(c) PROVE IInv'
<1>1. /\ current \in {None} \cup Sessions /\ started \in 0..MaxSessions /\ MaxSessions \in Nat
      /\ agentLock \in Callers \cup {Nobody} /\ lock \in [Sessions -> Callers \cup {Nobody}]
      /\ state \in [Sessions -> States] /\ Nobody \notin Callers
  BY HostAssumption DEF IInv, Types
<1>2. /\ request' \in [Callers -> Request] /\ asked' \in 0..MaxRequests
      /\ request'[c].at = "idle"
      /\ \A d \in Callers : d # c => request'[d] = request[d]
  BY Rests DEF IInv, WriteUnproved, AnsweredUnlocked
<1>3. Types'
  <2>1. Script(request[c].of) \in Texts /\ request[c].test \in Tests
    BY HostAssumption DEF Script, Texts, Typed, Types, Addressed, Sessions, Holding, IInv, WriteUnproved,
        hosting, history, files, AnsweredUnlocked, Written
  <2>2. library' \in [Tests -> [made : BOOLEAN, text : Texts, proved : BOOLEAN]]
    BY <2>1 DEF Types, IInv, WriteUnproved, hosting, history, files, AnsweredUnlocked, Written
  <2> QED BY <1>1, <1>2, <2>2, HostAssumption DEF Claiming, Addressed, Sessions, Tests, Texts, Typed,
      Missing, None, States, Script, Starting,
        Waiting, Holding, Leaving, Places, IInv, Types, Request, WriteUnproved, hosting, history, files,
        AnsweredUnlocked, Written
<1>4. LocksAreHeld'
  <2> SUFFICES ASSUME NEW d \in Callers
               PROVE  /\ agentLock' = d <=> request'[d].at \in Starting
                      /\ \A s \in Sessions : lock'[s] = d <=> request'[d].at \in Holding /\ request'[d].of = s
    BY DEF LocksAreHeld
  <2>1. CASE d = c
    BY <2>1, <1>1, <1>2, SMTT(20) DEF LocksAreHeld, Addressed, Sessions, Starting, Waiting, Holding,
        Leaving, IInv, WriteUnproved, hosting, history, files, AnsweredUnlocked, Written
  <2>2. CASE d # c
    BY <2>2, <1>1, <1>2, SMTT(20) DEF LocksAreHeld, Starting, Holding, IInv, WriteUnproved, hosting,
        history, files, AnsweredUnlocked, Written
  <2> QED BY <2>1, <2>2
<1>5. Known'
  BY <1>1, <1>2 DEF IInv, Known, Claiming, Sessions, None, Starting, Waiting, Holding, Leaving, WriteUnproved,
      hosting, history, files, AnsweredUnlocked, Written
<1>6. Claiming'
  BY <1>1, <1>2 DEF IInv, LocksAreHeld, Claiming, Busy, None, States, Starting, Waiting, Holding, Leaving,
      WriteUnproved, hosting, history, files, AnsweredUnlocked, Written
<1>7. Addressed'
  BY <1>1, <1>2 DEF IInv, Addressed, Known, Claiming, Sessions, Tests, None, Starting, Waiting, Holding,
      Leaving,
      WriteUnproved, hosting, history, files, AnsweredUnlocked, Written
<1>8. Released'
  <2> SUFFICES ASSUME NEW d \in Callers, request'[d].at \in Leaving PROVE Dealt(request[d])'
    BY DEF Released
  <2>1. request'[d] = request[d]
    BY <1>1, <1>2 DEF Leaving, Waiting
  <2>2. request[d].of \in Sessions /\ request[d].of # started + 1 /\ Dealt(request[d])
    BY <2>1, <1>1, <1>2 DEF IInv, Released, Addressed, Sessions
  <2> QED BY <2>1, <2>2, <1>1, <1>2 DEF Dealt, IInv, WriteUnproved, hosting, history, files,
      AnsweredUnlocked, Written
<1>9. OnlyTheHostRecords'
  BY <1>1, <1>2 DEF IInv, Known, Claiming, Released, Dealt, OnlyTheHostRecords, Sessions, Busy, None,
      Starting, Waiting,
      Holding, Leaving, WriteUnproved, hosting, history, files, AnsweredUnlocked, Written
<1>10. TypedFiles'
  BY <1>1, <1>2 DEF IInv, TypedFiles, Script, Sessions, WriteUnproved, hosting, history, files,
      AnsweredUnlocked, Written
<1>11. ReplaysWhatWasRepaired'
  <2> SUFFICES ASSUME NEW d \in Callers, request'[d].at = "replaying", request'[d].of = current
               PROVE  UpToDate(current)'
    BY DEF ReplaysWhatWasRepaired, IInv, WriteUnproved, hosting, history, files, AnsweredUnlocked, Written
  <2>1. request'[d] = request[d]
    BY <1>1, <1>2 DEF Waiting
  <2>2. current \in Sessions /\ lock[current] = d /\ UpToDate(current)
    BY <2>1, Replaying
  <2> QED BY <1>1, <1>2, <2>1, <2>2 DEF Script, UpToDate, IInv, WriteUnproved, hosting, history, files,
      AnsweredUnlocked, Written
<1> QED BY <1>3, <1>4, <1>5, <1>6, <1>7, <1>8, <1>9, <1>10, <1>11 DEF IInv

LEMMA RecordVerdictIInv == ASSUME IInv, NEW c \in Callers, RecordVerdict(c) PROVE IInv'
<1>1. /\ current \in {None} \cup Sessions /\ started \in 0..MaxSessions /\ MaxSessions \in Nat
      /\ agentLock \in Callers \cup {Nobody} /\ lock \in [Sessions -> Callers \cup {Nobody}]
      /\ state \in [Sessions -> States] /\ Nobody \notin Callers
  BY HostAssumption DEF IInv, Types
<1>2. /\ request' \in [Callers -> Request] /\ asked' \in 0..MaxRequests
      /\ request'[c].at = "idle"
      /\ \A d \in Callers : d # c => request'[d] = request[d]
  BY Rests DEF IInv, RecordVerdict, AnsweredUnlocked
<1>3. Types'
  <2>1. library' \in [Tests -> [made : BOOLEAN, text : Texts, proved : BOOLEAN]]
    BY <1>1, <1>2 DEF Types, Addressed, IInv, RecordVerdict, hosting, history, files, AnsweredUnlocked
  <2>2. lock' \in [Sessions -> Callers \cup {Nobody}]
    BY <1>1, <1>2 DEF Types, IInv, RecordVerdict, hosting, history, files, AnsweredUnlocked
  <2> QED BY <1>1, <1>2, <2>1, <2>2, HostAssumption, SMTT(30) DEF Claiming, Addressed, Sessions, Tests,
      Texts, Typed, Missing, None, States, Script, Starting,
        Waiting, Holding, Leaving, Places, IInv, Types, Request, RecordVerdict, hosting, history, files,
        AnsweredUnlocked
<1>4. LocksAreHeld'
  <2> SUFFICES ASSUME NEW d \in Callers
               PROVE  /\ agentLock' = d <=> request'[d].at \in Starting
                      /\ \A s \in Sessions : lock'[s] = d <=> request'[d].at \in Holding /\ request'[d].of = s
    BY DEF LocksAreHeld
  <2>1. CASE d = c
    BY <2>1, <1>1, <1>2, SMTT(20) DEF LocksAreHeld, Addressed, Sessions, Starting, Waiting, Holding,
        Leaving, IInv, RecordVerdict, hosting, history, files, AnsweredUnlocked
  <2>2. CASE d # c
    BY <2>2, <1>1, <1>2, SMTT(20) DEF LocksAreHeld, Starting, Holding, IInv, RecordVerdict, hosting,
        history, files, AnsweredUnlocked
  <2> QED BY <2>1, <2>2
<1>5. Known'
  BY <1>1, <1>2 DEF IInv, Known, Claiming, Sessions, None, Starting, Waiting, Holding, Leaving, RecordVerdict,
      hosting, history, files, AnsweredUnlocked
<1>6. Claiming'
  BY <1>1, <1>2 DEF IInv, LocksAreHeld, Claiming, Busy, None, States, Starting, Waiting, Holding, Leaving,
      RecordVerdict, hosting, history, files, AnsweredUnlocked
<1>7. Addressed'
  BY <1>1, <1>2 DEF IInv, Addressed, Known, Claiming, Sessions, Tests, None, Starting, Waiting, Holding,
      Leaving,
      RecordVerdict, hosting, history, files, AnsweredUnlocked
<1>8. Released'
  <2> SUFFICES ASSUME NEW d \in Callers, request'[d].at \in Leaving PROVE Dealt(request[d])'
    BY DEF Released
  <2>1. request'[d] = request[d]
    BY <1>1, <1>2 DEF Leaving, Waiting
  <2>2. request[d].of \in Sessions /\ request[d].of # started + 1 /\ Dealt(request[d])
    BY <2>1, <1>1, <1>2 DEF IInv, Released, Addressed, Sessions
  <2> QED BY <2>1, <2>2, <1>1, <1>2 DEF Dealt, IInv, RecordVerdict, hosting, history, files, AnsweredUnlocked
<1>9. OnlyTheHostRecords'
  BY <1>1, <1>2 DEF IInv, Known, Claiming, Released, Dealt, OnlyTheHostRecords, Sessions, Busy, None,
      Starting, Waiting,
      Holding, Leaving, RecordVerdict, hosting, history, files, AnsweredUnlocked
<1>10. TypedFiles'
  BY <1>1, <1>2 DEF IInv, TypedFiles, Script, Sessions, RecordVerdict, hosting, history, files,
      AnsweredUnlocked
<1>11. ReplaysWhatWasRepaired'
  <2> SUFFICES ASSUME NEW d \in Callers, request'[d].at = "replaying", request'[d].of = current
               PROVE  UpToDate(current)'
    BY DEF ReplaysWhatWasRepaired, IInv, RecordVerdict, hosting, history, files, AnsweredUnlocked
  <2>1. request'[d] = request[d]
    BY <1>1, <1>2 DEF Waiting
  <2>2. current \in Sessions /\ lock[current] = d /\ UpToDate(current)
    BY <2>1, Replaying
  <2> QED BY <1>1, <1>2, <2>1, <2>2 DEF Script, UpToDate, IInv, RecordVerdict, hosting, history, files,
      AnsweredUnlocked
<1> QED BY <1>3, <1>4, <1>5, <1>6, <1>7, <1>8, <1>9, <1>10, <1>11 DEF IInv

LEMMA TestEndsIInv == ASSUME IInv, NEW c \in Callers, TestEnds(c) PROVE IInv'
<1>1. /\ current \in {None} \cup Sessions /\ started \in 0..MaxSessions /\ MaxSessions \in Nat
      /\ agentLock \in Callers \cup {Nobody} /\ lock \in [Sessions -> Callers \cup {Nobody}]
      /\ state \in [Sessions -> States] /\ Nobody \notin Callers
  BY HostAssumption DEF IInv, Types
<1>2. /\ request' \in [Callers -> Request] /\ asked' \in 0..MaxRequests
      /\ request'[c].at = "idle"
      /\ \A d \in Callers : d # c => request'[d] = request[d]
  BY Rests DEF IInv, TestEnds
<1>3. Types'
  BY <1>1, <1>2, HostAssumption, SMTT(30) DEF Claiming, Addressed, Sessions, Tests, Texts, Typed, Missing,
      None, States, Script, Starting,
      Waiting, Holding, Leaving, Places, IInv, Types, Request, TestEnds, hosting, history, files
<1>4. LocksAreHeld'
  <2> SUFFICES ASSUME NEW d \in Callers
               PROVE  /\ agentLock' = d <=> request'[d].at \in Starting
                      /\ \A s \in Sessions : lock'[s] = d <=> request'[d].at \in Holding /\ request'[d].of = s
    BY DEF LocksAreHeld
  <2>1. CASE d = c
    BY <2>1, <1>1, <1>2, SMTT(20) DEF LocksAreHeld, Addressed, Sessions, Starting, Waiting, Holding,
        Leaving, IInv, TestEnds, hosting, history, files
  <2>2. CASE d # c
    BY <2>2, <1>1, <1>2, SMTT(20) DEF LocksAreHeld, Starting, Holding, IInv, TestEnds, hosting, history, files
  <2> QED BY <2>1, <2>2
<1>5. Known'
  BY <1>1, <1>2 DEF IInv, Known, Claiming, Sessions, None, Starting, Waiting, Holding, Leaving, TestEnds,
      hosting, history,
      files
<1>6. Claiming'
  BY <1>1, <1>2 DEF IInv, LocksAreHeld, Claiming, Busy, None, States, Starting, Waiting, Holding, Leaving,
      TestEnds,
      hosting, history, files
<1>7. Addressed'
  BY <1>1, <1>2 DEF IInv, Addressed, Known, Claiming, Sessions, Tests, None, Starting, Waiting, Holding,
      Leaving,
      TestEnds, hosting, history, files
<1>8. Released'
  <2> SUFFICES ASSUME NEW d \in Callers, request'[d].at \in Leaving PROVE Dealt(request[d])'
    BY DEF Released
  <2>1. request'[d] = request[d]
    BY <1>1, <1>2 DEF Leaving, Waiting
  <2>2. request[d].of \in Sessions /\ request[d].of # started + 1 /\ Dealt(request[d])
    BY <2>1, <1>1, <1>2 DEF IInv, Released, Addressed, Sessions
  <2> QED BY <2>1, <2>2, <1>1, <1>2 DEF Dealt, IInv, TestEnds, hosting, history, files
<1>9. OnlyTheHostRecords'
  BY <1>1, <1>2 DEF IInv, Known, Claiming, Released, Dealt, OnlyTheHostRecords, Sessions, Busy, None,
      Starting, Waiting,
      Holding, Leaving, TestEnds, hosting, history, files
<1>10. TypedFiles'
  BY <1>1, <1>2 DEF IInv, TypedFiles, Script, Sessions, TestEnds, hosting, history, files
<1>11. ReplaysWhatWasRepaired'
  <2> SUFFICES ASSUME NEW d \in Callers, request'[d].at = "replaying", request'[d].of = current
               PROVE  UpToDate(current)'
    BY DEF ReplaysWhatWasRepaired, IInv, TestEnds, hosting, history, files
  <2>1. request'[d] = request[d]
    BY <1>1, <1>2 DEF Waiting
  <2>2. current \in Sessions /\ lock[current] = d /\ UpToDate(current)
    BY <2>1, Replaying
  <2> QED BY <1>1, <1>2, <2>1, <2>2 DEF Script, UpToDate, IInv, TestEnds, hosting, history, files
<1> QED BY <1>3, <1>4, <1>5, <1>6, <1>7, <1>8, <1>9, <1>10, <1>11 DEF IInv

LEMMA StopForReleaseIInv == ASSUME IInv, NEW c \in Callers, StopForRelease(c) PROVE IInv'
<1>1. /\ current \in {None} \cup Sessions /\ started \in 0..MaxSessions /\ MaxSessions \in Nat
      /\ agentLock \in Callers \cup {Nobody} /\ lock \in [Sessions -> Callers \cup {Nobody}]
      /\ state \in [Sessions -> States] /\ Nobody \notin Callers
  BY HostAssumption DEF IInv, Types
<1>2. Moved(c, "shutdown") /\ "shutdown" \in Places
  BY DEF StopForRelease, Goes, Starting, Waiting, Holding, Leaving, Places
<1>3. /\ request' \in [Callers -> Request]
      /\ request'[c].at = "shutdown" /\ request'[c].of = request[c].of /\ request'[c].test = request[c].test
      /\ \A d \in Callers : d # c => request'[d] = request[d]
  BY ONLY IInv, <1>2, Moves DEF IInv
<1>4. Types'
  BY <1>1, <1>3, HostAssumption, SMTT(30) DEF Claiming, Addressed, Sessions, Tests, Texts, Typed, Missing,
      None, States, Script, Starting,
      Waiting, Holding, Leaving, Places, IInv, Types, Request, StopForRelease, hosting, history, files, Goes,
      Enters
<1>5. LocksAreHeld'
  <2> SUFFICES ASSUME NEW d \in Callers
               PROVE  /\ agentLock' = d <=> request'[d].at \in Starting
                      /\ \A s \in Sessions : lock'[s] = d <=> request'[d].at \in Holding /\ request'[d].of = s
    BY DEF LocksAreHeld
  <2>1. CASE d = c
    BY <2>1, <1>1, <1>3, SMTT(20) DEF LocksAreHeld, Addressed, Sessions, Starting, Waiting, Holding,
        Leaving, IInv, StopForRelease, hosting, history, files, Goes, Enters
  <2>2. CASE d # c
    BY <2>2, <1>1, <1>3, SMTT(20) DEF LocksAreHeld, Starting, Holding, IInv, StopForRelease, hosting,
        history, files, Goes, Enters
  <2> QED BY <2>1, <2>2
<1>6. Known'
  BY <1>1, <1>3 DEF IInv, Known, Claiming, Sessions, None, Starting, Waiting, Holding, Leaving,
      StopForRelease,
      hosting, history, files, Goes, Enters
<1>7. Claiming'
  BY <1>1, <1>3 DEF IInv, LocksAreHeld, Claiming, Busy, None, States, Starting, Waiting, Holding, Leaving,
      StopForRelease, hosting, history, files, Goes, Enters
<1>8. Addressed'
  BY <1>1, <1>3 DEF IInv, Addressed, Known, Claiming, Sessions, Tests, None, Starting, Waiting, Holding,
      Leaving,
      StopForRelease, hosting, history, files, Goes, Enters
<1>9. Released'
  <2> SUFFICES ASSUME NEW d \in Callers, request'[d].at \in Leaving PROVE Dealt(request[d])'
    BY DEF Released
  <2>1. request[c].of \in Sessions /\ state' = [state EXCEPT ![request[c].of] = "stopped"]
    BY <1>1, <1>3 DEF Addressed, Waiting, Sessions, IInv, StopForRelease, hosting, history, files, Goes,
        Enters
  <2>2. CASE d = c
    BY <2>1, <2>2, <1>1, <1>3 DEF Dealt
  <2>3. CASE d # c
    BY <2>1, <2>3, <1>1, <1>3 DEF IInv, Released, Dealt, Addressed, Sessions, StopForRelease, hosting, history
  <2> QED BY <2>2, <2>3
<1>10. OnlyTheHostRecords'
  BY <1>1, <1>3 DEF IInv, Known, Claiming, Released, Dealt, OnlyTheHostRecords, Sessions, Busy, None,
      Starting, Waiting,
      Holding, Leaving, StopForRelease, hosting, history, files, Goes, Enters
<1>11. TypedFiles'
  BY <1>1, <1>3 DEF IInv, TypedFiles, Script, Sessions, StopForRelease, hosting, history, files, Goes, Enters
<1>12. ReplaysWhatWasRepaired'
  <2> SUFFICES ASSUME NEW d \in Callers, request'[d].at = "replaying", request'[d].of = current
               PROVE  UpToDate(current)'
    BY DEF ReplaysWhatWasRepaired, IInv, StopForRelease, hosting, history, files, Goes, Enters
  <2>1. request'[d] = request[d]
    BY <1>1, <1>3 DEF Waiting
  <2>2. current \in Sessions /\ lock[current] = d /\ UpToDate(current)
    BY <2>1, Replaying
  <2> QED BY <1>1, <1>3, <2>1, <2>2 DEF Script, UpToDate, IInv, StopForRelease, hosting, history, files,
      Goes, Enters
<1> QED BY <1>4, <1>5, <1>6, <1>7, <1>8, <1>9, <1>10, <1>11, <1>12 DEF IInv

LEMMA StopRaisesIInv == ASSUME IInv, NEW c \in Callers, StopRaises(c) PROVE IInv'
<1>1. /\ current \in {None} \cup Sessions /\ started \in 0..MaxSessions /\ MaxSessions \in Nat
      /\ agentLock \in Callers \cup {Nobody} /\ lock \in [Sessions -> Callers \cup {Nobody}]
      /\ state \in [Sessions -> States] /\ Nobody \notin Callers
  BY HostAssumption DEF IInv, Types
<1>2. Moved(c, "shutdown") /\ "shutdown" \in Places
  BY DEF StopRaises, Goes, Starting, Waiting, Holding, Leaving, Places
<1>3. /\ request' \in [Callers -> Request]
      /\ request'[c].at = "shutdown" /\ request'[c].of = request[c].of /\ request'[c].test = request[c].test
      /\ \A d \in Callers : d # c => request'[d] = request[d]
  BY ONLY IInv, <1>2, Moves DEF IInv
<1>4. Types'
  <2>1. UNCHANGED <<current, started, agentLock, lock, state, pump, stopping, changes, coherent, typed,
        file, library, asked, forgotten>>
    BY <1>3 DEF StopRaises, hosting, history, files, Goes
  <2>2. request[c].of \in Sessions
    BY <1>1 DEF IInv, Addressed, Waiting, Sessions, StopRaises, Enters
  <2>3. unstopped' \subseteq Sessions
    BY <2>2 DEF IInv, Types, StopRaises
  <2> QED BY <1>3, <2>1, <2>3 DEF IInv, Types
<1>5. LocksAreHeld'
  <2> SUFFICES ASSUME NEW d \in Callers
               PROVE  /\ agentLock' = d <=> request'[d].at \in Starting
                      /\ \A s \in Sessions : lock'[s] = d <=> request'[d].at \in Holding /\ request'[d].of = s
    BY DEF LocksAreHeld
  <2>1. CASE d = c
    BY <2>1, <1>1, <1>3, SMTT(20) DEF LocksAreHeld, Addressed, Sessions, Starting, Waiting, Holding,
        Leaving, IInv, StopRaises, hosting, history, files, Goes, Enters
  <2>2. CASE d # c
    BY <2>2, <1>1, <1>3, SMTT(20) DEF LocksAreHeld, Starting, Holding, IInv, StopRaises, hosting, history,
        files, Goes, Enters
  <2> QED BY <2>1, <2>2
<1>6. Known'
  BY <1>1, <1>3 DEF IInv, Known, Claiming, Sessions, None, Starting, Waiting, Holding, Leaving, StopRaises,
      hosting, history, files, Goes, Enters
<1>7. Claiming'
  BY <1>1, <1>3 DEF IInv, LocksAreHeld, Claiming, Busy, None, States, Starting, Waiting, Holding, Leaving,
      StopRaises, hosting, history, files, Goes, Enters
<1>8. Addressed'
  BY <1>1, <1>3 DEF IInv, Addressed, Known, Claiming, Sessions, Tests, None, Starting, Waiting, Holding,
      Leaving,
      StopRaises, hosting, history, files, Goes, Enters
<1>9. Released'
  <2> SUFFICES ASSUME NEW d \in Callers, request'[d].at \in Leaving PROVE Dealt(request[d])'
    BY DEF Released
  <2>1. unstopped' = unstopped \cup {request[c].of} /\ state' = state /\ stopping' = stopping
    BY DEF StopRaises
  <2>2. CASE d = c
    BY <2>1, <2>2, <1>3 DEF Dealt
  <2>3. CASE d # c
    <3>1. request'[d] = request[d] /\ Dealt(request[d])
      BY <2>3, <1>3 DEF IInv, Released
    <3> QED BY <3>1, <2>1 DEF Dealt
  <2> QED BY <2>2, <2>3
<1>10. OnlyTheHostRecords'
  BY <1>1, <1>3 DEF IInv, Known, Claiming, Released, Dealt, OnlyTheHostRecords, Sessions, Busy, None,
      Starting, Waiting,
      Holding, Leaving, StopRaises, hosting, history, files, Goes, Enters
<1>11. TypedFiles'
  BY <1>1, <1>3 DEF IInv, TypedFiles, Script, Sessions, StopRaises, hosting, history, files, Goes, Enters
<1>12. ReplaysWhatWasRepaired'
  <2> SUFFICES ASSUME NEW d \in Callers, request'[d].at = "replaying", request'[d].of = current
               PROVE  UpToDate(current)'
    BY DEF ReplaysWhatWasRepaired, IInv, StopRaises, hosting, history, files, Goes, Enters
  <2>1. request'[d] = request[d]
    BY <1>1, <1>3 DEF Waiting
  <2>2. current \in Sessions /\ lock[current] = d /\ UpToDate(current)
    BY <2>1, Replaying
  <2> QED BY <1>1, <1>3, <2>1, <2>2 DEF Script, UpToDate, IInv, StopRaises, hosting, history, files, Goes,
      Enters
<1> QED BY <1>4, <1>5, <1>6, <1>7, <1>8, <1>9, <1>10, <1>11, <1>12 DEF IInv

LEMMA ShutdownIInv == ASSUME IInv, NEW c \in Callers, Shutdown(c) PROVE IInv'
<1>1. /\ current \in {None} \cup Sessions /\ started \in 0..MaxSessions /\ MaxSessions \in Nat
      /\ agentLock \in Callers \cup {Nobody} /\ lock \in [Sessions -> Callers \cup {Nobody}]
      /\ state \in [Sessions -> States] /\ Nobody \notin Callers
  BY HostAssumption DEF IInv, Types
<1>2. Moved(c, "forget") /\ "forget" \in Places
  BY DEF Shutdown, Goes, Starting, Waiting, Holding, Leaving, Places
<1>3. /\ request' \in [Callers -> Request]
      /\ request'[c].at = "forget" /\ request'[c].of = request[c].of /\ request'[c].test = request[c].test
      /\ \A d \in Callers : d # c => request'[d] = request[d]
  BY ONLY IInv, <1>2, Moves DEF IInv
<1>4. Types'
  <2>1. UNCHANGED <<current, started, agentLock, lock, state, pump, changes, coherent, typed, file,
        library, asked, forgotten, unstopped>>
    BY <1>3 DEF Shutdown, hosting, history, files, Goes
  <2>2. stopping' \in [Sessions -> BOOLEAN]
    BY DEF IInv, Types, Shutdown
  <2> QED BY <1>3, <2>1, <2>2 DEF IInv, Types
<1>5. LocksAreHeld'
  <2> SUFFICES ASSUME NEW d \in Callers
               PROVE  /\ agentLock' = d <=> request'[d].at \in Starting
                      /\ \A s \in Sessions : lock'[s] = d <=> request'[d].at \in Holding /\ request'[d].of = s
    BY DEF LocksAreHeld
  <2>1. CASE d = c
    BY <2>1, <1>1, <1>3, SMTT(20) DEF LocksAreHeld, Addressed, Sessions, Starting, Waiting, Holding,
        Leaving, IInv, Shutdown, hosting, history, files, Goes
  <2>2. CASE d # c
    BY <2>2, <1>1, <1>3, SMTT(20) DEF LocksAreHeld, Starting, Holding, IInv, Shutdown, hosting, history,
        files, Goes
  <2> QED BY <2>1, <2>2
<1>6. Known'
  BY <1>1, <1>3 DEF IInv, Known, Claiming, Sessions, None, Starting, Waiting, Holding, Leaving, Shutdown,
      hosting, history,
      files, Goes
<1>7. Claiming'
  BY <1>1, <1>3 DEF IInv, LocksAreHeld, Claiming, Busy, None, States, Starting, Waiting, Holding, Leaving,
      Shutdown,
      hosting, history, files, Goes
<1>8. Addressed'
  BY <1>1, <1>3 DEF IInv, Addressed, Known, Claiming, Sessions, Tests, None, Starting, Waiting, Holding,
      Leaving,
      Shutdown, hosting, history, files, Goes
<1>9. Released'
  <2> SUFFICES ASSUME NEW d \in Callers, request'[d].at \in Leaving PROVE Dealt(request[d])'
    BY DEF Released
  <2>1. /\ state' = state /\ unstopped' = unstopped
        /\ stopping' = [stopping EXCEPT ![request[c].of] = TRUE]
    BY DEF Shutdown, hosting, history
  <2>2. request[d].at \in Leaving /\ request'[d].of = request[d].of
    BY <1>3 DEF Shutdown, Leaving
  <2>3. Dealt(request[d]) /\ request[d].of \in Sessions
    BY <2>2, <1>1 DEF IInv, Released, Addressed, Sessions
  <2>4. d # c => request'[d] = request[d]
    BY <1>3
  <2>5. CASE d = c
    BY <2>1, <2>2, <2>3, <2>5 DEF Dealt, IInv, Types
  <2>6. CASE d # c
    BY <2>1, <2>3, <2>4, <2>6 DEF Dealt, IInv, Types
  <2> QED BY <2>5, <2>6
<1>10. OnlyTheHostRecords'
  BY <1>1, <1>3 DEF IInv, Known, Claiming, Released, Dealt, OnlyTheHostRecords, Sessions, Busy, None,
      Starting, Waiting,
      Holding, Leaving, Shutdown, hosting, history, files, Goes
<1>11. TypedFiles'
  BY <1>1, <1>3 DEF IInv, TypedFiles, Script, Sessions, Shutdown, hosting, history, files, Goes
<1>12. ReplaysWhatWasRepaired'
  <2> SUFFICES ASSUME NEW d \in Callers, request'[d].at = "replaying", request'[d].of = current
               PROVE  UpToDate(current)'
    BY DEF ReplaysWhatWasRepaired, IInv, Shutdown, hosting, history, files, Goes
  <2>1. request'[d] = request[d]
    BY <1>1, <1>3 DEF Waiting
  <2>2. current \in Sessions /\ lock[current] = d /\ UpToDate(current)
    BY <2>1, Replaying
  <2> QED BY <1>1, <1>3, <2>1, <2>2 DEF Script, UpToDate, IInv, Shutdown, hosting, history, files, Goes
<1> QED BY <1>4, <1>5, <1>6, <1>7, <1>8, <1>9, <1>10, <1>11, <1>12 DEF IInv

LEMMA ForgetIInv == ASSUME IInv, NEW c \in Callers, Forget(c) PROVE IInv'
<1>1. /\ current \in {None} \cup Sessions /\ started \in 0..MaxSessions /\ MaxSessions \in Nat
      /\ agentLock \in Callers \cup {Nobody} /\ lock \in [Sessions -> Callers \cup {Nobody}]
      /\ state \in [Sessions -> States] /\ Nobody \notin Callers
  BY HostAssumption DEF IInv, Types
<1>2. /\ request' \in [Callers -> Request] /\ asked' \in 0..MaxRequests
      /\ request'[c].at = "idle"
      /\ \A d \in Callers : d # c => request'[d] = request[d]
  BY Rests DEF IInv, Forget
<1>3. Types'
  <2>1. forgotten' \in SUBSET Sessions
    BY <1>1, <1>2 DEF Types, None, IInv, Forget, hosting, history, files
  <2> QED BY <1>1, <1>2, <2>1, HostAssumption, SMTT(30) DEF Claiming, Addressed, Sessions, Tests, Texts,
      Typed, Missing, None, States, Script, Starting,
        Waiting, Holding, Leaving, Places, IInv, Types, Request, Forget, hosting, history, files
<1>4. LocksAreHeld'
  <2> SUFFICES ASSUME NEW d \in Callers
               PROVE  /\ agentLock' = d <=> request'[d].at \in Starting
                      /\ \A s \in Sessions : lock'[s] = d <=> request'[d].at \in Holding /\ request'[d].of = s
    BY DEF LocksAreHeld
  <2>1. CASE d = c
    BY <2>1, <1>1, <1>2, SMTT(20) DEF LocksAreHeld, Addressed, Sessions, Starting, Waiting, Holding,
        Leaving, IInv, Forget, hosting, history, files
  <2>2. CASE d # c
    BY <2>2, <1>1, <1>2, SMTT(20) DEF LocksAreHeld, Starting, Holding, IInv, Forget, hosting, history, files
  <2> QED BY <2>1, <2>2
<1>5. Known'
  <2>1. current # None => current \in 1..started
    BY <1>1, <1>2 DEF IInv, Known, Sessions, None
  <2>2. ASSUME NEW s \in forgotten' PROVE s \in 1..started
    <3>1. CASE s \in forgotten
      BY <3>1 DEF IInv, Known
    <3>2. CASE s = current /\ current # None
      BY <3>2, <2>1
    <3> QED BY <2>2, <3>1, <3>2 DEF Forget
  <2>3. forgotten' \subseteq 1..started
    BY ONLY <2>2
  <2>4. started' = started /\ current' = 0 /\ started \in Nat
    BY <1>1, <1>2 DEF None, Forget
  <2> QED BY ONLY <2>3, <2>4 DEF Known
<1>6. Claiming'
  BY <1>1, <1>2 DEF IInv, LocksAreHeld, Claiming, Busy, None, States, Starting, Waiting, Holding, Leaving,
      Forget,
      hosting, history, files
<1>7. Addressed'
  BY <1>1, <1>2 DEF IInv, Addressed, Known, Claiming, Sessions, Tests, None, Starting, Waiting, Holding,
      Leaving,
      Forget, hosting, history, files
<1>8. Released'
  <2> SUFFICES ASSUME NEW d \in Callers, request'[d].at \in Leaving PROVE Dealt(request[d])'
    BY DEF Released
  <2>1. request'[d] = request[d]
    BY <1>1, <1>2 DEF Leaving, Waiting
  <2>2. request[d].of \in Sessions /\ request[d].of # started + 1 /\ Dealt(request[d])
    BY <2>1, <1>1, <1>2 DEF IInv, Released, Addressed, Sessions
  <2> QED BY <2>1, <2>2, <1>1, <1>2 DEF Dealt, IInv, Forget, hosting, history, files
<1>9. OnlyTheHostRecords'
  BY <1>1, <1>2 DEF IInv, Known, Claiming, Released, Dealt, OnlyTheHostRecords, Sessions, Busy, None,
      Starting, Waiting,
      Holding, Leaving, Forget, hosting, history, files
<1>10. TypedFiles'
  BY <1>1, <1>2 DEF IInv, TypedFiles, Script, Sessions, Forget, hosting, history, files
<1>11. ReplaysWhatWasRepaired'
  <2> SUFFICES ASSUME NEW d \in Callers, request'[d].at = "replaying" PROVE request'[d].of # None
    BY DEF ReplaysWhatWasRepaired, IInv, Forget, hosting, history, files
  <2>1. request'[d] = request[d]
    BY <1>1, <1>2
  <2> QED BY <2>1, <1>1, <1>2 DEF IInv, Addressed, Holding, None
<1> QED BY <1>3, <1>4, <1>5, <1>6, <1>7, <1>8, <1>9, <1>10, <1>11 DEF IInv

LEMMA PollIInv == ASSUME IInv, NEW s \in Sessions, Poll(s) PROVE IInv'
<1>1. /\ current \in {None} \cup Sessions /\ started \in 0..MaxSessions /\ MaxSessions \in Nat
      /\ agentLock \in Callers \cup {Nobody} /\ lock \in [Sessions -> Callers \cup {Nobody}]
      /\ state \in [Sessions -> States] /\ Nobody \notin Callers
  BY HostAssumption DEF IInv, Types
<1>2. Types'
  <2>1. changes[s] + 1 \in 0..MaxChanges
    BY HostAssumption DEF Types, IInv, Poll, Recorded, hosting, history, files
  <2>2. changes' \in [Sessions -> 0..MaxChanges]
    BY <2>1 DEF Types, IInv, Poll, Recorded, hosting, history, files
  <2> QED BY <2>2 DEF Types, IInv, Poll, Recorded, hosting, history, files
<1>3. LocksAreHeld'
  BY <1>1 DEF IInv, LocksAreHeld, Starting, Waiting, Holding, Leaving, Poll, Recorded, hosting, history, files
<1>4. Known'
  BY <1>1 DEF IInv, Known, Claiming, Sessions, None, Starting, Waiting, Holding, Leaving, Poll, Recorded,
      hosting, history, files
<1>5. Claiming'
  BY <1>1 DEF IInv, LocksAreHeld, Claiming, Busy, None, States, Starting, Waiting, Holding, Leaving, Poll,
      hosting, history, files
<1>6. Addressed'
  BY <1>1 DEF IInv, Addressed, Known, Claiming, Sessions, Tests, None, Starting, Waiting, Holding, Leaving,
      Poll, Recorded, hosting, history, files
<1>7. Released'
  BY <1>1 DEF IInv, Released, Dealt, Addressed, Claiming, Sessions, Starting, Waiting, Holding, Leaving,
      Poll, Recorded, hosting, history,
      files
<1>8. OnlyTheHostRecords'
  BY <1>1 DEF IInv, Known, Claiming, Released, Dealt, OnlyTheHostRecords, Sessions, Busy, None, Starting,
      Waiting,
      Holding, Leaving, Poll, Recorded, hosting, history, files
<1>9. TypedFiles'
  BY <1>1 DEF IInv, TypedFiles, Script, Sessions, Poll, Recorded, hosting, history, files
<1>10. ReplaysWhatWasRepaired'
  BY <1>1 DEF IInv, LocksAreHeld, Addressed, TypedFiles, ReplaysWhatWasRepaired, UpToDate, Script,
      Sessions, None,
      Starting, Waiting, Holding, Leaving, Poll, Recorded, hosting, history, files
<1> QED BY <1>2, <1>3, <1>4, <1>5, <1>6, <1>7, <1>8, <1>9, <1>10 DEF IInv

LEMMA PumpEndsIInv == ASSUME IInv, NEW s \in Sessions, PumpEnds(s) PROVE IInv'
<1>1. /\ current \in {None} \cup Sessions /\ started \in 0..MaxSessions /\ MaxSessions \in Nat
      /\ agentLock \in Callers \cup {Nobody} /\ lock \in [Sessions -> Callers \cup {Nobody}]
      /\ state \in [Sessions -> States] /\ Nobody \notin Callers
  BY HostAssumption DEF IInv, Types
<1>2. Types'
  BY <1>1, HostAssumption, SMTT(30) DEF Claiming, Addressed, Sessions, Tests, Texts, Typed, Missing, None,
      States, Script, Starting,
      Waiting, Holding, Leaving, Places, IInv, Types, Request, PumpEnds, hosting, history, files
<1>3. LocksAreHeld'
  BY <1>1 DEF IInv, LocksAreHeld, Starting, Waiting, Holding, Leaving, PumpEnds, hosting, history, files
<1>4. Known'
  BY <1>1 DEF IInv, Known, Claiming, Sessions, None, Starting, Waiting, Holding, Leaving, PumpEnds,
      hosting, history,
      files
<1>5. Claiming'
  BY <1>1 DEF IInv, LocksAreHeld, Claiming, Busy, None, States, Starting, Waiting, Holding, Leaving, PumpEnds,
      hosting, history, files
<1>6. Addressed'
  BY <1>1 DEF IInv, Addressed, Known, Claiming, Sessions, Tests, None, Starting, Waiting, Holding, Leaving,
      PumpEnds, hosting, history, files
<1>7. Released'
  BY <1>1 DEF IInv, Released, Dealt, Addressed, Claiming, Sessions, Starting, Waiting, Holding, Leaving,
      PumpEnds,
      hosting, history, files
<1>8. OnlyTheHostRecords'
  BY <1>1 DEF IInv, Known, Claiming, Released, Dealt, OnlyTheHostRecords, Sessions, Busy, None, Starting,
      Waiting,
      Holding, Leaving, PumpEnds, hosting, history, files
<1>9. TypedFiles'
  BY <1>1 DEF IInv, TypedFiles, Script, Sessions, PumpEnds, hosting, history, files
<1>10. ReplaysWhatWasRepaired'
  BY <1>1 DEF IInv, LocksAreHeld, Addressed, TypedFiles, ReplaysWhatWasRepaired, UpToDate, Script,
      Sessions, None,
      Starting, Waiting, Holding, Leaving, PumpEnds, hosting, history, files
<1> QED BY <1>2, <1>3, <1>4, <1>5, <1>6, <1>7, <1>8, <1>9, <1>10 DEF IInv

-----------------------------------------------------------------------------
LEMMA NextIInv == IInv /\ [Next]_vars => IInv'
<1> SUFFICES ASSUME IInv, [Next]_vars PROVE IInv'
  OBVIOUS
<1>1. CASE UNCHANGED vars
  BY <1>1 DEF vars, hosting, history, files, IInv, Types, LocksAreHeld, Known, Claiming, Addressed,
      Released, OnlyTheHostRecords, TypedFiles,
      Dealt, ReplaysWhatWasRepaired, UpToDate, Busy, Script
<1>2. ASSUME NEW c \in Callers, Ask(c) PROVE IInv'
  BY <1>2, ClaimIInv, RequireIInv, RunTestIInv DEF Ask
<1>3. ASSUME NEW c \in Callers, Serve(c) PROVE IInv'
  BY <1>3, DisplaceIInv, LaunchIInv, LaunchFailsIInv, ChangeIInv, RefusedIInv, StopIInv, ArtifactsIInv,
     SaveScriptIInv, BeginReplayIInv, ReplaySavedIInv, RegenerateIInv, ReplayAsItIsIInv,
     NothingToReplayIInv, ReplayedIInv, BeginKeepIInv, ReserveIInv, MakeDirectoryIInv,
     DirectoryTakenIInv, WriteTestIInv, WriteUnprovedIInv, RecordVerdictIInv, TestEndsIInv,
     StopForReleaseIInv, StopRaisesIInv, ShutdownIInv, ForgetIInv DEF Serve
<1>4. ASSUME NEW s \in Sessions, Poll(s) \/ PumpEnds(s) PROVE IInv'
  BY <1>4, PollIInv, PumpEndsIInv
<1> QED BY <1>1, <1>2, <1>3, <1>4 DEF Next

LEMMA IInvHolds == Spec => []IInv
  BY InitIInv, NextIInv, PTL DEF Spec

-----------------------------------------------------------------------------
(* The library: two requests that keep a test never write to one directory. *)

Keeping(c) == request[c].at \in {"write", "verify"}

\* A directory is written once, by the request that made it: until then it holds
\* no test, and no other request keeps one there.
Shelves == /\ \A t \in Tests : ~library[t].made => library[t].text = Missing /\ ~library[t].proved
           /\ \A c \in Callers : Keeping(c) => library[request[c].test].made
           /\ \A c \in Callers : request[c].at = "write" =>
                 /\ library[request[c].test].text = Missing /\ ~library[request[c].test].proved
                 /\ \A d \in Callers \ {c} : Keeping(d) => request[d].test # request[c].test

\* What no step does to a kept test.
Stays == \A t \in Tests : library[t].text # Missing =>
            /\ library'[t].text = library[t].text
            /\ library[t].proved => library'[t] = library[t]

\* A step that leaves the library alone and lets nobody begin to write.
Quiet == library' = library /\ \A c \in Callers : Keeping(c)' => request'[c] = request[c]

LEMMA QuietShelves == ASSUME Shelves, Quiet PROVE Shelves' /\ Stays
  BY DEF Shelves, Quiet, Stays, Keeping

\* The requests that have nothing to do with the library.
LEMMA QuietRequests ==
  ASSUME IInv, NEW c \in Callers,
         \/ Ask(c) \/ Displace(c) \/ Launch(c) \/ LaunchFails(c)
         \/ Change(c) \/ Refused(c) \/ Stop(c) \/ Artifacts(c) \/ SaveScript(c)
         \/ BeginReplay(c) \/ ReplaySaved(c) \/ Regenerate(c) \/ ReplayAsItIs(c)
         \/ NothingToReplay(c) \/ Replayed(c)
         \/ BeginKeep(c) \/ Reserve(c) \/ DirectoryTaken(c)
         \/ TestEnds(c)
         \/ StopForRelease(c) \/ StopRaises(c) \/ Shutdown(c) \/ Forget(c)
  PROVE  Quiet
<1> USE DEF Quiet, Keeping
<1>0. request \in [Callers -> Request]
  BY DEF IInv, Types
<1>1. ASSUME NEW place, Moved(c, place), place \notin {"write", "verify"}
      PROVE  \A d \in Callers : Keeping(d)' => request'[d] = request[d]
  BY <1>0, <1>1 DEF Moved, Request
<1>2. ASSUME Answered(c)
      PROVE  \A d \in Callers : Keeping(d)' => request'[d] = request[d]
  BY <1>0, <1>2 DEF Answered, Idle, Request
<1>3. CASE Ask(c)
  <2>1. CASE Claim(c)
    BY <2>1, <1>1 DEF Claim
  <2>2. CASE Require(c)
    BY <2>2, <1>0 DEF Require, Waiting
  <2>3. CASE RunTest(c)
    BY <2>3, <1>0 DEF RunTest
  <2> QED BY <1>3, <2>1, <2>2, <2>3 DEF Ask
<1>4. CASE Reserve(c)
  BY <1>0, <1>4 DEF Reserve
<1>5. CASE Displace(c) \/ Launch(c) \/ LaunchFails(c)
  BY <1>1, <1>2, <1>5 DEF Displace, Launch, LaunchFails, Goes
<1>6. CASE Change(c) \/ Refused(c) \/ Stop(c) \/ Artifacts(c) \/ SaveScript(c)
  BY <1>2, <1>6 DEF Change, Refused, Stop, Artifacts, SaveScript
<1>7. CASE BeginReplay(c) \/ ReplaySaved(c) \/ Regenerate(c) \/ ReplayAsItIs(c)
  BY <1>1, <1>7 DEF BeginReplay, ReplaySaved, Regenerate, ReplayAsItIs, Goes
<1>8. CASE NothingToReplay(c) \/ Replayed(c) \/ DirectoryTaken(c) \/ TestEnds(c)
  BY <1>2, <1>8 DEF NothingToReplay, Replayed, DirectoryTaken, TestEnds, AnsweredUnlocked
<1>9. CASE BeginKeep(c) \/ StopForRelease(c) \/ StopRaises(c) \/ Shutdown(c)
  BY <1>1, <1>9 DEF BeginKeep, StopForRelease, StopRaises, Shutdown, Goes
<1>10. CASE Forget(c)
  BY <1>2, <1>10 DEF Forget
<1> QED BY <1>3, <1>4, <1>5, <1>6, <1>7, <1>8, <1>9, <1>10

LEMMA ShelvesStep == ASSUME IInv, Shelves, [Next]_vars PROVE Shelves' /\ Stays
<1>0. /\ request \in [Callers -> Request] /\ Addressed
      /\ library \in [Tests -> [made : BOOLEAN, text : Texts, proved : BOOLEAN]]
  BY DEF IInv, Types
<1>1. CASE UNCHANGED vars
  BY <1>1, QuietShelves DEF vars, Quiet
<1>2. ASSUME NEW c \in Callers, MakeDirectory(c) PROVE Shelves' /\ Stays
  <2> DEFINE u == request[c].test
  <2>1. /\ u \in Tests /\ ~library[u].made /\ library[u].text = Missing /\ ~library[u].proved
        /\ \A d \in Callers : Keeping(d) => request[d].test \in Tests /\ request[d].test # u
    BY <1>0, <1>2 DEF MakeDirectory, Addressed, Shelves, Keeping
  <2>2. /\ library'[u] = [library[u] EXCEPT !.made = TRUE]
        /\ \A t \in Tests : t # u => library'[t] = library[t]
    BY <1>0, <1>2, <2>1 DEF MakeDirectory
  <2>3. /\ library'[u].made /\ library'[u].text = Missing /\ ~library'[u].proved
    BY <1>0, <2>1, <2>2
  <2>4. /\ request'[c].at = "write" /\ request'[c].test = u
        /\ \A d \in Callers \ {c} : request'[d] = request[d]
    BY <1>0, <1>2 DEF MakeDirectory, Goes, Moved, Request
  <2> HIDE DEF u
  <2>5. Shelves'
    <3>1. \A t \in Tests : ~library'[t].made => library'[t].text = Missing /\ ~library'[t].proved
      BY <2>2, <2>3 DEF Shelves
    <3>2. ASSUME NEW d \in Callers, Keeping(d)'
          PROVE  library'[request'[d].test].made
      <4>1. CASE d = c
        BY <4>1, <3>2, <2>1, <2>2, <2>3, <2>4 DEF Keeping
      <4>2. CASE d # c
        <5>1. request'[d] = request[d] /\ Keeping(d) /\ request[d].test \in Tests /\ library[request[d].test].made
          BY <4>2, <3>2, <2>1, <2>2, <2>3, <2>4 DEF Shelves, Keeping
        <5>2. CASE request[d].test = u
          BY <5>1, <5>2, <2>3
        <5>3. CASE request[d].test # u
          BY <5>1, <5>3, <2>2
        <5> QED BY <5>2, <5>3
      <4> QED BY <4>1, <4>2
    <3>3. ASSUME NEW d \in Callers, request'[d].at = "write"
          PROVE  /\ library'[request'[d].test].text = Missing /\ ~library'[request'[d].test].proved
                 /\ \A e \in Callers \ {d} : Keeping(e)' => request'[e].test # request'[d].test
      <4>1. CASE d = c
        BY <4>1, <3>3, <2>1, <2>2, <2>3, <2>4 DEF Keeping
      <4>2. CASE d # c
        BY <4>2, <3>3, <2>1, <2>2, <2>3, <2>4 DEF Shelves, Keeping
      <4> QED BY <4>1, <4>2
    <3> QED BY <3>1, <3>2, <3>3 DEF Shelves
  <2>6. Stays
    BY <2>1, <2>2 DEF Stays
  <2> QED BY <2>5, <2>6
<1>3. ASSUME NEW c \in Callers, WriteTest(c) \/ WriteUnproved(c) PROVE Shelves' /\ Stays
  <2> DEFINE u == request[c].test
  <2>1. /\ u \in Tests /\ library[u].made /\ library[u].text = Missing /\ ~library[u].proved
        /\ \A d \in Callers \ {c} : Keeping(d) => request[d].test \in Tests /\ request[d].test # u
    BY <1>0, <1>3 DEF WriteTest, WriteUnproved, Addressed, Shelves, Keeping
  <2>2. library'[u].made /\ \A t \in Tests : t # u => library'[t] = library[t]
    BY <1>0, <1>3, <2>1 DEF WriteTest, WriteUnproved, Written
  <2>3. /\ request'[c].at # "write" /\ (Keeping(c)' => request'[c].test = u)
        /\ \A d \in Callers \ {c} : request'[d] = request[d]
    BY <1>0, <1>3 DEF WriteTest, WriteUnproved, Goes, Moved, AnsweredUnlocked, Answered, Idle, Request,
        Keeping
  <2> HIDE DEF u
  <2>4. Shelves'
    BY <2>1, <2>2, <2>3 DEF Shelves, Keeping
  <2>5. Stays
    BY <2>1, <2>2 DEF Stays
  <2> QED BY <2>4, <2>5
<1>4. ASSUME NEW c \in Callers, RecordVerdict(c) PROVE Shelves' /\ Stays
  <2> DEFINE u == request[c].test
  <2>1. /\ u \in Tests /\ library[u].made
        /\ \A d \in Callers \ {c} : request[d].at = "write" => request[d].test \in Tests /\ request[d].test # u
    BY <1>0, <1>4 DEF RecordVerdict, Addressed, Shelves, Keeping
  <2>2. /\ library'[u] = [library[u] EXCEPT !.proved = TRUE]
        /\ \A t \in Tests : t # u => library'[t] = library[t]
    BY <1>0, <1>4, <2>1 DEF RecordVerdict
  <2>3. /\ library'[u].made /\ library'[u].text = library[u].text
        /\ (library[u].proved => library'[u] = library[u])
    BY <1>0, <2>1, <2>2, ZenonT(20)
  <2>4. /\ request'[c].at = "idle"
        /\ \A d \in Callers \ {c} : request'[d] = request[d]
    BY <1>0, <1>4 DEF RecordVerdict, AnsweredUnlocked, Answered, Idle
  <2>5. \A d \in Callers \ {c} : Keeping(d) => request[d].test \in Tests
    BY <1>0 DEF Addressed, Keeping
  <2> HIDE DEF u
  <2>6. Shelves'
    <3>1. \A t \in Tests : ~library'[t].made => library'[t].text = Missing /\ ~library'[t].proved
      BY <2>1, <2>2, <2>3 DEF Shelves
    <3>2. ASSUME NEW d \in Callers, Keeping(d)'
          PROVE  library'[request'[d].test].made
      <4>1. CASE d = c
        BY <4>1, <3>2, <2>1, <2>2, <2>3, <2>4, <2>5 DEF Keeping
      <4>2. CASE d # c
        <5>1. request'[d] = request[d] /\ Keeping(d) /\ request[d].test \in Tests /\ library[request[d].test].made
          BY <4>2, <3>2, <2>1, <2>2, <2>3, <2>4, <2>5 DEF Shelves, Keeping
        <5>2. CASE request[d].test = u
          BY <5>1, <5>2, <2>3
        <5>3. CASE request[d].test # u
          BY <5>1, <5>3, <2>2
        <5> QED BY <5>2, <5>3
      <4> QED BY <4>1, <4>2
    <3>3. ASSUME NEW d \in Callers, request'[d].at = "write"
          PROVE  /\ library'[request'[d].test].text = Missing /\ ~library'[request'[d].test].proved
                 /\ \A e \in Callers \ {d} : Keeping(e)' => request'[e].test # request'[d].test
      <4>1. CASE d = c
        BY <4>1, <3>3, <2>1, <2>2, <2>3, <2>4, <2>5 DEF Keeping
      <4>2. CASE d # c
        BY <4>2, <3>3, <2>1, <2>2, <2>3, <2>4, <2>5 DEF Shelves, Keeping
      <4> QED BY <4>1, <4>2
    <3> QED BY <3>1, <3>2, <3>3 DEF Shelves
  <2>7. Stays
    BY <2>2, <2>3 DEF Stays
  <2> QED BY <2>6, <2>7
<1>5. ASSUME NEW c \in Callers, Ask(c) \/ Serve(c) PROVE Shelves' /\ Stays
  BY <1>5, <1>2, <1>3, <1>4, QuietRequests, QuietShelves DEF Serve
<1>6. ASSUME NEW s \in Sessions, Poll(s) \/ PumpEnds(s) PROVE Shelves' /\ Stays
  BY <1>6, QuietShelves DEF Poll, PumpEnds, Quiet
<1> QED BY <1>1, <1>5, <1>6 DEF Next

-----------------------------------------------------------------------------
(* The theorems.                                                            *)

\* Every variable keeps its type, and a lock is held by the request at work
\* inside it and by no other (server.py, `with self.lock`, `with session.lock`).
THEOREM TypeCorrect == Spec => []TypeOK
<1>1. IInv => TypeOK
  BY DEF IInv, TypeOK
<1> QED BY <1>1, IInvHolds, PTL

\* A session that records is the host's own, or was taken off it by a release
\* that crossed its start, or its own release swallowed what stop() raised and
\* its pump has been told to stop: nothing else makes a second recording
\* (server.py:176-206, :680-690).
THEOREM OneRecording == Spec => []OnlyTheHostRecords
<1>1. IInv => OnlyTheHostRecords
  BY DEF IInv
<1> QED BY <1>1, IInvHolds, PTL

\* As long as its session is the host's, a replay runs the recording as repaired
\* or the script the tester saved, unless the recording is not coherent: then it
\* runs what is on disk (server.py:656-676).
THEOREM ReplaysAreCurrent == Spec => []ReplaysWhatWasRepaired
<1>1. IInv => ReplaysWhatWasRepaired
  BY DEF IInv
<1> QED BY <1>1, IInvHolds, PTL

\* The script of a kept test is never overwritten, nor its verdict once it has
\* one, however many requests keep tests under the same name at the same time.
THEOREM TestsStay == Spec => KeptTestsStay
<1>1. Init => Shelves
  BY DEF Init, Shelves, Keeping, Idle
<1>2. IInv /\ Shelves /\ [Next]_vars => Shelves' /\ Stays
  BY ShelvesStep
<1>3. Stays => [\A t \in Tests : library[t].text # Missing =>
                  /\ library'[t].text = library[t].text
                  /\ library[t].proved => library'[t] = library[t]]_vars
  BY DEF Stays
<1> QED BY <1>1, <1>2, <1>3, IInvHolds, PTL DEF Spec, KeptTestsStay
=============================================================================
