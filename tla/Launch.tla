------------------------------- MODULE Launch -------------------------------
(****************************************************************************)
(* Starting an application through a script and connecting to whatever      *)
(* process it turns out to be, and closing it (qat_recorder/launch.py).     *)
(*                                                                          *)
(* Qat starts the script.  The script starts shells, helpers and, in the    *)
(* end, the application, which writes a port file named for its pid.        *)
(* `start` looks for such a file, `descends_from` tells ours from somebody  *)
(* else's, and `abandon` stops what a failed start leaves behind.  Processes *)
(* come and go meanwhile: a child whose parent ends belongs to init.        *)
(*                                                                          *)
(* Pids are given in order and not again; files of earlier processes with   *)
(* the same pid may be lying about.                                         *)
(****************************************************************************)
EXTENDS Naturals

CONSTANTS MaxPids,     \* bound: processes in all
          Generations  \* the limit of descends_from: processes looked at on the way up

ASSUME LaunchAssumption == MaxPids \in Nat \ {0} /\ Generations \in Nat \ {0}

Pids == 1..MaxPids
InitProcess == 0
Places == {"idle", "looking", "judging", "listing", "stopping", "killing", "reading", "joining",
           "failed", "connected", "closing", "waiting", "root", "quitting", "closed"}

VARIABLES alive,    \* the processes there are, or were given a pid and not yet ended
          used,     \* the last pid given
          parent,   \* who started each process, or init
          ours,     \* history: started by this launch, however indirectly
          file,     \* the port file of each pid: "none", "stale", "partial", "whole"
          follow,   \* the application may be a child of what is started: a script, or sudo
          root,     \* QATREC_SUDO: the application runs as root
          at,       \* where start, abandon or close is
          launched, \* context.pid
          app,      \* the pid connected to, qatrec_app_pid
          before,   \* port files that were there before the launch
          files,    \* port files at the last look
          late,     \* the deadline has passed
          tries,    \* connections attempted
          port,     \* the port as read: "none", "right", "wrong"
          doomed,   \* processes abandon has still to stop
          strayed   \* history: of ours, but out of reach of abandon

processes == <<alive, used, parent, ours>>
settings == <<follow, root>>
search == <<before, files, late>>
joining == <<app, tries, port>>
ending == <<doomed, strayed>>
vars == <<processes, file, settings, at, launched, search, joining, ending>>

Init == /\ alive = {} /\ used = 0
        /\ parent = [p \in Pids |-> InitProcess]
        /\ ours = {}
        /\ file \in [Pids -> {"none", "stale"}]
        /\ follow \in BOOLEAN /\ root \in BOOLEAN /\ (root => follow)
        /\ at = "idle" /\ launched = 0 /\ app = 0
        /\ before = {} /\ files = {} /\ late = FALSE
        /\ tries = 0 /\ port = "none"
        /\ doomed = {} /\ strayed = {}

PortFiles == {p \in Pids : file[p] # "none"}

\* The parent as it is found: a process that is gone has none.
ParentOf(pid) == IF pid \in alive THEN parent[pid] ELSE InitProcess

\* descends_from: the process and its parents, so many of them at most.
Descends(pid, ancestor) ==
  LET up[n \in 0..Generations - 1] == IF n = 0 THEN pid ELSE ParentOf(up[n - 1])
  IN  \E n \in 0..Generations - 1 : up[n] = ancestor

\* What a process leaves behind: its children belong to init.
Without(p) == [q \in Pids |-> IF parent[q] = p THEN InitProcess ELSE parent[q]]
Ends(p) == alive' = alive \ {p} /\ parent' = Without(p)

\* Ours and alive, but not to be found below the launched process: the link is
\* gone, or too long.
Astray == {p \in ours \cap alive : ~Descends(p, launched)}

----------------------------------------------------------------------------
(* The machine.                                                             *)

\* A process of ours starts another: a shell, a helper, the application.
Fork(p) == /\ p \in ours \cap alive /\ used < MaxPids
           /\ used' = used + 1
           /\ alive' = alive \cup {used + 1}
           /\ parent' = [parent EXCEPT ![used + 1] = p]
           /\ ours' = ours \cup {used + 1}
           /\ strayed' = IF p \in strayed \/ at \in {"stopping", "killing"}
                         THEN strayed \cup {used + 1} ELSE strayed
           /\ UNCHANGED <<file, settings, at, launched, search, joining, doomed>>

\* Somebody else starts an application with a session of Qat's of their own.
StartAnother == /\ used < MaxPids
                /\ used' = used + 1
                /\ alive' = alive \cup {used + 1}
                /\ UNCHANGED <<parent, ours, file, settings, at, launched, search, joining, ending>>

\* The server injected into a process writes its port file.  The file is there
\* before the number in it is complete.
Announce(p) == /\ p \in alive
               /\ \/ file[p] \in {"none", "stale"} /\ file' = [file EXCEPT ![p] = "partial"]
                  \/ file[p] = "partial" /\ file' = [file EXCEPT ![p] = "whole"]
               /\ UNCHANGED <<processes, settings, at, launched, search, joining, ending>>

\* A process ends by itself, and leaves its file if it does not end in order.
Exit(p) == /\ p \in alive
           /\ Ends(p)
           /\ file' \in {file, [file EXCEPT ![p] = "none"]}
           /\ UNCHANGED <<used, ours, settings, at, launched, search, joining, ending>>

\* What it does before a start and after its end is of no account.
MachineNext == /\ at \notin {"idle", "failed", "closed"}
               /\ \/ StartAnother
                  \/ \E p \in Pids : Fork(p) \/ Announce(p) \/ Exit(p)

----------------------------------------------------------------------------
(* start.                                                                   *)

Goes(place) == at' = place /\ UNCHANGED settings

\* The command that puts the application back fails, and nothing is started.
ResetFails == /\ at = "idle"
              /\ Goes("failed")
              /\ UNCHANGED <<processes, file, launched, search, joining, ending>>

Launched == /\ used < MaxPids
            /\ used' = used + 1
            /\ alive' = alive \cup {used + 1}
            /\ ours' = ours \cup {used + 1}
            /\ launched' = used + 1
            /\ UNCHANGED parent

\* A binary is left to Qat, which waits for the file of the process it started.
StartDirectly == /\ at = "idle" /\ ~follow
                 /\ Launched
                 /\ file' = [file EXCEPT ![used + 1] = "whole"]
                 /\ Goes("connected")
                 /\ UNCHANGED <<search, joining, ending>>

StartFollowing == /\ at = "idle" /\ follow
                  /\ before' = PortFiles
                  /\ Launched
                  /\ Goes("looking")
                  /\ UNCHANGED <<file, files, late, joining, ending>>

Look == /\ at = "looking"
        /\ files' = PortFiles
        /\ Goes("judging")
        /\ UNCHANGED <<processes, file, launched, before, late, joining, ending>>

\* The search is over, and its variables go.
SearchEnds(place) == before' = {} /\ files' = {} /\ late' = FALSE /\ Goes(place)

Joins(p) == /\ app' = p
            /\ SearchEnds("reading")
            /\ UNCHANGED <<processes, file, launched, tries, port, ending>>

\* The launched process, if it announced itself, even with a file of before.
FollowLaunched == /\ at = "judging" /\ launched \in files
                  /\ Joins(launched)

\* Mutant: the first new file is followed, whoever wrote it.
FollowAnyone == /\ at = "judging" /\ launched \notin files
                /\ \E p \in files \ before : Joins(p)

FollowChild == /\ at = "judging" /\ launched \notin files
               /\ \E p \in files \ before : Descends(p, launched) /\ Joins(p)

Nobody == launched \notin files /\ \A p \in files \ before : ~Descends(p, launched)

LookAgain == /\ at = "judging" /\ Nobody
             /\ launched \in alive /\ ~late
             /\ files' = {}
             /\ Goes("looking")
             /\ UNCHANGED <<processes, file, launched, before, late, joining, ending>>

\* Mutant: only the launched process is watched, not the clock.
GiveUpIfGone == /\ at = "judging" /\ Nobody
                /\ launched \notin alive
                /\ SearchEnds("listing")
                /\ UNCHANGED <<processes, file, launched, joining, ending>>

GiveUp == /\ at = "judging" /\ Nobody
          /\ launched \notin alive \/ late
          /\ SearchEnds("listing")
          /\ UNCHANGED <<processes, file, launched, joining, ending>>

Deadline == /\ at \in {"looking", "judging"} /\ ~late
            /\ late' = TRUE
            /\ UNCHANGED <<processes, file, settings, at, launched, before, files, joining, ending>>

----------------------------------------------------------------------------
(* _connect: the port is read, and once more when the connection fails.     *)

ReadPort == /\ at = "reading"
            /\ file[app] # "none"
            /\ port' = IF file[app] = "whole" THEN "right" ELSE "wrong"
            /\ Goes("joining")
            /\ UNCHANGED <<processes, file, launched, search, app, tries, ending>>

\* The file is gone, or is not a number for as long as it is read.
ReadFails == /\ at = "reading"
             /\ file[app] \in {"none", "partial"}
             /\ Goes("failed")
             /\ UNCHANGED <<processes, file, launched, search, joining, ending>>

Join == /\ at = "joining" /\ port = "right" /\ app \in alive
        /\ Goes("connected")
        /\ UNCHANGED <<processes, file, launched, search, joining, ending>>

\* The server need not be accepting yet.
JoinFails == /\ at = "joining"
             /\ tries' = tries + 1
             /\ Goes(IF tries = 0 THEN "reading" ELSE "failed")
             /\ UNCHANGED <<processes, file, launched, search, app, port, ending>>

----------------------------------------------------------------------------
(* abandon: what descends from the launched process, the last started       *)
(* first, and then that process itself.                                     *)

\* Mutant: only the launched process itself is stopped.
ListNone == /\ at = "listing"
            /\ strayed' = strayed \cup Astray
            /\ Goes("killing")
            /\ UNCHANGED <<processes, file, launched, search, joining, doomed>>

List == /\ at = "listing"
        /\ doomed' = {p \in alive \ {launched} : Descends(p, launched)}
        /\ strayed' = strayed \cup Astray
        /\ Goes("stopping")
        /\ UNCHANGED <<processes, file, launched, search, joining>>

\* SIGTERM, and after a while SIGKILL: it is gone before the next is stopped.
StopNext == /\ at = "stopping"
            /\ \E p \in doomed : /\ \A q \in doomed : q <= p
                                 /\ Ends(p)
                                 /\ doomed' = doomed \ {p}
            /\ UNCHANGED <<used, ours, file, settings, at, launched, search, joining, strayed>>

AllStopped == /\ at = "stopping" /\ doomed = {}
              /\ Goes("killing")
              /\ UNCHANGED <<processes, file, launched, search, joining, ending>>

KillLaunched == /\ at = "killing"
                /\ Ends(launched)
                /\ Goes("failed")
                /\ UNCHANGED <<used, ours, file, launched, search, joining, ending>>

----------------------------------------------------------------------------
(* close: the application first, then the launcher, then Qat's own.         *)

Close == /\ at = "connected"
         /\ Goes(IF app # 0 /\ app # launched THEN "closing" ELSE "root")
         /\ UNCHANGED <<processes, file, launched, search, joining, ending>>

StopApplication == /\ at = "closing"
                   /\ Ends(app)
                   /\ Goes("waiting")
                   /\ UNCHANGED <<used, ours, file, launched, search, joining, ending>>

\* The launcher may end by itself within its grace, or not.
Waited == /\ at = "waiting"
          /\ Goes("root")
          /\ UNCHANGED <<processes, file, launched, search, joining, ending>>

\* What belongs to root Qat can neither kill nor remove: done here with sudo.
StopRoot == /\ at = "root"
            /\ IF root THEN /\ Ends(launched)
                            /\ file' = IF app = 0 THEN file ELSE [file EXCEPT ![app] = "none"]
               ELSE UNCHANGED <<alive, parent, file>>
            /\ Goes("quitting")
            /\ UNCHANGED <<used, ours, launched, search, joining, ending>>

\* qat.close_application: it owns the process it launched.
QatCloses == /\ at = "quitting"
             /\ Ends(launched)
             /\ file' = IF app = 0 THEN [file EXCEPT ![launched] = "none"]
                        ELSE [file EXCEPT ![app] = "none"]
             /\ Goes("closed")
             /\ UNCHANGED <<used, ours, launched, search, joining, ending>>

----------------------------------------------------------------------------
StartNext == \/ ResetFails \/ StartDirectly \/ StartFollowing
             \/ Look \/ FollowLaunched \/ FollowChild \/ LookAgain \/ GiveUp
             \/ ReadPort \/ ReadFails \/ Join \/ JoinFails
             \/ List \/ StopNext \/ AllStopped \/ KillLaunched

CloseNext == Close \/ StopApplication \/ Waited \/ StopRoot \/ QatCloses

Next == MachineNext \/ StartNext \/ Deadline \/ CloseNext

\* The recorder's own steps go on and its clock advances; the machine does as it likes.
Fairness == WF_vars(StartNext \/ StopApplication \/ Waited \/ StopRoot \/ QatCloses) /\ WF_vars(Deadline)

Spec == Init /\ [][Next]_vars /\ Fairness

----------------------------------------------------------------------------
(* What a start and a close promise.                                        *)

\* Every variable keeps its type; two connections are attempted at most, what
\* is to be stopped was started here, and children have living parents.
TypeOK ==
  /\ alive \subseteq 1..used /\ ours \subseteq 1..used /\ used \in 0..MaxPids
  /\ parent \in [Pids -> alive \cup {InitProcess}]
  /\ file \in [Pids -> {"none", "stale", "partial", "whole"}]
  /\ follow \in BOOLEAN /\ root \in BOOLEAN /\ at \in Places
  /\ launched \in 0..used /\ app \in 0..used
  /\ before \subseteq Pids /\ files \subseteq Pids /\ late \in BOOLEAN
  /\ tries \in 0..2 /\ port \in {"none", "right", "wrong"}
  /\ doomed \subseteq ours /\ strayed \subseteq ours

\* The recorder only ever connects to a process its own launch started, even
\* if somebody else's announces itself while it waits and processes in between
\* end (descends_from, launch.py:129).
ConnectsToItsOwn == at \in {"reading", "joining", "connected"} /\ app # 0 => app \in ours

\* A start that gives up waiting leaves running only what had lost its link to
\* the launched process before the list was made, or was too far below it, or
\* was started after it
\* (abandon, launch.py:589).  After close neither the application nor the launcher
\* runs, though Qat owns the launcher's pid only (close, launch.py:732).
NothingIsLeft == /\ at = "failed" /\ app = 0 => alive \cap ours \subseteq strayed
                 /\ at = "closed" => {launched, app} \cap alive = {}

\* A start ends, connected or not, whatever the machine does; and a close too.
StartEnds == /\ at = "looking" ~> at \in {"failed", "connected"}
             /\ at = "closing" ~> at = "closed"
=============================================================================
