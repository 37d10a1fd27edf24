----------------------------- MODULE LaunchProofs -----------------------------
(****************************************************************************)
(* Proofs about Launch: for any number of processes and however far up      *)
(* descends_from looks, the recorder connects to a process of its own       *)
(* launch, and what a failed start or a close leaves running is known.      *)
(****************************************************************************)
EXTENDS Launch, ListLemmas

\* Whoever has a parent, is launched or is connected to was started here.
Family == /\ \A p \in Pids : parent[p] # InitProcess => p \in ours
          /\ launched # 0 => launched \in ours
          /\ app # 0 => app \in ours

\* Where there is a launched process, and an application that was found.
Lookout == /\ at = "idle" => alive = {} /\ ours = {}
           /\ at \notin {"idle", "failed"} => launched # 0
           /\ at \in {"idle", "looking", "judging", "listing", "stopping", "killing"} => app = 0
           /\ at \in {"idle", "looking", "judging"} => tries = 0
           /\ at \in {"reading", "joining"} => app # 0 /\ tries <= 1

\* While abandon works, what of ours still runs is on its list or out of reach.
Reached == /\ at = "stopping" => alive \cap ours \subseteq {launched} \cup doomed \cup strayed
           /\ at = "killing" => alive \cap ours \subseteq {launched} \cup strayed

\* While close works, the application stopped first does not come back.
AppGone == at \in {"waiting", "root", "quitting", "closed"} /\ app \notin {0, launched} => app \notin alive

IInv == TypeOK /\ Family /\ Lookout /\ Reached /\ AppGone /\ ConnectsToItsOwn /\ NothingIsLeft

-----------------------------------------------------------------------------
(* descends_from.                                                           *)

\* The way up from a process, as far as the n-th parent.
Up(f, pid, n) == \A i \in 0..n : f[i] = IF i = 0 THEN pid ELSE ParentOf(f[i - 1])

\* A process that descends from one that was launched is ours: either it is the
\* launched process, or it has a parent.
LEMMA DescendsIsOurs ==
  ASSUME TypeOK, Family, NEW p \in Pids, NEW a \in ours, Descends(p, a)
  PROVE  p \in ours
<1> DEFINE N == Generations - 1
           S == {InitProcess} \cup Pids
           Step(f) == [n \in 0..N |-> IF n = 0 THEN p ELSE ParentOf(f[n - 1])]
           F == CHOOSE f : f = Step(f)
           Has(n) == \E f \in [0..n -> S] : Up(f, p, n)
           Bad == {n \in 0..N : ~Has(n)}
<1>0. /\ N \in Nat /\ a # InitProcess /\ \A q \in S : ParentOf(q) \in S
      /\ ParentOf(InitProcess) = InitProcess
  <2>1. alive \subseteq Pids /\ ours \subseteq Pids /\ InitProcess \notin Pids
    BY LaunchAssumption DEF TypeOK, Pids, InitProcess
  <2>2. \A q \in Pids : parent[q] \in S
    BY <2>1 DEF TypeOK
  <2> QED
    BY <2>1, <2>2, LaunchAssumption DEF ParentOf
<1>1. Has(0)
  <2>1. [n \in 0..0 |-> p] \in [0..0 -> S] /\ Up([n \in 0..0 |-> p], p, 0)
    BY DEF Up
  <2> QED
    BY <2>1
<1>2. ASSUME NEW n \in 0..N, Has(n)
      PROVE  Has(n + 1)
  <2>1. PICK f \in [0..n -> S] : Up(f, p, n)
    BY <1>2
  <2> DEFINE g == [i \in 0..(n + 1) |-> IF i = n + 1 THEN ParentOf(f[n]) ELSE f[i]]
  <2>2. n \in Nat /\ n \in 0..n
    BY <1>0
  <2>3. g \in [0..(n + 1) -> S]
    BY <1>0, <2>2
  <2>4. ASSUME NEW i \in 0..(n + 1)
        PROVE  g[i] = IF i = 0 THEN p ELSE ParentOf(g[i - 1])
    <3>1. CASE i = n + 1
      <4>1. i # 0 /\ i - 1 = n /\ n \in 0..(n + 1) /\ n # n + 1
        BY <3>1, <2>2
      <4>2. g[i - 1] = f[n] /\ g[i] = ParentOf(f[n])
        BY <4>1, <3>1
      <4> QED
        BY <4>1, <4>2
    <3>2. CASE i # n + 1
      <4>1. i \in 0..n /\ (i # 0 => i - 1 \in 0..(n + 1) /\ i - 1 # n + 1)
        BY <3>2, <2>2
      <4>2. g[i] = f[i] /\ (i # 0 => g[i - 1] = f[i - 1])
        BY <4>1, <3>2
      <4> QED
        BY <4>1, <4>2, <2>1 DEF Up
    <3> QED
      BY <3>1, <3>2
  <2> QED
    BY <2>3, <2>4 DEF Up
<1> HIDE DEF Has
<1>3. Has(N)
  <2> SUFFICES ASSUME ~Has(N)
               PROVE  FALSE
    OBVIOUS
  <2> HIDE DEF N
  <2>1. Bad \in SUBSET Nat /\ N \in Bad
    BY <1>0
  <2> HIDE DEF Bad
  <2>2. PICK n \in Bad : \A m \in Bad : n <= m
    BY <2>1, Least
  <2> USE DEF Bad
  <2>3. n \in 0..N /\ n # 0 /\ ~Has(n) /\ n - 1 \notin Bad /\ n - 1 \in 0..N
    BY <2>2, <1>0, <1>1
  <2>4. Has((n - 1) + 1) /\ (n - 1) + 1 = n
    BY <2>3, <1>0, <1>2
  <2> QED
    BY <2>3, <2>4
<1> USE DEF Has
<1>4. PICK f \in [0..N -> S] : Up(f, p, N)
  BY <1>3
<1> HIDE DEF N, Has, Bad
<1>5. f = Step(f)
  BY <1>4 DEF Up
<1>6. F = Step(F)
  BY <1>5
<1>7. \E n \in 0..N : F[n] = a
  BY DEF Descends, N
<1>8. Up(F, p, N)
  BY <1>6 DEF Up
<1> HIDE DEF F
<1>9. CASE parent[p] # InitProcess
  BY <1>9 DEF Family
<1>10. CASE parent[p] = InitProcess
  <2> DEFINE Off == {n \in 1..N : F[n] # InitProcess}
  <2>1. ASSUME Off # {}
        PROVE  FALSE
    <3>1. Off \in SUBSET Nat
      BY <1>0
    <3> HIDE DEF Off
    <3>2. PICK n \in Off : \A m \in Off : n <= m
      BY <2>1, <3>1, Least
    <3> USE DEF Off
    <3>3. n \in 1..N /\ F[n] = ParentOf(F[n - 1]) /\ F[n] # InitProcess /\ n - 1 \notin Off
      BY <3>2, <1>0, <1>8 DEF Up
    <3>4. CASE n = 1
      BY <3>3, <3>4, <1>0, <1>8, <1>10 DEF Up, ParentOf
    <3>5. CASE n # 1
      <4>1. n - 1 \in 1..N
        BY <3>3, <3>5, <1>0
      <4>2. F[n - 1] = InitProcess
        BY <3>3, <4>1
      <4> QED
        BY <3>3, <4>2, <1>0
    <3> QED
      BY <3>4, <3>5
  <2>2. PICK n \in 0..N : F[n] = a
    BY <1>7
  <2>3. n = 0
    BY <2>1, <2>2, <1>0
  <2>4. p = a
    BY <2>2, <2>3, <1>0, <1>8 DEF Up
  <2> QED
    BY <2>4
<1> QED
  BY <1>9, <1>10

-----------------------------------------------------------------------------
(* The parts of the invariant, action by action.                            *)

LEMMA InitIInv == Init => IInv
<1> SUFFICES ASSUME Init
             PROVE  IInv
  OBVIOUS
<1>1. TypeOK
  <2>1. follow \in BOOLEAN /\ root \in BOOLEAN /\ late \in BOOLEAN
    BY DEF Init
  <2>2. used \in 0..MaxPids /\ at \in Places /\ launched \in 0..used /\ app \in 0..used
        /\ tries \in 0..2 /\ port \in {"none", "right", "wrong"}
    BY LaunchAssumption DEF Init, Places
  <2>3. /\ alive \subseteq 1..used /\ ours \subseteq 1..used
        /\ before \subseteq Pids /\ files \subseteq Pids
        /\ doomed \subseteq ours /\ strayed \subseteq ours
        /\ parent \in [Pids -> alive \cup {InitProcess}]
        /\ file \in [Pids -> {"none", "stale", "partial", "whole"}]
    BY DEF Init
  <2> QED
    BY <2>1, <2>2, <2>3 DEF TypeOK
<1>2. Family /\ Lookout
  BY DEF Init, Family, Lookout, InitProcess, Pids
<1>3. Reached /\ AppGone /\ ConnectsToItsOwn /\ NothingIsLeft
  BY DEF Init, Reached, AppGone, ConnectsToItsOwn, NothingIsLeft
<1> QED
  BY <1>1, <1>2, <1>3 DEF IInv

\* Pids are given in order and parents live.
LEMMA TypeStep ==
  ASSUME IInv, [Next]_vars
  PROVE  TypeOK'
<1>0. IInv
  OBVIOUS
<1> USE LaunchAssumption DEF IInv, TypeOK, Lookout, Pids, Places, InitProcess, PortFiles
<1>1. CASE StartAnother /\ at \notin {"idle", "failed", "closed"}
  BY <1>0, <1>1 DEF StartAnother, processes, settings, search, joining, ending
<1>2. ASSUME NEW p \in Pids, Fork(p)
      PROVE  TypeOK'
  BY <1>0, <1>2 DEF Fork, processes, settings, search, joining, ending
<1>3. ASSUME NEW p \in Pids, Announce(p)
      PROVE  TypeOK'
  BY <1>0, <1>3 DEF Announce, processes, settings, search, joining, ending
<1>4. ASSUME NEW p \in Pids, Exit(p)
      PROVE  TypeOK'
  BY <1>0, <1>4 DEF Exit, processes, settings, search, joining, ending, Ends, Without
<1>5. CASE ResetFails
  BY <1>0, <1>5 DEF ResetFails, processes, settings, search, joining, ending, Goes
<1>6. CASE StartDirectly
  BY <1>0, <1>6 DEF StartDirectly, processes, settings, search, joining, ending, Goes, Launched
<1>7. CASE StartFollowing
  BY <1>0, <1>7 DEF StartFollowing, processes, settings, search, joining, ending, Goes, Launched
<1>8. CASE Look
  BY <1>0, <1>8 DEF Look, processes, settings, search, joining, ending, Goes
<1>9. CASE FollowLaunched
  BY <1>0, <1>9 DEF FollowLaunched, processes, settings, search, joining, ending, Goes, SearchEnds, Joins
<1>10. CASE FollowChild
  <2>1. PICK p \in files \ before : Descends(p, launched) /\ Joins(p)
    BY <1>10 DEF FollowChild
  <2>2. p \in Pids /\ launched \in ours
    BY <1>0, <1>10, <2>1 DEF FollowChild, Lookout, Family
  <2>3. p \in ours
    BY <1>0, <2>1, <2>2, DescendsIsOurs
  <2>4. p \in 1..used
    BY <1>0, <2>3
  <2>5. app' = p /\ before' = {} /\ files' = {} /\ late' = FALSE /\ at' = "reading"
    BY <2>1 DEF Joins, SearchEnds, Goes
  <2>6. UNCHANGED <<alive, used, parent, ours, file, follow, root, launched, tries, port, doomed, strayed>>
    BY <2>1 DEF Joins, SearchEnds, Goes, processes, settings, ending
  <2>7. app' \in 0..used' /\ before' \subseteq Pids /\ files' \subseteq Pids /\ at' \in Places
    BY <1>0, <2>4, <2>5, <2>6
  <2>8. late' \in BOOLEAN
    BY <2>5
  <2> QED
    BY <1>0, <2>6, <2>7, <2>8
<1>11. CASE LookAgain
  BY <1>0, <1>11 DEF LookAgain, processes, settings, search, joining, ending, Goes
<1>12. CASE GiveUp
  BY <1>0, <1>12 DEF GiveUp, processes, settings, search, joining, ending, Goes, SearchEnds
<1>13. CASE ReadPort
  BY <1>0, <1>13 DEF ReadPort, processes, settings, search, joining, ending, Goes
<1>14. CASE ReadFails
  BY <1>0, <1>14 DEF ReadFails, processes, settings, search, joining, ending, Goes
<1>15. CASE Join
  BY <1>0, <1>15 DEF Join, processes, settings, search, joining, ending, Goes
<1>16. CASE JoinFails
  BY <1>0, <1>16 DEF JoinFails, processes, settings, search, joining, ending, Goes
<1>17. CASE List
  <2>1. launched \in ours
    BY <1>0, <1>17 DEF List, Family
  <2>2. \A p \in alive : Descends(p, launched) => p \in ours
    BY <1>0, <2>1, DescendsIsOurs
  <2>3. doomed' \subseteq ours
    BY <1>17, <2>2 DEF List
  <2>4. strayed' \subseteq ours
    BY <1>0, <1>17 DEF List, Astray
  <2>5. UNCHANGED <<alive, used, parent, ours, file, follow, root, launched, before, files, late, app,
                    tries, port>> /\ at' \in Places
    BY <1>17 DEF List, processes, search, joining, Goes, settings
  <2> QED
    BY <1>0, <2>3, <2>4, <2>5
<1>18. CASE StopNext
  BY <1>0, <1>18 DEF StopNext, processes, settings, search, joining, ending, Ends, Without
<1>19. CASE AllStopped
  BY <1>0, <1>19 DEF AllStopped, processes, settings, search, joining, ending, Goes
<1>20. CASE KillLaunched
  BY <1>0, <1>20 DEF KillLaunched, processes, settings, search, joining, ending, Goes, Ends, Without
<1>21. CASE Deadline
  BY <1>0, <1>21 DEF Deadline, processes, settings, search, joining, ending
<1>22. CASE Close
  BY <1>0, <1>22 DEF Close, processes, settings, search, joining, ending, Goes
<1>23. CASE StopApplication
  BY <1>0, <1>23 DEF StopApplication, processes, settings, search, joining, ending, Goes, Ends, Without
<1>24. CASE Waited
  BY <1>0, <1>24 DEF Waited, processes, settings, search, joining, ending, Goes
<1>25. CASE StopRoot
  <2>1. /\ alive' \subseteq 1..used
        /\ parent' \in [Pids -> alive' \cup {InitProcess}]
        /\ file' \in [Pids -> {"none", "stale", "partial", "whole"}]
    <3>1. CASE Ends(launched) /\ file' \in {file, [file EXCEPT ![app] = "none"]}
      BY <1>0, <3>1 DEF Ends, Without
    <3>2. CASE UNCHANGED <<alive, parent, file>>
      BY <1>0, <3>2
    <3> QED
      BY <1>25, <3>1, <3>2 DEF StopRoot
  <2>2. UNCHANGED <<used, ours, follow, root, launched, before, files, late, app, tries, port, doomed,
                    strayed>> /\ at' \in Places
    BY <1>25 DEF StopRoot, Goes, settings, search, joining, ending
  <2> QED
    BY <1>0, <2>1, <2>2
<1>26. CASE QatCloses
  BY <1>0, <1>26 DEF QatCloses, processes, settings, search, joining, ending, Goes, Ends, Without
<1>27. CASE UNCHANGED vars
  BY <1>0, <1>27 DEF vars, processes, settings, search, joining, ending
<1> QED
  BY <1>1, <1>2, <1>3, <1>4, <1>5, <1>6, <1>7, <1>8, <1>9, <1>10, <1>11, <1>12, <1>13, <1>14,
     <1>15, <1>16, <1>17, <1>18, <1>19, <1>20, <1>21, <1>22, <1>23, <1>24, <1>25, <1>26, <1>27
     DEF Next, MachineNext, StartNext, CloseNext

\* Only a process of ours gets a parent, and only one of ours is followed.
LEMMA FamilyStep ==
  ASSUME IInv, [Next]_vars
  PROVE  Family'
<1>0. IInv
  OBVIOUS
<1> USE LaunchAssumption DEF IInv, TypeOK, Family, Pids, InitProcess
<1>1. CASE StartAnother /\ at \notin {"idle", "failed", "closed"}
  BY <1>0, <1>1 DEF StartAnother, processes, settings, search, joining, ending
<1>2. ASSUME NEW p \in Pids, Fork(p)
      PROVE  Family'
  BY <1>0, <1>2 DEF Fork, processes, settings, search, joining, ending
<1>3. ASSUME NEW p \in Pids, Announce(p)
      PROVE  Family'
  BY <1>0, <1>3 DEF Announce, processes, settings, search, joining, ending
<1>4. ASSUME NEW p \in Pids, Exit(p)
      PROVE  Family'
  BY <1>0, <1>4 DEF Exit, processes, settings, search, joining, ending, Ends, Without
<1>5. CASE ResetFails
  BY <1>0, <1>5 DEF ResetFails, processes, settings, search, joining, ending, Goes
<1>6. CASE StartDirectly
  BY <1>0, <1>6 DEF StartDirectly, processes, settings, search, joining, ending, Goes, Launched
<1>7. CASE StartFollowing
  BY <1>0, <1>7 DEF StartFollowing, processes, settings, search, joining, ending, Goes, Launched
<1>8. CASE Look
  BY <1>0, <1>8 DEF Look, processes, settings, search, joining, ending, Goes
<1>9. CASE FollowLaunched
  BY <1>0, <1>9 DEF FollowLaunched, Joins, Lookout, processes, ending
<1>10. CASE FollowChild
  <2>1. PICK p \in files \ before : Descends(p, launched) /\ Joins(p)
    BY <1>10 DEF FollowChild
  <2>2. p \in Pids /\ launched \in ours
    BY <1>0, <1>10, <2>1 DEF FollowChild, Lookout
  <2>3. p \in ours
    BY <1>0, <2>1, <2>2, DescendsIsOurs
  <2> QED
    BY <1>0, <2>1, <2>3 DEF Joins, processes, ending
<1>11. CASE LookAgain
  BY <1>0, <1>11 DEF LookAgain, processes, settings, search, joining, ending, Goes
<1>12. CASE GiveUp
  BY <1>0, <1>12 DEF GiveUp, processes, settings, search, joining, ending, Goes, SearchEnds
<1>13. CASE ReadPort
  BY <1>0, <1>13 DEF ReadPort, processes, settings, search, joining, ending, Goes
<1>14. CASE ReadFails
  BY <1>0, <1>14 DEF ReadFails, processes, settings, search, joining, ending, Goes
<1>15. CASE Join
  BY <1>0, <1>15 DEF Join, processes, settings, search, joining, ending, Goes
<1>16. CASE JoinFails
  BY <1>0, <1>16 DEF JoinFails, processes, settings, search, joining, ending, Goes
<1>17. CASE List
  BY <1>0, <1>17 DEF List, processes, settings, search, joining, ending, Goes
<1>18. CASE StopNext
  BY <1>0, <1>18 DEF StopNext, processes, settings, search, joining, ending, Ends, Without
<1>19. CASE AllStopped
  BY <1>0, <1>19 DEF AllStopped, processes, settings, search, joining, ending, Goes
<1>20. CASE KillLaunched
  BY <1>0, <1>20 DEF KillLaunched, processes, settings, search, joining, ending, Goes, Ends, Without
<1>21. CASE Deadline
  BY <1>0, <1>21 DEF Deadline, processes, settings, search, joining, ending
<1>22. CASE Close
  BY <1>0, <1>22 DEF Close, processes, settings, search, joining, ending, Goes
<1>23. CASE StopApplication
  BY <1>0, <1>23 DEF StopApplication, processes, settings, search, joining, ending, Goes, Ends, Without
<1>24. CASE Waited
  BY <1>0, <1>24 DEF Waited, processes, settings, search, joining, ending, Goes
<1>25. CASE StopRoot
  BY <1>0, <1>25 DEF StopRoot, processes, settings, search, joining, ending, Goes, Ends, Without
<1>26. CASE QatCloses
  BY <1>0, <1>26 DEF QatCloses, processes, settings, search, joining, ending, Goes, Ends, Without
<1>27. CASE UNCHANGED vars
  BY <1>0, <1>27 DEF vars, processes, settings, search, joining, ending
<1> QED
  BY <1>1, <1>2, <1>3, <1>4, <1>5, <1>6, <1>7, <1>8, <1>9, <1>10, <1>11, <1>12, <1>13, <1>14,
     <1>15, <1>16, <1>17, <1>18, <1>19, <1>20, <1>21, <1>22, <1>23, <1>24, <1>25, <1>26, <1>27
     DEF Next, MachineNext, StartNext, CloseNext

\* The places follow each other as start, abandon and close go.
LEMMA LookoutStep ==
  ASSUME IInv, [Next]_vars
  PROVE  Lookout'
<1>0. IInv
  OBVIOUS
<1> USE LaunchAssumption DEF IInv, TypeOK, Lookout, Pids, InitProcess
<1>1. CASE StartAnother /\ at \notin {"idle", "failed", "closed"}
  BY <1>0, <1>1 DEF StartAnother, processes, settings, search, joining, ending
<1>2. ASSUME NEW p \in Pids, Fork(p)
      PROVE  Lookout'
  BY <1>0, <1>2 DEF Fork, processes, settings, search, joining, ending
<1>3. ASSUME NEW p \in Pids, Announce(p)
      PROVE  Lookout'
  BY <1>0, <1>3 DEF Announce, processes, settings, search, joining, ending
<1>4. ASSUME NEW p \in Pids, Exit(p)
      PROVE  Lookout'
  BY <1>0, <1>4 DEF Exit, processes, settings, search, joining, ending, Ends, Without
<1>5. CASE ResetFails
  BY <1>0, <1>5 DEF ResetFails, processes, settings, search, joining, ending, Goes
<1>6. CASE StartDirectly
  BY <1>0, <1>6 DEF StartDirectly, processes, settings, search, joining, ending, Goes, Launched
<1>7. CASE StartFollowing
  BY <1>0, <1>7 DEF StartFollowing, processes, settings, search, joining, ending, Goes, Launched
<1>8. CASE Look
  BY <1>0, <1>8 DEF Look, processes, settings, search, joining, ending, Goes
<1>9. CASE FollowLaunched
  BY <1>0, <1>9 DEF FollowLaunched, processes, settings, search, joining, ending, Goes, SearchEnds, Joins
<1>10. CASE FollowChild
  BY <1>0, <1>10 DEF FollowChild, processes, settings, search, joining, ending, Goes, SearchEnds, Joins
<1>11. CASE LookAgain
  BY <1>0, <1>11 DEF LookAgain, processes, settings, search, joining, ending, Goes
<1>12. CASE GiveUp
  BY <1>0, <1>12 DEF GiveUp, processes, settings, search, joining, ending, Goes, SearchEnds
<1>13. CASE ReadPort
  BY <1>0, <1>13 DEF ReadPort, processes, settings, search, joining, ending, Goes
<1>14. CASE ReadFails
  BY <1>0, <1>14 DEF ReadFails, processes, settings, search, joining, ending, Goes
<1>15. CASE Join
  BY <1>0, <1>15 DEF Join, processes, settings, search, joining, ending, Goes
<1>16. CASE JoinFails
  BY <1>0, <1>16 DEF JoinFails, processes, settings, search, joining, ending, Goes
<1>17. CASE List
  BY <1>0, <1>17 DEF List, processes, settings, search, joining, ending, Goes
<1>18. CASE StopNext
  BY <1>0, <1>18 DEF StopNext, processes, settings, search, joining, ending, Ends, Without
<1>19. CASE AllStopped
  BY <1>0, <1>19 DEF AllStopped, processes, settings, search, joining, ending, Goes
<1>20. CASE KillLaunched
  BY <1>0, <1>20 DEF KillLaunched, processes, settings, search, joining, ending, Goes, Ends, Without
<1>21. CASE Deadline
  BY <1>0, <1>21 DEF Deadline, processes, settings, search, joining, ending
<1>22. CASE Close
  BY <1>0, <1>22 DEF Close, processes, settings, search, joining, ending, Goes
<1>23. CASE StopApplication
  BY <1>0, <1>23 DEF StopApplication, processes, settings, search, joining, ending, Goes, Ends, Without
<1>24. CASE Waited
  BY <1>0, <1>24 DEF Waited, processes, settings, search, joining, ending, Goes
<1>25. CASE StopRoot
  BY <1>0, <1>25 DEF StopRoot, processes, settings, search, joining, ending, Goes, Ends, Without
<1>26. CASE QatCloses
  BY <1>0, <1>26 DEF QatCloses, processes, settings, search, joining, ending, Goes, Ends, Without
<1>27. CASE UNCHANGED vars
  BY <1>0, <1>27 DEF vars, processes, settings, search, joining, ending
<1> QED
  BY <1>1, <1>2, <1>3, <1>4, <1>5, <1>6, <1>7, <1>8, <1>9, <1>10, <1>11, <1>12, <1>13, <1>14,
     <1>15, <1>16, <1>17, <1>18, <1>19, <1>20, <1>21, <1>22, <1>23, <1>24, <1>25, <1>26, <1>27
     DEF Next, MachineNext, StartNext, CloseNext

\* What abandon has stopped is gone, and what forks meanwhile is known.
LEMMA ReachedStep ==
  ASSUME IInv, [Next]_vars
  PROVE  Reached'
<1>0. IInv
  OBVIOUS
<1> USE LaunchAssumption DEF IInv, TypeOK, Lookout, Reached, Pids, InitProcess
<1>1. CASE StartAnother /\ at \notin {"idle", "failed", "closed"}
  BY <1>0, <1>1 DEF StartAnother, processes, settings, search, joining, ending, Astray
<1>2. ASSUME NEW p \in Pids, Fork(p)
      PROVE  Reached'
  BY <1>0, <1>2 DEF Fork, processes, settings, search, joining, ending, Astray
<1>3. ASSUME NEW p \in Pids, Announce(p)
      PROVE  Reached'
  BY <1>0, <1>3 DEF Announce, processes, settings, search, joining, ending, Astray
<1>4. ASSUME NEW p \in Pids, Exit(p)
      PROVE  Reached'
  BY <1>0, <1>4 DEF Exit, processes, settings, search, joining, ending, Ends, Without, Astray
<1>5. CASE ResetFails
  BY <1>0, <1>5 DEF ResetFails, processes, settings, search, joining, ending, Goes, Astray
<1>6. CASE StartDirectly
  BY <1>0, <1>6 DEF StartDirectly, processes, settings, search, joining, ending, Goes, Launched, Astray
<1>7. CASE StartFollowing
  BY <1>0, <1>7 DEF StartFollowing, processes, settings, search, joining, ending, Goes, Launched, Astray
<1>8. CASE Look
  BY <1>0, <1>8 DEF Look, processes, settings, search, joining, ending, Goes, Astray
<1>9. CASE FollowLaunched
  BY <1>0, <1>9 DEF FollowLaunched, processes, settings, search, joining, ending, Goes, SearchEnds, Joins, Astray
<1>10. CASE FollowChild
  BY <1>0, <1>10 DEF FollowChild, processes, settings, search, joining, ending, Goes, SearchEnds, Joins, Astray
<1>11. CASE LookAgain
  BY <1>0, <1>11 DEF LookAgain, processes, settings, search, joining, ending, Goes, Astray
<1>12. CASE GiveUp
  BY <1>0, <1>12 DEF GiveUp, processes, settings, search, joining, ending, Goes, SearchEnds, Astray
<1>13. CASE ReadPort
  BY <1>0, <1>13 DEF ReadPort, processes, settings, search, joining, ending, Goes, Astray
<1>14. CASE ReadFails
  BY <1>0, <1>14 DEF ReadFails, processes, settings, search, joining, ending, Goes, Astray
<1>15. CASE Join
  BY <1>0, <1>15 DEF Join, processes, settings, search, joining, ending, Goes, Astray
<1>16. CASE JoinFails
  BY <1>0, <1>16 DEF JoinFails, processes, settings, search, joining, ending, Goes, Astray
<1>17. CASE List
  BY <1>0, <1>17 DEF List, processes, settings, search, joining, ending, Goes, Astray
<1>18. CASE StopNext
  BY <1>0, <1>18 DEF StopNext, processes, settings, search, joining, ending, Ends, Without, Astray
<1>19. CASE AllStopped
  BY <1>0, <1>19 DEF AllStopped, processes, settings, search, joining, ending, Goes, Astray
<1>20. CASE KillLaunched
  BY <1>0, <1>20 DEF KillLaunched, processes, settings, search, joining, ending, Goes, Ends, Without, Astray
<1>21. CASE Deadline
  BY <1>0, <1>21 DEF Deadline, processes, settings, search, joining, ending, Astray
<1>22. CASE Close
  BY <1>0, <1>22 DEF Close, processes, settings, search, joining, ending, Goes, Astray
<1>23. CASE StopApplication
  BY <1>0, <1>23 DEF StopApplication, processes, settings, search, joining, ending, Goes, Ends, Without, Astray
<1>24. CASE Waited
  BY <1>0, <1>24 DEF Waited, processes, settings, search, joining, ending, Goes, Astray
<1>25. CASE StopRoot
  BY <1>0, <1>25 DEF StopRoot, processes, settings, search, joining, ending, Goes, Ends, Without, Astray
<1>26. CASE QatCloses
  BY <1>0, <1>26 DEF QatCloses, processes, settings, search, joining, ending, Goes, Ends, Without, Astray
<1>27. CASE UNCHANGED vars
  BY <1>0, <1>27 DEF vars, processes, settings, search, joining, ending, Astray
<1> QED
  BY <1>1, <1>2, <1>3, <1>4, <1>5, <1>6, <1>7, <1>8, <1>9, <1>10, <1>11, <1>12, <1>13, <1>14,
     <1>15, <1>16, <1>17, <1>18, <1>19, <1>20, <1>21, <1>22, <1>23, <1>24, <1>25, <1>26, <1>27
     DEF Next, MachineNext, StartNext, CloseNext

\* Pids are not given again.
LEMMA AppGoneStep ==
  ASSUME IInv, [Next]_vars
  PROVE  AppGone'
<1>0. IInv
  OBVIOUS
<1> USE LaunchAssumption DEF IInv, TypeOK, Lookout, AppGone, Pids, InitProcess
<1>1. CASE StartAnother /\ at \notin {"idle", "failed", "closed"}
  BY <1>0, <1>1 DEF StartAnother, processes, settings, search, joining, ending
<1>2. ASSUME NEW p \in Pids, Fork(p)
      PROVE  AppGone'
  BY <1>0, <1>2 DEF Fork, processes, settings, search, joining, ending
<1>3. ASSUME NEW p \in Pids, Announce(p)
      PROVE  AppGone'
  BY <1>0, <1>3 DEF Announce, processes, settings, search, joining, ending
<1>4. ASSUME NEW p \in Pids, Exit(p)
      PROVE  AppGone'
  BY <1>0, <1>4 DEF Exit, processes, settings, search, joining, ending, Ends, Without
<1>5. CASE ResetFails
  BY <1>0, <1>5 DEF ResetFails, processes, settings, search, joining, ending, Goes
<1>6. CASE StartDirectly
  BY <1>0, <1>6 DEF StartDirectly, processes, settings, search, joining, ending, Goes, Launched
<1>7. CASE StartFollowing
  BY <1>0, <1>7 DEF StartFollowing, processes, settings, search, joining, ending, Goes, Launched
<1>8. CASE Look
  BY <1>0, <1>8 DEF Look, processes, settings, search, joining, ending, Goes
<1>9. CASE FollowLaunched
  BY <1>0, <1>9 DEF FollowLaunched, processes, settings, search, joining, ending, Goes, SearchEnds, Joins
<1>10. CASE FollowChild
  BY <1>0, <1>10 DEF FollowChild, processes, settings, search, joining, ending, Goes, SearchEnds, Joins
<1>11. CASE LookAgain
  BY <1>0, <1>11 DEF LookAgain, processes, settings, search, joining, ending, Goes
<1>12. CASE GiveUp
  BY <1>0, <1>12 DEF GiveUp, processes, settings, search, joining, ending, Goes, SearchEnds
<1>13. CASE ReadPort
  BY <1>0, <1>13 DEF ReadPort, processes, settings, search, joining, ending, Goes
<1>14. CASE ReadFails
  BY <1>0, <1>14 DEF ReadFails, processes, settings, search, joining, ending, Goes
<1>15. CASE Join
  BY <1>0, <1>15 DEF Join, processes, settings, search, joining, ending, Goes
<1>16. CASE JoinFails
  BY <1>0, <1>16 DEF JoinFails, processes, settings, search, joining, ending, Goes
<1>17. CASE List
  BY <1>0, <1>17 DEF List, processes, settings, search, joining, ending, Goes
<1>18. CASE StopNext
  BY <1>0, <1>18 DEF StopNext, processes, settings, search, joining, ending, Ends, Without
<1>19. CASE AllStopped
  BY <1>0, <1>19 DEF AllStopped, processes, settings, search, joining, ending, Goes
<1>20. CASE KillLaunched
  BY <1>0, <1>20 DEF KillLaunched, processes, settings, search, joining, ending, Goes, Ends, Without
<1>21. CASE Deadline
  BY <1>0, <1>21 DEF Deadline, processes, settings, search, joining, ending
<1>22. CASE Close
  BY <1>0, <1>22 DEF Close, processes, settings, search, joining, ending, Goes
<1>23. CASE StopApplication
  BY <1>0, <1>23 DEF StopApplication, processes, settings, search, joining, ending, Goes, Ends, Without
<1>24. CASE Waited
  BY <1>0, <1>24 DEF Waited, processes, settings, search, joining, ending, Goes
<1>25. CASE StopRoot
  BY <1>0, <1>25 DEF StopRoot, processes, settings, search, joining, ending, Goes, Ends, Without
<1>26. CASE QatCloses
  BY <1>0, <1>26 DEF QatCloses, processes, settings, search, joining, ending, Goes, Ends, Without
<1>27. CASE UNCHANGED vars
  BY <1>0, <1>27 DEF vars, processes, settings, search, joining, ending
<1> QED
  BY <1>1, <1>2, <1>3, <1>4, <1>5, <1>6, <1>7, <1>8, <1>9, <1>10, <1>11, <1>12, <1>13, <1>14,
     <1>15, <1>16, <1>17, <1>18, <1>19, <1>20, <1>21, <1>22, <1>23, <1>24, <1>25, <1>26, <1>27
     DEF Next, MachineNext, StartNext, CloseNext

\* What a failed start and a close leave.
LEMMA LeftStep ==
  ASSUME IInv, [Next]_vars
  PROVE  NothingIsLeft'
<1>0. IInv
  OBVIOUS
<1> USE LaunchAssumption DEF IInv, TypeOK, Lookout, Reached, AppGone, NothingIsLeft, Pids, InitProcess
<1>1. CASE StartAnother /\ at \notin {"idle", "failed", "closed"}
  BY <1>0, <1>1 DEF StartAnother, processes, settings, search, joining, ending
<1>2. ASSUME NEW p \in Pids, Fork(p)
      PROVE  NothingIsLeft'
  BY <1>0, <1>2 DEF Fork, processes, settings, search, joining, ending
<1>3. ASSUME NEW p \in Pids, Announce(p)
      PROVE  NothingIsLeft'
  BY <1>0, <1>3 DEF Announce, processes, settings, search, joining, ending
<1>4. ASSUME NEW p \in Pids, Exit(p)
      PROVE  NothingIsLeft'
  BY <1>0, <1>4 DEF Exit, processes, settings, search, joining, ending, Ends, Without
<1>5. CASE ResetFails
  BY <1>0, <1>5 DEF ResetFails, processes, settings, search, joining, ending, Goes
<1>6. CASE StartDirectly
  BY <1>0, <1>6 DEF StartDirectly, processes, settings, search, joining, ending, Goes, Launched
<1>7. CASE StartFollowing
  BY <1>0, <1>7 DEF StartFollowing, processes, settings, search, joining, ending, Goes, Launched
<1>8. CASE Look
  BY <1>0, <1>8 DEF Look, processes, settings, search, joining, ending, Goes
<1>9. CASE FollowLaunched
  BY <1>0, <1>9 DEF FollowLaunched, processes, settings, search, joining, ending, Goes, SearchEnds, Joins
<1>10. CASE FollowChild
  BY <1>0, <1>10 DEF FollowChild, processes, settings, search, joining, ending, Goes, SearchEnds, Joins
<1>11. CASE LookAgain
  BY <1>0, <1>11 DEF LookAgain, processes, settings, search, joining, ending, Goes
<1>12. CASE GiveUp
  BY <1>0, <1>12 DEF GiveUp, processes, settings, search, joining, ending, Goes, SearchEnds
<1>13. CASE ReadPort
  BY <1>0, <1>13 DEF ReadPort, processes, settings, search, joining, ending, Goes
<1>14. CASE ReadFails
  BY <1>0, <1>14 DEF ReadFails, processes, settings, search, joining, ending, Goes
<1>15. CASE Join
  BY <1>0, <1>15 DEF Join, processes, settings, search, joining, ending, Goes
<1>16. CASE JoinFails
  BY <1>0, <1>16 DEF JoinFails, processes, settings, search, joining, ending, Goes
<1>17. CASE List
  BY <1>0, <1>17 DEF List, processes, settings, search, joining, ending, Goes
<1>18. CASE StopNext
  BY <1>0, <1>18 DEF StopNext, processes, settings, search, joining, ending, Ends, Without
<1>19. CASE AllStopped
  BY <1>0, <1>19 DEF AllStopped, processes, settings, search, joining, ending, Goes
<1>20. CASE KillLaunched
  BY <1>0, <1>20 DEF KillLaunched, processes, settings, search, joining, ending, Goes, Ends, Without
<1>21. CASE Deadline
  BY <1>0, <1>21 DEF Deadline, processes, settings, search, joining, ending
<1>22. CASE Close
  BY <1>0, <1>22 DEF Close, processes, settings, search, joining, ending, Goes
<1>23. CASE StopApplication
  BY <1>0, <1>23 DEF StopApplication, processes, settings, search, joining, ending, Goes, Ends, Without
<1>24. CASE Waited
  BY <1>0, <1>24 DEF Waited, processes, settings, search, joining, ending, Goes
<1>25. CASE StopRoot
  BY <1>0, <1>25 DEF StopRoot, processes, settings, search, joining, ending, Goes, Ends, Without
<1>26. CASE QatCloses
  BY <1>0, <1>26 DEF QatCloses, processes, settings, search, joining, ending, Goes, Ends, Without
<1>27. CASE UNCHANGED vars
  BY <1>0, <1>27 DEF vars, processes, settings, search, joining, ending
<1> QED
  BY <1>1, <1>2, <1>3, <1>4, <1>5, <1>6, <1>7, <1>8, <1>9, <1>10, <1>11, <1>12, <1>13, <1>14,
     <1>15, <1>16, <1>17, <1>18, <1>19, <1>20, <1>21, <1>22, <1>23, <1>24, <1>25, <1>26, <1>27
     DEF Next, MachineNext, StartNext, CloseNext

LEMMA StepIInv == IInv /\ [Next]_vars => IInv'
<1> SUFFICES ASSUME IInv, [Next]_vars
             PROVE  IInv'
  OBVIOUS
<1>1. ConnectsToItsOwn'
  BY FamilyStep DEF ConnectsToItsOwn, Family
<1> QED
  BY <1>1, TypeStep, FamilyStep, LookoutStep, ReachedStep, AppGoneStep, LeftStep DEF IInv

LEMMA IInvHolds == Spec => []IInv
<1>1. Init => IInv
  BY InitIInv
<1>2. IInv /\ [Next]_vars => IInv'
  BY StepIInv
<1> QED
  BY <1>1, <1>2, PTL DEF Spec

-----------------------------------------------------------------------------
(* The theorems.                                                            *)

\* Every variable keeps its type, and children have living parents.
THEOREM TypeCorrect == Spec => []TypeOK
<1>1. IInv => TypeOK
  BY DEF IInv
<1> QED
  BY <1>1, IInvHolds, PTL

\* The recorder connects to processes of its own launch only, however many
\* others announce themselves and however far descends_from looks.
THEOREM OnlyItsOwn == Spec => []ConnectsToItsOwn
<1>1. IInv => ConnectsToItsOwn
  BY DEF IInv
<1> QED
  BY <1>1, IInvHolds, PTL

\* After a failed start only what abandon could not reach still runs, and after
\* a close neither the application nor the launcher does.
THEOREM LeavesNothing == Spec => []NothingIsLeft
<1>1. IInv => NothingIsLeft
  BY DEF IInv
<1> QED
  BY <1>1, IInvHolds, PTL
=============================================================================
