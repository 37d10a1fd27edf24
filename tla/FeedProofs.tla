------------------------------ MODULE FeedProofs ------------------------------
(****************************************************************************)
(* Proofs about Feed: for any number of steps, notes, commands and faults,  *)
(* each reader has a beginning of the host's steps, once each and in order, *)
(* and no note is lost but those the code is known to lose.                 *)
(****************************************************************************)
EXTENDS Feed, ListLemmas

\* The readers CopiesFollow speaks of: the list was not edited, nor read anew.
Steady(r) == ~edited /\ (r = "web" => ~reopened)
Answered(r) == fetch[r].at \in {"copied", "answered"}

\* CopiesFollow for one reader.
Follows(r) == Steady(r) => /\ IsPrefix(Received(r), steps)
                           /\ cursor[r] = Len(Received(r))
                           /\ Answered(r) => IsPrefix(Received(r) \o fetch[r].batch.steps, steps)

\* The request under way asks for what comes after the cursor as it is now.
AsksFromCursor == \A r \in Readers : Steady(r) /\ fetch[r].at # "ready" => fetch[r].since = cursor[r]
\* An undo that was given has been done on the host.
UndoneIsEdited == \A r \in Readers : command[r].name = "undo" => edited
\* Until it is copied, an answer holds nothing.
NothingYet == \A r \in Readers : fetch[r].at \in {"ready", "asked"} => fetch[r].batch = NoBatch
\* What is about to be forgotten is in the answer, or is known to be lost.
ForgetsWhatItCopied ==
  \A r \in Readers : fetch[r].at = "copied" =>
     errors \cup ({picked} \ {Nothing}) \subseteq fetch[r].batch.notes \cup excused

\* CopiesFollow and NotesAreHeard with what makes them inductive.
Inv == /\ TypeOK
       /\ AsksFromCursor /\ UndoneIsEdited /\ NothingYet /\ ForgetsWhatItCopied
       /\ CopiesFollow /\ NotesAreHeard

-----------------------------------------------------------------------------
(* Lists of answers, and prefixes.                                          *)

StepsOf(q) == FlattenSeq([i \in 1..Len(q) |-> q[i].steps])
NotesOf(q) == UNION {q[i].notes : i \in 1..Len(q)}

LEMMA StepsOfEmpty == StepsOf(<<>>) = <<>> /\ NotesOf(<<>>) = {}
<1>1. [i \in 1..Len(<<>>) |-> <<>>[i].steps] = <<>>
  OBVIOUS
<1> QED
  BY <1>1, FlattenEmpty DEF StepsOf, NotesOf

\* A list of answers holds steps and notes.
LEMMA StepsOfType ==
  ASSUME NEW q \in Seq(Batch)
  PROVE  /\ [i \in 1..Len(q) |-> q[i].steps] \in Seq(Seq(1..MaxSteps))
         /\ StepsOf(q) \in Seq(1..MaxSteps)
         /\ NotesOf(q) \subseteq Notes
<1> DEFINE s == [i \in 1..Len(q) |-> q[i].steps]
<1>1. \A i \in 1..Len(q) : q[i] \in Batch
  OBVIOUS
<1>2. \A i \in 1..Len(q) : q[i].steps \in Seq(1..MaxSteps) /\ q[i].notes \subseteq Notes
  BY <1>1 DEF Batch
<1>3. s \in Seq(Seq(1..MaxSteps))
  BY <1>2
<1>4. StepsOf(q) \in Seq(1..MaxSteps)
  BY <1>3, FlattenType DEF StepsOf
<1>5. NotesOf(q) \subseteq Notes
  BY <1>2 DEF NotesOf
<1> QED
  BY <1>3, <1>4, <1>5

\* One answer more brings its steps, after the others, and its notes.
LEMMA StepsOfAppend ==
  ASSUME NEW q \in Seq(Batch), NEW b \in Batch
  PROVE  /\ StepsOf(Append(q, b)) = StepsOf(q) \o b.steps
         /\ NotesOf(Append(q, b)) = NotesOf(q) \cup b.notes
<1> DEFINE n == Len(q)
           p == Append(q, b)
           s == [i \in 1..n |-> q[i].steps]
           t == [i \in 1..Len(p) |-> p[i].steps]
<1>1. /\ n \in Nat /\ Len(p) = n + 1 /\ p[n + 1] = b
      /\ \A i \in 1..n : p[i] = q[i]
  BY AppendProperties
<1>2. s \in Seq(Seq(1..MaxSteps))
  BY StepsOfType
<1>3. b.steps \in Seq(1..MaxSteps)
  BY DEF Batch
<1>4. t = Append(s, b.steps)
  <2>1. Len(s) = n
    BY <1>1
  <2>2. Append(s, b.steps) = [i \in 1..(n + 1) |-> IF i = n + 1 THEN b.steps ELSE s[i]]
    <3> DEFINE T == Seq(1..MaxSteps)
    <3> HIDE DEF T
    <3>1. s \in Seq(T) /\ b.steps \in T
      BY <1>2, <1>3 DEF T
    <3> HIDE DEF s
    <3> QED
      BY <3>1, <2>1, AppendProperties
  <2>3. \A i \in 1..(n + 1) : p[i].steps = IF i = n + 1 THEN b.steps ELSE s[i]
    BY <1>1
  <2> HIDE DEF s, p, n
  <2> QED
    BY <2>2, <2>3, <1>1
<1>5. StepsOf(p) = StepsOf(q) \o b.steps
  BY <1>2, <1>3, <1>4, FlattenAppend DEF StepsOf
<1>6. NotesOf(p) = NotesOf(q) \cup b.notes
  <2>1. 1..Len(p) = (1..n) \cup {n + 1}
    BY <1>1
  <2>2. {p[i].notes : i \in 1..Len(p)} = {q[i].notes : i \in 1..n} \cup {b.notes}
    BY <2>1, <1>1
  <2> QED
    BY <2>2 DEF NotesOf
<1> QED
  BY <1>5, <1>6

LEMMA PrefixByPlace ==
  ASSUME NEW S, NEW s \in Seq(S), NEW t \in Seq(S)
  PROVE  IsPrefix(s, t) <=> Len(s) <= Len(t) /\ \A i \in 1..Len(s) : s[i] = t[i]
<1>1. Len(s) \in Nat /\ Len(t) \in Nat
  OBVIOUS
<1>2. SubSeq(s, 1, Len(s)) = s
  BY SubSeqFull
<1>3. CASE Len(s) <= Len(t)
  <2> DEFINE u == SubSeq(t, 1, Len(s))
  <2>1. u \in Seq(S) /\ Len(u) = Len(s) /\ \A i \in 1..Len(s) : u[i] = t[i]
    BY <1>1, <1>3, SubSeqProperties
  <2>2. s = u <=> \A i \in 1..Len(s) : s[i] = u[i]
    BY <2>1, SeqEqual
  <2> QED
    BY <2>1, <2>2, <1>2, <1>3 DEF IsPrefix
<1>4. CASE ~(Len(s) <= Len(t))
  BY <1>4 DEF IsPrefix
<1> QED
  BY <1>3, <1>4

-----------------------------------------------------------------------------
(* Type correctness.                                                        *)

USE FeedAssumption

\* What the host holds.
HostType == /\ steps \in Seq(1..MaxSteps) /\ made \in 1..MaxSteps
            /\ state \in States
            /\ picked \in {Nothing} \cup Notes /\ errors \subseteq Notes /\ told \in 0..MaxNotes
            /\ troubles \in 0..MaxTroubles
            /\ edited \in BOOLEAN /\ reopened \in BOOLEAN
            /\ heard \subseteq Notes /\ excused \subseteq Notes

\* What the readers hold.
ReaderType == /\ fetch \in [Readers -> [at : Places, since : Nat, batch : Batch]]
              /\ cursor \in [Readers -> Nat]
              /\ queue \in [Readers -> Seq(Batch)]
              /\ shown \in [Readers -> Seq(1..MaxSteps)]
              /\ view \in [Readers -> States]
              /\ command \in [Readers -> Command]
              /\ open \in [Readers -> BOOLEAN]

LEMMA TypeParts == TypeOK <=> HostType /\ ReaderType
BY DEF TypeOK, HostType, ReaderType

LEMMA NoBatchType == NoBatch \in Batch
<1>1. <<>> \in Seq(1..MaxSteps)
  BY EmptySeq
<1> QED
  BY <1>1 DEF NoBatch, Batch, States

\* The last step of a list may go, and a step may come anywhere.
LEMMA ListsOfSteps ==
  ASSUME NEW s \in Seq(1..MaxSteps)
  PROVE  /\ s # <<>> => Front(s) \in Seq(1..MaxSteps)
         /\ \A n \in 1..MaxSteps : Append(s, n) \in Seq(1..MaxSteps)
         /\ \A k \in Nat : SubSeq(s, k + 1, Len(s)) \in Seq(1..MaxSteps)
         /\ \A n \in 1..MaxSteps, k \in 1..Len(s) : InsertAt(s, k, n) \in Seq(1..MaxSteps)
<1>1. Len(s) \in Nat /\ \A i \in 1..Len(s) : s[i] \in 1..MaxSteps
  OBVIOUS
<1>2. ASSUME NEW k \in 1..(Len(s) + 1), NEW n \in 0..Len(s)
      PROVE  SubSeq(s, k, n) \in Seq(1..MaxSteps)
  BY <1>1, <1>2, SubSeqProperties
<1>3. s # <<>> => Front(s) \in Seq(1..MaxSteps)
  BY <1>1, <1>2 DEF Front
<1>4. ASSUME NEW k \in Nat
      PROVE  SubSeq(s, k + 1, Len(s)) \in Seq(1..MaxSteps)
  BY <1>1, SubSeqProperties
<1>5. ASSUME NEW n \in 1..MaxSteps, NEW k \in 1..Len(s)
      PROVE  InsertAt(s, k, n) \in Seq(1..MaxSteps)
  <2>1. SubSeq(s, 1, k - 1) \in Seq(1..MaxSteps) /\ SubSeq(s, k, Len(s)) \in Seq(1..MaxSteps)
    BY <1>1, <1>2
  <2>2. <<n>> \in Seq(1..MaxSteps)
    OBVIOUS
  <2>3. SubSeq(s, 1, k - 1) \o <<n>> \in Seq(1..MaxSteps)
    BY <2>1, <2>2, ConcatProperties
  <2> QED
    BY <2>1, <2>3, ConcatProperties DEF InsertAt
<1> QED
  BY <1>3, <1>4, <1>5

LEMMA InitType == Init => TypeOK
<1> SUFFICES ASSUME Init
             PROVE  TypeOK
  OBVIOUS
<1>1. HostType
  <2>1. 1 \in 1..MaxSteps /\ 0 \in 0..MaxNotes
    BY DEF FeedAssumption
  <2>2. <<1>> \in Seq(1..MaxSteps)
    BY <2>1
  <2> QED
    BY <2>1, <2>2 DEF Init, HostType, States, Nothing
<1>2. ReaderType
  BY NoBatchType DEF Init, ReaderType, Places, States, NoCommand, Command
<1> QED
  BY <1>1, <1>2, TypeParts

LEMMA StepType ==
  ASSUME TypeOK, [Next]_vars
  PROVE  TypeOK'
<1> USE DEF HostType, ReaderType, recorded, noticed, reading, watching, asking
<1>0. HostType /\ ReaderType
  BY TypeParts
<1> SUFFICES HostType' /\ ReaderType'
  BY DEF TypeOK
<1>1. CASE Record
  BY <1>0, <1>1, ListsOfSteps DEF Record
<1>2. ASSUME NEW place \in 2..Len(steps), Repair(place)
      PROVE  HostType' /\ ReaderType'
  <2>1. steps \in Seq(1..MaxSteps) /\ made \in 1..MaxSteps /\ troubles \in 0..MaxTroubles
    BY <1>0
  <2>2. place \in 1..Len(steps) /\ made + 1 \in 1..MaxSteps /\ troubles + 1 \in 0..MaxTroubles
    BY <1>2, <2>1 DEF Repair, FeedAssumption
  <2>3. InsertAt(steps, place, made + 1) \in Seq(1..MaxSteps)
    BY <2>1, <2>2, ListsOfSteps
  <2> QED
    BY <1>0, <1>2, <2>2, <2>3 DEF Repair
<1>3. CASE Pick
  <2>1. HostType'
    BY <1>0, <1>3 DEF Pick, Notes, Nothing
  <2> QED
    BY <1>0, <1>3, <2>1 DEF Pick
<1>4. CASE Fail
  <2>1. HostType'
    BY <1>0, <1>4 DEF Fail, Notes
  <2> QED
    BY <1>0, <1>4, <2>1 DEF Fail
<1>5. CASE Lose
  <2>1. fetch["remote"].batch.notes \subseteq Notes
    BY <1>0 DEF Batch, Readers
  <2>2. HostType'
    BY <1>0, <1>5, <2>1 DEF Lose
  <2>3. ReaderType'
    BY <1>0, <1>5, NoBatchType DEF Lose, Rested, Readers, Places
  <2> QED
    BY <2>2, <2>3
<1>6. CASE Reopen
  <2>1. fetch["web"].batch.notes \subseteq Notes
    BY <1>0 DEF Batch, Readers
  <2>2. queue["web"] \in Seq(Batch)
    BY <1>0 DEF Readers
  <2>3. NotesOf(queue["web"]) \subseteq Notes
    BY <2>2, StepsOfType
  <2>4. HostType'
    BY <1>0, <1>6, <2>1, <2>3 DEF Reopen, NotesOf
  <2>5. ReaderType'
    BY <1>0, <1>6, NoBatchType DEF Reopen, Rested, Readers, Places
  <2> QED
    BY <2>4, <2>5
<1>7. ASSUME NEW r \in Readers
      PROVE  /\ Pause(r) => HostType' /\ ReaderType'
             /\ Resume(r) => HostType' /\ ReaderType'
  <2>1. ASSUME NEW name \in {"pause", "resume", "stop", "undo"}, NEW result \in States,
               Give(r, name, result)
        PROVE  /\ state' \in States /\ troubles' \in 0..MaxTroubles
               /\ command' \in [Readers -> Command]
    BY <1>0, <2>1 DEF Give, Command, FeedAssumption
  <2>2. ASSUME Pause(r)
        PROVE  HostType' /\ ReaderType'
    <3>1. "paused" \in States
      BY DEF States
    <3>2. Give(r, "pause", "paused")
      BY <2>2 DEF Pause
    <3>3. state' \in States /\ troubles' \in 0..MaxTroubles /\ command' \in [Readers -> Command]
      BY <2>1, <3>1, <3>2
    <3> QED
      BY <1>0, <2>2, <3>3 DEF Pause
  <2>3. ASSUME Resume(r)
        PROVE  HostType' /\ ReaderType'
    <3>1. "recording" \in States
      BY DEF States
    <3>2. Give(r, "resume", "recording")
      BY <2>3 DEF Resume
    <3>3. state' \in States /\ troubles' \in 0..MaxTroubles /\ command' \in [Readers -> Command]
      BY <2>1, <3>1, <3>2
    <3> QED
      BY <1>0, <2>3, <3>3 DEF Resume
  <2> QED
    BY <2>2, <2>3
<1>8. ASSUME NEW r \in Readers, Stop(r)
      PROVE  HostType' /\ ReaderType'
  <2>1. HostType'
    <3>1. steps' \in Seq(1..MaxSteps) /\ made' \in 1..MaxSteps /\ edited' \in BOOLEAN
      <4>1. CASE UNCHANGED recorded
        BY <1>0, <4>1
      <4>2. CASE made < MaxSteps /\ made' = made + 1 /\ steps' = Append(steps, made + 1) /\ UNCHANGED edited
        <5>1. made + 1 \in 1..MaxSteps
          BY <1>0, <4>2 DEF FeedAssumption
        <5> QED
          BY <1>0, <4>2, <5>1
      <4> QED
        BY <1>8, <4>1, <4>2 DEF Stop
    <3>2. troubles' \in 0..MaxTroubles /\ state' \in States
      BY <1>0, <1>8 DEF Stop, Give, States, FeedAssumption
    <3> QED
      BY <1>0, <1>8, <3>1, <3>2 DEF Stop
  <2>2. ReaderType'
    BY <1>0, <1>8 DEF Stop, Give, Command, States
  <2> QED
    BY <2>1, <2>2
<1>9. ASSUME NEW r \in Readers, Undo(r)
      PROVE  HostType' /\ ReaderType'
  <2>1. HostType'
    BY <1>0, <1>9, ListsOfSteps DEF Undo, Give
  <2>2. ReaderType'
    BY <1>0, <1>9 DEF Undo, Give, Command
  <2> QED
    BY <2>1, <2>2
<1>10. ASSUME NEW r \in Readers, Ask(r)
       PROVE  HostType' /\ ReaderType'
  BY <1>0, <1>10, ZenonT(20) DEF Ask, Places
<1>11. ASSUME NEW r \in Readers, Copy(r)
       PROVE  HostType' /\ ReaderType'
  <2> DEFINE b == [steps |-> SubSeq(steps, fetch[r].since + 1, Len(steps)),
                   notes |-> errors \cup ({picked} \ {Nothing}), state |-> state]
  <2>1. b \in Batch
    BY <1>0, ListsOfSteps DEF Batch
  <2> HIDE DEF b
  <2>2. fetch' = [fetch EXCEPT ![r].at = "copied", ![r].batch = b]
    BY <1>11 DEF Copy, b
  <2>3. fetch' \in [Readers -> [at : Places, since : Nat, batch : Batch]]
    BY <1>0, <2>1, <2>2, ZenonT(20) DEF Places
  <2> QED
    BY <1>0, <1>11, <2>3 DEF Copy
<1>12. ASSUME NEW r \in Readers, Forget(r)
       PROVE  HostType' /\ ReaderType'
  BY <1>0, <1>12 DEF Forget, Places
<1>13. ASSUME NEW r \in Readers, Arrive(r)
       PROVE  HostType' /\ ReaderType'
  <2>1. fetch[r].batch \in Batch /\ fetch[r].batch.steps \in Seq(1..MaxSteps) /\ fetch[r].since \in Nat
    BY <1>0 DEF Batch
  <2>2. Append(queue[r], fetch[r].batch) \in Seq(Batch)
    BY <1>0, <2>1
  <2>3. fetch[r].since + Len(fetch[r].batch.steps) \in Nat
    BY <2>1
  <2> QED
    BY <1>0, <1>13, <2>2, <2>3, NoBatchType DEF Arrive, Rested, Places
<1>14. ASSUME NEW r \in Readers, Show(r)
       PROVE  HostType' /\ ReaderType'
  <2>1. queue[r] \in Seq(Batch) /\ queue[r] # <<>>
    BY <1>0, <1>14 DEF Show
  <2>2. StepsOf(queue[r]) \in Seq(1..MaxSteps) /\ NotesOf(queue[r]) \subseteq Notes
    BY <2>1, StepsOfType
  <2>3. shown[r] \o StepsOf(queue[r]) \in Seq(1..MaxSteps)
    BY <1>0, <2>2, ConcatProperties
  <2>4. Last(queue[r]).state \in States
    <3>1. Len(queue[r]) \in 1..Len(queue[r])
      BY <2>1
    <3>2. queue[r][Len(queue[r])] \in Batch
      BY <2>1, <3>1
    <3> QED
      BY <3>2 DEF Last, Batch
  <2>5. HostType'
    BY <1>0, <1>14, <2>2 DEF Show, Shown, NotesOf
  <2>6. ReaderType'
    BY <1>0, <1>14, <2>3, <2>4 DEF Show, Shown, StepsOf
  <2> QED
    BY <2>5, <2>6
<1>15. ASSUME NEW r \in Readers, Reply(r)
       PROVE  HostType' /\ ReaderType'
  BY <1>0, <1>15 DEF Reply, Command, NoCommand, States
<1>16. ASSUME NEW r \in Readers, UndoReply(r)
       PROVE  HostType' /\ ReaderType'
  <2>1. (IF Len(shown[r]) > 1 THEN Front(shown[r]) ELSE shown[r]) \in Seq(1..MaxSteps)
    BY <1>0, ListsOfSteps
  <2> QED
    BY <1>0, <1>16, <2>1, SMTT(20) DEF UndoReply, Command, NoCommand, States
<1>17. ASSUME NEW r \in Readers, StopReply(r)
       PROVE  HostType' /\ ReaderType'
  <2>1. queue[r] \in Seq(Batch)
    BY <1>0
  <2>2. StepsOf(queue[r]) \in Seq(1..MaxSteps) /\ NotesOf(queue[r]) \subseteq Notes
    BY <2>1, StepsOfType
  <2>3. shown[r] \o StepsOf(queue[r]) \in Seq(1..MaxSteps)
    BY <1>0, <2>2, ConcatProperties
  <2>4. HostType'
    BY <1>0, <1>17, <2>2 DEF StopReply, Shown, NotesOf
  <2>5. ReaderType'
    <3>1. command' \in [Readers -> Command] /\ view' \in [Readers -> States]
      BY <1>0, <1>17 DEF StopReply, NoCommand, Command, States
    <3>2. CASE r = "web"
      BY <1>0, <1>17, <3>1, <3>2 DEF StopReply
    <3>3. CASE r # "web"
      <4>1. Shown(r, queue[r]) /\ open' = [open EXCEPT ![r] = FALSE] /\ UNCHANGED <<fetch, cursor>>
        BY <1>17, <3>3 DEF StopReply
      <4>2. shown' = [shown EXCEPT ![r] = @ \o StepsOf(queue[r])] /\ queue' = [queue EXCEPT ![r] = <<>>]
        BY <4>1 DEF Shown, StepsOf
      <4>3. <<>> \in Seq(Batch)
        BY EmptySeq
      <4> QED
        BY <1>0, <2>3, <3>1, <4>1, <4>2, <4>3
    <3> QED
      BY <3>2, <3>3
  <2> QED
    BY <2>4, <2>5
<1>18. CASE UNCHANGED vars
  BY <1>0, <1>18 DEF vars
<1> QED
  BY <1>1, <1>2, <1>3, <1>4, <1>5, <1>6, <1>7, <1>8, <1>9, <1>10, <1>11, <1>12, <1>13, <1>14,
     <1>15, <1>16, <1>17, <1>18 DEF Next, ReaderNext

\* Every variable keeps its type, whatever the readers and the application do.
THEOREM TypeCorrect == Spec => []TypeOK
<1>1. Init => TypeOK
  BY InitType
<1>2. TypeOK /\ [Next]_vars => TypeOK'
  BY StepType
<1> QED
  BY <1>1, <1>2, PTL DEF Spec

-----------------------------------------------------------------------------
(* What makes the invariants inductive.                                      *)

\* What was edited, or read anew, stays so.
LEMMA HistoryGrows ==
  ASSUME TypeOK, [Next]_vars
  PROVE  (edited => edited') /\ (reopened => reopened')
<1>1. CASE Record
  BY <1>1 DEF Record, recorded, noticed, reading, watching, asking
<1>2. ASSUME NEW place \in 2..Len(steps), Repair(place)
      PROVE  (edited => edited') /\ (reopened => reopened')
  BY <1>2 DEF Repair, recorded, noticed, reading, watching, asking
<1>3. CASE Pick
  BY <1>3 DEF Pick, recorded, noticed, reading, watching, asking
<1>4. CASE Fail
  BY <1>4 DEF Fail, recorded, noticed, reading, watching, asking
<1>5. CASE Lose
  BY <1>5 DEF Lose, recorded, noticed, reading, watching, asking
<1>6. CASE Reopen
  BY <1>6 DEF Reopen, recorded, noticed, reading, watching, asking
<1>7. ASSUME NEW r \in Readers, Pause(r)
      PROVE  (edited => edited') /\ (reopened => reopened')
  BY <1>7 DEF Pause, recorded
<1>8. ASSUME NEW r \in Readers, Resume(r)
      PROVE  (edited => edited') /\ (reopened => reopened')
  BY <1>8 DEF Resume, recorded, noticed, reading, watching, asking
<1>9. ASSUME NEW r \in Readers, Stop(r)
      PROVE  (edited => edited') /\ (reopened => reopened')
  <2>1. edited' = edited /\ reopened' = reopened
    BY <1>9 DEF Stop, recorded
  <2> QED
    BY <2>1
<1>10. ASSUME NEW r \in Readers, Undo(r)
       PROVE  (edited => edited') /\ (reopened => reopened')
  BY <1>10 DEF Undo, recorded, noticed, reading, watching, asking
<1>11. ASSUME NEW r \in Readers, Ask(r)
       PROVE  (edited => edited') /\ (reopened => reopened')
  BY <1>11 DEF Ask, recorded, noticed, reading, watching, asking
<1>12. ASSUME NEW r \in Readers, Copy(r)
       PROVE  (edited => edited') /\ (reopened => reopened')
  BY <1>12 DEF Copy, recorded, noticed, reading, watching, asking
<1>13. ASSUME NEW r \in Readers, Forget(r)
       PROVE  (edited => edited') /\ (reopened => reopened')
  BY <1>13 DEF Forget, recorded, noticed, reading, watching, asking
<1>14. ASSUME NEW r \in Readers, Arrive(r)
       PROVE  (edited => edited') /\ (reopened => reopened')
  BY <1>14 DEF Arrive, recorded, noticed, reading, watching, asking
<1>15. ASSUME NEW r \in Readers, Show(r)
       PROVE  (edited => edited') /\ (reopened => reopened')
  BY <1>15 DEF Show, recorded, noticed, reading, watching, asking
<1>16. ASSUME NEW r \in Readers, Reply(r)
       PROVE  (edited => edited') /\ (reopened => reopened')
  BY <1>16 DEF Reply, recorded, noticed, reading, watching, asking
<1>17. ASSUME NEW r \in Readers, UndoReply(r)
       PROVE  (edited => edited') /\ (reopened => reopened')
  BY <1>17 DEF UndoReply, recorded, noticed, reading, watching, asking
<1>18. ASSUME NEW r \in Readers, StopReply(r)
       PROVE  (edited => edited') /\ (reopened => reopened')
  BY <1>18 DEF StopReply, recorded
<1>19. CASE UNCHANGED vars
  BY <1>19 DEF vars, recorded
<1> QED
  BY <1>1, <1>2, <1>3, <1>4, <1>5, <1>6, <1>7, <1>8, <1>9, <1>10, <1>11, <1>12, <1>13, <1>14,
     <1>15, <1>16, <1>17, <1>18, <1>19 DEF Next, ReaderNext

\* Only an undo, which edits, makes a command an undo.
LEMMA UndoneStep ==
  ASSUME Inv, [Next]_vars
  PROVE  UndoneIsEdited'
<1>0. UndoneIsEdited /\ ReaderType
  BY TypeParts DEF Inv
<1> USE DEF UndoneIsEdited, ReaderType
<1>1. CASE Record
  BY <1>0, <1>1 DEF Record, recorded, noticed, reading, watching, asking
<1>2. ASSUME NEW place \in 2..Len(steps), Repair(place)
      PROVE  UndoneIsEdited'
  BY <1>0, <1>2 DEF Repair, recorded, noticed, reading, watching, asking
<1>3. CASE Pick
  BY <1>0, <1>3 DEF Pick, recorded, noticed, reading, watching, asking
<1>4. CASE Fail
  BY <1>0, <1>4 DEF Fail, recorded, noticed, reading, watching, asking
<1>5. CASE Lose
  BY <1>0, <1>5 DEF Lose, recorded, noticed, reading, watching, asking
<1>6. CASE Reopen
  BY <1>0, <1>6 DEF Reopen, recorded, noticed, reading, watching, asking
<1>7. ASSUME NEW r \in Readers, Pause(r)
      PROVE  UndoneIsEdited'
  BY <1>0, <1>7 DEF Pause, recorded, noticed, reading, watching, asking, Give
<1>8. ASSUME NEW r \in Readers, Resume(r)
      PROVE  UndoneIsEdited'
  BY <1>0, <1>8 DEF Resume, recorded, noticed, reading, watching, asking, Give
<1>9. ASSUME NEW r \in Readers, Stop(r)
      PROVE  UndoneIsEdited'
  BY <1>0, <1>9, HistoryGrows DEF Stop, recorded, noticed, reading, watching, asking, Give
<1>10. ASSUME NEW r \in Readers, Undo(r)
       PROVE  UndoneIsEdited'
  BY <1>0, <1>10 DEF Undo, recorded, noticed, reading, watching, asking, Give
<1>11. ASSUME NEW r \in Readers, Ask(r)
       PROVE  UndoneIsEdited'
  BY <1>0, <1>11 DEF Ask, recorded, noticed, reading, watching, asking
<1>12. ASSUME NEW r \in Readers, Copy(r)
       PROVE  UndoneIsEdited'
  BY <1>0, <1>12 DEF Copy, recorded, noticed, reading, watching, asking
<1>13. ASSUME NEW r \in Readers, Forget(r)
       PROVE  UndoneIsEdited'
  BY <1>0, <1>13 DEF Forget, recorded, noticed, reading, watching, asking
<1>14. ASSUME NEW r \in Readers, Arrive(r)
       PROVE  UndoneIsEdited'
  BY <1>0, <1>14 DEF Arrive, recorded, noticed, reading, watching, asking
<1>15. ASSUME NEW r \in Readers, Show(r)
       PROVE  UndoneIsEdited'
  BY <1>0, <1>15 DEF Show, recorded, noticed, reading, watching, asking
<1>16. ASSUME NEW r \in Readers, Reply(r)
       PROVE  UndoneIsEdited'
  BY <1>0, <1>16 DEF Reply, recorded, noticed, reading, watching, asking, NoCommand
<1>17. ASSUME NEW r \in Readers, UndoReply(r)
       PROVE  UndoneIsEdited'
  BY <1>0, <1>17 DEF UndoReply, recorded, noticed, reading, watching, asking, NoCommand
<1>18. ASSUME NEW r \in Readers, StopReply(r)
       PROVE  UndoneIsEdited'
  BY <1>0, <1>18 DEF StopReply, recorded, noticed, reading, watching, asking, NoCommand
<1>19. CASE UNCHANGED vars
  BY <1>0, <1>19 DEF vars, recorded, noticed, reading, watching, asking
<1> QED
  BY <1>1, <1>2, <1>3, <1>4, <1>5, <1>6, <1>7, <1>8, <1>9, <1>10, <1>11, <1>12, <1>13, <1>14,
     <1>15, <1>16, <1>17, <1>18, <1>19 DEF Next, ReaderNext

\* A request asks from the cursor, and neither moves alone while the list only grows.
LEMMA AskedStep ==
  ASSUME Inv, [Next]_vars
  PROVE  AsksFromCursor'
<1>0. AsksFromCursor /\ ReaderType /\ TypeOK
  BY TypeParts DEF Inv
<1>00. UndoneIsEdited
  BY DEF Inv
<1> USE DEF AsksFromCursor, UndoneIsEdited, ReaderType, Steady
<1>1. CASE Record
  BY <1>0, <1>1 DEF Record, recorded, noticed, reading, watching, asking
<1>2. ASSUME NEW place \in 2..Len(steps), Repair(place)
      PROVE  AsksFromCursor'
  BY <1>0, <1>2 DEF Repair, recorded, noticed, reading, watching, asking
<1>3. CASE Pick
  BY <1>0, <1>3 DEF Pick, recorded, noticed, reading, watching, asking
<1>4. CASE Fail
  BY <1>0, <1>4 DEF Fail, recorded, noticed, reading, watching, asking
<1>5. CASE Lose
  BY <1>0, <1>5 DEF Lose, recorded, noticed, reading, watching, asking, Rested
<1>6. CASE Reopen
  BY <1>0, <1>6 DEF Reopen, recorded, noticed, reading, watching, asking, Rested
<1>7. ASSUME NEW r \in Readers, Pause(r)
      PROVE  AsksFromCursor'
  BY <1>0, <1>7, HistoryGrows DEF Pause, recorded, noticed, reading, watching, asking, Give
<1>8. ASSUME NEW r \in Readers, Resume(r)
      PROVE  AsksFromCursor'
  BY <1>0, <1>8, HistoryGrows DEF Resume, recorded, noticed, reading, watching, asking, Give
<1>9. ASSUME NEW r \in Readers, Stop(r)
      PROVE  AsksFromCursor'
  BY <1>0, <1>9, HistoryGrows DEF Stop, recorded, noticed, reading, watching, asking, Give
<1>10. ASSUME NEW r \in Readers, Undo(r)
       PROVE  AsksFromCursor'
  BY <1>0, <1>10, HistoryGrows DEF Undo, recorded, noticed, reading, watching, asking, Give
<1>11. ASSUME NEW r \in Readers, Ask(r)
       PROVE  AsksFromCursor'
  BY <1>0, <1>11 DEF Ask, recorded, noticed, reading, watching, asking
<1>12. ASSUME NEW r \in Readers, Copy(r)
       PROVE  AsksFromCursor'
  BY <1>0, <1>12 DEF Copy, recorded, noticed, reading, watching, asking
<1>13. ASSUME NEW r \in Readers, Forget(r)
       PROVE  AsksFromCursor'
  BY <1>0, <1>13 DEF Forget, recorded, noticed, reading, watching, asking
<1>14. ASSUME NEW r \in Readers, Arrive(r)
       PROVE  AsksFromCursor'
  BY <1>0, <1>14 DEF Arrive, recorded, noticed, reading, watching, asking, Rested
<1>15. ASSUME NEW r \in Readers, Show(r)
       PROVE  AsksFromCursor'
  BY <1>0, <1>15 DEF Show, recorded, noticed, reading, watching, asking
<1>16. ASSUME NEW r \in Readers, Reply(r)
       PROVE  AsksFromCursor'
  BY <1>0, <1>16 DEF Reply, recorded, noticed, reading, watching, asking
<1>17. ASSUME NEW r \in Readers, UndoReply(r)
       PROVE  AsksFromCursor'
  BY <1>0, <1>17, <1>00 DEF UndoReply, recorded, noticed, reading, watching, asking
<1>18. ASSUME NEW r \in Readers, StopReply(r)
       PROVE  AsksFromCursor'
  BY <1>0, <1>18 DEF StopReply, recorded, noticed, reading, watching, asking
<1>19. CASE UNCHANGED vars
  BY <1>0, <1>19 DEF vars, recorded, noticed, reading, watching, asking
<1> QED
  BY <1>1, <1>2, <1>3, <1>4, <1>5, <1>6, <1>7, <1>8, <1>9, <1>10, <1>11, <1>12, <1>13, <1>14,
     <1>15, <1>16, <1>17, <1>18, <1>19 DEF Next, ReaderNext

\* An answer is filled when it is copied and cleared when it has arrived or is lost.
LEMMA NothingYetStep ==
  ASSUME Inv, [Next]_vars
  PROVE  NothingYet'
<1>0. NothingYet /\ ReaderType
  BY TypeParts DEF Inv
<1> USE DEF NothingYet, ReaderType
<1>1. CASE Record
  BY <1>0, <1>1 DEF Record, recorded, noticed, reading, watching, asking
<1>2. ASSUME NEW place \in 2..Len(steps), Repair(place)
      PROVE  NothingYet'
  BY <1>0, <1>2 DEF Repair, recorded, noticed, reading, watching, asking
<1>3. CASE Pick
  BY <1>0, <1>3 DEF Pick, recorded, noticed, reading, watching, asking
<1>4. CASE Fail
  BY <1>0, <1>4 DEF Fail, recorded, noticed, reading, watching, asking
<1>5. CASE Lose
  BY <1>0, <1>5 DEF Lose, recorded, noticed, reading, watching, asking, Rested
<1>6. CASE Reopen
  BY <1>0, <1>6 DEF Reopen, recorded, noticed, reading, watching, asking, Rested
<1>7. ASSUME NEW r \in Readers, Pause(r)
      PROVE  NothingYet'
  BY <1>0, <1>7 DEF Pause, recorded, noticed, reading, watching, asking, Give
<1>8. ASSUME NEW r \in Readers, Resume(r)
      PROVE  NothingYet'
  BY <1>0, <1>8 DEF Resume, recorded, noticed, reading, watching, asking, Give
<1>9. ASSUME NEW r \in Readers, Stop(r)
      PROVE  NothingYet'
  BY <1>0, <1>9 DEF Stop, recorded, noticed, reading, watching, asking, Give
<1>10. ASSUME NEW r \in Readers, Undo(r)
       PROVE  NothingYet'
  BY <1>0, <1>10 DEF Undo, recorded, noticed, reading, watching, asking, Give
<1>11. ASSUME NEW r \in Readers, Ask(r)
       PROVE  NothingYet'
  BY <1>0, <1>11 DEF Ask, recorded, noticed, reading, watching, asking
<1>12. ASSUME NEW r \in Readers, Copy(r)
       PROVE  NothingYet'
  BY <1>0, <1>12 DEF Copy, recorded, noticed, reading, watching, asking
<1>13. ASSUME NEW r \in Readers, Forget(r)
       PROVE  NothingYet'
  BY <1>0, <1>13 DEF Forget, recorded, noticed, reading, watching, asking
<1>14. ASSUME NEW r \in Readers, Arrive(r)
       PROVE  NothingYet'
  BY <1>0, <1>14 DEF Arrive, recorded, noticed, reading, watching, asking, Rested
<1>15. ASSUME NEW r \in Readers, Show(r)
       PROVE  NothingYet'
  BY <1>0, <1>15 DEF Show, recorded, noticed, reading, watching, asking
<1>16. ASSUME NEW r \in Readers, Reply(r)
       PROVE  NothingYet'
  BY <1>0, <1>16 DEF Reply, recorded, noticed, reading, watching, asking
<1>17. ASSUME NEW r \in Readers, UndoReply(r)
       PROVE  NothingYet'
  BY <1>0, <1>17 DEF UndoReply, recorded, noticed, reading, watching, asking
<1>18. ASSUME NEW r \in Readers, StopReply(r)
       PROVE  NothingYet'
  BY <1>0, <1>18 DEF StopReply, recorded, noticed, reading, watching, asking
<1>19. CASE UNCHANGED vars
  BY <1>0, <1>19 DEF vars, recorded, noticed, reading, watching, asking
<1> QED
  BY <1>1, <1>2, <1>3, <1>4, <1>5, <1>6, <1>7, <1>8, <1>9, <1>10, <1>11, <1>12, <1>13, <1>14,
     <1>15, <1>16, <1>17, <1>18, <1>19 DEF Next, ReaderNext

\* Notes that come while an answer waits to be forgotten are known to be lost.
LEMMA ForgetsStep ==
  ASSUME Inv, [Next]_vars
  PROVE  ForgetsWhatItCopied'
<1>0. ForgetsWhatItCopied /\ ReaderType
  BY TypeParts DEF Inv
<1> USE DEF ForgetsWhatItCopied, ReaderType
<1>1. CASE Record
  BY <1>0, <1>1 DEF Record, recorded, noticed, reading, watching, asking
<1>2. ASSUME NEW place \in 2..Len(steps), Repair(place)
      PROVE  ForgetsWhatItCopied'
  BY <1>0, <1>2 DEF Repair, recorded, noticed, reading, watching, asking
<1>3. CASE Pick
  BY <1>0, <1>3 DEF Pick, recorded, noticed, reading, watching, asking, Forgetting, Nothing
<1>4. CASE Fail
  BY <1>0, <1>4 DEF Fail, recorded, noticed, reading, watching, asking, Forgetting
<1>5. CASE Lose
  BY <1>0, <1>5 DEF Lose, recorded, noticed, reading, watching, asking, Rested
<1>6. CASE Reopen
  BY <1>0, <1>6 DEF Reopen, recorded, noticed, reading, watching, asking, Rested
<1>7. ASSUME NEW r \in Readers, Pause(r)
      PROVE  ForgetsWhatItCopied'
  BY <1>0, <1>7 DEF Pause, recorded, noticed, reading, watching, asking, Give
<1>8. ASSUME NEW r \in Readers, Resume(r)
      PROVE  ForgetsWhatItCopied'
  BY <1>0, <1>8 DEF Resume, recorded, noticed, reading, watching, asking, Give
<1>9. ASSUME NEW r \in Readers, Stop(r)
      PROVE  ForgetsWhatItCopied'
  BY <1>0, <1>9 DEF Stop, recorded, noticed, reading, watching, asking, Give
<1>10. ASSUME NEW r \in Readers, Undo(r)
       PROVE  ForgetsWhatItCopied'
  BY <1>0, <1>10 DEF Undo, recorded, noticed, reading, watching, asking, Give
<1>11. ASSUME NEW r \in Readers, Ask(r)
       PROVE  ForgetsWhatItCopied'
  BY <1>0, <1>11 DEF Ask, recorded, noticed, reading, watching, asking
<1>12. ASSUME NEW r \in Readers, Copy(r)
       PROVE  ForgetsWhatItCopied'
  BY <1>0, <1>12 DEF Copy, recorded, noticed, reading, watching, asking
<1>13. ASSUME NEW r \in Readers, Forget(r)
       PROVE  ForgetsWhatItCopied'
  BY <1>0, <1>13 DEF Forget, recorded, noticed, reading, watching, asking
<1>14. ASSUME NEW r \in Readers, Arrive(r)
       PROVE  ForgetsWhatItCopied'
  BY <1>0, <1>14 DEF Arrive, recorded, noticed, reading, watching, asking, Rested
<1>15. ASSUME NEW r \in Readers, Show(r)
       PROVE  ForgetsWhatItCopied'
  BY <1>0, <1>15 DEF Show, recorded, noticed, reading, watching, asking
<1>16. ASSUME NEW r \in Readers, Reply(r)
       PROVE  ForgetsWhatItCopied'
  BY <1>0, <1>16 DEF Reply, recorded, noticed, reading, watching, asking
<1>17. ASSUME NEW r \in Readers, UndoReply(r)
       PROVE  ForgetsWhatItCopied'
  BY <1>0, <1>17 DEF UndoReply, recorded, noticed, reading, watching, asking
<1>18. ASSUME NEW r \in Readers, StopReply(r)
       PROVE  ForgetsWhatItCopied'
  BY <1>0, <1>18 DEF StopReply, recorded, noticed, reading, watching, asking
<1>19. CASE UNCHANGED vars
  BY <1>0, <1>19 DEF vars, recorded, noticed, reading, watching, asking
<1> QED
  BY <1>1, <1>2, <1>3, <1>4, <1>5, <1>6, <1>7, <1>8, <1>9, <1>10, <1>11, <1>12, <1>13, <1>14,
     <1>15, <1>16, <1>17, <1>18, <1>19 DEF Next, ReaderNext

-----------------------------------------------------------------------------
(* CopiesFollow.                                                             *)

LEMMA FollowParts == CopiesFollow <=> \A r \in Readers : Follows(r)
BY DEF CopiesFollow, Follows, Steady, Answered

\* What a reader has got, as the steps it shows and those of its queue.
LEMMA ReceivedType ==
  ASSUME TypeOK, NEW r \in Readers
  PROVE  /\ Received(r) = shown[r] \o StepsOf(queue[r])
         /\ shown[r] \in Seq(1..MaxSteps) /\ StepsOf(queue[r]) \in Seq(1..MaxSteps)
         /\ Received(r) \in Seq(1..MaxSteps) /\ Len(Received(r)) \in Nat
<1>1. ReaderType
  BY TypeParts
<1>2. queue[r] \in Seq(Batch) /\ shown[r] \in Seq(1..MaxSteps)
  BY <1>1 DEF ReaderType
<1>3. StepsOf(queue[r]) \in Seq(1..MaxSteps)
  BY <1>2, StepsOfType
<1>4. Received(r) = shown[r] \o StepsOf(queue[r])
  BY DEF Received, OnTheWay, StepsOf
<1>5. Received(r) \in Seq(1..MaxSteps)
  BY <1>2, <1>3, <1>4, ConcatProperties
<1>6. Len(Received(r)) \in Nat
  BY <1>5, LenProperties
<1> QED
  BY <1>2, <1>3, <1>4, <1>5, <1>6

\* The answer under way, with its parts.
LEMMA BatchType ==
  ASSUME TypeOK, NEW r \in Readers
  PROVE  /\ fetch[r].batch \in Batch /\ fetch[r].since \in Nat
         /\ fetch[r].batch.steps \in Seq(1..MaxSteps)
         /\ queue[r] \in Seq(Batch)
BY TypeParts DEF ReaderType, Batch

\* A list that grows at its end keeps its beginnings.
LEMMA PrefixGrows ==
  ASSUME NEW s \in Seq(1..MaxSteps), NEW t \in Seq(1..MaxSteps), NEW x \in 1..MaxSteps,
         IsPrefix(s, t)
  PROVE  IsPrefix(s, Append(t, x))
<1>1. Append(t, x) \in Seq(1..MaxSteps) /\ Len(Append(t, x)) = Len(t) + 1
      /\ \A i \in 1..Len(t) : Append(t, x)[i] = t[i]
  BY AppendProperties
<1>2. Len(s) \in Nat /\ Len(t) \in Nat /\ Len(s) <= Len(t) /\ \A i \in 1..Len(s) : s[i] = t[i]
  BY PrefixByPlace
<1>3. Len(s) <= Len(t) + 1 /\ \A i \in 1..Len(s) : s[i] = Append(t, x)[i]
  BY <1>1, <1>2
<1> QED
  BY <1>1, <1>3, PrefixByPlace

\* A beginning, and what comes after it, are the whole.
LEMMA PrefixCompleted ==
  ASSUME NEW s \in Seq(1..MaxSteps), NEW t \in Seq(1..MaxSteps), IsPrefix(s, t)
  PROVE  IsPrefix(s \o SubSeq(t, Len(s) + 1, Len(t)), t)
<1> DEFINE u == SubSeq(t, Len(s) + 1, Len(t))
<1>1. Len(s) \in Nat /\ Len(t) \in Nat /\ Len(s) <= Len(t) /\ \A i \in 1..Len(s) : s[i] = t[i]
  BY PrefixByPlace
<1>2. /\ u \in Seq(1..MaxSteps) /\ Len(u) = Len(t) - Len(s)
      /\ \A i \in 1..(Len(t) - Len(s)) : u[i] = t[Len(s) + i]
  <2>1. \A i \in (Len(s) + 1)..Len(t) : t[i] \in 1..MaxSteps
    BY <1>1
  <2>2. /\ u \in Seq(1..MaxSteps)
        /\ Len(u) = IF Len(s) + 1 <= Len(t) THEN Len(t) - (Len(s) + 1) + 1 ELSE 0
        /\ \A i \in 1..(Len(t) - (Len(s) + 1) + 1) : u[i] = t[(Len(s) + 1) + i - 1]
    BY <1>1, <2>1, SubSeqProperties
  <2>3. Len(t) - (Len(s) + 1) + 1 = Len(t) - Len(s)
    BY <1>1
  <2>4. \A i \in 1..(Len(t) - Len(s)) : (Len(s) + 1) + i - 1 = Len(s) + i
    BY <1>1
  <2> QED
    BY <1>1, <2>2, <2>3, <2>4
<1> HIDE DEF u
<1>3. /\ s \o u \in Seq(1..MaxSteps) /\ Len(s \o u) = Len(t)
      /\ \A i \in 1..Len(t) : (s \o u)[i] = IF i <= Len(s) THEN s[i] ELSE u[i - Len(s)]
  BY <1>1, <1>2, ConcatProperties
<1>4. \A i \in 1..Len(t) : (s \o u)[i] = t[i]
  <2>1. ASSUME NEW i \in 1..Len(t), ~(i <= Len(s))
        PROVE  u[i - Len(s)] = t[i]
    <3>1. i - Len(s) \in 1..(Len(t) - Len(s)) /\ Len(s) + (i - Len(s)) = i
      BY <1>1, <2>1
    <3> QED
      BY <1>2, <3>1
  <2>2. ASSUME NEW i \in 1..Len(t), i <= Len(s)
        PROVE  s[i] = t[i]
    BY <1>1, <2>2
  <2>3. ASSUME NEW i \in 1..Len(t)
        PROVE  (s \o u)[i] = t[i]
    <3>1. (s \o u)[i] = IF i <= Len(s) THEN s[i] ELSE u[i - Len(s)]
      BY <1>3
    <3> QED
      BY <3>1, <2>1, <2>2
  <2> QED
    BY <2>3
<1>5. IsPrefix(s \o u, t)
  <2> DEFINE w == s \o u
  <2>1. w \in Seq(1..MaxSteps) /\ Len(w) <= Len(t) /\ \A i \in 1..Len(w) : w[i] = t[i]
    BY <1>1, <1>3, <1>4
  <2> HIDE DEF w
  <2>2. IsPrefix(w, t)
    BY <2>1, PrefixByPlace
  <2> QED
    BY <2>2 DEF w
<1> QED
  BY <1>5 DEF u

\* A reader of whom the step says nothing keeps what it has.
LEMMA Undisturbed ==
  ASSUME NEW r \in Readers, Follows(r), Steady(r)' => Steady(r),
         Received(r)' = Received(r), cursor'[r] = cursor[r], steps' = steps,
         Answered(r)' => Answered(r) /\ fetch'[r].batch = fetch[r].batch
  PROVE  Follows(r)'
BY DEF Follows

\* What a reader has got changes with what it shows or what waits to be shown.
LEMMA ReceivedKept ==
  ASSUME NEW r \in Readers, shown'[r] = shown[r], queue'[r] = queue[r]
  PROVE  Received(r)' = Received(r)
BY DEF Received, OnTheWay

\* A step more on the host puts no reader in the wrong.
LEMMA HostGrows ==
  ASSUME TypeOK, NEW r \in Readers, Follows(r), Steady(r)' => Steady(r), made < MaxSteps,
         steps' = Append(steps, made + 1), UNCHANGED <<fetch, cursor, queue, shown>>
  PROVE  Follows(r)'
<1>1. steps \in Seq(1..MaxSteps) /\ made + 1 \in 1..MaxSteps
  BY TypeParts DEF HostType, FeedAssumption
<1>2. Received(r)' = Received(r)
  BY ReceivedKept
<1>3. Received(r) \in Seq(1..MaxSteps) /\ Received(r) \o fetch[r].batch.steps \in Seq(1..MaxSteps)
  BY ReceivedType, BatchType, ConcatProperties
<1>4. IsPrefix(Received(r), steps) => IsPrefix(Received(r), steps')
  BY <1>1, <1>3, PrefixGrows
<1>5. IsPrefix(Received(r) \o fetch[r].batch.steps, steps)
      => IsPrefix(Received(r) \o fetch[r].batch.steps, steps')
  BY <1>1, <1>3, PrefixGrows
<1> QED
  BY <1>2, <1>4, <1>5 DEF Follows, Answered

\* What is shown leaves the queue: the reader has got what it had.
LEMMA ShownMoves ==
  ASSUME TypeOK, NEW r \in Readers, Shown(r, queue[r])
  PROVE  \A q \in Readers : Received(q)' = Received(q)
<1> SUFFICES ASSUME NEW q \in Readers
             PROVE  Received(q)' = Received(q)
  OBVIOUS
<1>1. shown \in [Readers -> Seq(1..MaxSteps)] /\ queue \in [Readers -> Seq(Batch)]
  BY TypeParts DEF ReaderType
<1>2. CASE q = r
  <2>1. shown'[r] = shown[r] \o StepsOf(queue[r]) /\ queue'[r] = <<>>
    BY <1>1 DEF Shown, StepsOf
  <2>2. Received(r)' = shown'[r] \o StepsOf(queue'[r])
    BY DEF Received, OnTheWay, StepsOf
  <2>3. Received(r)' = Received(r) \o <<>>
    BY <2>1, <2>2, StepsOfEmpty, ReceivedType
  <2> QED
    BY <1>2, <2>3, ReceivedType, ConcatEmptySeq
<1>3. CASE q # r
  BY <1>1, <1>3, ReceivedKept DEF Shown
<1> QED
  BY <1>2, <1>3

\* Each reader follows the host through every step.
LEMMA FollowStep ==
  ASSUME Inv, [Next]_vars, NEW q \in Readers
  PROVE  Follows(q)'
<1>0. /\ TypeOK /\ ReaderType /\ Follows(q) /\ AsksFromCursor /\ UndoneIsEdited
      /\ (Steady(q)' => Steady(q))
  <2>1. TypeOK /\ ReaderType /\ Follows(q) /\ AsksFromCursor /\ UndoneIsEdited
    BY TypeParts, FollowParts DEF Inv
  <2> QED
    BY <2>1, HistoryGrows DEF Steady
<1>1. CASE Record
  BY <1>0, <1>1, HostGrows DEF Record, reading, watching
<1>2. ASSUME NEW place \in 2..Len(steps), Repair(place)
      PROVE  Follows(q)'
  BY <1>2 DEF Repair, Follows, Steady
<1>3. CASE Pick
  <2>1. shown' = shown /\ queue' = queue /\ cursor' = cursor /\ steps' = steps
        /\ (Answered(q)' => Answered(q) /\ fetch'[q].batch = fetch[q].batch)
    BY <1>0, <1>3 DEF Pick, ReaderType, recorded, noticed, reading, watching, asking, Answered
  <2> QED
    BY <1>0, <2>1, ReceivedKept, Undisturbed
<1>4. CASE Fail
  <2>1. shown' = shown /\ queue' = queue /\ cursor' = cursor /\ steps' = steps
        /\ (Answered(q)' => Answered(q) /\ fetch'[q].batch = fetch[q].batch)
    BY <1>0, <1>4 DEF Fail, ReaderType, recorded, noticed, reading, watching, asking, Answered
  <2> QED
    BY <1>0, <2>1, ReceivedKept, Undisturbed
<1>5. CASE Lose
  <2>1. shown' = shown /\ queue' = queue /\ cursor' = cursor /\ steps' = steps
        /\ (Answered(q)' => Answered(q) /\ fetch'[q].batch = fetch[q].batch)
    BY <1>0, <1>5 DEF Lose, Rested, ReaderType, recorded, noticed, reading, watching, asking, Answered
  <2> QED
    BY <1>0, <2>1, ReceivedKept, Undisturbed
<1>6. CASE Reopen
  <2>1. CASE q = "web"
    BY <1>6, <2>1 DEF Reopen, Follows, Steady
  <2>2. CASE q # "web"
    <3>1. shown'[q] = shown[q] /\ queue'[q] = queue[q] /\ cursor'[q] = cursor[q] /\ steps' = steps
          /\ fetch'[q] = fetch[q]
      BY <1>0, <1>6, <2>2 DEF Reopen, Rested, ReaderType, recorded, watching
    <3> QED
      BY <1>0, <3>1, ReceivedKept, Undisturbed DEF Answered
  <2> QED
    BY <2>1, <2>2
<1>7. ASSUME NEW r \in Readers, Pause(r)
      PROVE  Follows(q)'
  <2>1. shown' = shown /\ queue' = queue /\ cursor' = cursor /\ steps' = steps
        /\ (Answered(q)' => Answered(q) /\ fetch'[q].batch = fetch[q].batch)
    BY <1>0, <1>7 DEF Pause, Give, recorded, noticed, reading, watching, asking, Answered
  <2> QED
    BY <1>0, <2>1, ReceivedKept, Undisturbed
<1>8. ASSUME NEW r \in Readers, Resume(r)
      PROVE  Follows(q)'
  <2>1. shown' = shown /\ queue' = queue /\ cursor' = cursor /\ steps' = steps
        /\ (Answered(q)' => Answered(q) /\ fetch'[q].batch = fetch[q].batch)
    BY <1>0, <1>8 DEF Resume, Give, recorded, noticed, reading, watching, asking, Answered
  <2> QED
    BY <1>0, <2>1, ReceivedKept, Undisturbed
<1>9. ASSUME NEW r \in Readers, Stop(r)
      PROVE  Follows(q)'
  <2>1. UNCHANGED <<fetch, cursor, queue, shown>>
    BY <1>9 DEF Stop, reading, watching
  <2>2. CASE UNCHANGED recorded
    BY <1>0, <2>1, <2>2, ReceivedKept, Undisturbed DEF recorded, Answered
  <2>3. CASE made < MaxSteps /\ steps' = Append(steps, made + 1)
    BY <1>0, <2>1, <2>3, HostGrows
  <2> QED
    BY <1>9, <2>2, <2>3 DEF Stop
<1>10. ASSUME NEW r \in Readers, Undo(r)
       PROVE  Follows(q)'
  BY <1>10 DEF Undo, Follows, Steady
<1>11. ASSUME NEW r \in Readers, Ask(r)
       PROVE  Follows(q)'
  <2>1. shown' = shown /\ queue' = queue /\ cursor' = cursor /\ steps' = steps
        /\ (Answered(q)' => Answered(q) /\ fetch'[q].batch = fetch[q].batch)
    BY <1>0, <1>11 DEF Ask, ReaderType, recorded, noticed, reading, watching, asking, Answered
  <2> QED
    BY <1>0, <2>1, ReceivedKept, Undisturbed
<1>12. ASSUME NEW r \in Readers, Copy(r)
       PROVE  Follows(q)'
  <2>1. shown' = shown /\ queue' = queue /\ cursor' = cursor /\ steps' = steps
    BY <1>12 DEF Copy, recorded, watching
  <2>2. CASE q # r
    <3>1. fetch'[q] = fetch[q]
      BY <1>0, <1>12, <2>2 DEF Copy, ReaderType
    <3> QED
      BY <1>0, <2>1, <3>1, ReceivedKept, Undisturbed DEF Answered
  <2>3. CASE q = r
    <3>1. fetch[r].at = "asked" /\ fetch'[r].batch.steps = SubSeq(steps, fetch[r].since + 1, Len(steps))
      BY <1>0, <1>12 DEF Copy, ReaderType
    <3>2. Received(r)' = Received(r)
      BY <2>1, ReceivedKept
    <3>3. ASSUME Steady(r)
          PROVE  /\ IsPrefix(Received(r), steps) /\ cursor[r] = Len(Received(r))
                 /\ IsPrefix(Received(r) \o fetch'[r].batch.steps, steps)
      <4>1. fetch[r].since = cursor[r]
        BY <1>0, <3>1, <3>3 DEF AsksFromCursor
      <4>2. IsPrefix(Received(r), steps) /\ cursor[r] = Len(Received(r))
        BY <1>0, <2>3, <3>3 DEF Follows
      <4>3. steps \in Seq(1..MaxSteps)
        BY <1>0, TypeParts DEF HostType
      <4> QED
        BY <1>0, <3>1, <4>1, <4>2, <4>3, ReceivedType, PrefixCompleted
    <3> QED
      BY <1>0, <2>1, <2>3, <3>2, <3>3 DEF Follows
  <2> QED
    BY <2>2, <2>3
<1>13. ASSUME NEW r \in Readers, Forget(r)
       PROVE  Follows(q)'
  <2>1. shown' = shown /\ queue' = queue /\ cursor' = cursor /\ steps' = steps
        /\ (Answered(q)' => Answered(q) /\ fetch'[q].batch = fetch[q].batch)
    BY <1>0, <1>13 DEF Forget, ReaderType, recorded, noticed, reading, watching, asking, Answered
  <2> QED
    BY <1>0, <2>1, ReceivedKept, Undisturbed
<1>14. ASSUME NEW r \in Readers, Arrive(r)
       PROVE  Follows(q)'
  <2>1. shown' = shown /\ steps' = steps
    BY <1>14 DEF Arrive, recorded, watching
  <2>2. CASE q # r
    <3>1. fetch'[q] = fetch[q] /\ queue'[q] = queue[q] /\ cursor'[q] = cursor[q]
      BY <1>0, <1>14, <2>2 DEF Arrive, Rested, ReaderType
    <3> QED
      BY <1>0, <2>1, <3>1, ReceivedKept, Undisturbed DEF Answered
  <2>3. CASE q = r
    <3> DEFINE b == fetch[r].batch
    <3>1. /\ queue'[r] = Append(queue[r], b) /\ fetch'[r].at = "ready" /\ Answered(r)
          /\ fetch[r].at # "ready" /\ cursor'[r] = fetch[r].since + Len(b.steps)
      BY <1>0, <1>14 DEF Arrive, Rested, ReaderType, Answered
    <3>2. /\ b \in Batch /\ b.steps \in Seq(1..MaxSteps) /\ queue[r] \in Seq(Batch)
          /\ shown[r] \in Seq(1..MaxSteps) /\ StepsOf(queue[r]) \in Seq(1..MaxSteps)
          /\ Received(r) \in Seq(1..MaxSteps) /\ Received(r) = shown[r] \o StepsOf(queue[r])
      BY <1>0, BatchType, ReceivedType
    <3> HIDE DEF b
    <3>3. Received(r)' = Received(r) \o b.steps
      <4>1. Received(r)' = shown'[r] \o StepsOf(queue'[r])
        BY DEF Received, OnTheWay, StepsOf
      <4>2. StepsOf(queue'[r]) = StepsOf(queue[r]) \o b.steps
        BY <3>1, <3>2, StepsOfAppend
      <4>3. Received(r)' = shown[r] \o (StepsOf(queue[r]) \o b.steps)
        <5>1. shown'[r] = shown[r]
          BY <2>1
        <5> QED
          BY <4>1, <4>2, <5>1
      <4>4. (shown[r] \o StepsOf(queue[r])) \o b.steps = shown[r] \o (StepsOf(queue[r]) \o b.steps)
        <5> DEFINE T == 1..MaxSteps
        <5>1. shown[r] \in Seq(T) /\ StepsOf(queue[r]) \in Seq(T) /\ b.steps \in Seq(T)
          BY <3>2
        <5> HIDE DEF T
        <5>2. ASSUME NEW x \in Seq(T), NEW y \in Seq(T), NEW z \in Seq(T)
              PROVE  (x \o y) \o z = x \o (y \o z)
          BY ConcatAssociative
        <5> QED
          BY <5>1, <5>2
      <4>5. Received(r)' = (shown[r] \o StepsOf(queue[r])) \o b.steps
        BY <4>3, <4>4
      <4>6. shown[r] \o StepsOf(queue[r]) = Received(r)
        BY <3>2
      <4> QED
        BY <4>5, <4>6
    <3>4. ASSUME Steady(r)
          PROVE  /\ IsPrefix(Received(r) \o b.steps, steps)
                 /\ fetch[r].since + Len(b.steps) = Len(Received(r) \o b.steps)
      <4>1. fetch[r].since = cursor[r]
        BY <1>0, <3>1, <3>4 DEF AsksFromCursor
      <4>2. IsPrefix(Received(r) \o b.steps, steps) /\ cursor[r] = Len(Received(r))
        BY <1>0, <2>3, <3>1, <3>4 DEF Follows, b
      <4>3. Len(Received(r) \o b.steps) = Len(Received(r)) + Len(b.steps)
        BY <3>2, ConcatProperties
      <4> QED
        BY <4>1, <4>2, <4>3
    <3> QED
      BY <1>0, <2>1, <2>3, <3>1, <3>3, <3>4 DEF Follows, Answered
  <2> QED
    BY <2>2, <2>3
<1>15. ASSUME NEW r \in Readers, Show(r)
       PROVE  Follows(q)'
  <2>1. Shown(r, queue[r]) /\ fetch' = fetch /\ cursor' = cursor /\ steps' = steps
    BY <1>15 DEF Show, recorded
  <2> QED
    BY <1>0, <2>1, ShownMoves, Undisturbed DEF Answered
<1>16. ASSUME NEW r \in Readers, Reply(r)
       PROVE  Follows(q)'
  <2>1. shown' = shown /\ queue' = queue /\ cursor' = cursor /\ steps' = steps
        /\ (Answered(q)' => Answered(q) /\ fetch'[q].batch = fetch[q].batch)
    BY <1>0, <1>16 DEF Reply, ReaderType, recorded, noticed, reading, watching, asking, Answered
  <2> QED
    BY <1>0, <2>1, ReceivedKept, Undisturbed
<1>17. ASSUME NEW r \in Readers, UndoReply(r)
       PROVE  Follows(q)'
  <2>1. edited /\ edited' = edited
    BY <1>0, <1>17 DEF UndoReply, UndoneIsEdited, recorded
  <2> QED
    BY <2>1 DEF Follows, Steady
<1>18. ASSUME NEW r \in Readers, StopReply(r)
       PROVE  Follows(q)'
  <2>1. fetch' = fetch /\ cursor' = cursor /\ steps' = steps
    BY <1>18 DEF StopReply, recorded
  <2>2. Received(q)' = Received(q)
    <3>1. CASE r = "web"
      BY <1>18, <3>1, ReceivedKept DEF StopReply
    <3>2. CASE r # "web"
      BY <1>0, <1>18, <3>2, ShownMoves DEF StopReply
    <3> QED
      BY <3>1, <3>2
  <2> QED
    BY <1>0, <2>1, <2>2, Undisturbed DEF Answered
<1>19. CASE UNCHANGED vars
  BY <1>0, <1>19, ReceivedKept, Undisturbed DEF vars, recorded, reading, watching, Answered
<1> QED
  BY <1>1, <1>2, <1>3, <1>4, <1>5, <1>6, <1>7, <1>8, <1>9, <1>10, <1>11, <1>12, <1>13, <1>14,
     <1>15, <1>16, <1>17, <1>18, <1>19 DEF Next, ReaderNext

-----------------------------------------------------------------------------
(* NotesAreHeard.                                                            *)

\* Where a note can be: on the host, shown, known to be lost, or on the way to a reader.
Told(n) == n = picked \/ n \in errors \/ n \in heard \/ n \in excused
Carried(n) == \E r \in Readers : n \in fetch[r].batch.notes \/ n \in NotesOf(queue[r])

LEMMA NoteParts == NotesAreHeard <=> \A n \in 1..told : Told(n) \/ Carried(n)
BY DEF NotesAreHeard, Told, Carried, NotesOf

\* Every note stays in one of those places.
LEMMA NoteStep ==
  ASSUME Inv, [Next]_vars, NEW n \in 1..told'
  PROVE  Told(n)' \/ Carried(n)'
<1>0. /\ TypeOK /\ HostType /\ ReaderType /\ NothingYet /\ ForgetsWhatItCopied
      /\ \A m \in 1..told : Told(m) \/ Carried(m)
  BY TypeParts, NoteParts DEF Inv
<1>1. CASE Record
  <2>1. told' = told /\ (Told(n) => Told(n)') /\ (Carried(n) => Carried(n)')
    BY <1>0, <1>1 DEF Record, recorded, noticed, reading, watching, asking, Told, Carried
  <2> QED
    BY <1>0, <2>1
<1>2. ASSUME NEW place \in 2..Len(steps), Repair(place)
      PROVE  Told(n)' \/ Carried(n)'
  <2>1. told' = told /\ (Told(n) => Told(n)') /\ (Carried(n) => Carried(n)')
    BY <1>0, <1>2 DEF Repair, recorded, noticed, reading, watching, asking, Told, Carried
  <2> QED
    BY <1>0, <2>1
<1>3. CASE Pick
  <2>1. Carried(n) => Carried(n)'
    BY <1>3 DEF Pick, reading, Carried
  <2>2. CASE n = told + 1
    BY <1>3, <2>2 DEF Pick, Told
  <2>3. CASE n # told + 1
    <3>1. n \in 1..told
      BY <1>0, <1>3, <2>3 DEF Pick, HostType
    <3>2. Told(n) => Told(n)'
      BY <1>3, <3>1 DEF Pick, Told, Nothing, watching
    <3> QED
      BY <1>0, <2>1, <3>1, <3>2
  <2> QED
    BY <2>2, <2>3
<1>4. CASE Fail
  <2>1. Carried(n) => Carried(n)'
    BY <1>4 DEF Fail, reading, Carried
  <2>2. CASE n = told + 1
    BY <1>4, <2>2 DEF Fail, Told
  <2>3. CASE n # told + 1
    <3>1. n \in 1..told
      BY <1>0, <1>4, <2>3 DEF Fail, HostType
    <3>2. Told(n) => Told(n)'
      BY <1>4 DEF Fail, Told, watching
    <3> QED
      BY <1>0, <2>1, <3>1, <3>2
  <2> QED
    BY <2>2, <2>3
<1>5. CASE Lose
  <2>1. told' = told /\ (Told(n) => Told(n)')
    BY <1>5 DEF Lose, noticed, watching, Told
  <2>2. Carried(n) => Carried(n)' \/ n \in excused'
    <3>1. ASSUME NEW q \in Readers, n \in fetch[q].batch.notes
          PROVE  Carried(n)' \/ n \in excused'
      <4>1. CASE q = "remote"
        BY <1>5, <3>1, <4>1 DEF Lose
      <4>2. CASE q # "remote"
        BY <1>0, <1>5, <3>1, <4>2 DEF Lose, Rested, ReaderType, Carried
      <4> QED
        BY <4>1, <4>2
    <3>2. ASSUME NEW q \in Readers, n \in NotesOf(queue[q])
          PROVE  Carried(n)'
      BY <1>5, <3>2 DEF Lose, Carried
    <3> QED
      BY <3>1, <3>2 DEF Carried
  <2> QED
    BY <1>0, <2>1, <2>2 DEF Told
<1>6. CASE Reopen
  <2>1. told' = told /\ (Told(n) => Told(n)')
    BY <1>6 DEF Reopen, noticed, watching, Told
  <2>2. ASSUME NEW q \in Readers, n \in fetch[q].batch.notes \/ n \in NotesOf(queue[q])
        PROVE  Carried(n)' \/ n \in excused'
    <3>1. CASE q = "web"
      BY <1>6, <2>2, <3>1 DEF Reopen, NotesOf
    <3>2. CASE q # "web"
      <4>1. fetch'[q] = fetch[q] /\ queue'[q] = queue[q]
        BY <1>0, <1>6, <3>2 DEF Reopen, Rested, ReaderType
      <4> QED
        BY <2>2, <4>1 DEF Carried
    <3> QED
      BY <3>1, <3>2
  <2> QED
    BY <1>0, <2>1, <2>2 DEF Told, Carried
<1>7. ASSUME NEW r \in Readers, Pause(r)
      PROVE  Told(n)' \/ Carried(n)'
  <2>1. told' = told /\ (Told(n) => Told(n)') /\ (Carried(n) => Carried(n)')
    BY <1>0, <1>7 DEF Pause, recorded, noticed, reading, watching, asking, Told, Carried
  <2> QED
    BY <1>0, <2>1
<1>8. ASSUME NEW r \in Readers, Resume(r)
      PROVE  Told(n)' \/ Carried(n)'
  <2>1. told' = told /\ (Told(n) => Told(n)') /\ (Carried(n) => Carried(n)')
    BY <1>0, <1>8 DEF Resume, recorded, noticed, reading, watching, asking, Told, Carried
  <2> QED
    BY <1>0, <2>1
<1>9. ASSUME NEW r \in Readers, Stop(r)
      PROVE  Told(n)' \/ Carried(n)'
  <2>1. told' = told /\ (Told(n) => Told(n)') /\ (Carried(n) => Carried(n)')
    BY <1>0, <1>9 DEF Stop, recorded, noticed, reading, watching, asking, Told, Carried
  <2> QED
    BY <1>0, <2>1
<1>10. ASSUME NEW r \in Readers, Undo(r)
       PROVE  Told(n)' \/ Carried(n)'
  <2>1. told' = told /\ (Told(n) => Told(n)') /\ (Carried(n) => Carried(n)')
    BY <1>0, <1>10 DEF Undo, recorded, noticed, reading, watching, asking, Told, Carried
  <2> QED
    BY <1>0, <2>1
<1>11. ASSUME NEW r \in Readers, Ask(r)
       PROVE  Told(n)' \/ Carried(n)'
  <2>1. UNCHANGED <<told, picked, errors, heard, excused, queue>>
    BY <1>11 DEF Ask, recorded, noticed, watching
  <2>2. \A q \in Readers : fetch'[q].batch = fetch[q].batch
    BY <1>0, <1>11 DEF Ask, ReaderType
  <2>3. (Told(n) => Told(n)') /\ (Carried(n) => Carried(n)')
    BY <2>1, <2>2 DEF Told, Carried
  <2> QED
    BY <1>0, <2>1, <2>3
<1>12. ASSUME NEW r \in Readers, Copy(r)
       PROVE  Told(n)' \/ Carried(n)'
  <2>1. told' = told /\ (Told(n) => Told(n)') /\ queue' = queue
    BY <1>12 DEF Copy, noticed, watching, Told
  <2>2. ASSUME NEW q \in Readers, n \in fetch[q].batch.notes
        PROVE  n \in fetch'[q].batch.notes
    <3>1. q # r
      BY <1>0, <1>12, <2>2 DEF Copy, NothingYet, NoBatch
    <3> QED
      BY <1>0, <1>12, <2>2, <3>1 DEF Copy, ReaderType
  <2>3. Carried(n) => Carried(n)'
    BY <2>1, <2>2 DEF Carried
  <2> QED
    BY <1>0, <2>1, <2>3
<1>13. ASSUME NEW r \in Readers, Forget(r)
       PROVE  Told(n)' \/ Carried(n)'
  <2>1. /\ told' = told /\ heard' = heard /\ excused' = excused /\ queue' = queue
        /\ fetch[r].at = "copied" /\ \A q \in Readers : fetch'[q].batch = fetch[q].batch
    BY <1>0, <1>13 DEF Forget, watching, ReaderType
  <2>2. Carried(n) => Carried(n)'
    BY <2>1 DEF Carried
  <2>3. n \in 1..told /\ n # Nothing
    BY <1>0, <2>1 DEF HostType, Nothing
  <2>4. CASE n = picked \/ n \in errors
    <3>1. n \in fetch[r].batch.notes \cup excused
      BY <1>0, <2>1, <2>3, <2>4 DEF ForgetsWhatItCopied
    <3> QED
      BY <2>1, <3>1 DEF Told, Carried
  <2>5. CASE ~(n = picked \/ n \in errors)
    BY <1>0, <2>1, <2>2, <2>3, <2>5 DEF Told
  <2> QED
    BY <2>4, <2>5
<1>14. ASSUME NEW r \in Readers, Arrive(r)
       PROVE  Told(n)' \/ Carried(n)'
  <2>1. told' = told /\ (Told(n) => Told(n)')
    BY <1>14 DEF Arrive, noticed, watching, Told
  <2>2. queue[r] \in Seq(Batch) /\ fetch[r].batch \in Batch /\ queue'[r] = Append(queue[r], fetch[r].batch)
    BY <1>0, <1>14, BatchType DEF Arrive, ReaderType
  <2>3. NotesOf(queue'[r]) = NotesOf(queue[r]) \cup fetch[r].batch.notes
    BY <2>2, StepsOfAppend
  <2>4. ASSUME NEW q \in Readers, n \in fetch[q].batch.notes \/ n \in NotesOf(queue[q])
        PROVE  Carried(n)'
    <3>1. CASE q = r
      BY <2>3, <2>4, <3>1 DEF Carried
    <3>2. CASE q # r
      <4>1. fetch'[q] = fetch[q] /\ queue'[q] = queue[q]
        BY <1>0, <1>14, <3>2 DEF Arrive, Rested, ReaderType
      <4> QED
        BY <2>4, <4>1 DEF Carried
    <3> QED
      BY <3>1, <3>2
  <2> QED
    BY <1>0, <2>1, <2>4 DEF Carried
<1>15. ASSUME NEW r \in Readers, Show(r)
       PROVE  Told(n)' \/ Carried(n)'
  <2>1. ASSUME Shown(r, queue[r]), fetch' = fetch, noticed' = noticed, excused' = excused
        PROVE  Told(n)' \/ Carried(n)'
    <3>1. heard' = heard \cup NotesOf(queue[r]) /\ \A q \in Readers : q # r => queue'[q] = queue[q]
      BY <1>0, <2>1 DEF Shown, NotesOf, ReaderType
    <3>2. Told(n) => Told(n)'
      BY <2>1, <3>1 DEF Told, noticed
    <3>3. ASSUME NEW q \in Readers, n \in fetch[q].batch.notes \/ n \in NotesOf(queue[q])
          PROVE  Told(n)' \/ Carried(n)'
      BY <2>1, <3>1, <3>3 DEF Told, Carried
    <3>4. told' = told
      BY <2>1 DEF noticed
    <3> QED
      BY <1>0, <3>2, <3>3, <3>4 DEF Carried
  <2> QED
    BY <1>15, <2>1 DEF Show
<1>16. ASSUME NEW r \in Readers, Reply(r)
       PROVE  Told(n)' \/ Carried(n)'
  <2>1. told' = told /\ (Told(n) => Told(n)') /\ (Carried(n) => Carried(n)')
    BY <1>0, <1>16 DEF Reply, recorded, noticed, reading, watching, asking, Told, Carried
  <2> QED
    BY <1>0, <2>1
<1>17. ASSUME NEW r \in Readers, UndoReply(r)
       PROVE  Told(n)' \/ Carried(n)'
  <2>1. told' = told /\ (Told(n) => Told(n)') /\ (Carried(n) => Carried(n)')
    BY <1>0, <1>17 DEF UndoReply, recorded, noticed, reading, watching, asking, Told, Carried
  <2> QED
    BY <1>0, <2>1
<1>18. ASSUME NEW r \in Readers, StopReply(r)
       PROVE  Told(n)' \/ Carried(n)'
  <2>1. ASSUME Shown(r, queue[r]), fetch' = fetch, noticed' = noticed, excused' = excused
        PROVE  Told(n)' \/ Carried(n)'
    <3>1. heard' = heard \cup NotesOf(queue[r]) /\ \A q \in Readers : q # r => queue'[q] = queue[q]
      BY <1>0, <2>1 DEF Shown, NotesOf, ReaderType
    <3>2. Told(n) => Told(n)'
      BY <2>1, <3>1 DEF Told, noticed
    <3>3. ASSUME NEW q \in Readers, n \in fetch[q].batch.notes \/ n \in NotesOf(queue[q])
          PROVE  Told(n)' \/ Carried(n)'
      BY <2>1, <3>1, <3>3 DEF Told, Carried
    <3>4. told' = told
      BY <2>1 DEF noticed
    <3> QED
      BY <1>0, <3>2, <3>3, <3>4 DEF Carried
  <2>2. fetch' = fetch /\ noticed' = noticed /\ excused' = excused
    BY <1>18 DEF StopReply, noticed
  <2>3. CASE r = "web"
    <3>1. told' = told /\ (Told(n) => Told(n)') /\ (Carried(n) => Carried(n)')
      BY <1>18, <2>2, <2>3 DEF StopReply, noticed, Told, Carried
    <3> QED
      BY <1>0, <3>1
  <2>4. CASE r # "web"
    BY <1>18, <2>1, <2>2, <2>4 DEF StopReply
  <2> QED
    BY <2>3, <2>4
<1>19. CASE UNCHANGED vars
  <2>1. told' = told /\ (Told(n) => Told(n)') /\ (Carried(n) => Carried(n)')
    BY <1>0, <1>19 DEF vars, recorded, noticed, reading, watching, asking, Told, Carried
  <2> QED
    BY <1>0, <2>1
<1> QED
  BY <1>1, <1>2, <1>3, <1>4, <1>5, <1>6, <1>7, <1>8, <1>9, <1>10, <1>11, <1>12, <1>13, <1>14,
     <1>15, <1>16, <1>17, <1>18, <1>19 DEF Next, ReaderNext

-----------------------------------------------------------------------------
(* The theorems.                                                            *)

LEMMA InitInv == Init => Inv
<1> SUFFICES ASSUME Init
             PROVE  Inv
  OBVIOUS
<1>1. TypeOK
  BY InitType
<1>2. AsksFromCursor /\ UndoneIsEdited /\ NothingYet /\ ForgetsWhatItCopied
  BY DEF Init, AsksFromCursor, UndoneIsEdited, NothingYet, ForgetsWhatItCopied, NoCommand
<1>3. ASSUME NEW r \in Readers
      PROVE  Follows(r)
  <2>1. shown[r] = <<>> /\ queue[r] = <<>> /\ cursor[r] = 0 /\ fetch[r].at = "ready"
    BY <1>3 DEF Init
  <2>2. Received(r) = <<>>
    BY <1>1, <2>1, ReceivedType, StepsOfEmpty, ConcatEmptySeq
  <2>3. steps \in Seq(1..MaxSteps)
    BY <1>1, TypeParts DEF HostType
  <2>4. IsPrefix(<<>>, steps)
    <3> DEFINE e == <<>>
    <3>1. e \in Seq(1..MaxSteps) /\ Len(e) = 0 /\ Len(steps) \in Nat
      BY <2>3, EmptySeq
    <3> HIDE DEF e
    <3>2. Len(e) <= Len(steps) /\ \A i \in 1..Len(e) : e[i] = steps[i]
      BY <3>1
    <3>3. IsPrefix(e, steps)
      BY <2>3, <3>1, <3>2, PrefixByPlace
    <3> QED
      BY <3>3 DEF e
  <2> QED
    BY <2>1, <2>2, <2>4 DEF Follows, Answered
<1>4. CopiesFollow
  BY <1>3, FollowParts
<1>5. NotesAreHeard
  BY DEF Init, NotesAreHeard
<1> QED
  BY <1>1, <1>2, <1>4, <1>5 DEF Inv

LEMMA StepInv == Inv /\ [Next]_vars => Inv'
<1> SUFFICES ASSUME Inv, [Next]_vars
             PROVE  Inv'
  OBVIOUS
<1>1. TypeOK'
  BY StepType DEF Inv
<1>2. CopiesFollow'
  <2>1. \A r \in Readers : Follows(r)'
    BY FollowStep
  <2> QED
    BY <2>1 DEF CopiesFollow, Follows, Steady, Answered
<1>3. NotesAreHeard'
  <2>1. \A n \in 1..told' : Told(n)' \/ Carried(n)'
    BY NoteStep
  <2> QED
    BY <2>1 DEF NotesAreHeard, Told, Carried, NotesOf
<1> QED
  BY <1>1, <1>2, <1>3, AskedStep, UndoneStep, NothingYetStep, ForgetsStep DEF Inv

\* The invariants and what carries them hold in every state.
LEMMA InvHolds == Spec => []Inv
<1>1. Init => Inv
  BY InitInv
<1>2. Inv /\ [Next]_vars => Inv'
  BY StepInv
<1> QED
  BY <1>1, <1>2, PTL DEF Spec

\* As long as the list only grows, each reader has got a beginning of it, once
\* each and in order, and its cursor is where the next step goes.
THEOREM ReadersFollow == Spec => []CopiesFollow
<1>1. Inv => CopiesFollow
  BY DEF Inv
<1> QED
  BY <1>1, InvHolds, PTL

\* A note is on the host, on its way, shown, or one of those the two critical
\* sections, a newer pick or a lost answer are known to lose.
THEOREM NotesReach == Spec => []NotesAreHeard
<1>1. Inv => NotesAreHeard
  BY DEF Inv
<1> QED
  BY <1>1, InvHolds, PTL
=============================================================================
