------------------------------ MODULE EditsProofs ------------------------------
(****************************************************************************)
(* Proofs about Edits: for any number of things that happen and of edits,   *)
(* gaps stay where they fell and fills stay with their gaps.                *)
(****************************************************************************)
EXTENDS Edits, SequenceTheorems, TLAPS

\* What Inserted returns: the old steps on either side of the new one.
LEMMA InsertedShape ==
  ASSUME NEW S, NEW s \in Seq(S), NEW k \in 0..Len(s), NEW e \in S
  PROVE  /\ Inserted(s, k, e) \in Seq(S)
         /\ Len(Inserted(s, k, e)) = Len(s) + 1
         /\ \A i \in 1..(Len(s) + 1) :
              Inserted(s, k, e)[i] = IF i <= k THEN s[i] ELSE IF i = k + 1 THEN e ELSE s[i - 1]
<1> DEFINE n == Len(s) + 1
           f == [i \in 1..n |-> IF i <= k THEN s[i] ELSE IF i = k + 1 THEN e ELSE s[i - 1]]
<1>1. n \in Nat /\ f \in [1..n -> S]
  OBVIOUS
<1>2. f \in Seq(S) /\ Len(f) = n
  BY <1>1
<1>3. Inserted(s, k, e) = f
  BY DEF Inserted
<1> QED
  BY <1>2, <1>3

\* A gap that moves along changes its place and nothing else.
LEMMA MovedShape ==
  ASSUME NEW g \in GapType, NEW at \in Nat
  PROVE  /\ Moved(g, at) \in GapType
         /\ Moved(g, at).after = IF g.after >= at THEN g.after + 1 ELSE g.after
         /\ Moved(g, at).of = g.of
         /\ Moved(g, at).repaired = g.repaired
BY DEF Moved, GapType

\* A gap that is filled keeps the place it had.
LEMMA FilledShape ==
  ASSUME NEW g \in GapType, NEW at \in Nat
  PROVE  LET new == [g EXCEPT !.after = at, !.repaired = TRUE]
         IN  new \in GapType /\ new.after = at /\ new.of = g.of /\ new.repaired = TRUE
BY DEF GapType

-----------------------------------------------------------------------------
(* What each action does to the steps and the gaps.                         *)

\* The recording as its two sequences, as every proof below takes it.
LEMMA Parts ==
  ASSUME TypeOK
  PROVE  /\ Steps \in Seq(StepType) /\ Gaps \in Seq(GapType)
         /\ rec = [actions |-> Steps, drops |-> Gaps]
         /\ Len(Steps) \in Nat /\ Len(Steps) # 0 /\ Len(Gaps) \in Nat
         /\ DOMAIN Steps = 1..Len(Steps) /\ DOMAIN Gaps = 1..Len(Gaps)
         /\ \A i \in DOMAIN Steps : Steps[i] \in StepType
         /\ \A d \in DOMAIN Gaps : Gaps[d] \in GapType
<1>1. Steps \in Seq(StepType) /\ Gaps \in Seq(GapType) /\ rec = [actions |-> Steps, drops |-> Gaps]
  BY DEF TypeOK, Steps, Gaps
<1>2. Len(Steps) \in Nat /\ Len(Gaps) \in Nat /\ Steps # <<>>
  BY <1>1 DEF TypeOK
<1> QED
  BY <1>1, <1>2

\* FoldStep and AddOwnStep put one step behind the others.
LEMMA AddShape ==
  ASSUME TypeOK, NEW s \in StepType, rec' = Add(rec, s)
  PROVE  /\ Steps' \in Seq(StepType) /\ Len(Steps') = Len(Steps) + 1
         /\ \A i \in 1..Len(Steps) : Steps'[i] = Steps[i]
         /\ Steps'[Len(Steps) + 1] = s
         /\ Gaps' = Gaps
         /\ rec' \in [actions : Seq(StepType), drops : Seq(GapType)]
<1>1. rec' = [actions |-> Append(Steps, s), drops |-> Gaps]
  BY Parts DEF Add, Steps, Gaps
<1>2. Steps' = Append(Steps, s) /\ Gaps' = Gaps
  BY <1>1 DEF Steps, Gaps
<1>3. Append(Steps, s) \in Seq(StepType)
  BY Parts
<1> QED
  BY <1>1, <1>2, <1>3, Parts

\* FoldGap puts one gap behind the others.
LEMMA FoldGapShape ==
  ASSUME TypeOK, FoldGap
  PROVE  /\ Steps' = Steps
         /\ Gaps' \in Seq(GapType) /\ Len(Gaps') = Len(Gaps) + 1
         /\ \A d \in 1..Len(Gaps) : Gaps'[d] = Gaps[d]
         /\ Gaps'[Len(Gaps) + 1] = [after |-> Len(Steps), of |-> happened + 1, repaired |-> FALSE]
         /\ rec' \in [actions : Seq(StepType), drops : Seq(GapType)]
<1> DEFINE new == [after |-> Len(Steps), of |-> happened + 1, repaired |-> FALSE]
<1>1. new \in GapType
  BY Parts DEF GapType, TypeOK
<1>2. rec' = AddDrop(rec, new)
  BY DEF FoldGap, Steps
<1> HIDE DEF new
<1>3. rec' = [actions |-> Steps, drops |-> Append(Gaps, new)]
  BY <1>2, Parts DEF AddDrop, Steps, Gaps
<1>4. Steps' = Steps /\ Gaps' = Append(Gaps, new)
  BY <1>3 DEF Steps, Gaps
<1>5. Append(Gaps, new) \in Seq(GapType)
  BY <1>1, Parts
<1>6. /\ Len(Gaps') = Len(Gaps) + 1 /\ Gaps'[Len(Gaps) + 1] = new
      /\ \A d \in 1..Len(Gaps) : Gaps'[d] = Gaps[d]
  BY <1>1, <1>4, Parts
<1> QED
  BY <1>3, <1>4, <1>5, <1>6, Parts DEF new

\* TakeBack and AwaitChoice take the last step off.
LEMMA PopShape ==
  ASSUME TypeOK, TakeBack \/ AwaitChoice
  PROVE  /\ Steps' \in Seq(StepType) /\ Len(Steps') = Len(Steps) - 1 /\ Len(Steps') # 0
         /\ \A i \in 1..(Len(Steps) - 1) : Steps'[i] = Steps[i]
         /\ Gaps' = Gaps
         /\ rec' \in [actions : Seq(StepType), drops : Seq(GapType)]
<1>1. rec' = [actions |-> SubSeq(Steps, 1, Len(Steps) - 1), drops |-> Gaps]
  BY Parts DEF TakeBack, AwaitChoice, PopLast, WithoutLast, Steps, Gaps
<1>2. Steps' = SubSeq(Steps, 1, Len(Steps) - 1) /\ Gaps' = Gaps
  BY <1>1 DEF Steps, Gaps
<1>3. Len(Steps) > 1
  BY DEF TakeBack, AwaitChoice, Steps
<1>4. Steps \in Seq(StepType) /\ Gaps \in Seq(GapType)
  BY Parts
<1>5. PICK k \in Nat \ {0} : k = Len(Steps) - 1 /\ Len(Steps) = k + 1
  <2>1. PICK n \in Nat : n = Len(Steps)
    BY Parts
  <2>2. n - 1 \in Nat \ {0} /\ n = (n - 1) + 1
    BY <2>1, <1>3
  <2> QED
    BY <2>1, <2>2
<1>6. /\ SubSeq(Steps, 1, k) \in Seq(StepType) /\ Len(SubSeq(Steps, 1, k)) = k
      /\ \A i \in 1..k : SubSeq(Steps, 1, k)[i] = Steps[i]
  <2>1. ASSUME NEW i \in 1..k
        PROVE  Steps[i] \in StepType
    <3>1. i \in 1..Len(Steps)
      BY <1>5
    <3> QED
      BY <3>1, <1>4, ElementOfSeq
  <2>2. 1 \in Int /\ k \in Int /\ 1 <= k /\ k - 1 + 1 = k /\ \A i \in 1..k : 1 + i - 1 = i
    OBVIOUS
  <2> QED
    BY <2>1, <2>2, SubSeqProperties
<1>7. rec' = [actions |-> SubSeq(Steps, 1, k), drops |-> Gaps] /\ Steps' = SubSeq(Steps, 1, k)
  BY <1>1, <1>2, <1>5
<1>8. rec' \in [actions : Seq(StepType), drops : Seq(GapType)]
  BY <1>4, <1>6, <1>7
<1> QED
  BY <1>2, <1>5, <1>6, <1>7, <1>8

\* A choice takes the place of the click it replaces.
LEMMA FoldChoiceShape ==
  ASSUME TypeOK, FoldChoice
  PROVE  rec' = rec
<1> DEFINE n == Len(Steps)
           short == SubSeq(Steps, 1, n - 1)
<1>1. n \in Nat /\ n # 0 /\ Steps \in Seq(StepType) /\ rec = [actions |-> Steps, drops |-> Gaps]
  BY Parts
<1>2. rec' = [actions |-> Append(short, Steps[n]), drops |-> Gaps]
  BY <1>1 DEF FoldChoice, Add, WithoutLast, Steps, Gaps
<1>3. Append(short, Steps[n]) = Steps
  BY <1>1
<1> QED
  BY <1>1, <1>2, <1>3

\* FillGap puts one step where the gap is, and moves the gaps behind it.
LEMMA FillGapShape ==
  ASSUME TypeOK, NEW p \in OpenDrops(rec), rec' = Repair(rec, p, Step(rec.drops[p].of, TRUE))
  PROVE  \E at \in 0..Len(Steps) :
           /\ at = IF Gaps[p].after > Len(Steps) THEN Len(Steps) ELSE Gaps[p].after
           /\ Steps' \in Seq(StepType) /\ Len(Steps') = Len(Steps) + 1
           /\ \A i \in 1..at : Steps'[i] = Steps[i]
           /\ Steps'[at + 1].of = Gaps[p].of /\ Steps'[at + 1].fill = TRUE
           /\ \A i \in (at + 2)..(Len(Steps) + 1) : Steps'[i] = Steps[i - 1]
           /\ Gaps' \in Seq(GapType) /\ Len(Gaps') = Len(Gaps)
           /\ \A d \in DOMAIN Gaps :
                /\ Gaps'[d].after = IF d # p /\ Gaps[d].after >= at
                                    THEN Gaps[d].after + 1 ELSE Gaps[d].after
                /\ Gaps'[d].of = Gaps[d].of
                /\ Gaps'[d].repaired = IF d = p THEN TRUE ELSE Gaps[d].repaired
           /\ rec' \in [actions : Seq(StepType), drops : Seq(GapType)]
<1> DEFINE e == Step(Gaps[p].of, TRUE)
           at == Clamped(rec, Gaps[p].after)
           moved == [d \in DOMAIN Gaps |-> Moved(Gaps[d], at)]
           full(g) == [g EXCEPT !.after = Gaps[p].after, !.repaired = TRUE]
           filled == [moved EXCEPT ![p] = full(@)]
<1>1. rec.actions = Steps /\ rec.drops = Gaps /\ Len(Steps) \in Nat /\ Len(Gaps) \in Nat
  BY Parts DEF Steps, Gaps
<1>2. DOMAIN Gaps = 1..Len(Gaps) /\ p \in DOMAIN Gaps
  BY Parts DEF OpenDrops, Gaps
<1>3. \A d \in DOMAIN Gaps : Gaps[d] \in GapType
  BY Parts
<1>4. Gaps[p] \in GapType /\ Gaps[p].after \in Nat
  BY <1>2, <1>3 DEF GapType
<1>5. at \in 0..Len(Steps)
  BY <1>1, <1>4 DEF Clamped
<1>6. Repair(rec, p, e) = [actions |-> Inserted(Steps, at, e), drops |-> filled]
  BY <1>1 DEF Repair, InsertAt
<1> HIDE DEF e, at, full
<1>7. \A d \in DOMAIN Gaps : moved[d] = Moved(Gaps[d], at)
  OBVIOUS
<1>8. \A d \in DOMAIN Gaps : moved[d] \in GapType
  BY <1>3, <1>5, MovedShape
<1>9. /\ full(moved[p]) \in GapType
      /\ full(moved[p]).after = Gaps[p].after
      /\ full(moved[p]).of = moved[p].of
      /\ full(moved[p]).repaired = TRUE
  BY <1>2, <1>8, <1>4, FilledShape DEF full
<1>10. /\ DOMAIN filled = DOMAIN Gaps
       /\ filled[p] = full(moved[p])
       /\ \A d \in DOMAIN Gaps : d # p => filled[d] = moved[d]
  BY <1>2
<1>11. filled = [d \in 1..Len(Gaps) |-> filled[d]] /\ \A d \in 1..Len(Gaps) : filled[d] \in GapType
  BY <1>2, <1>8, <1>9, <1>10
<1> HIDE DEF moved, filled
<1>12. filled \in Seq(GapType) /\ Len(filled) = Len(Gaps)
  BY <1>1, <1>11
<1>13. ASSUME NEW d \in DOMAIN Gaps
       PROVE  /\ filled[d].after = IF d # p /\ Gaps[d].after >= at
                                   THEN Gaps[d].after + 1 ELSE Gaps[d].after
              /\ filled[d].of = Gaps[d].of
              /\ filled[d].repaired = IF d = p THEN TRUE ELSE Gaps[d].repaired
  <2>1. Gaps[d] \in GapType /\ Gaps[p] \in GapType /\ at \in Nat
    BY <1>1, <1>3, <1>4, <1>5
  <2>2. moved[d].after = (IF Gaps[d].after >= at THEN Gaps[d].after + 1 ELSE Gaps[d].after)
        /\ moved[d].of = Gaps[d].of /\ moved[d].repaired = Gaps[d].repaired
    <3>1. moved[d] = Moved(Gaps[d], at)
      BY <1>7
    <3>2. /\ Moved(Gaps[d], at).after = IF Gaps[d].after >= at THEN Gaps[d].after + 1 ELSE Gaps[d].after
          /\ Moved(Gaps[d], at).of = Gaps[d].of
          /\ Moved(Gaps[d], at).repaired = Gaps[d].repaired
      BY <2>1, MovedShape
    <3> QED
      BY ONLY <3>1, <3>2
  <2>3. CASE d = p
    BY <2>2, <2>3, <1>9, <1>10
  <2>4. CASE d # p
    <3>1. filled[d] = moved[d]
      BY <2>4, <1>10
    <3> QED
      BY ONLY <3>1, <2>2, <2>4
  <2> QED
    BY <2>3, <2>4
<1>14. e \in StepType /\ e.of = Gaps[p].of /\ e.fill = TRUE
  BY <1>4 DEF e, Step, StepType, GapType
<1>15. Steps' = Inserted(Steps, at, e) /\ Gaps' = filled
       /\ rec' = [actions |-> Inserted(Steps, at, e), drops |-> filled]
  <2>1. rec' = Repair(rec, p, e)
    BY DEF Gaps, e
  <2>2. rec' = [actions |-> Inserted(Steps, at, e), drops |-> filled]
    BY <2>1, <1>6
  <2>3. Steps' = rec'.actions /\ Gaps' = rec'.drops
    BY DEF Steps, Gaps
  <2> QED
    BY ONLY <2>2, <2>3
<1>16. /\ Inserted(Steps, at, e) \in Seq(StepType)
       /\ Len(Inserted(Steps, at, e)) = Len(Steps) + 1
       /\ \A i \in 1..(Len(Steps) + 1) :
            Inserted(Steps, at, e)[i]
              = IF i <= at THEN Steps[i] ELSE IF i = at + 1 THEN e ELSE Steps[i - 1]
  <2>1. Steps \in Seq(StepType)
    BY Parts
  <2> QED
    BY ONLY <2>1, <1>5, <1>14, InsertedShape
<1>17. /\ \A i \in 1..at : Steps'[i] = Steps[i]
       /\ Steps'[at + 1] = e
       /\ \A i \in (at + 2)..(Len(Steps) + 1) : Steps'[i] = Steps[i - 1]
  BY <1>1, <1>5, <1>15, <1>16
<1>18. at = IF Gaps[p].after > Len(Steps) THEN Len(Steps) ELSE Gaps[p].after
  BY <1>1 DEF at, Clamped
<1>19. rec' \in [actions : Seq(StepType), drops : Seq(GapType)]
       /\ Steps' \in Seq(StepType) /\ Len(Steps') = Len(Steps) + 1
       /\ Gaps' \in Seq(GapType) /\ Len(Gaps') = Len(Gaps)
  <2> DEFINE longer == Inserted(Steps, at, e)
  <2>1. longer \in Seq(StepType) /\ Len(longer) = Len(Steps) + 1
    BY ONLY <1>16
  <2> HIDE DEF longer
  <2>2. Steps' = longer /\ Gaps' = filled /\ rec' = [actions |-> longer, drops |-> filled]
    BY <1>15 DEF longer
  <2> QED
    BY ONLY <2>1, <2>2, <1>12
<1>20. \A d \in DOMAIN Gaps :
         /\ Gaps'[d].after = IF d # p /\ Gaps[d].after >= at
                             THEN Gaps[d].after + 1 ELSE Gaps[d].after
         /\ Gaps'[d].of = Gaps[d].of
         /\ Gaps'[d].repaired = IF d = p THEN TRUE ELSE Gaps[d].repaired
  BY <1>13, <1>15
<1> QED
  BY <1>5, <1>14, <1>17, <1>18, <1>19, <1>20

-----------------------------------------------------------------------------
(* The invariants.                                                          *)

\* What the fields of steps and gaps range over.
LEMMA Fields ==
  ASSUME TypeOK
  PROVE  /\ happened \in Nat /\ edits \in Nat
         /\ \A i \in 1..Len(Steps) : Steps[i].of \in Nat /\ Steps[i].of <= happened
         /\ \A d \in 1..Len(Gaps) : /\ Gaps[d].after \in Nat
                                    /\ Gaps[d].of \in Nat /\ Gaps[d].of # 0 /\ Gaps[d].of <= happened
<1>1. /\ \A i \in 1..Len(Steps) : Steps[i].of \in Nat
      /\ \A d \in 1..Len(Gaps) : Gaps[d].after \in Nat
  BY Parts DEF StepType, GapType
<1> QED
  BY <1>1, Parts DEF TypeOK

\* FoldStep and AddOwnStep, as far as the invariants see them.
LEMMA Appends ==
  ASSUME TypeOK, FoldStep \/ AddOwnStep
  PROVE  /\ Steps' \in Seq(StepType) /\ Len(Steps') = Len(Steps) + 1
         /\ \A i \in 1..Len(Steps) : Steps'[i] = Steps[i]
         /\ Steps'[Len(Steps) + 1].of \in {0, happened + 1}
         /\ Steps'[Len(Steps) + 1].of <= happened'
         /\ Gaps' = Gaps
         /\ rec' \in [actions : Seq(StepType), drops : Seq(GapType)]
         /\ happened' \in {happened, happened + 1} /\ edits' \in {edits, edits + 1}
         /\ undone' = undone /\ cut' = cut
<1>1. CASE FoldStep
  <2> DEFINE s == Step(happened + 1, FALSE)
  <2>1. s \in StepType /\ s.of = happened + 1
    BY Fields DEF Step, StepType
  <2>2. rec' = Add(rec, s) /\ happened' = happened + 1
        /\ edits' = edits /\ undone' = undone /\ cut' = cut
    BY <1>1 DEF FoldStep, Happens
  <2> HIDE DEF s
  <2>3. /\ Steps' \in Seq(StepType) /\ Len(Steps') = Len(Steps) + 1
        /\ \A i \in 1..Len(Steps) : Steps'[i] = Steps[i]
        /\ Steps'[Len(Steps) + 1] = s
        /\ Gaps' = Gaps
        /\ rec' \in [actions : Seq(StepType), drops : Seq(GapType)]
    BY ONLY TypeOK, <2>1, <2>2, AddShape
  <2> QED
    BY <2>1, <2>2, <2>3, Fields
<1>2. CASE AddOwnStep
  <2> DEFINE s == Step(0, FALSE)
  <2>1. s \in StepType /\ s.of = 0
    BY Fields DEF Step, StepType
  <2>2. rec' = Add(rec, s) /\ happened' = happened
        /\ edits' = edits + 1 /\ undone' = undone /\ cut' = cut
    BY <1>2 DEF AddOwnStep, Edit
  <2> HIDE DEF s
  <2>3. /\ Steps' \in Seq(StepType) /\ Len(Steps') = Len(Steps) + 1
        /\ \A i \in 1..Len(Steps) : Steps'[i] = Steps[i]
        /\ Steps'[Len(Steps) + 1] = s
        /\ Gaps' = Gaps
        /\ rec' \in [actions : Seq(StepType), drops : Seq(GapType)]
    BY ONLY TypeOK, <2>1, <2>2, AddShape
  <2> QED
    BY <2>1, <2>2, <2>3, Fields
<1> QED
  BY <1>1, <1>2

\* A step of the specification keeps the types.
LEMMA TypeStep ==
  ASSUME TypeOK, [Next]_vars
  PROVE  TypeOK'
<1>1. CASE FoldStep \/ AddOwnStep
  <2>1. happened' \in Nat /\ edits' \in Nat /\ undone' \subseteq Nat /\ happened <= happened'
    <3>1. undone' = undone /\ happened' \in {happened, happened + 1} /\ edits' \in {edits, edits + 1}
      BY <1>1, Appends
    <3> QED
      BY <3>1, Fields DEF TypeOK
  <2>2. Steps' # <<>> /\ cut' \subseteq DOMAIN Gaps'
    BY <1>1, Appends, Parts DEF TypeOK
  <2>3. \A i \in DOMAIN Steps' : Steps'[i].of <= happened'
    <3>1. DOMAIN Steps' = 1..(Len(Steps) + 1)
      BY <1>1, Appends
    <3> QED
      BY <1>1, <2>1, <3>1, Appends, Fields, Parts
  <2>4. \A d \in DOMAIN Gaps' : Gaps'[d].of \in 1..happened'
    BY <1>1, <2>1, Appends, Fields, Parts
  <2> QED
    BY <1>1, <2>1, <2>2, <2>3, <2>4, Appends DEF TypeOK
<1>2. CASE FoldGap
  <2>1. happened' = happened + 1 /\ edits' = edits /\ undone' = undone /\ cut' = cut
    BY <1>2 DEF FoldGap, Happens
  <2>2. DOMAIN Gaps' = 1..(Len(Gaps) + 1)
    BY <1>2, FoldGapShape
  <2>3. Gaps'[Len(Gaps) + 1].of = happened + 1
    BY <1>2, FoldGapShape
  <2>4. \A d \in DOMAIN Gaps' : Gaps'[d].of \in 1..happened'
    BY <1>2, <2>1, <2>2, <2>3, FoldGapShape, Fields, Parts
  <2>5. \A i \in DOMAIN Steps' : Steps'[i].of <= happened'
    BY <1>2, <2>1, FoldGapShape, Fields, Parts
  <2>6. Steps' # <<>> /\ cut' \subseteq DOMAIN Gaps'
    BY <1>2, <2>1, <2>2, FoldGapShape, Parts DEF TypeOK
  <2> QED
    BY <1>2, <2>1, <2>4, <2>5, <2>6, FoldGapShape DEF TypeOK
<1>3. CASE FoldChoice
  <2>1. rec' = rec /\ happened' = happened + 1 /\ edits' = edits /\ undone' = undone /\ cut' = cut
    BY <1>3, FoldChoiceShape DEF FoldChoice, Happens
  <2>2. Steps' = Steps /\ Gaps' = Gaps
    BY <2>1 DEF Steps, Gaps
  <2>3. \A i \in DOMAIN Steps' : Steps'[i].of <= happened'
    BY <2>1, <2>2, Fields, Parts
  <2>4. \A d \in DOMAIN Gaps' : Gaps'[d].of \in 1..happened'
    BY <2>1, <2>2, Fields, Parts
  <2> QED
    BY <2>1, <2>2, <2>3, <2>4 DEF TypeOK
<1>4. CASE FillGap
  <2>1. happened' = happened /\ edits' = edits + 1 /\ undone' = undone /\ cut' = cut
    BY <1>4 DEF FillGap, Edit
  <2>2. PICK p \in OpenDrops(rec) : rec' = Repair(rec, p, Step(rec.drops[p].of, TRUE))
    BY <1>4 DEF FillGap
  <2>3. PICK at \in 0..Len(Steps) :
          /\ Steps' \in Seq(StepType) /\ Len(Steps') = Len(Steps) + 1
          /\ \A i \in 1..at : Steps'[i] = Steps[i]
          /\ Steps'[at + 1].of = Gaps[p].of
          /\ \A i \in (at + 2)..(Len(Steps) + 1) : Steps'[i] = Steps[i - 1]
          /\ Gaps' \in Seq(GapType) /\ Len(Gaps') = Len(Gaps)
          /\ \A d \in DOMAIN Gaps : Gaps'[d].of = Gaps[d].of
          /\ rec' \in [actions : Seq(StepType), drops : Seq(GapType)]
    BY <2>2, FillGapShape
  <2>4. DOMAIN Steps' = 1..(Len(Steps) + 1) /\ DOMAIN Gaps' = DOMAIN Gaps
    BY <2>3, Parts
  <2>5. p \in DOMAIN Gaps
    BY <2>2 DEF OpenDrops, Gaps
  <2>6. \A i \in DOMAIN Steps' : Steps'[i].of <= happened'
    <3> SUFFICES ASSUME NEW i \in 1..(Len(Steps) + 1)
                 PROVE  Steps'[i].of <= happened
      BY <2>1, <2>4
    <3>1. CASE i <= at
      BY <3>1, <2>3, Fields, Parts
    <3>2. CASE i = at + 1
      BY <3>2, <2>3, <2>5, Fields, Parts
    <3>3. CASE i > at + 1
      BY <3>3, <2>3, Fields, Parts
    <3> QED
      BY <3>1, <3>2, <3>3, <2>3, Parts
  <2>7. \A d \in DOMAIN Gaps' : Gaps'[d].of \in 1..happened'
    <3> SUFFICES ASSUME NEW d \in 1..Len(Gaps)
                 PROVE  Gaps[d].of \in 1..happened
      BY <2>1, <2>3, <2>4, Parts
    <3> QED
      BY Fields
  <2>8. Steps' # <<>>
    BY <2>3, Parts
  <2> QED
    BY <2>1, <2>3, <2>4, <2>6, <2>7, <2>8, Fields DEF TypeOK
<1>5. CASE TakeBack \/ AwaitChoice
  <2>1. happened' \in {happened, happened + 1} /\ edits' \in {edits, edits + 1}
        /\ undone' = undone \cup {Steps[Len(Steps)].of}
        /\ cut' = cut \cup {d \in DOMAIN Gaps : Gaps[d].after >= Len(Steps)}
    BY <1>5 DEF TakeBack, AwaitChoice, PopLast, Edit, Steps, Gaps
  <2>2. DOMAIN Steps' = 1..(Len(Steps) - 1) /\ Gaps' = Gaps
    <3>1. Steps' \in Seq(StepType) /\ Len(Steps') = Len(Steps) - 1 /\ Gaps' = Gaps
      BY <1>5, PopShape
    <3>2. Len(Steps) \in Nat
      BY Parts
    <3> QED
      BY ONLY <3>1, <3>2
  <2>3. \A i \in DOMAIN Steps' : Steps'[i].of <= happened'
    <3>1. happened \in Nat /\ happened' \in Nat /\ happened <= happened'
      BY <2>1, Fields
    <3>2. \A i \in 1..(Len(Steps) - 1) : Steps'[i] = Steps[i]
      BY <1>5, PopShape
    <3>3. \A i \in 1..(Len(Steps) - 1) : i \in 1..Len(Steps)
      BY Parts
    <3>4. \A i \in 1..(Len(Steps) - 1) : Steps[i].of \in Nat /\ Steps[i].of <= happened
      BY <3>3, Fields
    <3> QED
      BY ONLY <2>2, <3>1, <3>2, <3>4
  <2>4. \A d \in DOMAIN Gaps' : Gaps'[d].of \in 1..happened'
    BY <2>1, <2>2, Fields, Parts
  <2>5. undone' \subseteq Nat /\ cut' \subseteq DOMAIN Gaps'
    <3>1. Steps[Len(Steps)].of \in Nat
      BY Fields, Parts
    <3> QED
      BY <3>1, <2>1, <2>2 DEF TypeOK
  <2>6. Steps' # <<>>
    BY <1>5, PopShape
  <2> QED
    BY <1>5, <2>1, <2>3, <2>4, <2>5, <2>6, PopShape, Fields DEF TypeOK
<1>6. CASE UNCHANGED vars
  BY <1>6 DEF vars, TypeOK, Steps, Gaps
<1> QED
  BY <1>1, <1>2, <1>3, <1>4, <1>5, <1>6 DEF Next

\* A new recording has a launch and no gaps.
LEMMA Start ==
  ASSUME Init
  PROVE  TypeOK /\ Gaps = <<>> /\ Len(Steps) = 1 /\ Steps[1].of = 0
<1>1. rec = [actions |-> <<Step(0, FALSE)>>, drops |-> <<>>]
  BY DEF Init, NewRecording
<1>2. Steps = <<Step(0, FALSE)>> /\ Gaps = <<>>
  BY <1>1 DEF Steps, Gaps
<1>3. Step(0, FALSE) \in StepType /\ Step(0, FALSE).of = 0
  BY DEF Step, StepType
<1>4. Steps \in Seq(StepType) /\ Gaps \in Seq(GapType) /\ Len(Steps) = 1 /\ Steps[1].of = 0
  <2> DEFINE s == Step(0, FALSE)
  <2> HIDE DEF s
  <2>1. s \in StepType /\ s.of = 0 /\ Steps = <<s>> /\ Gaps = <<>>
    BY <1>2, <1>3 DEF s
  <2> QED
    BY <2>1
<1>5. rec \in [actions : Seq(StepType), drops : Seq(GapType)]
  BY <1>1, <1>2, <1>4
<1>6. (\A i \in DOMAIN Steps : i = 1) /\ DOMAIN Gaps = {} /\ Steps # <<>>
  BY <1>2, <1>4
<1>7. happened = 0 /\ edits = 0 /\ undone = {} /\ cut = {}
  BY DEF Init
<1>8. \A i \in DOMAIN Steps : Steps[i].of <= happened
  BY ONLY <1>4, <1>6, <1>7
<1>9. TypeOK
  BY ONLY <1>5, <1>6, <1>7, <1>8 DEF TypeOK
<1> QED
  BY ONLY <1>2, <1>4, <1>9

\* A recording always has the shape TypeOK gives it; in particular no edit takes
\* the launch away or puts a gap where no gap could be (ir.py:304-372).
THEOREM TypeCorrect == Spec => []TypeOK
<1>1. Init => TypeOK
  BY Start
<1>2. TypeOK /\ [Next]_vars => TypeOK'
  BY TypeStep
<1> QED
  BY <1>1, <1>2, PTL DEF Spec

\* FillGap, as far as the invariants see it.
LEMMA Fills ==
  ASSUME TypeOK, FillGap
  PROVE  \E p \in DOMAIN Gaps, at \in 0..Len(Steps) :
           /\ ~Gaps[p].repaired
           /\ at = IF Gaps[p].after > Len(Steps) THEN Len(Steps) ELSE Gaps[p].after
           /\ Len(Steps') = Len(Steps) + 1 /\ DOMAIN Steps' = 1..(Len(Steps) + 1)
           /\ \A i \in 1..at : Steps'[i] = Steps[i]
           /\ Steps'[at + 1].of = Gaps[p].of /\ Steps'[at + 1].fill = TRUE
           /\ \A i \in (at + 2)..(Len(Steps) + 1) : Steps'[i] = Steps[i - 1]
           /\ DOMAIN Gaps' = DOMAIN Gaps
           /\ \A d \in DOMAIN Gaps :
                /\ Gaps'[d].after = IF d # p /\ Gaps[d].after >= at
                                    THEN Gaps[d].after + 1 ELSE Gaps[d].after
                /\ Gaps'[d].of = Gaps[d].of
                /\ Gaps'[d].repaired = IF d = p THEN TRUE ELSE Gaps[d].repaired
           /\ undone' = undone /\ cut' = cut
<1>1. PICK p \in OpenDrops(rec) : rec' = Repair(rec, p, Step(rec.drops[p].of, TRUE))
  BY DEF FillGap
<1>2. p \in DOMAIN Gaps /\ ~Gaps[p].repaired
  BY <1>1 DEF OpenDrops, Gaps
<1>3. undone' = undone /\ cut' = cut
  BY DEF FillGap
<1>4. PICK at \in 0..Len(Steps) :
        /\ at = IF Gaps[p].after > Len(Steps) THEN Len(Steps) ELSE Gaps[p].after
        /\ Steps' \in Seq(StepType) /\ Len(Steps') = Len(Steps) + 1
        /\ \A i \in 1..at : Steps'[i] = Steps[i]
        /\ Steps'[at + 1].of = Gaps[p].of /\ Steps'[at + 1].fill = TRUE
        /\ \A i \in (at + 2)..(Len(Steps) + 1) : Steps'[i] = Steps[i - 1]
        /\ Gaps' \in Seq(GapType) /\ Len(Gaps') = Len(Gaps)
        /\ \A d \in DOMAIN Gaps :
             /\ Gaps'[d].after = IF d # p /\ Gaps[d].after >= at
                                 THEN Gaps[d].after + 1 ELSE Gaps[d].after
             /\ Gaps'[d].of = Gaps[d].of
             /\ Gaps'[d].repaired = IF d = p THEN TRUE ELSE Gaps[d].repaired
  BY <1>1, FillGapShape
<1>5. DOMAIN Steps' = 1..(Len(Steps) + 1) /\ DOMAIN Gaps' = DOMAIN Gaps
  <2>1. DOMAIN Gaps = 1..Len(Gaps)
    BY Parts
  <2>2. /\ Steps' \in Seq(StepType) /\ Len(Steps') = Len(Steps) + 1
        /\ Gaps' \in Seq(GapType) /\ Len(Gaps') = Len(Gaps)
    BY <1>4
  <2> QED
    BY ONLY <2>1, <2>2
<1> QED
  BY ONLY <1>2, <1>3, <1>4, <1>5

\* No step of the specification cuts a gap off without saying so.
LEMMA PlacedStep ==
  ASSUME TypeOK, PlacedUnlessCut, [Next]_vars
  PROVE  PlacedUnlessCut'
<1>0. \A d \in 1..Len(Gaps) : Gaps[d].after \in Nat /\ (d \in cut \/ Gaps[d].after <= Len(Steps))
  BY Fields, Parts DEF PlacedUnlessCut
<1>1. CASE FoldStep \/ AddOwnStep
  <2>1. Gaps' = Gaps /\ cut' = cut /\ Len(Steps') = Len(Steps) + 1
    BY <1>1, Appends
  <2> QED
    BY <1>0, <2>1, Parts DEF PlacedUnlessCut
<1>2. CASE FoldGap
  <2>1. cut' = cut
    BY <1>2 DEF FoldGap, Happens
  <2>2. DOMAIN Gaps' = 1..(Len(Gaps) + 1)
    BY <1>2, FoldGapShape
  <2>3. Gaps'[Len(Gaps) + 1].after = Len(Steps)
    BY <1>2, FoldGapShape
  <2> QED
    BY <1>0, <1>2, <2>1, <2>2, <2>3, FoldGapShape, Parts DEF PlacedUnlessCut
<1>3. CASE FoldChoice
  BY <1>3, FoldChoiceShape DEF FoldChoice, Happens, PlacedUnlessCut, Steps, Gaps
<1>4. CASE FillGap
  <2>1. PICK p \in DOMAIN Gaps, at \in 0..Len(Steps) :
          /\ Len(Steps') = Len(Steps) + 1
          /\ DOMAIN Gaps' = DOMAIN Gaps
          /\ \A d \in DOMAIN Gaps :
               Gaps'[d].after = IF d # p /\ Gaps[d].after >= at
                                THEN Gaps[d].after + 1 ELSE Gaps[d].after
          /\ cut' = cut
    BY <1>4, Fills
  <2> SUFFICES ASSUME NEW d \in 1..Len(Gaps)
               PROVE  d \in cut \/ Gaps'[d].after <= Len(Steps) + 1
    BY <2>1, Parts DEF PlacedUnlessCut
  <2> QED
    BY <1>0, <2>1, Parts
<1>5. CASE TakeBack \/ AwaitChoice
  <2>1. Len(Steps') = Len(Steps) - 1 /\ Gaps' = Gaps
    BY <1>5, PopShape
  <2>2. cut' = cut \cup {d \in DOMAIN Gaps : Gaps[d].after >= Len(Steps)}
    BY <1>5 DEF TakeBack, AwaitChoice, PopLast, Steps, Gaps
  <2> QED
    BY <1>0, <2>1, <2>2, Parts DEF PlacedUnlessCut
<1>6. CASE UNCHANGED vars
  BY <1>6 DEF vars, PlacedUnlessCut, Steps, Gaps
<1> QED
  BY <1>1, <1>2, <1>3, <1>4, <1>5, <1>6 DEF Next

\* Whatever is appended, filled and taken back, every gap the undo did not cut
\* off has a place among the steps (ir.py:328-368, ui/controller.py:735-739).
THEOREM GapsArePlaced == Spec => []PlacedUnlessCut
<1>1. Init => PlacedUnlessCut
  BY Start DEF PlacedUnlessCut
<1>2. TypeOK /\ PlacedUnlessCut /\ [Next]_vars => PlacedUnlessCut'
  BY PlacedStep
<1> QED
  BY <1>1, <1>2, TypeCorrect, PTL DEF Spec

\* No step of the specification moves a gap past a step.
LEMMA PlaceStep ==
  ASSUME TypeOK, PlacedUnlessCut, GapsKeepTheirPlace, [Next]_vars
  PROVE  GapsKeepTheirPlace'
<1> DEFINE Kept(d, i) == Steps[i].of = 0 \/ Steps[i].fill
                         \/ (i <= Gaps[d].after <=> Steps[i].of < Gaps[d].of)
<1>0. \A d \in 1..Len(Gaps) : /\ Gaps[d].after \in Nat
                              /\ d \in cut \/ Gaps[d].after <= Len(Steps)
                              /\ d \in cut \/ \A i \in 1..Len(Steps) : Kept(d, i)
  BY Fields, Parts DEF PlacedUnlessCut, GapsKeepTheirPlace
<1>1. CASE FoldStep \/ AddOwnStep
  <2>1. cut' = cut /\ Gaps' = Gaps /\ DOMAIN Steps' = 1..(Len(Steps) + 1)
    BY <1>1, Appends
  <2> SUFFICES ASSUME NEW d \in 1..Len(Gaps), d \notin cut, NEW i \in 1..(Len(Steps) + 1)
               PROVE  Steps'[i].of = 0 \/ Steps'[i].fill
                        \/ (i <= Gaps[d].after <=> Steps'[i].of < Gaps[d].of)
    BY <2>1, Parts DEF GapsKeepTheirPlace
  <2>2. CASE i <= Len(Steps)
    <3>1. Steps'[i] = Steps[i]
      BY <1>1, <2>2, Appends, Parts
    <3> QED
      BY <1>0, <2>2, <3>1, Parts
  <2>3. CASE i = Len(Steps) + 1
    <3>1. Steps'[i].of \in {0, happened + 1}
      BY <1>1, <2>3, Appends
    <3>2. Gaps[d].of \in Nat /\ Gaps[d].of <= happened /\ happened \in Nat
      BY Fields
    <3>3. Gaps[d].after \in Nat /\ Gaps[d].after <= Len(Steps) /\ Len(Steps) \in Nat
      BY <1>0, Parts
    <3> QED
      BY <2>3, <3>1, <3>2, <3>3
  <2> QED
    BY <2>2, <2>3, Parts
<1>2. CASE FoldGap
  <2>1. cut' = cut /\ Steps' = Steps /\ DOMAIN Gaps' = 1..(Len(Gaps) + 1)
    BY <1>2, FoldGapShape DEF FoldGap, Happens
  <2>2. Gaps'[Len(Gaps) + 1].after = Len(Steps) /\ Gaps'[Len(Gaps) + 1].of = happened + 1
    BY <1>2, FoldGapShape
  <2> SUFFICES ASSUME NEW d \in 1..(Len(Gaps) + 1), d \notin cut, NEW i \in 1..Len(Steps)
               PROVE  Steps[i].of = 0 \/ Steps[i].fill
                        \/ (i <= Gaps'[d].after <=> Steps[i].of < Gaps'[d].of)
    BY <2>1, Parts DEF GapsKeepTheirPlace
  <2>3. CASE d <= Len(Gaps)
    <3>1. Gaps'[d] = Gaps[d]
      BY <1>2, <2>3, FoldGapShape, Parts
    <3> QED
      BY <1>0, <2>3, <3>1, Parts
  <2>4. CASE d = Len(Gaps) + 1
    <3>1. Steps[i].of \in Nat /\ Steps[i].of <= happened /\ happened \in Nat
      BY Fields
    <3> QED
      BY <2>2, <2>4, <3>1, Parts
  <2> QED
    BY <2>3, <2>4, Parts
<1>3. CASE FoldChoice
  BY <1>3, FoldChoiceShape DEF FoldChoice, Happens, GapsKeepTheirPlace, Steps, Gaps
<1>4. CASE FillGap
  <2>1. PICK p \in DOMAIN Gaps, at \in 0..Len(Steps) :
          /\ at = IF Gaps[p].after > Len(Steps) THEN Len(Steps) ELSE Gaps[p].after
          /\ DOMAIN Steps' = 1..(Len(Steps) + 1)
          /\ \A i \in 1..at : Steps'[i] = Steps[i]
          /\ Steps'[at + 1].fill = TRUE
          /\ \A i \in (at + 2)..(Len(Steps) + 1) : Steps'[i] = Steps[i - 1]
          /\ DOMAIN Gaps' = DOMAIN Gaps
          /\ \A d \in DOMAIN Gaps :
               /\ Gaps'[d].after = IF d # p /\ Gaps[d].after >= at
                                   THEN Gaps[d].after + 1 ELSE Gaps[d].after
               /\ Gaps'[d].of = Gaps[d].of
          /\ cut' = cut
    BY <1>4, Fills
  <2> SUFFICES ASSUME NEW d \in 1..Len(Gaps), d \notin cut, NEW i \in 1..(Len(Steps) + 1)
               PROVE  Steps'[i].of = 0 \/ Steps'[i].fill
                        \/ (i <= Gaps'[d].after <=> Steps'[i].of < Gaps[d].of)
    BY <2>1, Parts DEF GapsKeepTheirPlace
  <2>2. Gaps'[d].after = IF d # p /\ Gaps[d].after >= at THEN Gaps[d].after + 1 ELSE Gaps[d].after
    BY <2>1, Parts
  <2>3. Gaps[d].after \in Nat /\ Gaps[d].after <= Len(Steps) /\ Len(Steps) \in Nat
    BY <1>0, Parts
  <2>4. d = p => at = Gaps[d].after
    BY <2>1, <2>3
  <2>5. CASE i <= at
    <3>1. i \in 1..at /\ i \in 1..Len(Steps)
      BY <2>1, <2>3, <2>5
    <3>2. Steps'[i] = Steps[i] /\ Kept(d, i)
      BY <1>0, <2>1, <3>1
    <3> QED
      <4>1. i <= Gaps'[d].after <=> i <= Gaps[d].after
        BY <2>2, <2>3, <2>4, <2>5
      <4> QED
        BY <3>2, <4>1
  <2>6. CASE i = at + 1
    BY <2>1, <2>6
  <2>7. CASE i > at + 1
    <3>1. Steps'[i] = Steps[i - 1] /\ i - 1 \in 1..Len(Steps)
      <4>1. i \in (at + 2)..(Len(Steps) + 1) /\ i - 1 \in 1..Len(Steps)
        BY <2>1, <2>3, <2>7
      <4> QED
        BY <2>1, <4>1
    <3>2. Kept(d, i - 1)
      BY <1>0, <3>1
    <3> QED
      <4>1. i <= Gaps'[d].after <=> i - 1 <= Gaps[d].after
        BY <2>1, <2>2, <2>3, <2>4, <2>7
      <4> QED
        BY <3>1, <3>2, <4>1
  <2> QED
    BY <2>5, <2>6, <2>7, Parts
<1>5. CASE TakeBack \/ AwaitChoice
  <2>1. Gaps' = Gaps /\ DOMAIN Steps' = 1..(Len(Steps) - 1)
        /\ \A i \in 1..(Len(Steps) - 1) : Steps'[i] = Steps[i] /\ i \in 1..Len(Steps)
    <3>1. /\ Steps' \in Seq(StepType) /\ Len(Steps') = Len(Steps) - 1
          /\ Gaps' = Gaps /\ \A i \in 1..(Len(Steps) - 1) : Steps'[i] = Steps[i]
      BY <1>5, PopShape
    <3>2. Len(Steps) \in Nat
      BY Parts
    <3> QED
      BY ONLY <3>1, <3>2
  <2>2. cut \subseteq cut'
    BY <1>5 DEF TakeBack, AwaitChoice, PopLast
  <2> SUFFICES ASSUME NEW d \in 1..Len(Gaps), d \notin cut, NEW i \in 1..(Len(Steps) - 1)
               PROVE  Steps'[i].of = 0 \/ Steps'[i].fill
                        \/ (i <= Gaps[d].after <=> Steps'[i].of < Gaps[d].of)
    BY <2>1, <2>2, Parts DEF GapsKeepTheirPlace
  <2> QED
    BY <1>0, <2>1
<1>6. CASE UNCHANGED vars
  BY <1>6 DEF vars, GapsKeepTheirPlace, Steps, Gaps
<1> QED
  BY <1>1, <1>2, <1>3, <1>4, <1>5, <1>6 DEF Next

\* However gaps are filled and steps taken back, each gap stays between the
\* steps it fell between: the test does what the operator did in the order they
\* did it (ir.py:337-368).
THEOREM PlacesKept == Spec => []GapsKeepTheirPlace
<1>1. Init => GapsKeepTheirPlace
  BY Start DEF GapsKeepTheirPlace
<1>2. TypeOK /\ PlacedUnlessCut /\ GapsKeepTheirPlace /\ [Next]_vars => GapsKeepTheirPlace'
  BY PlaceStep
<1> QED
  BY <1>1, <1>2, TypeCorrect, GapsArePlaced, PTL DEF Spec

\* No step of the specification parts a gap from the step that fills it.
LEMMA FillStep ==
  ASSUME TypeOK, PlacedUnlessCut, FillsStayWithTheirGaps, [Next]_vars
  PROVE  FillsStayWithTheirGaps'
<1>0. \A d \in 1..Len(Gaps) :
        /\ Gaps[d].after \in Nat
        /\ d \in cut \/ Gaps[d].after <= Len(Steps)
        /\ Gaps[d].repaired => \/ d \in cut \/ Gaps[d].of \in undone
                               \/ Gaps[d].after < Len(Steps) /\ Steps[Gaps[d].after + 1].of = Gaps[d].of
  BY Fields, Parts DEF PlacedUnlessCut, FillsStayWithTheirGaps
<1>1. CASE FoldStep \/ AddOwnStep
  <2>1. /\ cut' = cut /\ undone' = undone /\ Gaps' = Gaps /\ Len(Steps') = Len(Steps) + 1
        /\ \A i \in 1..Len(Steps) : Steps'[i] = Steps[i]
    BY <1>1, Appends
  <2> SUFFICES ASSUME NEW d \in 1..Len(Gaps), Gaps[d].repaired, d \notin cut, Gaps[d].of \notin undone
               PROVE  Gaps[d].after < Len(Steps) + 1 /\ Steps'[Gaps[d].after + 1].of = Gaps[d].of
    BY <2>1, Parts DEF FillsStayWithTheirGaps
  <2>2. Gaps[d].after \in Nat /\ Gaps[d].after < Len(Steps) /\ Steps[Gaps[d].after + 1].of = Gaps[d].of
    BY <1>0
  <2>3. Gaps[d].after + 1 \in 1..Len(Steps)
    BY <2>2, Parts
  <2> QED
    BY <2>1, <2>2, <2>3
<1>2. CASE FoldGap
  <2>1. cut' = cut /\ undone' = undone /\ Steps' = Steps /\ DOMAIN Gaps' = 1..(Len(Gaps) + 1)
    BY <1>2, FoldGapShape DEF FoldGap, Happens
  <2>2. ~Gaps'[Len(Gaps) + 1].repaired
    BY <1>2, FoldGapShape
  <2> SUFFICES ASSUME NEW d \in 1..Len(Gaps), Gaps'[d].repaired, d \notin cut, Gaps'[d].of \notin undone
               PROVE  Gaps'[d].after < Len(Steps) /\ Steps[Gaps'[d].after + 1].of = Gaps'[d].of
    BY <2>1, <2>2, Parts DEF FillsStayWithTheirGaps
  <2>3. Gaps'[d] = Gaps[d]
    BY <1>2, FoldGapShape
  <2> QED
    BY <1>0, <2>3
<1>3. CASE FoldChoice
  BY <1>3, FoldChoiceShape DEF FoldChoice, Happens, FillsStayWithTheirGaps, Steps, Gaps
<1>4. CASE FillGap
  <2>1. PICK p \in DOMAIN Gaps, at \in 0..Len(Steps) :
          /\ at = IF Gaps[p].after > Len(Steps) THEN Len(Steps) ELSE Gaps[p].after
          /\ Len(Steps') = Len(Steps) + 1
          /\ \A i \in 1..at : Steps'[i] = Steps[i]
          /\ Steps'[at + 1].of = Gaps[p].of
          /\ \A i \in (at + 2)..(Len(Steps) + 1) : Steps'[i] = Steps[i - 1]
          /\ DOMAIN Gaps' = DOMAIN Gaps
          /\ \A d \in DOMAIN Gaps :
               /\ Gaps'[d].after = IF d # p /\ Gaps[d].after >= at
                                   THEN Gaps[d].after + 1 ELSE Gaps[d].after
               /\ Gaps'[d].of = Gaps[d].of
               /\ Gaps'[d].repaired = IF d = p THEN TRUE ELSE Gaps[d].repaired
          /\ undone' = undone /\ cut' = cut
    BY <1>4, Fills
  <2> SUFFICES ASSUME NEW d \in 1..Len(Gaps), Gaps'[d].repaired, d \notin cut, Gaps[d].of \notin undone
               PROVE  Gaps'[d].after < Len(Steps) + 1 /\ Steps'[Gaps'[d].after + 1].of = Gaps[d].of
    BY <2>1, Parts DEF FillsStayWithTheirGaps
  <2>2. Gaps'[d].after = IF d # p /\ Gaps[d].after >= at THEN Gaps[d].after + 1 ELSE Gaps[d].after
    BY <2>1, Parts
  <2>3. Gaps[d].after \in Nat /\ Gaps[d].after <= Len(Steps) /\ Len(Steps) \in Nat /\ at \in 0..Len(Steps)
    BY <1>0, Parts
  <2>4. CASE d = p
    <3>1. at = Gaps[d].after
      BY <2>1, <2>3, <2>4
    <3>2. Gaps'[d].after = at
      BY <2>2, <2>4, <3>1
    <3> QED
      BY <2>1, <2>3, <2>4, <3>2
  <2>5. CASE d # p
    <3>1. Gaps[d].repaired
      BY <2>1, <2>5, Parts
    <3>2. Gaps[d].after < Len(Steps) /\ Steps[Gaps[d].after + 1].of = Gaps[d].of
      BY <1>0, <3>1
    <3>3. CASE Gaps[d].after >= at
      <4>1. Gaps'[d].after = Gaps[d].after + 1
        BY <2>2, <2>5, <3>3
      <4>2. Gaps[d].after + 2 \in (at + 2)..(Len(Steps) + 1)
            /\ (Gaps[d].after + 2) - 1 = Gaps[d].after + 1
            /\ (Gaps[d].after + 1) + 1 = Gaps[d].after + 2
        BY <2>3, <3>2, <3>3, SMTT(20)
      <4>3. Steps'[Gaps[d].after + 2] = Steps[Gaps[d].after + 1]
        BY <2>1, <4>2
      <4> QED
        BY <2>3, <3>2, <4>1, <4>2, <4>3, SMTT(20)
    <3>4. CASE ~(Gaps[d].after >= at)
      <4>1. Gaps'[d].after = Gaps[d].after
        BY <2>2, <3>4
      <4>2. Gaps[d].after + 1 \in 1..at
        BY <2>3, <3>4
      <4> QED
        BY <2>1, <2>3, <3>2, <4>1, <4>2
    <3> QED
      BY <3>3, <3>4
  <2> QED
    BY <2>4, <2>5
<1>5. CASE TakeBack \/ AwaitChoice
  <2>1. Gaps' = Gaps /\ Len(Steps') = Len(Steps) - 1
        /\ \A i \in 1..(Len(Steps) - 1) : Steps'[i] = Steps[i]
    BY <1>5, PopShape
  <2>2. cut' = cut \cup {d \in DOMAIN Gaps : Gaps[d].after >= Len(Steps)}
        /\ undone' = undone \cup {Steps[Len(Steps)].of}
    BY <1>5 DEF TakeBack, AwaitChoice, PopLast, Steps, Gaps
  <2> SUFFICES ASSUME NEW d \in 1..Len(Gaps), Gaps[d].repaired, d \notin cut', Gaps[d].of \notin undone'
               PROVE  Gaps[d].after < Len(Steps) - 1 /\ Steps'[Gaps[d].after + 1].of = Gaps[d].of
    BY <2>1, Parts DEF FillsStayWithTheirGaps
  <2>3. Gaps[d].after \in Nat /\ Gaps[d].after < Len(Steps) /\ Steps[Gaps[d].after + 1].of = Gaps[d].of
    BY <1>0, <2>2
  <2>4. Gaps[d].after + 1 # Len(Steps)
    BY <2>2, <2>3
  <2>5. Gaps[d].after < Len(Steps) - 1 /\ Gaps[d].after + 1 \in 1..(Len(Steps) - 1)
    BY <2>3, <2>4, Parts
  <2> QED
    BY <2>1, <2>3, <2>5
<1>6. CASE UNCHANGED vars
  BY <1>6 DEF vars, FillsStayWithTheirGaps, Steps, Gaps
<1> QED
  BY <1>1, <1>2, <1>3, <1>4, <1>5, <1>6 DEF Next

\* A filled gap points at the step that fills it for as long as that step is
\* there, whichever gaps are filled before or after it (ir.py:352-368).
THEOREM FillsStay == Spec => []FillsStayWithTheirGaps
<1>1. Init => FillsStayWithTheirGaps
  BY Start DEF FillsStayWithTheirGaps
<1>2. TypeOK /\ PlacedUnlessCut /\ FillsStayWithTheirGaps /\ [Next]_vars => FillsStayWithTheirGaps'
  BY FillStep
<1> QED
  BY <1>1, <1>2, TypeCorrect, GapsArePlaced, PTL DEF Spec

\* What makes OneStepForEach inductive: gaps are for different events, and an
\* event that has a gap has a step only if the gap is filled.
OneInv == /\ \A d, e \in DOMAIN Gaps : d # e => Gaps[d].of # Gaps[e].of
          /\ \A i \in DOMAIN Steps, d \in DOMAIN Gaps : Steps[i].of = Gaps[d].of => Gaps[d].repaired
          /\ OneStepForEach

\* No step of the specification makes two steps of one event.
LEMMA OneStep ==
  ASSUME TypeOK, OneInv, [Next]_vars
  PROVE  OneInv'
<1>0. /\ \A d, e \in 1..Len(Gaps) : d # e => Gaps[d].of # Gaps[e].of
      /\ \A i \in 1..Len(Steps), d \in 1..Len(Gaps) : Steps[i].of = Gaps[d].of => Gaps[d].repaired
      /\ \A i, j \in 1..Len(Steps) : i # j /\ Steps[i].of # 0 => Steps[i].of # Steps[j].of
      /\ happened \in Nat
      /\ \A i \in 1..Len(Steps) : Steps[i].of \in Nat /\ Steps[i].of <= happened
      /\ \A d \in 1..Len(Gaps) : Gaps[d].of \in Nat /\ Gaps[d].of # 0 /\ Gaps[d].of <= happened
  BY Fields, Parts DEF OneInv, OneStepForEach
<1>1. CASE FoldStep \/ AddOwnStep
  <2> DEFINE n == Len(Steps) + 1
  <2>1. /\ Gaps' = Gaps /\ DOMAIN Steps' = 1..n
        /\ \A i \in 1..Len(Steps) : Steps'[i] = Steps[i]
        /\ Steps'[n].of \in {0, happened + 1}
    BY <1>1, Appends
  <2>2. n \in 1..n /\ \A i \in 1..n : i = n \/ i \in 1..Len(Steps)
    BY Parts
  <2> HIDE DEF n
  <2>3. \A i \in 1..n, d \in 1..Len(Gaps) : Steps'[i].of = Gaps[d].of => Gaps[d].repaired
    BY <1>0, <2>1, <2>2
  <2>4. \A i, j \in 1..n : i # j /\ Steps'[i].of # 0 => Steps'[i].of # Steps'[j].of
    BY <1>0, <2>1, <2>2
  <2> QED
    BY <1>0, <2>1, <2>3, <2>4, Parts DEF OneInv, OneStepForEach
<1>2. CASE FoldGap
  <2> DEFINE n == Len(Gaps) + 1
  <2>1. /\ Steps' = Steps /\ DOMAIN Gaps' = 1..n
        /\ \A d \in 1..Len(Gaps) : Gaps'[d] = Gaps[d]
        /\ Gaps'[n].of = happened + 1
    BY <1>2, FoldGapShape
  <2>2. \A d \in 1..n : d = n \/ d \in 1..Len(Gaps)
    BY Parts
  <2> HIDE DEF n
  <2>3. \A d, e \in 1..n : d # e => Gaps'[d].of # Gaps'[e].of
    BY <1>0, <2>1, <2>2
  <2>4. \A i \in 1..Len(Steps), d \in 1..n : Steps[i].of = Gaps'[d].of => Gaps'[d].repaired
    BY <1>0, <2>1, <2>2
  <2> QED
    BY <1>0, <2>1, <2>3, <2>4, Parts DEF OneInv, OneStepForEach
<1>3. CASE FoldChoice
  BY <1>3, FoldChoiceShape DEF OneInv, OneStepForEach, Steps, Gaps
<1>4. CASE FillGap
  <2>1. PICK p \in DOMAIN Gaps, at \in 0..Len(Steps) :
          /\ ~Gaps[p].repaired
          /\ DOMAIN Steps' = 1..(Len(Steps) + 1)
          /\ \A i \in 1..at : Steps'[i] = Steps[i]
          /\ Steps'[at + 1].of = Gaps[p].of
          /\ \A i \in (at + 2)..(Len(Steps) + 1) : Steps'[i] = Steps[i - 1]
          /\ DOMAIN Gaps' = DOMAIN Gaps
          /\ \A d \in DOMAIN Gaps :
               /\ Gaps'[d].of = Gaps[d].of
               /\ Gaps'[d].repaired = IF d = p THEN TRUE ELSE Gaps[d].repaired
    BY <1>4, Fills
  <2> DEFINE Old(i) == IF i <= at THEN i ELSE i - 1
  <2>2. ASSUME NEW i \in 1..(Len(Steps) + 1), i # at + 1
        PROVE  Steps'[i] = Steps[Old(i)] /\ Old(i) \in 1..Len(Steps)
    <3>1. i \in 1..at \/ i \in (at + 2)..(Len(Steps) + 1)
      BY <2>1, <2>2, Parts
    <3> QED
      BY <2>1, <3>1, Parts
  <2>3. \A i \in 1..Len(Steps) : Steps[i].of # Gaps[p].of
    BY <1>0, <2>1, Parts
  <2>4. ASSUME NEW i \in 1..(Len(Steps) + 1), NEW j \in 1..(Len(Steps) + 1),
               i # j, Steps'[i].of # 0
        PROVE  Steps'[i].of # Steps'[j].of
    <3>1. CASE i # at + 1 /\ j # at + 1
      <4>1. Old(i) # Old(j)
        BY <2>1, <2>4, <3>1, Parts
      <4> HIDE DEF Old
      <4> QED
        BY <1>0, <2>2, <2>4, <3>1, <4>1
    <3>2. CASE i = at + 1
      <4> HIDE DEF Old
      <4> QED
        BY <2>1, <2>2, <2>3, <2>4, <3>2, SMTT(20)
    <3>3. CASE j = at + 1
      <4> HIDE DEF Old
      <4> QED
        BY <2>1, <2>2, <2>3, <2>4, <3>3, SMTT(20)
    <3> QED
      BY <3>1, <3>2, <3>3
  <2>5. ASSUME NEW i \in 1..(Len(Steps) + 1), NEW d \in 1..Len(Gaps), Steps'[i].of = Gaps'[d].of
        PROVE  Gaps'[d].repaired
    <3> HIDE DEF Old
    <3>1. CASE i = at + 1
      <4>1. d = p
        <5>1. Gaps[d].of = Gaps[p].of /\ p \in 1..Len(Gaps)
          BY <2>1, <2>5, <3>1, Parts
        <5> QED
          BY <1>0, <5>1
      <4> QED
        BY <2>1, <4>1
    <3>2. CASE i # at + 1
      <4>1. Steps[Old(i)].of = Gaps[d].of /\ Old(i) \in 1..Len(Steps)
        BY <2>1, <2>2, <2>5, <3>2, Parts
      <4>2. Gaps[d].repaired
        BY <1>0, <4>1
      <4> QED
        BY <2>1, <4>2, Parts
    <3> QED
      BY <3>1, <3>2
  <2>6. \A d, e \in DOMAIN Gaps' : d # e => Gaps'[d].of # Gaps'[e].of
    <3>1. DOMAIN Gaps' = 1..Len(Gaps) /\ \A d \in 1..Len(Gaps) : Gaps'[d].of = Gaps[d].of
      <4>1. DOMAIN Gaps = 1..Len(Gaps)
        BY Parts
      <4> QED
        BY ONLY <2>1, <4>1
    <3> QED
      BY ONLY <3>1, <1>0
  <2> QED
    <3>1. DOMAIN Steps' = 1..(Len(Steps) + 1) /\ DOMAIN Gaps' = 1..Len(Gaps)
      BY <2>1, Parts
    <3> QED
      BY ONLY <3>1, <2>4, <2>5, <2>6 DEF OneInv, OneStepForEach
<1>5. CASE TakeBack \/ AwaitChoice
  <2>1. Gaps' = Gaps
    BY <1>5, PopShape
  <2>2. \A i \in DOMAIN Steps' : i \in 1..Len(Steps) /\ Steps'[i] = Steps[i]
    <3>1. /\ Steps' \in Seq(StepType) /\ Len(Steps') = Len(Steps) - 1
          /\ \A i \in 1..(Len(Steps) - 1) : Steps'[i] = Steps[i]
      BY <1>5, PopShape
    <3>2. Len(Steps) \in Nat
      BY Parts
    <3> QED
      BY ONLY <3>1, <3>2
  <2> QED
    BY <1>0, <2>1, <2>2, Parts DEF OneInv, OneStepForEach
<1>6. CASE UNCHANGED vars
  BY <1>6 DEF vars, OneInv, OneStepForEach, Steps, Gaps
<1> QED
  BY <1>1, <1>2, <1>3, <1>4, <1>5, <1>6 DEF Next

\* Nothing that happened is two steps, and no gap is filled twice, however
\* folding, filling and undoing are mixed (ir.py:352-372, capture.py:893-901).
THEOREM OneStepEach == Spec => []OneStepForEach
<1>1. Init => OneInv
  <2> SUFFICES ASSUME Init PROVE OneInv
    OBVIOUS
  <2>1. Steps \in Seq(StepType) /\ Len(Steps) = 1 /\ Gaps = <<>>
    BY Start, Parts
  <2>2. (\A i \in DOMAIN Steps : i = 1) /\ DOMAIN Gaps = {}
    BY ONLY <2>1
  <2> QED
    BY <2>2 DEF OneInv, OneStepForEach
<1>2. TypeOK /\ OneInv /\ [Next]_vars => OneInv'
  BY OneStep
<1>3. OneInv => OneStepForEach
  BY DEF OneInv
<1> QED
  BY <1>1, <1>2, <1>3, TypeCorrect, PTL DEF Spec
=============================================================================
