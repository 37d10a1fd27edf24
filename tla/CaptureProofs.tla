---------------------------- MODULE CaptureProofs ----------------------------
(****************************************************************************)
(* Proofs about Capture: for any controls, answers and intervals and any    *)
(* number of events, no click is invented, none becomes two steps or two    *)
(* gaps, nothing that was done disappears without a line, steps and gaps    *)
(* are in the order in which they were begun, with the exceptions the       *)
(* properties name, and every step is on something that can be asked for.   *)
(*                                                                          *)
(* The invariants are about a session c, the list L of what was done and h, *)
(* how much of it has been folded: all but the group.                       *)
(****************************************************************************)
EXTENDS Capture, SequenceTheorems, TLAPS

Lists == INSTANCE ListLemmas

-----------------------------------------------------------------------------
(* What a session and a list of events are.                                 *)

Maybe(S) == {s \in Seq(S) : Len(s) <= 1}

EventRecs == [n : Nat, kind : EventKinds, on : Controls, t : Nat,
              key : KeySorts \cup {"none"}, answer : Answers]
StepRecs == [kind : StepKinds, on : Controls \cup {NoControl}, of : SUBSET Nat, shot : Nat]
GapRecs == [after : Nat, kind : EventKinds, on : Controls, reason : Reasons, t : Nat, of : Nat,
            repaired : {FALSE}, shot : Nat]
TypingRuns == [on : Controls, of : SUBSET Nat]
ValueRuns == [on : Controls, of : SUBSET Nat, selection : BOOLEAN, fading : BOOLEAN]

Captures == [rec : [actions : Seq(StepRecs), drops : Seq(GapRecs)], failed : SUBSET Nat,
             group : Seq(EventRecs), pending : Maybe(EventRecs),
             menuAt : Maybe(Nat), menuOn : Controls \cup {NoControl}, itemAt : Maybe(Nat),
             typing : Maybe(TypingRuns), value : Maybe(ValueRuns),
             cache : [Controls -> Answers \cup {"unknown"}]]

Down == {"mouse_press", "mouse_double"}

\* What a person can have done: after the button went down it comes up, a
\* double click is the second on its control, and the mouse is where the button
\* goes down or comes up.
Lived(L) ==
  /\ L \in Seq(EventRecs)
  /\ \A n \in 1..Len(L) : L[n].n = n
  /\ \A n, m \in 1..Len(L) : n <= m => L[n].t <= L[m].t
  /\ \A n, m \in 1..Len(L) : m = n + 1 /\ L[n].kind \in Down => L[m].kind = "mouse_release"
  /\ \A n \in 1..Len(L) : L[n].kind = "mouse_double" =>
       n > 2 /\ L[n - 2].kind = "mouse_press" /\ L[n - 2].on = L[n].on
  /\ \A n \in 1..Len(L) : L[n].kind \in MouseKinds => L[n].on \in Pressable \cup Elsewhere

-----------------------------------------------------------------------------
(* The events that a session has accounted for, and where.                  *)

Told(c) == UNION {c.rec.actions[i].of : i \in DOMAIN c.rec.actions}
Typing(c) == IF c.typing = <<>> THEN {} ELSE c.typing[1].of
Value(c) == IF c.value = <<>> THEN {} ELSE c.value[1].of
Pending(c) == IF c.pending = <<>> THEN {} ELSE {c.pending[1].n}
Claimed(c) == Told(c) \cup Typing(c) \cup Value(c) \cup Pending(c)

\* Accounted for, for good.
Kept(c) == Told(c) \cup Typing(c) \cup Value(c) \cup c.failed

\* No event is in two places.
Apart(c) ==
  /\ \A i, j \in DOMAIN c.rec.actions : i # j => c.rec.actions[i].of \cap c.rec.actions[j].of = {}
  /\ Told(c) \cap Typing(c) = {} /\ Told(c) \cap Value(c) = {} /\ Told(c) \cap Pending(c) = {}
  /\ Typing(c) \cap Value(c) = {} /\ Typing(c) \cap Pending(c) = {} /\ Value(c) \cap Pending(c) = {}

\* A press and the release right behind it, on one control that is not a bar.
Click(L, p, r) ==
  /\ p \in 1..Len(L) /\ r = p + 1 /\ r \in 1..Len(L)
  /\ L[p].kind = "mouse_press" /\ L[r].kind = "mouse_release"
  /\ L[p].on = L[r].on /\ Kind[L[p].on] # "bar"

InOneStep(c, p, r) == \E i \in DOMAIN c.rec.actions : {p, r} \subseteq c.rec.actions[i].of

\* A click is in one place.
Together(c, L) ==
  \A p, r \in Claimed(c) : Click(L, p, r) => \/ InOneStep(c, p, r)
                                             \/ {p, r} \subseteq Typing(c)
                                             \/ {p, r} \subseteq Value(c)

\* InTheShadowOfAnItem and ReleaseWasLost.
Shadow(L, n) ==
  /\ n + 1 \in DOMAIN L
  /\ L[n + 1].kind = "mouse_release"
  /\ \E item \in DOMAIN L : /\ item < n
                            /\ Kind[L[item].on] \in ItemKinds
                            /\ L[n + 1].t - L[item].t <= ClickMs

Lost(F, L, n) == n + 1 \in F \/ Shadow(L, n)

\* ClicksAreReal for one step.
Real(F, L, of) ==
  \A p, r \in of : L[p].kind = "mouse_press" /\ L[r].kind = "mouse_release" =>
    /\ Owner[L[p].on] = Owner[L[r].on]
    /\ r = p + 1 \/ (L[First(of)].kind = "mouse_press" /\ Lost(F, L, First(of)))

Clicked(c, L) ==
  \A i \in DOMAIN c.rec.actions :
    c.rec.actions[i].kind = "click" => Real(c.failed, L, c.rec.actions[i].of)

\* The press that waits is one that was made, and what was pressed since is
\* nowhere.
Waits(c, L) ==
  c.pending # <<>> =>
    LET q == c.pending[1]
    IN  /\ q.n \in 1..Len(L) /\ q = L[q.n]
        /\ q.kind = "mouse_press" /\ Kind[q.on] # "menu"
        /\ \A p \in Claimed(c) : L[p].kind = "mouse_press" => p <= q.n

\* A selection that becomes a click holds no release.
Selected(c, L) ==
  c.value # <<>> /\ c.value[1].selection => \A n \in c.value[1].of : L[n].kind # "mouse_release"

\* The gaps are in order, each says what was lost, and OneGapPerClick.
Gapped(c, L) ==
  LET drops == c.rec.drops
  IN  /\ \A d \in DOMAIN drops : drops[d].of \in c.failed /\ drops[d].kind = L[drops[d].of].kind
      /\ \A d, e \in DOMAIN drops : d < e => drops[d].of < drops[e].of
      /\ \A d, e \in DOMAIN drops :
           /\ L[drops[d].of].kind = "mouse_press"
           /\ drops[e].of = drops[d].of + 1
           /\ drops[e].on = drops[d].on
           => drops[e].t - drops[d].t > FoldMs \/ drops[e].reason # drops[d].reason

Core(c, L, h) ==
  /\ c \in Captures
  /\ c.rec.actions # <<>> /\ c.rec.actions[1].kind = "launch"
  /\ Claimed(c) \cup c.failed \subseteq 1..h
  /\ Apart(c)
  /\ Together(c, L)
  /\ Clicked(c, L)
  /\ Waits(c, L)
  /\ Selected(c, L)
  /\ Gapped(c, L)

-----------------------------------------------------------------------------
(* Between two events.                                                      *)

\* The press that waits is the last thing that happened, or its release is gone.
Expects(c, L, h) ==
  c.pending # <<>> => \/ Lost(c.failed, L, c.pending[1].n)
                      \/ c.pending[1].n = h /\ c.menuAt = <<>>

\* What was pressed last is the menu's entry.
Opened(c, L, h) ==
  c.menuAt # <<>> /\ h \in DOMAIN L /\ L[h].kind = "mouse_press" => L[h].on = c.menuOn

\* The time of a choice is that of an item pressed before the press that waits.
Chosen(c, L, h) ==
  c.itemAt # <<>> =>
    \E item \in 1..h : /\ L[item].t = c.itemAt[1]
                       /\ Kind[L[item].on] \in ItemKinds
                       /\ c.pending # <<>> => item < c.pending[1].n

\* Nothing was recorded since what was lost last.
Latest(c, h) ==
  LET drops == c.rec.drops
  IN  drops # <<>> /\ drops[Len(drops)].of = h => drops[Len(drops)].after = Len(c.rec.actions)

Edge(c, L, h) == Expects(c, L, h) /\ Opened(c, L, h) /\ Chosen(c, L, h) /\ Latest(c, h)

-----------------------------------------------------------------------------
(* Nothing is lost.                                                         *)

\* Gesture and InABurst.
Reach(L, n) ==
  CASE L[n].kind = "mouse_press"  -> n..(n + 1)
    [] L[n].kind = "mouse_double" -> (n - 2)..(n + 1)
    [] OTHER                      -> {n}
Burst(L, n) ==
  \E m \in DOMAIN L \ {n} : L[m].kind = L[n].kind /\ L[m].t - L[n].t \in (-GroupMs)..GroupMs

\* Somebody's doing.
Done(L, n) == /\ L[n].kind # "mouse_release"
              /\ L[n].kind = "close_window" => Kind[L[n].on] = "window"

Found(K, L, n) == Reach(L, n) \cap K # {} \/ Shadow(L, n) \/ Burst(L, n)

Accounts(c, L, h) ==
  /\ \A n \in 1..h : Done(L, n) => Found(Kept(c), L, n) \/ n \in Pending(c)
  /\ \A n \in 1..h : L[n].kind = "mouse_press" /\ Kind[L[n].on] = "menu" => n \in Kept(c)

-----------------------------------------------------------------------------
(* The group.                                                               *)

Reports(L, g) ==
  /\ g.n \in DOMAIN L
  /\ \/ g = L[g.n]
     \/ /\ Window # NoControl /\ L[g.n].kind \in MouseKinds
        /\ g = [L[g.n] EXCEPT !.on = Window]

\* Reports of the newest events, of one kind and within GroupMs: of a mouse
\* event the window's copy and then the event, of others each once.
Grouped(group, L) ==
  group # <<>> =>
    LET from == group[1].n
    IN  /\ \A i \in DOMAIN group : /\ Reports(L, group[i])
                                   /\ group[i].n \in from..Len(L)
                                   /\ group[i].kind = L[Len(L)].kind
                                   /\ group[i].t - group[1].t <= GroupMs
        /\ \A n \in from..Len(L) : \E i \in DOMAIN group : group[i] = L[n]
        /\ L[Len(L)].kind \in MouseKinds => from = Len(L)

Folded(c, L) == IF c.group = <<>> THEN Len(L) ELSE c.group[1].n - 1

\* A session that is still going on, and the person who goes on with it.
Going(c, L) ==
  LET h == Folded(c, L)
  IN  Core(c, L, h) /\ Grouped(c.group, L) /\ Edge(c, L, h) /\ Accounts(c, L, h)

\* One that has been finished: everything but a press still down is found.
Over(c, L) ==
  /\ Core(c, L, Len(L))
  /\ c.group = <<>> /\ c.pending = <<>> /\ c.typing = <<>> /\ c.value = <<>>
  /\ \A n \in 1..Len(L) :
       Done(L, n) /\ (L[n].kind = "mouse_press" => n + 1 \in 1..Len(L)) => Found(Kept(c), L, n)

Held == /\ now \in Nat
        /\ log # <<>> => log[Len(log)].t <= now
        /\ down # <<>> <=> log # <<>> /\ log[Len(log)].kind \in Down
        /\ down # <<>> => down[1] = log[Len(log)]
        /\ done \in BOOLEAN

IInv == /\ Lived(log) /\ Held
        /\ IF done THEN Over(cap, log) ELSE Going(cap, log)

-----------------------------------------------------------------------------
(* Sequences of one.                                                        *)

LEMMA One ==
  ASSUME NEW S
  PROVE  /\ <<>> \in Maybe(S)
         /\ \A x \in S : <<x>> \in Maybe(S) /\ <<x>> # <<>> /\ <<x>>[1] = x
         /\ \A s \in Maybe(S) : s # <<>> => s[1] \in S /\ s = <<s[1]>>
<1>1. \A s \in Maybe(S) : s # <<>> => s[1] \in S /\ s = <<s[1]>>
  <2> SUFFICES ASSUME NEW s \in Seq(S), Len(s) <= 1, s # <<>>
               PROVE  s[1] \in S /\ s = <<s[1]>>
    BY DEF Maybe
  <2>0. Len(s) \in Nat \ {0}
    BY EmptySeq
  <2>1. Len(s) = 1
    BY <2>0
  <2> QED
    BY <2>1
<1> QED
  BY <1>1 DEF Maybe

-----------------------------------------------------------------------------
(* What the smallest operations do to a session.                            *)

SameClocks(c, d) == /\ d.group = c.group /\ d.menuAt = c.menuAt /\ d.menuOn = c.menuOn
                    /\ d.itemAt = c.itemAt /\ d.cache = c.cache
SameRuns(c, d) == d.pending = c.pending /\ d.typing = c.typing /\ d.value = c.value
SameLedger(c, d) == d.rec = c.rec /\ d.failed = c.failed /\ SameRuns(c, d)

LEMMA RecordShape ==
  ASSUME NEW c \in Captures, NEW s \in StepRecs
  PROVE  /\ Record(c, s) \in Captures
         /\ Record(c, s).rec.actions = Append(c.rec.actions, s)
         /\ Record(c, s).rec.drops = c.rec.drops
         /\ Record(c, s).failed = c.failed
         /\ SameRuns(c, Record(c, s)) /\ SameClocks(c, Record(c, s))
<1>1. c.rec \in [actions : Seq(StepRecs), drops : Seq(GapRecs)]
  BY DEF Captures
<1>2. /\ Add(c.rec, s) \in [actions : Seq(StepRecs), drops : Seq(GapRecs)]
      /\ Add(c.rec, s).actions = Append(c.rec.actions, s) /\ Add(c.rec, s).drops = c.rec.drops
  <2> DEFINE A == Seq(StepRecs)
             D == Seq(GapRecs)
  <2>1. \A a \in A : Append(a, s) \in A
    OBVIOUS
  <2> HIDE DEF A, D
  <2>2. c.rec \in [actions : A, drops : D]
    BY <1>1 DEF A, D
  <2> QED
    BY <2>1, <2>2 DEF Add, A, D
<1>3. Record(c, s) = [c EXCEPT !.rec = Add(c.rec, s)]
  BY DEF Record
<1> QED
  BY <1>2, <1>3 DEF Captures, SameRuns, SameClocks

\* One more step.
LEMMA OneMoreTold ==
  ASSUME NEW c \in Captures, NEW d \in Captures, NEW s \in StepRecs,
         d.rec.actions = Append(c.rec.actions, s)
  PROVE  /\ Told(d) = Told(c) \cup s.of
         /\ DOMAIN d.rec.actions = 1..(Len(c.rec.actions) + 1)
         /\ DOMAIN c.rec.actions = 1..Len(c.rec.actions) /\ Len(c.rec.actions) \in Nat
         /\ \A i \in 1..Len(c.rec.actions) : d.rec.actions[i] = c.rec.actions[i]
         /\ d.rec.actions[Len(c.rec.actions) + 1] = s
<1> DEFINE a == c.rec.actions
<1>1. a \in Seq(StepRecs)
  BY DEF Captures
<1>2. /\ Append(a, s) \in Seq(StepRecs) /\ Len(Append(a, s)) = Len(a) + 1 /\ Len(a) \in Nat
      /\ \A i \in 1..Len(a) : Append(a, s)[i] = a[i]
      /\ Append(a, s)[Len(a) + 1] = s
  BY <1>1
<1>3. DOMAIN Append(a, s) = 1..(Len(a) + 1) /\ DOMAIN a = 1..Len(a)
  BY <1>1, <1>2
<1>4. \A i \in 1..(Len(a) + 1) : i \in 1..Len(a) \/ i = Len(a) + 1
  BY <1>2
<1>5. \A i \in 1..Len(a) : i \in 1..(Len(a) + 1)
  BY <1>2
<1>6. Len(a) + 1 \in 1..(Len(a) + 1)
  BY <1>2
<1> HIDE DEF a
<1>7. UNION {Append(a, s)[i].of : i \in DOMAIN Append(a, s)} = (UNION {a[i].of : i \in DOMAIN a}) \cup s.of
  <2> DEFINE b == Append(a, s)
  <2>1. DOMAIN b = 1..(Len(a) + 1) /\ \A i \in 1..Len(a) : b[i] = a[i]
    BY <1>2, <1>3
  <2>2. b[Len(a) + 1] = s
    BY <1>2
  <2> HIDE DEF b
  <2>3. \A n : n \in UNION {b[i].of : i \in DOMAIN b} => n \in (UNION {a[i].of : i \in DOMAIN a}) \/ n \in s.of
    BY <2>1, <2>2, <1>3, <1>4
  <2>4. \A n : n \in (UNION {a[i].of : i \in DOMAIN a}) \/ n \in s.of => n \in UNION {b[i].of : i \in DOMAIN b}
    BY <2>1, <2>2, <1>3, <1>5, <1>6
  <2> QED
    BY <2>3, <2>4 DEF b
<1> QED
  BY <1>2, <1>3, <1>7 DEF Told, a

\* What a step on these events would be: in no other place, together with the
\* other half of a click, and no invention.
Fits(c, L, S, h) ==
  /\ S \subseteq 1..h
  /\ S \cap Claimed(c) = {}
  /\ \A p, r \in S \cup Claimed(c) : Click(L, p, r) /\ ({p, r} \cap S # {}) => {p, r} \subseteq S
  /\ c.pending # <<>> => \A p \in S : L[p].kind = "mouse_press" => p <= c.pending[1].n

LEMMA RecordCore ==
  ASSUME NEW L, Lived(L), NEW h \in Nat, NEW k \in Nat, h <= k, NEW c, Core(c, L, h),
         NEW S, Fits(c, L, S, k),
         NEW kind \in StepKinds, NEW on \in Controls \cup {NoControl},
         kind = "click" => Real(c.failed, L, S)
  PROVE  LET d == Record(c, Step(kind, on, S))
         IN  /\ Core(d, L, k)
             /\ d.rec.actions = Append(c.rec.actions, Step(kind, on, S)) /\ d.rec.drops = c.rec.drops
             /\ d.failed = c.failed /\ SameRuns(c, d) /\ SameClocks(c, d)
             /\ Told(d) = Told(c) \cup S
<1> DEFINE s == Step(kind, on, S)
           d == Record(c, s)
           N == Len(c.rec.actions)
<1>1. c \in Captures /\ Claimed(c) \cup c.failed \subseteq 1..h
  BY DEF Core
<1>2. S \subseteq Nat
  BY DEF Fits
<1>3. s \in StepRecs /\ s.of = S /\ s.kind = kind
  BY <1>2 DEF Step, StepRecs
<1>4. /\ d \in Captures /\ d.rec.actions = Append(c.rec.actions, s) /\ d.rec.drops = c.rec.drops
      /\ d.failed = c.failed /\ SameRuns(c, d) /\ SameClocks(c, d)
  BY <1>1, <1>3, RecordShape
<1> HIDE DEF s, d
<1>5. /\ Told(d) = Told(c) \cup S
      /\ DOMAIN d.rec.actions = 1..(N + 1) /\ DOMAIN c.rec.actions = 1..N /\ N \in Nat
      /\ \A i \in 1..N : d.rec.actions[i] = c.rec.actions[i]
      /\ d.rec.actions[N + 1] = s
  BY <1>1, <1>3, <1>4, OneMoreTold
<1>6. Typing(d) = Typing(c) /\ Value(d) = Value(c) /\ Pending(d) = Pending(c)
  BY <1>4 DEF SameRuns, Typing, Value, Pending
<1>7. Claimed(d) = Claimed(c) \cup S
  BY <1>5, <1>6 DEF Claimed
<1>8. \A i \in 1..N : c.rec.actions[i].of \subseteq Told(c)
  BY <1>5 DEF Told
<1> HIDE DEF N
<1>9. \A i \in 1..(N + 1) : i \in 1..N \/ i = N + 1
  BY <1>5
<1>10. \A i \in 1..N : i \in 1..(N + 1) /\ i # N + 1
  BY <1>5
<1>11. N + 1 \in 1..(N + 1)
  BY <1>5
<1>12. S \cap Told(c) = {} /\ S \cap Typing(c) = {} /\ S \cap Value(c) = {} /\ S \cap Pending(c) = {}
  BY DEF Fits, Claimed
<1>13. \A i \in 1..N : c.rec.actions[i].of \cap S = {}
  BY <1>8, <1>12
<1>14. d.rec.actions # <<>> /\ d.rec.actions[1].kind = "launch"
  <2>1. c.rec.actions # <<>> /\ c.rec.actions[1].kind = "launch" /\ c.rec.actions \in Seq(StepRecs)
    BY <1>1 DEF Core, Captures
  <2>2. 1 \in 1..N
    BY <2>1 DEF N
  <2>3. d.rec.actions[1] = c.rec.actions[1] /\ 1 \in DOMAIN d.rec.actions
    BY <2>2, <1>5, <1>10
  <2> QED
    BY <2>1, <2>3
<1>15. Claimed(d) \cup d.failed \subseteq 1..k
  <2>1. 1..h \subseteq 1..k
    OBVIOUS
  <2> QED
    BY <1>1, <1>4, <1>7, <2>1 DEF Fits
<1>16. Apart(d)
  <2>1. ASSUME NEW i \in 1..(N + 1), NEW j \in 1..(N + 1), i # j
        PROVE  d.rec.actions[i].of \cap d.rec.actions[j].of = {}
    <3>1. CASE i \in 1..N /\ j \in 1..N
      BY <2>1, <3>1, <1>5 DEF Core, Apart
    <3>2. CASE i = N + 1 /\ j \in 1..N
      BY <3>2, <1>3, <1>5, <1>13
    <3>3. CASE i \in 1..N /\ j = N + 1
      BY <3>3, <1>3, <1>5, <1>13
    <3> QED
      BY <2>1, <3>1, <3>2, <3>3, <1>9
  <2>2. /\ Told(d) \cap Typing(d) = {} /\ Told(d) \cap Value(d) = {} /\ Told(d) \cap Pending(d) = {}
        /\ Typing(d) \cap Value(d) = {} /\ Typing(d) \cap Pending(d) = {} /\ Value(d) \cap Pending(d) = {}
    BY <1>5, <1>6, <1>12 DEF Core, Apart
  <2> QED
    BY <2>1, <2>2, <1>5 DEF Apart
<1>17. Together(d, L)
  <2> SUFFICES ASSUME NEW p \in Claimed(d), NEW r \in Claimed(d), Click(L, p, r)
               PROVE  InOneStep(d, p, r) \/ {p, r} \subseteq Typing(d) \/ {p, r} \subseteq Value(d)
    BY DEF Together
  <2>1. CASE {p, r} \cap S # {}
    <3>1. {p, r} \subseteq S
      BY <2>1, <1>7 DEF Fits
    <3> QED
      BY <3>1, <1>3, <1>5, <1>11 DEF InOneStep
  <2>2. CASE {p, r} \cap S = {}
    <3>1. p \in Claimed(c) /\ r \in Claimed(c)
      BY <2>2, <1>7
    <3>2. InOneStep(c, p, r) \/ {p, r} \subseteq Typing(c) \/ {p, r} \subseteq Value(c)
      BY <3>1 DEF Core, Together
    <3> QED
      BY <3>2, <1>5, <1>6, <1>10 DEF InOneStep
  <2> QED
    BY <2>1, <2>2
<1>18. Clicked(d, L)
  <2> SUFFICES ASSUME NEW i \in 1..(N + 1), d.rec.actions[i].kind = "click"
               PROVE  Real(d.failed, L, d.rec.actions[i].of)
    BY <1>5 DEF Clicked
  <2>1. CASE i \in 1..N
    BY <2>1, <1>4, <1>5 DEF Core, Clicked
  <2>2. CASE i = N + 1
    BY <2>2, <1>3, <1>4, <1>5
  <2> QED
    BY <2>1, <2>2, <1>9
<1>19. Waits(d, L)
  BY <1>4, <1>7 DEF Core, Waits, Fits, SameRuns
<1>20. Selected(d, L)
  BY <1>4 DEF Core, Selected, SameRuns
<1>21. Gapped(d, L)
  BY <1>4 DEF Core, Gapped
<1>22. Core(d, L, k)
  BY <1>4, <1>14, <1>15, <1>16, <1>17, <1>18, <1>19, <1>20, <1>21 DEF Core
<1> QED
  BY <1>4, <1>5, <1>22 DEF d, s

\* A longer part of what was done.
LEMMA LaterCore ==
  ASSUME NEW L, NEW h \in Nat, NEW k \in Nat, h <= k, NEW c, Core(c, L, h)
  PROVE  Core(c, L, k)
<1>1. 1..h \subseteq 1..k
  OBVIOUS
<1> QED
  BY <1>1 DEF Core

\* A session that has let go of a run or of the press that waits, or of nothing.
LEMMA FewerCore ==
  ASSUME NEW L, NEW h \in Nat, NEW c, Core(c, L, h),
         NEW d \in Captures, d.rec = c.rec, d.failed = c.failed,
         d.pending \in {c.pending, <<>>}, d.typing \in {c.typing, <<>>}, d.value \in {c.value, <<>>}
  PROVE  Core(d, L, h) /\ Told(d) = Told(c) /\ Claimed(d) \subseteq Claimed(c)
<1>1. Told(d) = Told(c)
  BY DEF Told
<1>2. /\ Typing(d) \in {Typing(c), {}} /\ Value(d) \in {Value(c), {}} /\ Pending(d) \in {Pending(c), {}}
  BY DEF Typing, Value, Pending
<1>3. Claimed(d) \subseteq Claimed(c)
  BY <1>1, <1>2 DEF Claimed
<1>4. Apart(d)
  BY <1>1, <1>2 DEF Core, Apart
<1>5. Together(d, L)
  <2> SUFFICES ASSUME NEW p \in Claimed(d), NEW r \in Claimed(d), Click(L, p, r)
               PROVE  InOneStep(d, p, r) \/ {p, r} \subseteq Typing(d) \/ {p, r} \subseteq Value(d)
    BY DEF Together
  <2>1. p \in Claimed(c) /\ r \in Claimed(c)
    BY <1>3
  <2>2. InOneStep(c, p, r) \/ {p, r} \subseteq Typing(c) \/ {p, r} \subseteq Value(c)
    BY <2>1 DEF Core, Together
  <2>3. CASE InOneStep(c, p, r)
    BY <2>3 DEF InOneStep
  <2>4. CASE {p, r} \subseteq Typing(c)
    <3>1. p \notin Told(c) /\ p \notin Value(c) /\ p \notin Pending(c)
      BY <2>4 DEF Core, Apart
    <3>2. p \in Typing(d)
      BY <3>1, <1>1, <1>2 DEF Claimed
    <3> QED
      BY <2>4, <3>2, <1>2
  <2>5. CASE {p, r} \subseteq Value(c)
    <3>1. p \notin Told(c) /\ p \notin Typing(c) /\ p \notin Pending(c)
      BY <2>5 DEF Core, Apart
    <3>2. p \in Value(d)
      BY <3>1, <1>1, <1>2 DEF Claimed
    <3> QED
      BY <2>5, <3>2, <1>2
  <2> QED
    BY <2>2, <2>3, <2>4, <2>5
<1>6. Clicked(d, L) /\ Gapped(d, L)
  BY DEF Core, Clicked, Gapped
<1>7. Waits(d, L)
  BY <1>3 DEF Core, Waits
<1>8. Selected(d, L)
  BY DEF Core, Selected
<1> QED
  BY <1>1, <1>3, <1>4, <1>5, <1>6, <1>7, <1>8 DEF Core

\* A session that has one more line in its report.
LEMMA FailedCore ==
  ASSUME NEW L, NEW h \in Nat, NEW c, Core(c, L, h),
         NEW d \in Captures, d.rec = c.rec, SameRuns(c, d),
         c.failed \subseteq d.failed, d.failed \subseteq 1..h
  PROVE  Core(d, L, h) /\ Told(d) = Told(c) /\ Claimed(d) = Claimed(c)
<1>1. /\ Told(d) = Told(c) /\ Typing(d) = Typing(c) /\ Value(d) = Value(c)
      /\ Pending(d) = Pending(c)
  BY DEF Told, Typing, Value, Pending, SameRuns
<1>2. Claimed(d) = Claimed(c)
  BY <1>1 DEF Claimed
<1>3. Apart(d) /\ Together(d, L)
  BY <1>1, <1>2 DEF Core, Apart, Together, InOneStep
<1>4. \A of : Real(c.failed, L, of) => Real(d.failed, L, of)
  BY DEF Real, Lost
<1>5. Clicked(d, L)
  BY <1>4 DEF Core, Clicked
<1>6. Waits(d, L) /\ Selected(d, L)
  BY <1>2 DEF Core, Waits, Selected, SameRuns
<1>7. Gapped(d, L)
  BY DEF Core, Gapped
<1> QED
  BY <1>1, <1>2, <1>3, <1>5, <1>6, <1>7 DEF Core

-----------------------------------------------------------------------------
(* Runs that end.                                                           *)

\* A session in which runs have ended: what they held is a step or a line.
Ended(c, d) ==
  /\ Kept(c) \subseteq Kept(d) /\ c.failed \subseteq d.failed /\ Claimed(d) \subseteq Claimed(c)
  /\ d.rec.drops = c.rec.drops /\ SameClocks(c, d)

LEMMA EndedTwice ==
  ASSUME NEW c, NEW d, NEW e, Ended(c, d), Ended(d, e)
  PROVE  Ended(c, e)
  BY DEF Ended, SameClocks

LEMMA FlushTypingEnds ==
  ASSUME NEW L, Lived(L), NEW h \in Nat, NEW c, Core(c, L, h)
  PROVE  LET d == FlushTyping(c)
         IN  /\ Core(d, L, h) /\ Ended(c, d)
             /\ d.typing = <<>> /\ d.value = c.value /\ d.pending = c.pending
<1>1. CASE c.typing = <<>>
  BY <1>1 DEF FlushTyping, Ended, SameClocks
<1>2. CASE c.typing # <<>>
  <2> DEFINE e == [c EXCEPT !.typing = <<>>]
             run == c.typing[1]
             d == Record(e, Step("type", run.on, run.of))
  <2>1. c \in Captures /\ run \in TypingRuns
    BY <1>2, One DEF Core, Captures
  <2>2. /\ e \in Captures /\ e.rec = c.rec /\ e.failed = c.failed /\ e.typing = <<>>
        /\ e.value = c.value /\ e.pending = c.pending /\ SameClocks(c, e)
    BY <2>1, One DEF Captures, SameClocks
  <2> HIDE DEF e
  <2>3. Core(e, L, h) /\ Told(e) = Told(c)
    BY <2>2, FewerCore
  <2>4. /\ Typing(c) = run.of /\ Typing(e) = {} /\ Value(e) = Value(c) /\ Pending(e) = Pending(c)
    BY <1>2, <2>2 DEF Typing, Value, Pending
  <2>5. Claimed(c) = Claimed(e) \cup run.of /\ run.of \cap Claimed(e) = {} /\ run.of \subseteq 1..h
    BY <2>3, <2>4 DEF Claimed, Core, Apart
  <2>6. Fits(e, L, run.of, h)
    <3>1. ASSUME NEW p \in Claimed(c), NEW r \in Claimed(c), Click(L, p, r), {p, r} \cap run.of # {}
          PROVE  {p, r} \subseteq run.of
      <4>1. InOneStep(c, p, r) \/ {p, r} \subseteq Typing(c) \/ {p, r} \subseteq Value(c)
        BY <3>1 DEF Core, Together
      <4>2. Told(c) \cap run.of = {} /\ Value(c) \cap run.of = {}
        BY <2>4 DEF Core, Apart
      <4>3. ~ InOneStep(c, p, r)
        BY <3>1, <4>2 DEF InOneStep, Told
      <4> QED
        BY <3>1, <4>1, <4>2, <4>3, <2>4
    <3>2. c.pending # <<>> => \A p \in run.of : L[p].kind = "mouse_press" => p <= c.pending[1].n
      BY <2>5 DEF Core, Waits
    <3> QED
      BY <3>1, <3>2, <2>2, <2>5 DEF Fits
  <2>7. run.on \in Controls \cup {NoControl} /\ "type" \in StepKinds
    BY <2>1 DEF TypingRuns, StepKinds
  <2>8. /\ Core(d, L, h) /\ d.rec.drops = e.rec.drops /\ d.failed = e.failed
        /\ SameRuns(e, d) /\ SameClocks(e, d) /\ Told(d) = Told(e) \cup run.of
    BY <2>3, <2>6, <2>7, RecordCore
  <2>9. FlushTyping(c) = d
    BY <1>2 DEF FlushTyping, e
  <2> HIDE DEF d, run
  <2>10. /\ d.typing = <<>> /\ d.value = c.value /\ d.pending = c.pending
         /\ Typing(d) = {} /\ Value(d) = Value(c) /\ Pending(d) = Pending(c)
    BY <2>2, <2>8 DEF SameRuns, Typing, Value, Pending
  <2>11. Claimed(d) = Claimed(c) /\ Kept(d) = Kept(c)
    BY <2>2, <2>3, <2>4, <2>8, <2>10 DEF Claimed, Kept
  <2>12. SameClocks(c, d)
    BY <2>2, <2>8 DEF SameClocks
  <2> QED
    BY <2>2, <2>8, <2>9, <2>10, <2>11, <2>12 DEF Ended
<1> QED
  BY <1>1, <1>2

LEMMA FlushValueEnds ==
  ASSUME NEW L, Lived(L), NEW h \in Nat, NEW c, Core(c, L, h)
  PROVE  LET d == FlushValue(c)
         IN  /\ Core(d, L, h) /\ Ended(c, d)
             /\ d.value = <<>> /\ d.typing = c.typing /\ d.pending = c.pending
<1>1. CASE c.value = <<>>
  BY <1>1 DEF FlushValue, Ended, SameClocks
<1>2. CASE c.value # <<>>
  <2> DEFINE e == [c EXCEPT !.value = <<>>]
             run == c.value[1]
  <2>1. c \in Captures /\ run \in ValueRuns
    BY <1>2, One DEF Core, Captures
  <2>2. /\ e \in Captures /\ e.rec = c.rec /\ e.failed = c.failed /\ e.value = <<>>
        /\ e.typing = c.typing /\ e.pending = c.pending /\ SameClocks(c, e)
    BY <2>1, One DEF Captures, SameClocks
  <2>3. Core(e, L, h) /\ Told(e) = Told(c)
    BY <2>2, FewerCore
  <2>4. /\ Value(c) = run.of /\ Value(e) = {} /\ Typing(e) = Typing(c) /\ Pending(e) = Pending(c)
    BY <1>2, <2>2 DEF Typing, Value, Pending
  <2>5. Claimed(c) = Claimed(e) \cup run.of /\ run.of \cap Claimed(e) = {} /\ run.of \subseteq 1..h
    BY <2>3, <2>4 DEF Claimed, Core, Apart
  <2>6. CASE run.fading
    <3> DEFINE d == [e EXCEPT !.failed = e.failed \cup run.of]
    <3>1. FlushValue(c) = d
      BY <1>2, <2>6 DEF FlushValue
    <3> HIDE DEF e, run
    <3>2. /\ d \in Captures /\ d.rec = e.rec /\ d.failed = e.failed \cup run.of
          /\ SameRuns(e, d) /\ SameClocks(e, d)
      <4>1. run.of \subseteq Nat
        BY <2>5
      <4> QED
        BY <2>2, <4>1 DEF Captures, SameRuns, SameClocks
    <3> HIDE DEF d
    <3>3. d.failed \subseteq 1..h /\ e.failed \subseteq d.failed
      BY <2>3, <2>5, <3>2 DEF Core
    <3>4. Core(d, L, h) /\ Told(d) = Told(e) /\ Claimed(d) = Claimed(e)
      BY <2>3, <3>2, <3>3, FailedCore
    <3>5. /\ d.value = <<>> /\ d.typing = c.typing /\ d.pending = c.pending
          /\ Typing(d) = Typing(c)
      BY <2>2, <3>2 DEF SameRuns, Typing
    <3>6. Kept(c) \subseteq Kept(d)
      BY <2>2, <2>3, <2>4, <3>2, <3>4, <3>5 DEF Kept
    <3>7. SameClocks(c, d)
      BY <2>2, <3>2 DEF SameClocks
    <3> QED
      BY <2>2, <2>5, <3>1, <3>2, <3>3, <3>4, <3>5, <3>6, <3>7 DEF Ended
  <2>7. CASE ~ run.fading
    <3> DEFINE kind == IF run.selection THEN "click" ELSE "select"
               d == Record(e, Step(kind, run.on, run.of))
    <3>1. FlushValue(c) = d
      BY <1>2, <2>7 DEF FlushValue, ValueStep
    <3> HIDE DEF e
    <3>2. Fits(e, L, run.of, h)
      <4>1. ASSUME NEW p \in Claimed(c), NEW r \in Claimed(c), Click(L, p, r), {p, r} \cap run.of # {}
            PROVE  {p, r} \subseteq run.of
        <5>1. InOneStep(c, p, r) \/ {p, r} \subseteq Typing(c) \/ {p, r} \subseteq Value(c)
          BY <4>1 DEF Core, Together
        <5>2. Told(c) \cap run.of = {} /\ Typing(c) \cap run.of = {}
          BY <2>4 DEF Core, Apart
        <5>3. ~ InOneStep(c, p, r)
          BY <4>1, <5>2 DEF InOneStep, Told
        <5> QED
          BY <4>1, <5>1, <5>2, <5>3, <2>4
      <4>2. c.pending # <<>> => \A p \in run.of : L[p].kind = "mouse_press" => p <= c.pending[1].n
        BY <2>5 DEF Core, Waits
      <4> QED
        BY <4>1, <4>2, <2>2, <2>5 DEF Fits
    <3>3. run.on \in Controls \cup {NoControl} /\ kind \in StepKinds
      BY <2>1 DEF ValueRuns, StepKinds
    <3>4. kind = "click" => Real(e.failed, L, run.of)
      BY <1>2 DEF Core, Selected, Real
    <3>5. /\ Core(d, L, h) /\ d.rec.drops = e.rec.drops /\ d.failed = e.failed
          /\ SameRuns(e, d) /\ SameClocks(e, d) /\ Told(d) = Told(e) \cup run.of
      <4> HIDE DEF kind
      <4> QED
        BY <2>3, <3>2, <3>3, <3>4, RecordCore
    <3> HIDE DEF d, run
    <3>6. /\ d.value = <<>> /\ d.typing = c.typing /\ d.pending = c.pending
          /\ Value(d) = {} /\ Typing(d) = Typing(c) /\ Pending(d) = Pending(c)
      BY <2>2, <3>5 DEF SameRuns, Typing, Value, Pending
    <3>7. Claimed(d) = Claimed(c) /\ Kept(d) = Kept(c)
      BY <2>2, <2>3, <2>4, <3>5, <3>6 DEF Claimed, Kept
    <3>8. SameClocks(c, d)
      BY <2>2, <3>5 DEF SameClocks
    <3> QED
      BY <2>2, <3>1, <3>5, <3>6, <3>7, <3>8 DEF Ended
  <2> QED
    BY <2>6, <2>7
<1> QED
  BY <1>1, <1>2

LEMMA FlushInputEnds ==
  ASSUME NEW L, Lived(L), NEW h \in Nat, NEW c, Core(c, L, h)
  PROVE  LET d == FlushInput(c)
         IN  /\ Core(d, L, h) /\ Ended(c, d)
             /\ d.typing = <<>> /\ d.value = <<>> /\ d.pending = c.pending
<1> DEFINE e == FlushTyping(c)
           d == FlushValue(e)
<1>1. Core(e, L, h) /\ Ended(c, e) /\ e.typing = <<>> /\ e.pending = c.pending
  BY FlushTypingEnds
<1> HIDE DEF e
<1>2. Core(d, L, h) /\ Ended(e, d) /\ d.value = <<>> /\ d.typing = e.typing /\ d.pending = e.pending
  BY <1>1, FlushValueEnds
<1> HIDE DEF d
<1>3. FlushInput(c) = d
  BY DEF FlushInput, d, e
<1> QED
  BY <1>1, <1>2, <1>3, EndedTwice

LEMMA ConcludeEnds ==
  ASSUME NEW L, Lived(L), NEW h \in Nat, NEW c, Core(c, L, h)
  PROVE  LET d == Conclude(c)
         IN  /\ Core(d, L, h) /\ Ended(c, d)
             /\ d.typing = <<>> /\ d.value = <<>> /\ d.pending = <<>>
<1> DEFINE e == FlushInput(c)
           d == [e EXCEPT !.pending = <<>>]
<1>1. Core(e, L, h) /\ Ended(c, e) /\ e.typing = <<>> /\ e.value = <<>>
  BY FlushInputEnds
<1>2. Conclude(c) = d
  BY DEF Conclude
<1> HIDE DEF e
<1>3. e \in Captures
  BY <1>1 DEF Core
<1>4. /\ d \in Captures /\ d.rec = e.rec /\ d.failed = e.failed /\ d.pending = <<>>
      /\ d.typing = e.typing /\ d.value = e.value /\ SameClocks(e, d)
  BY <1>3, One DEF Captures, SameClocks
<1> HIDE DEF d
<1>5. Core(d, L, h) /\ Told(d) = Told(e) /\ Claimed(d) \subseteq Claimed(e)
  BY <1>1, <1>4, FewerCore
<1>6. Kept(d) = Kept(e)
  BY <1>4, <1>5 DEF Kept, Typing, Value
<1>7. Ended(e, d)
  BY <1>4, <1>5, <1>6 DEF Ended
<1> QED
  BY <1>1, <1>2, <1>4, <1>5, <1>7, EndedTwice

-----------------------------------------------------------------------------
(* What happens is recorded, or is a line.                                  *)

\* An event that is not a release fits wherever no press waits for one.
LEMMA FreshFits ==
  ASSUME NEW L, Lived(L), NEW h \in Nat, NEW c, Core(c, L, h),
         NEW m \in Nat, NEW k \in Nat, h < m, m <= k, k <= Len(L),
         L[m].kind # "mouse_release",
         c.pending = <<>> \/ L[m].kind # "mouse_press"
  PROVE  Fits(c, L, {m}, k) /\ \A F : Real(F, L, {m})
<1>1. Claimed(c) \subseteq 1..h
  BY DEF Core
<1>2. m \notin Claimed(c) /\ m + 1 \notin Claimed(c) /\ {m} \subseteq 1..k
  BY <1>1
<1>3. ASSUME NEW p \in {m} \cup Claimed(c), NEW r \in {m} \cup Claimed(c), Click(L, p, r),
             {p, r} \cap {m} # {}
      PROVE  FALSE
  <2>1. CASE r = m
    BY <2>1, <1>3 DEF Click
  <2>2. CASE r # m
    <3>1. p = m /\ r \in Claimed(c)
      BY <2>2, <1>3
    <3> QED
      BY <3>1, <1>2, <1>3 DEF Click
  <2> QED
    BY <2>1, <2>2
<1>4. Fits(c, L, {m}, k)
  BY <1>2, <1>3 DEF Fits
<1>5. \A F : Real(F, L, {m})
  BY DEF Real
<1> QED
  BY <1>4, <1>5

LEMMA DropShape ==
  ASSUME NEW c \in Captures, NEW ev \in EventRecs, NEW reason \in Reasons \cup Deliberate
  PROVE  LET d == Drop(c, ev, reason)
             gap == Gap(c, ev, reason)
         IN  /\ d \in Captures /\ d.rec.actions = c.rec.actions
             /\ d.failed = c.failed \cup {ev.n} /\ SameRuns(c, d) /\ SameClocks(c, d)
             /\ \/ d.rec = c.rec
                \/ /\ d.rec.drops = Append(c.rec.drops, gap) /\ gap \in GapRecs
                   /\ c.rec.drops # <<>> => ~SameLoss(c.rec.drops[Len(c.rec.drops)], gap)
<1> DEFINE gap == Gap(c, ev, reason)
           e == [c EXCEPT !.failed = @ \cup {ev.n}]
           last == c.rec.drops[Len(c.rec.drops)]
<1>1. ev.n \in Nat /\ ev.kind \in EventKinds /\ ev.on \in Controls /\ ev.t \in Nat
  BY DEF EventRecs
<1>2. /\ e \in Captures /\ e.rec = c.rec /\ e.failed = c.failed \cup {ev.n}
      /\ SameRuns(c, e) /\ SameClocks(c, e)
  BY <1>1 DEF Captures, SameRuns, SameClocks
<1>3. CASE reason \in Deliberate \/ (c.rec.drops # <<>> /\ SameLoss(last, gap))
  <2>1. Drop(c, ev, reason) = e
    BY <1>3 DEF Drop
  <2> HIDE DEF e
  <2> QED
    BY <1>2, <2>1
<1>4. CASE reason \notin Deliberate /\ ~(c.rec.drops # <<>> /\ SameLoss(last, gap))
  <2>1. c.rec \in [actions : Seq(StepRecs), drops : Seq(GapRecs)]
    BY DEF Captures
  <2>2. gap \in GapRecs
    <3>1. Len(c.rec.actions) \in Nat
      BY <2>1
    <3> QED
      BY <3>1, <1>1, <1>4 DEF Gap, GapRecs
  <2> HIDE DEF gap
  <2>3. /\ AddDrop(c.rec, gap) \in [actions : Seq(StepRecs), drops : Seq(GapRecs)]
        /\ AddDrop(c.rec, gap).drops = Append(c.rec.drops, gap)
        /\ AddDrop(c.rec, gap).actions = c.rec.actions
    <3> DEFINE A == Seq(StepRecs)
               D == Seq(GapRecs)
    <3>1. \A a \in D : Append(a, gap) \in D
      BY <2>2
    <3> HIDE DEF A, D
    <3>2. c.rec \in [actions : A, drops : D]
      BY <2>1 DEF A, D
    <3> QED
      BY <3>1, <3>2 DEF AddDrop, A, D
  <2> DEFINE d == [e EXCEPT !.rec = AddDrop(c.rec, gap)]
  <2>4. Drop(c, ev, reason) = d
    BY <1>2, <1>4 DEF Drop, gap
  <2> HIDE DEF e, last
  <2>5. /\ d \in Captures /\ d.rec = AddDrop(c.rec, gap) /\ d.failed = e.failed
        /\ SameRuns(e, d) /\ SameClocks(e, d)
    BY <1>2, <2>3 DEF Captures, SameRuns, SameClocks
  <2> HIDE DEF d
  <2> QED
    BY <1>2, <1>4, <2>2, <2>3, <2>4, <2>5 DEF SameRuns, SameClocks, gap, last
<1> QED
  BY <1>3, <1>4

\* A line, and a gap if it is no decision: the press and the release of one click
\* are never two, as nothing is recorded between them.
LEMMA DropCore ==
  ASSUME NEW L, Lived(L), NEW h \in Nat, NEW c, Core(c, L, h),
         NEW m \in Nat, NEW k \in Nat, h < m, m <= k, k <= Len(L),
         L[m].kind = "mouse_release" => m = h + 1 /\ Latest(c, h),
         NEW reason \in Reasons \cup Deliberate
  PROVE  LET d == Drop(c, L[m], reason)
         IN  /\ Core(d, L, k) /\ Latest(d, k)
             /\ d.failed = c.failed \cup {m} /\ SameRuns(c, d) /\ SameClocks(c, d)
             /\ Kept(d) = Kept(c) \cup {m} /\ Told(d) = Told(c)
<1> DEFINE ev == L[m]
           d == Drop(c, ev, reason)
           gap == Gap(c, ev, reason)
           old == c.rec.drops
           N == Len(old)
<1>1. ev \in EventRecs /\ ev.n = m /\ m \in 1..Len(L)
  BY DEF Lived
<1>2. c \in Captures /\ c.failed \subseteq 1..h /\ Claimed(c) \subseteq 1..h
  BY DEF Core
<1>3. /\ d \in Captures /\ d.rec.actions = c.rec.actions
      /\ d.failed = c.failed \cup {m} /\ SameRuns(c, d) /\ SameClocks(c, d)
      /\ \/ d.rec = c.rec
         \/ /\ d.rec.drops = Append(old, gap) /\ gap \in GapRecs
            /\ old # <<>> => ~SameLoss(old[N], gap)
  BY <1>1, <1>2, DropShape
<1>4. /\ gap.of = m /\ gap.kind = ev.kind /\ gap.on = ev.on /\ gap.reason = reason
      /\ gap.after = Len(c.rec.actions)
  BY <1>1 DEF Gap
<1> HIDE DEF d, gap, ev
<1>5. d.failed \subseteq 1..k /\ c.failed \subseteq d.failed /\ m \in d.failed
  BY <1>2, <1>3
<1>6. old \in Seq(GapRecs) /\ N \in Nat /\ DOMAIN old = 1..N
  BY <1>2 DEF Captures
<1>7. /\ \A i \in 1..N : old[i].of \in c.failed /\ old[i].kind = L[old[i].of].kind
      /\ \A i, j \in 1..N : i < j => old[i].of < old[j].of
      /\ \A i, j \in 1..N :
           /\ L[old[i].of].kind = "mouse_press"
           /\ old[j].of = old[i].of + 1
           /\ old[j].on = old[i].on
           => old[j].t - old[i].t > FoldMs \/ old[j].reason # old[i].reason
  BY <1>6 DEF Core, Gapped
<1>8. \A i \in 1..N : old[i].of \in 1..h
  BY <1>2, <1>7
<1> HIDE DEF old, N
<1>9. /\ Told(d) = Told(c) /\ Typing(d) = Typing(c) /\ Value(d) = Value(c)
      /\ Pending(d) = Pending(c)
  BY <1>3 DEF SameRuns, Told, Typing, Value, Pending
<1>10. Claimed(d) = Claimed(c) /\ Kept(d) = Kept(c) \cup {m}
  BY <1>3, <1>9 DEF Claimed, Kept
<1>11. Gapped(d, L) /\ Latest(d, k)
  <2>1. CASE d.rec = c.rec
    <3>1. Gapped(d, L)
      <4>1. Gapped(c, L)
        BY DEF Core
      <4> QED
        BY <2>1, <4>1, <1>5 DEF Gapped
    <3>2. d.rec.drops # <<>> => d.rec.drops[Len(d.rec.drops)].of # k
      <4>1. d.rec.drops = old
        BY <2>1 DEF old
      <4>2. old # <<>> => N \in 1..N
        BY <1>6, EmptySeq DEF N
      <4>3. k \notin 1..h
        OBVIOUS
      <4> QED
        BY <4>1, <4>2, <4>3, <1>8 DEF N
    <3> QED
      BY <3>1, <3>2 DEF Latest
  <2>2. CASE d.rec.drops = Append(old, gap) /\ gap \in GapRecs /\ (old # <<>> => ~SameLoss(old[N], gap))
    <3> DEFINE new == d.rec.drops
    <3>1. /\ DOMAIN new = 1..(N + 1) /\ Len(new) = N + 1 /\ new[N + 1] = gap
          /\ \A i \in 1..N : new[i] = old[i]
      BY <2>2, <1>6 DEF N
    <3> HIDE DEF new
    <3>2. \A i \in 1..(N + 1) : i \in 1..N \/ i = N + 1
      BY <1>6
    <3>3. \A i \in 1..(N + 1) : new[i].of \in d.failed /\ new[i].kind = L[new[i].of].kind
      <4> SUFFICES ASSUME NEW i \in 1..(N + 1)
                   PROVE  new[i].of \in d.failed /\ new[i].kind = L[new[i].of].kind
        OBVIOUS
      <4>1. CASE i \in 1..N
        BY <4>1, <3>1, <1>5, <1>7
      <4>2. CASE i = N + 1
        BY <4>2, <3>1, <1>4, <1>5 DEF ev
      <4> QED
        BY <4>1, <4>2, <3>2
    <3>4. \A i, j \in 1..(N + 1) : i < j => new[i].of < new[j].of
      <4> SUFFICES ASSUME NEW i \in 1..(N + 1), NEW j \in 1..(N + 1), i < j
                   PROVE  new[i].of < new[j].of
        OBVIOUS
      <4>1. i \in 1..N
        BY <1>6
      <4>2. CASE j \in 1..N
        BY <4>1, <4>2, <3>1, <1>7
      <4>3. CASE j = N + 1
        <5>1. new[i].of \in 1..h /\ new[j].of = m
          BY <4>1, <4>3, <3>1, <1>4, <1>8
        <5> QED
          BY <5>1
      <4> QED
        BY <4>2, <4>3, <3>2
    <3>5. \A i, j \in 1..(N + 1) :
            /\ L[new[i].of].kind = "mouse_press"
            /\ new[j].of = new[i].of + 1
            /\ new[j].on = new[i].on
            => new[j].t - new[i].t > FoldMs \/ new[j].reason # new[i].reason
      <4> SUFFICES ASSUME NEW i \in 1..(N + 1), NEW j \in 1..(N + 1),
                          L[new[i].of].kind = "mouse_press", new[j].of = new[i].of + 1,
                          new[j].on = new[i].on, new[j].reason = new[i].reason
                   PROVE  new[j].t - new[i].t > FoldMs
        OBVIOUS
      <4>1. CASE i \in 1..N /\ j \in 1..N
        BY <4>1, <3>1, <1>7
      <4>2. CASE i = N + 1
        <5>1. new[i].of = m
          BY <4>2, <3>1, <1>4
        <5>2. new[j].of \in 1..h \/ new[j].of = m
          BY <3>1, <3>2, <1>4, <1>8
        <5> QED
          BY <5>1, <5>2
      <4>3. CASE i \in 1..N /\ j = N + 1
        <5>1. new[j] = gap /\ new[i] = old[i] /\ new[i].of \in 1..h /\ m = new[i].of + 1
          BY <4>3, <3>1, <1>4, <1>8
        <5>2. new[i].of = h /\ m = h + 1
          BY <5>1
        <5>3. L[h].kind = "mouse_press" /\ h \in 1..Len(L)
          BY <5>1, <5>2
        <5>4. L[m].kind = "mouse_release"
          BY <5>2, <5>3, <1>1 DEF Lived, Down
        <5>5. Latest(c, h)
          BY <5>4
        <5>6. i = N
          <6>1. ~ (i < N)
            <7> SUFFICES ASSUME i < N
                         PROVE  FALSE
              OBVIOUS
            <7>1. N \in 1..N
              BY <4>3, <1>6
            <7>2. old[i].of < old[N].of /\ old[N].of \in 1..h
              BY <7>1, <4>3, <1>7, <1>8
            <7> QED
              BY <7>2, <5>1, <5>2
          <6> QED
            BY <6>1, <4>3, <1>6
        <5>7. old # <<>>
          BY <4>3, <1>6 DEF N
        <5>8. old[N].after = Len(c.rec.actions)
          BY <5>1, <5>2, <5>5, <5>6, <5>7 DEF Latest, old, N
        <5>9. old[N].kind = "mouse_press"
          BY <5>1, <5>2, <5>3, <5>6, <4>3, <1>7
        <5>10. ~SameLoss(old[N], gap)
          BY <2>2, <5>7
        <5>11. ~ (gap.t - old[N].t <= FoldMs)
          BY <5>1, <5>4, <5>6, <5>8, <5>9, <5>10, <1>4 DEF SameLoss, ev
        <5>12. gap.t \in Nat /\ old[N].t \in Nat
          <6>1. gap \in GapRecs /\ old[N] \in GapRecs
            BY <2>2, <4>3, <5>6, <1>6
          <6> QED
            BY <6>1 DEF GapRecs
        <5>13. new[j].t = gap.t /\ new[i].t = old[N].t
          BY <5>1, <5>6
        <5>14. FoldMs \in Nat
          BY FoldingAssumption
        <5> QED
          BY <5>11, <5>12, <5>13, <5>14
      <4> QED
        BY <4>1, <4>2, <4>3, <3>2
    <3>6. Gapped(d, L)
      BY <3>1, <3>3, <3>4, <3>5 DEF Gapped, new
    <3>7. Latest(d, k)
      BY <3>1, <1>3, <1>4 DEF Latest, new
    <3> QED
      BY <3>6, <3>7
  <2> QED
    BY <1>3, <2>1, <2>2
<1>12. Claimed(d) \cup d.failed \subseteq 1..k
  BY <1>2, <1>5, <1>10
<1>13. Apart(d) /\ Together(d, L)
  BY <1>3, <1>9, <1>10 DEF Core, Apart, Together, InOneStep
<1>14. \A of : Real(c.failed, L, of) => Real(d.failed, L, of)
  BY <1>5 DEF Real, Lost
<1>15. Clicked(d, L)
  BY <1>3, <1>14 DEF Core, Clicked
<1>16. Waits(d, L) /\ Selected(d, L)
  BY <1>3, <1>10 DEF Core, Waits, Selected, SameRuns
<1>17. Core(d, L, k)
  BY <1>3, <1>11, <1>12, <1>13, <1>15, <1>16 DEF Core
<1> QED
  BY <1>3, <1>9, <1>10, <1>11, <1>17 DEF d, ev

-----------------------------------------------------------------------------
(* Moments and answers.                                                     *)

\* A session that differs in its group, its moments and what it was told about
\* controls.
LEMMA SameCore ==
  ASSUME NEW L, NEW h \in Nat, NEW c, Core(c, L, h), NEW d \in Captures, SameLedger(c, d)
  PROVE  Core(d, L, h) /\ Kept(d) = Kept(c) /\ Claimed(d) = Claimed(c)
<1>1. c.failed \subseteq d.failed /\ d.failed \subseteq 1..h /\ d.rec = c.rec /\ SameRuns(c, d)
  BY DEF SameLedger, Core
<1>2. Core(d, L, h) /\ Told(d) = Told(c) /\ Claimed(d) = Claimed(c)
  BY <1>1, FailedCore
<1>3. Kept(d) = Kept(c)
  BY <1>2 DEF Kept, Typing, Value, SameLedger, SameRuns
<1> QED
  BY <1>2, <1>3

SameMoments(c, d) == d.group = c.group /\ d.menuAt = c.menuAt /\ d.menuOn = c.menuOn /\ d.itemAt = c.itemAt

LEMMA ResolveSame ==
  ASSUME NEW c \in Captures, NEW ev \in EventRecs
  PROVE  LET d == Resolve(c, ev)
         IN  d \in Captures /\ SameLedger(c, d) /\ SameMoments(c, d)
<1> DEFINE to == Owner[ev.on]
           answer == IF Kind[to] = "chrome" THEN "missing" ELSE ev.answer
           d == [c EXCEPT !.cache[to] = answer]
<1>1. CASE c.cache[Target(ev)] # "unknown"
  BY <1>1 DEF Resolve, SameLedger, SameRuns, SameMoments
<1>2. CASE c.cache[Target(ev)] = "unknown"
  <2>1. Resolve(c, ev) = d
    BY <1>2 DEF Resolve, Target
  <2>2. to \in Controls
    BY FoldingAssumption DEF EventRecs
  <2>3. answer \in Answers \cup {"unknown"}
    BY DEF EventRecs, Answers
  <2> HIDE DEF to, answer
  <2>4. [c.cache EXCEPT ![to] = answer] \in [Controls -> Answers \cup {"unknown"}]
    BY <2>2, <2>3 DEF Captures
  <2>5. d = [c EXCEPT !.cache = [c.cache EXCEPT ![to] = answer]]
    BY DEF Captures
  <2>6. d \in Captures /\ SameLedger(c, d) /\ SameMoments(c, d)
    BY <2>4, <2>5 DEF Captures, SameLedger, SameRuns, SameMoments
  <2> QED
    BY <2>1, <2>6
<1> QED
  BY <1>1, <1>2

-----------------------------------------------------------------------------
(* Runs that begin.                                                         *)

\* A session that claims less.
LEMMA FitsStill ==
  ASSUME NEW L, NEW c, NEW d, NEW S, NEW k, Fits(c, L, S, k),
         Claimed(d) \subseteq Claimed(c), d.pending \in {c.pending, <<>>}
  PROVE  Fits(d, L, S, k)
  BY DEF Fits

\* A session in which events were added to a run: to typing or to a value.
LEMMA JoinedCore ==
  ASSUME NEW L, Lived(L), NEW h \in Nat, NEW k \in Nat, h <= k, NEW c, Core(c, L, h),
         NEW S, Fits(c, L, S, k),
         NEW d \in Captures, d.rec = c.rec, d.failed = c.failed, d.pending = c.pending,
         \/ Typing(d) = Typing(c) \cup S /\ Value(d) = Value(c)
         \/ Typing(d) = Typing(c) /\ Value(d) = Value(c) \cup S,
         Selected(d, L)
  PROVE  Core(d, L, k) /\ Kept(d) = Kept(c) \cup S /\ Claimed(d) = Claimed(c) \cup S
<1>1. Told(d) = Told(c) /\ Pending(d) = Pending(c)
  BY DEF Told, Pending
<1>2. Claimed(d) = Claimed(c) \cup S
  BY <1>1 DEF Claimed
<1>3. Kept(d) = Kept(c) \cup S
  BY <1>1 DEF Kept
<1>4. Claimed(d) \cup d.failed \subseteq 1..k
  <2>1. 1..h \subseteq 1..k
    OBVIOUS
  <2> QED
    BY <1>2, <2>1 DEF Core, Fits
<1>5. S \cap Told(c) = {} /\ S \cap Typing(c) = {} /\ S \cap Value(c) = {} /\ S \cap Pending(c) = {}
  BY DEF Fits, Claimed
<1>6. Apart(d)
  BY <1>1, <1>5 DEF Core, Apart
<1>7. Together(d, L)
  <2> SUFFICES ASSUME NEW p \in Claimed(d), NEW r \in Claimed(d), Click(L, p, r)
               PROVE  InOneStep(d, p, r) \/ {p, r} \subseteq Typing(d) \/ {p, r} \subseteq Value(d)
    BY DEF Together
  <2>1. CASE {p, r} \cap S # {}
    BY <2>1, <1>2 DEF Fits
  <2>2. CASE {p, r} \cap S = {}
    <3>1. InOneStep(c, p, r) \/ {p, r} \subseteq Typing(c) \/ {p, r} \subseteq Value(c)
      BY <2>2, <1>2 DEF Core, Together
    <3> QED
      BY <3>1 DEF InOneStep
  <2> QED
    BY <2>1, <2>2
<1>8. Clicked(d, L) /\ Gapped(d, L)
  BY DEF Core, Clicked, Gapped
<1>9. Waits(d, L)
  BY <1>2 DEF Core, Waits, Fits
<1> QED
  BY <1>2, <1>3, <1>4, <1>6, <1>7, <1>8, <1>9 DEF Core

LEMMA BeginValueCore ==
  ASSUME NEW L, Lived(L), NEW h \in Nat, NEW k \in Nat, h <= k, NEW c, Core(c, L, h),
         NEW ev \in EventRecs, NEW S, Fits(c, L, S, k),
         NEW selection \in BOOLEAN, NEW fading \in BOOLEAN,
         c.value = <<>> \/ \A n \in S : L[n].kind # "mouse_release",
         selection => c.value = <<>> /\ \A n \in S : L[n].kind # "mouse_release"
  PROVE  LET d == BeginValue(c, ev, S, selection, fading)
         IN  /\ Core(d, L, k) /\ Kept(c) \cup S \subseteq Kept(d) /\ c.failed \subseteq d.failed
             /\ d.rec.drops = c.rec.drops /\ d.pending = c.pending /\ SameClocks(c, d)
             /\ S \subseteq Value(d)
<1> DEFINE other == c.value # <<>> /\ c.value[1].on # Target(ev)
           e == IF other THEN FlushValue(c) ELSE c
           d == BeginValue(c, ev, S, selection, fading)
           run == [on |-> Target(ev), of |-> S, selection |-> selection, fading |-> fading]
           longer == [e.value[1] EXCEPT !.of = @ \cup S, !.selection = @ \/ selection]
<1>1. /\ Core(e, L, h) /\ Ended(c, e) /\ e.pending = c.pending
      /\ e.value = <<>> \/ e.value = c.value
  <2>1. CASE other
    BY <2>1, FlushValueEnds
  <2>2. CASE ~other
    BY <2>2 DEF Ended, SameClocks
  <2> QED
    BY <2>1, <2>2
<1>2. Fits(e, L, S, k)
  BY <1>1, FitsStill DEF Ended
<1>3. d = IF e.value = <<>> THEN [e EXCEPT !.value = <<run>>]
          ELSE [e EXCEPT !.value = <<longer>>]
  BY DEF BeginValue
<1> HIDE DEF e, d
<1>4. e \in Captures
  BY <1>1 DEF Core
<1>5. S \subseteq Nat
  BY DEF Fits
<1>6. CASE e.value = <<>>
  <2>1. run \in ValueRuns
    BY <1>5, FoldingAssumption DEF ValueRuns, EventRecs, Target
  <2>2. run.of = S /\ run.selection = selection
    OBVIOUS
  <2>3. d = [e EXCEPT !.value = <<run>>]
    BY <1>3, <1>6
  <2> HIDE DEF run
  <2>4. <<run>> \in Maybe(ValueRuns) /\ <<run>> # <<>> /\ <<run>>[1] = run
    BY <2>1, One
  <2>5. /\ d \in Captures /\ d.rec = e.rec /\ d.failed = e.failed /\ d.pending = e.pending
        /\ d.typing = e.typing /\ d.value = <<run>> /\ SameClocks(e, d)
    BY <1>4, <2>3, <2>4 DEF Captures, SameClocks
  <2>6. Typing(d) = Typing(e) /\ Value(d) = Value(e) \cup S
    BY <1>6, <2>2, <2>4, <2>5 DEF Typing, Value
  <2>7. Selected(d, L)
    BY <2>2, <2>4, <2>5 DEF Selected
  <2>8. Core(d, L, k) /\ Kept(d) = Kept(e) \cup S
    BY <1>1, <1>2, <2>5, <2>6, <2>7, JoinedCore
  <2> QED
    BY <1>1, <2>5, <2>6, <2>8 DEF Ended, SameClocks, d
<1>7. CASE e.value # <<>>
  <2>1. e.value[1] \in ValueRuns /\ e.value = <<e.value[1]>> /\ e.value \in Maybe(ValueRuns)
    BY <1>4, <1>7, One DEF Captures
  <2>2. longer \in ValueRuns /\ longer.of = e.value[1].of \cup S
        /\ longer.selection = (e.value[1].selection \/ selection)
    BY <2>1, <1>5 DEF ValueRuns
  <2>3. d = [e EXCEPT !.value = <<longer>>]
    BY <1>3, <1>7
  <2> HIDE DEF longer
  <2>4. <<longer>> \in Maybe(ValueRuns) /\ <<longer>> # <<>> /\ <<longer>>[1] = longer
    BY <2>2, One
  <2>5. /\ d \in Captures /\ d.rec = e.rec /\ d.failed = e.failed /\ d.pending = e.pending
        /\ d.typing = e.typing /\ d.value = <<longer>> /\ SameClocks(e, d)
    BY <1>4, <2>3, <2>4 DEF Captures, SameClocks
  <2>6. Typing(d) = Typing(e) /\ Value(d) = Value(e) \cup S
    BY <1>7, <2>2, <2>4, <2>5 DEF Typing, Value
  <2>7. Selected(d, L)
    <3>1. c.value # <<>> /\ e.value = c.value /\ ~selection
      BY <1>1, <1>7
    <3>2. \A n \in S : L[n].kind # "mouse_release"
      BY <3>1
    <3>3. Selected(e, L)
      BY <1>1 DEF Core
    <3> QED
      BY <1>7, <2>2, <2>4, <2>5, <3>1, <3>2, <3>3 DEF Selected
  <2>8. Core(d, L, k) /\ Kept(d) = Kept(e) \cup S
    BY <1>1, <1>2, <2>5, <2>6, <2>7, JoinedCore
  <2> QED
    BY <1>1, <2>5, <2>6, <2>8 DEF Ended, SameClocks, d
<1> QED
  BY <1>6, <1>7

LEMMA CharacterCore ==
  ASSUME NEW L, Lived(L), NEW h \in Nat, NEW k \in Nat, h <= k, NEW c, Core(c, L, h),
         NEW ev \in EventRecs, Fits(c, L, {ev.n}, k)
  PROVE  LET d == HandleCharacter(c, ev)
         IN  /\ Core(d, L, k) /\ Kept(c) \cup {ev.n} \subseteq Kept(d) /\ c.failed \subseteq d.failed
             /\ d.rec.drops = c.rec.drops /\ d.pending = c.pending /\ SameClocks(c, d)
<1> DEFINE S == {ev.n}
           other == c.typing # <<>> /\ c.typing[1].on # ev.on
           e == IF other THEN FlushInput(c) ELSE c
           d == HandleCharacter(c, ev)
           run == [on |-> ev.on, of |-> S]
           longer == [e.typing[1] EXCEPT !.of = @ \cup S]
<1>1. /\ Core(e, L, h) /\ Ended(c, e) /\ e.pending = c.pending
  <2>1. CASE other
    BY <2>1, FlushInputEnds
  <2>2. CASE ~other
    BY <2>2 DEF Ended, SameClocks
  <2> QED
    BY <2>1, <2>2
<1>2. Fits(e, L, S, k)
  <2>1. Fits(c, L, S, k)
    OBVIOUS
  <2> HIDE DEF S, e
  <2> QED
    BY <1>1, <2>1, FitsStill DEF Ended
<1>3. d = IF e.typing = <<>> THEN [e EXCEPT !.typing = <<run>>]
          ELSE [e EXCEPT !.typing = <<longer>>]
  BY DEF HandleCharacter
<1> HIDE DEF e, d
<1>4. e \in Captures
  BY <1>1 DEF Core
<1>5. S \subseteq Nat
  BY DEF EventRecs
<1>6. Selected(e, L)
  BY <1>1 DEF Core
<1>7. CASE e.typing = <<>>
  <2>1. run \in TypingRuns
    BY <1>5, FoldingAssumption DEF TypingRuns, EventRecs
  <2>2. run.of = S
    OBVIOUS
  <2>3. d = [e EXCEPT !.typing = <<run>>]
    BY <1>3, <1>7
  <2> HIDE DEF run, S
  <2>4. <<run>> \in Maybe(TypingRuns) /\ <<run>> # <<>> /\ <<run>>[1] = run
    BY <2>1, One
  <2>5. /\ d \in Captures /\ d.rec = e.rec /\ d.failed = e.failed /\ d.pending = e.pending
        /\ d.value = e.value /\ d.typing = <<run>> /\ SameClocks(e, d)
    BY <1>4, <2>3, <2>4 DEF Captures, SameClocks
  <2>6. Value(d) = Value(e) /\ Typing(d) = Typing(e) \cup S
    BY <1>7, <2>2, <2>4, <2>5 DEF Typing, Value
  <2>7. Selected(d, L)
    BY <1>6, <2>5 DEF Selected
  <2>8. Core(d, L, k) /\ Kept(d) = Kept(e) \cup S
    BY <1>1, <1>2, <2>5, <2>6, <2>7, JoinedCore
  <2> QED
    BY <1>1, <2>5, <2>8 DEF Ended, SameClocks, d, S
<1>8. CASE e.typing # <<>>
  <2>1. e.typing[1] \in TypingRuns
    BY <1>4, <1>8, One DEF Captures
  <2>2. longer \in TypingRuns /\ longer.of = e.typing[1].of \cup S
    BY <2>1, <1>5 DEF TypingRuns
  <2>3. d = [e EXCEPT !.typing = <<longer>>]
    BY <1>3, <1>8
  <2> HIDE DEF longer, S
  <2>4. <<longer>> \in Maybe(TypingRuns) /\ <<longer>> # <<>> /\ <<longer>>[1] = longer
    BY <2>2, One
  <2>5. /\ d \in Captures /\ d.rec = e.rec /\ d.failed = e.failed /\ d.pending = e.pending
        /\ d.value = e.value /\ d.typing = <<longer>> /\ SameClocks(e, d)
    BY <1>4, <2>3, <2>4 DEF Captures, SameClocks
  <2>6. Value(d) = Value(e) /\ Typing(d) = Typing(e) \cup S
    BY <1>8, <2>2, <2>4, <2>5 DEF Typing, Value
  <2>7. Selected(d, L)
    BY <1>6, <2>5 DEF Selected
  <2>8. Core(d, L, k) /\ Kept(d) = Kept(e) \cup S
    BY <1>1, <1>2, <2>5, <2>6, <2>7, JoinedCore
  <2> QED
    BY <1>1, <2>5, <2>8 DEF Ended, SameClocks, d, S
<1> QED
  BY <1>7, <1>8

\* The press that starts a click waits for its release.
LEMMA PressCore ==
  ASSUME NEW L, Lived(L), NEW h \in Nat, NEW c, Core(c, L, h),
         c.pending = <<>>, NEW m \in 1..Len(L), m = h + 1,
         L[m].kind = "mouse_press", Kind[L[m].on] # "menu"
  PROVE  LET d == [c EXCEPT !.pending = <<L[m]>>]
         IN  /\ Core(d, L, m) /\ Kept(d) = Kept(c) /\ Pending(d) = {m}
             /\ d.rec = c.rec /\ d.failed = c.failed /\ d.pending = <<L[m]>> /\ SameClocks(c, d)
<1> DEFINE ev == L[m]
           d == [c EXCEPT !.pending = <<ev>>]
<1>1. ev \in EventRecs /\ ev.n = m
  BY DEF Lived
<1>2. c \in Captures /\ Claimed(c) \cup c.failed \subseteq 1..h
  BY DEF Core
<1>3. <<ev>> \in Maybe(EventRecs) /\ <<ev>> # <<>> /\ <<ev>>[1] = ev
  BY <1>1, One
<1>4. ev.kind = "mouse_press" /\ Kind[ev.on] # "menu" /\ ev = L[m]
  OBVIOUS
<1> HIDE DEF ev
<1>5. /\ d \in Captures /\ d.rec = c.rec /\ d.failed = c.failed /\ d.typing = c.typing
      /\ d.value = c.value /\ d.pending = <<ev>> /\ SameClocks(c, d)
  BY <1>2, <1>3 DEF Captures, SameClocks
<1> HIDE DEF d
<1>6. /\ Told(d) = Told(c) /\ Typing(d) = Typing(c) /\ Value(d) = Value(c)
      /\ Pending(d) = {m} /\ Pending(c) = {}
  BY <1>1, <1>3, <1>5 DEF Told, Typing, Value, Pending
<1>7. Claimed(d) = Claimed(c) \cup {m} /\ Kept(d) = Kept(c)
  BY <1>5, <1>6 DEF Claimed, Kept
<1>8. m \notin Claimed(c) /\ 1..h \subseteq 1..m /\ m \in 1..m
  BY <1>2
<1>9. Claimed(d) \cup d.failed \subseteq 1..m
  BY <1>2, <1>5, <1>7, <1>8
<1>10. Apart(d)
  <2>1. m \notin Told(c) /\ m \notin Typing(c) /\ m \notin Value(c)
    BY <1>8 DEF Claimed
  <2>2. Apart(c)
    BY DEF Core
  <2> QED
    BY <2>1, <2>2, <1>5, <1>6 DEF Apart
<1>11. Together(d, L)
  <2> SUFFICES ASSUME NEW p \in Claimed(d), NEW r \in Claimed(d), Click(L, p, r)
               PROVE  InOneStep(d, p, r) \/ {p, r} \subseteq Typing(d) \/ {p, r} \subseteq Value(d)
    BY DEF Together
  <2>1. p \in 1..m /\ r \in 1..m /\ r = p + 1
    BY <1>9 DEF Click
  <2>2. p # m
    BY <2>1
  <2>3. r # m
    BY <1>4 DEF Click
  <2>4. InOneStep(c, p, r) \/ {p, r} \subseteq Typing(c) \/ {p, r} \subseteq Value(c)
    BY <2>2, <2>3, <1>7 DEF Core, Together
  <2> QED
    BY <2>4, <1>5, <1>6 DEF InOneStep
<1>12. Clicked(d, L) /\ Gapped(d, L)
  BY <1>5 DEF Core, Clicked, Gapped
<1>13. Waits(d, L)
  <2>1. \A p \in Claimed(d) : p <= m
    BY <1>9
  <2> QED
    BY <2>1, <1>1, <1>3, <1>4, <1>5 DEF Waits
<1>14. Selected(d, L)
  BY <1>5 DEF Core, Selected
<1>15. Core(d, L, m)
  BY <1>5, <1>9, <1>10, <1>11, <1>12, <1>13, <1>14 DEF Core
<1> QED
  BY <1>5, <1>6, <1>7, <1>15 DEF d, ev

-----------------------------------------------------------------------------
(* A step taken back for another.                                           *)

\* A session without its last step.
LEMMA ShorterShape ==
  ASSUME NEW c \in Captures, c.rec.actions # <<>>
  PROVE  LET d == [c EXCEPT !.rec = WithoutLast(@)]
             N == Len(c.rec.actions)
         IN  /\ d \in Captures /\ d.rec.drops = c.rec.drops /\ d.failed = c.failed
             /\ SameRuns(c, d) /\ SameClocks(c, d)
             /\ N \in Nat \ {0} /\ DOMAIN c.rec.actions = 1..N /\ DOMAIN d.rec.actions = 1..(N - 1)
             /\ \A i \in 1..(N - 1) : d.rec.actions[i] = c.rec.actions[i]
<1> DEFINE a == c.rec.actions
           N == Len(a)
           b == SubSeq(a, 1, N - 1)
           rec == [c.rec EXCEPT !.actions = b]
           d == [c EXCEPT !.rec = rec]
<1>1. a \in Seq(StepRecs) /\ c.rec \in [actions : Seq(StepRecs), drops : Seq(GapRecs)]
  BY DEF Captures
<1>2. N \in Nat \ {0} /\ DOMAIN a = 1..N
  BY <1>1, EmptySeq
<1>3. b \in Seq(StepRecs) /\ Len(b) = N - 1 /\ \A i \in 1..(N - 1) : b[i] = a[i]
  <2>1. \A i \in 1..(N - 1) : a[i] \in StepRecs
    BY <1>1, <1>2
  <2> QED
    BY <1>1, <1>2, <2>1, SubSeqProperties
<1>4. DOMAIN b = 1..(N - 1)
  BY <1>3
<1> HIDE DEF b, N
<1>5. rec \in [actions : Seq(StepRecs), drops : Seq(GapRecs)] /\ rec.actions = b /\ rec.drops = c.rec.drops
  <2> DEFINE A == Seq(StepRecs)
             D == Seq(GapRecs)
  <2>1. b \in A /\ c.rec \in [actions : A, drops : D]
    BY <1>1, <1>3
  <2> HIDE DEF A, D
  <2>2. rec \in [actions : A, drops : D] /\ rec.actions = b /\ rec.drops = c.rec.drops
    BY <2>1
  <2> QED
    BY <2>2 DEF A, D
<1>6. [c EXCEPT !.rec = WithoutLast(@)] = d
  BY DEF WithoutLast, b, N
<1> HIDE DEF rec
<1>7. d \in Captures /\ d.rec = rec /\ d.failed = c.failed /\ SameRuns(c, d) /\ SameClocks(c, d)
  BY <1>5 DEF Captures, SameRuns, SameClocks
<1> HIDE DEF d, a
<1> QED
  BY <1>2, <1>3, <1>4, <1>5, <1>6, <1>7 DEF N, a

\* The click that opened a popup is taken back, and its events can be a part of
\* the choice.
LEMMA TakenBack ==
  ASSUME NEW L, Lived(L), NEW h \in Nat, NEW c, Core(c, L, h), c.pending = <<>>, NEW control \in Controls
  PROVE  LET X == ClickToDrop(c, control)
             d == DropClickOn(c, control)
         IN  /\ Core(d, L, h) /\ Fits(d, L, X, h) /\ Kept(c) = Kept(d) \cup X
             /\ d.rec.drops = c.rec.drops /\ d.failed = c.failed /\ SameRuns(c, d) /\ SameClocks(c, d)
<1> DEFINE X == ClickToDrop(c, control)
           N == Len(c.rec.actions)
           a == c.rec.actions
           d == [c EXCEPT !.rec = WithoutLast(@)]
<1>1. c \in Captures /\ a # <<>> /\ a[1].kind = "launch" /\ Claimed(c) \cup c.failed \subseteq 1..h
  BY DEF Core
<1>2. CASE X = {}
  <2>1. DropClickOn(c, control) = c
    BY <1>2 DEF DropClickOn
  <2>2. Fits(c, L, {}, h)
    BY DEF Fits
  <2> QED
    BY <1>2, <2>1, <2>2 DEF SameRuns, SameClocks
<1>3. CASE X # {}
  <2>1. DropClickOn(c, control) = d
    BY <1>3 DEF DropClickOn
  <2>2. a[N].kind = "click" /\ X = a[N].of
    BY <1>3 DEF ClickToDrop
  <2>3. /\ d \in Captures /\ d.rec.drops = c.rec.drops /\ d.failed = c.failed
        /\ SameRuns(c, d) /\ SameClocks(c, d)
        /\ N \in Nat \ {0} /\ DOMAIN a = 1..N /\ DOMAIN d.rec.actions = 1..(N - 1)
        /\ \A i \in 1..(N - 1) : d.rec.actions[i] = a[i]
    BY <1>1, ShorterShape
  <2> HIDE DEF d, N, X
  <2>4. N # 1
    BY <1>1, <2>2
  <2>5. \A i \in 1..N : i \in 1..(N - 1) \/ i = N
    BY <2>3
  <2>6. \A i \in 1..(N - 1) : i \in 1..N /\ i # N
    BY <2>3
  <2>7. N \in 1..N /\ 1 \in 1..(N - 1)
    BY <2>3, <2>4
  <2>8. Told(c) = Told(d) \cup X
    <3> HIDE DEF a
    <3>1. \A n : n \in UNION {a[i].of : i \in DOMAIN a} => n \in UNION {d.rec.actions[i].of : i \in DOMAIN d.rec.actions} \/ n \in X
      BY <2>2, <2>3, <2>5
    <3>2. \A n : n \in UNION {d.rec.actions[i].of : i \in DOMAIN d.rec.actions} \/ n \in X => n \in UNION {a[i].of : i \in DOMAIN a}
      BY <2>2, <2>3, <2>6, <2>7
    <3> QED
      BY <3>1, <3>2 DEF Told, a
  <2>9. Typing(d) = Typing(c) /\ Value(d) = Value(c) /\ Pending(d) = {} /\ Pending(c) = {}
    BY <2>3 DEF SameRuns, Typing, Value, Pending
  <2>10. Apart(c) /\ Together(c, L)
    BY DEF Core
  <2>11. \A i \in 1..(N - 1) : a[i].of \cap X = {}
    BY <2>2, <2>3, <2>6, <2>7, <2>10 DEF Apart
  <2>12. Told(d) \cap X = {}
    BY <2>3, <2>11 DEF Told
  <2>13. X \subseteq Told(c) /\ X \cap Typing(c) = {} /\ X \cap Value(c) = {}
    BY <2>8, <2>10 DEF Apart
  <2>14. Claimed(c) = Claimed(d) \cup X /\ X \cap Claimed(d) = {}
    BY <2>8, <2>9, <2>12, <2>13 DEF Claimed
  <2>15. Kept(c) = Kept(d) \cup X
    BY <2>3, <2>8, <2>9 DEF Kept
  <2>16. ASSUME NEW p \in Claimed(c), NEW r \in Claimed(c), InOneStep(c, p, r)
         PROVE  {p, r} \subseteq X \/ InOneStep(d, p, r)
    <3>1. PICK i \in 1..N : {p, r} \subseteq a[i].of
      BY <2>3, <2>16 DEF InOneStep
    <3>2. CASE i = N
      BY <3>1, <3>2, <2>2
    <3>3. CASE i \in 1..(N - 1)
      BY <3>1, <3>3, <2>3 DEF InOneStep
    <3> QED
      BY <3>2, <3>3, <2>5
  <2>17. ASSUME NEW p \in Claimed(c), NEW r \in Claimed(c), Click(L, p, r)
         PROVE  {p, r} \subseteq X \/ InOneStep(d, p, r) \/ {p, r} \subseteq Typing(d) \/ {p, r} \subseteq Value(d)
    <3>1. InOneStep(c, p, r) \/ {p, r} \subseteq Typing(c) \/ {p, r} \subseteq Value(c)
      BY <2>10, <2>17 DEF Together
    <3> QED
      BY <3>1, <2>9, <2>16, <2>17
  <2>18. Fits(d, L, X, h)
    <3>1. X \subseteq 1..h
      BY <1>1, <2>14
    <3>2. ASSUME NEW p \in X \cup Claimed(d), NEW r \in X \cup Claimed(d), Click(L, p, r), {p, r} \cap X # {}
          PROVE  {p, r} \subseteq X
      <4>1. {p, r} \subseteq X \/ InOneStep(d, p, r) \/ {p, r} \subseteq Typing(d) \/ {p, r} \subseteq Value(d)
        BY <2>14, <2>17, <3>2
      <4>2. InOneStep(d, p, r) => {p, r} \subseteq Told(d)
        BY DEF InOneStep, Told
      <4> QED
        BY <4>1, <4>2, <3>2, <2>9, <2>12, <2>13
    <3>3. d.pending = <<>>
      BY <2>3 DEF SameRuns
    <3> QED
      BY <3>1, <3>2, <3>3, <2>14 DEF Fits
  <2>19. d.rec.actions # <<>> /\ d.rec.actions[1].kind = "launch"
    <3>1. d.rec.actions[1] = a[1]
      BY <2>3, <2>7
    <3>2. d.rec.actions # <<>>
      BY <2>3, <2>7
    <3> QED
      BY <3>1, <3>2, <1>1
  <2>20. Claimed(d) \cup d.failed \subseteq 1..h
    BY <1>1, <2>3, <2>14
  <2>21. Apart(d)
    <3>1. \A i, j \in 1..(N - 1) : i # j => d.rec.actions[i].of \cap d.rec.actions[j].of = {}
      BY <2>3, <2>6, <2>10 DEF Apart
    <3>2. Told(d) \cap Typing(d) = {} /\ Told(d) \cap Value(d) = {} /\ Typing(d) \cap Value(d) = {}
      BY <2>8, <2>9, <2>10 DEF Apart
    <3> QED
      BY <3>1, <3>2, <2>3, <2>9 DEF Apart
  <2>22. Together(d, L)
    <3> SUFFICES ASSUME NEW p \in Claimed(d), NEW r \in Claimed(d), Click(L, p, r)
                 PROVE  InOneStep(d, p, r) \/ {p, r} \subseteq Typing(d) \/ {p, r} \subseteq Value(d)
      BY DEF Together
    <3> QED
      BY <2>14, <2>17
  <2>23. Clicked(d, L)
    BY <2>3, <2>6 DEF Core, Clicked
  <2>24. Waits(d, L) /\ Selected(d, L) /\ Gapped(d, L)
    <3>1. Waits(d, L) /\ Selected(d, L)
      BY <2>3 DEF Core, Waits, Selected, SameRuns
    <3>2. Gapped(d, L)
      BY <2>3 DEF Core, Gapped
    <3> QED
      BY <3>1, <3>2
  <2>25. Core(d, L, h)
    BY <2>3, <2>19, <2>20, <2>21, <2>22, <2>23, <2>24 DEF Core
  <2> QED
    BY <2>1, <2>3, <2>15, <2>18, <2>25 DEF X
<1> QED
  BY <1>2, <1>3

\* An event and those of the click it takes back.
LEMMA BothFit ==
  ASSUME NEW L, Lived(L), NEW h \in Nat, NEW c, Core(c, L, h), c.pending = <<>>,
         NEW X, Fits(c, L, X, h),
         NEW m \in Nat, NEW k \in Nat, h < m, m <= k, k <= Len(L), L[m].kind # "mouse_release"
  PROVE  Fits(c, L, {m} \cup X, k)
<1> DEFINE S == {m} \cup X
<1>1. Claimed(c) \subseteq 1..h /\ X \subseteq 1..h
  BY DEF Core, Fits
<1>2. m \notin Claimed(c) /\ m + 1 \notin S \cup Claimed(c) /\ {m} \cup X \subseteq 1..k
  <2>1. m \notin 1..h /\ m + 1 \notin 1..h /\ m + 1 # m /\ 1..h \subseteq 1..k /\ m \in 1..k
    OBVIOUS
  <2> QED
    BY <1>1, <2>1
<1>3. ASSUME NEW p \in S \cup Claimed(c), NEW r \in S \cup Claimed(c), Click(L, p, r),
             {p, r} \cap S # {}
      PROVE  {p, r} \subseteq S
  <2>1. r # m
    BY <1>3 DEF Click
  <2>2. p # m
    BY <1>2, <1>3 DEF Click
  <2>3. {p, r} \subseteq X
    BY <2>1, <2>2, <1>3 DEF Fits
  <2> QED
    BY <2>3
<1>4. X \cap Claimed(c) = {}
  BY DEF Fits
<1> QED
  BY <1>2, <1>3, <1>4 DEF Fits

-----------------------------------------------------------------------------
(* What a handler promises.                                                 *)

\* All of L up to h has been folded, and one of the events up to k, L[m], stands
\* for the rest: of the mouse each, of others the several reports of one.
Ready(c, L, h, m, k) ==
  /\ Lived(L) /\ h \in Nat /\ m \in Nat /\ k \in Nat /\ h < m /\ m <= k /\ k <= Len(L)
  /\ \A n \in (h + 1)..k : L[n].kind = L[m].kind
  /\ L[m].kind \in MouseKinds => m = h + 1 /\ k = m
  /\ Core(c, L, h) /\ Edge(c, L, h) /\ Accounts(c, L, h)

Handled(c, d, L, m, k) ==
  /\ Core(d, L, k) /\ Edge(d, L, k) /\ d.group = c.group
  /\ Kept(c) \subseteq Kept(d)
  /\ \A n \in Pending(c) : Found(Kept(d), L, n) \/ n \in Pending(d)
  /\ Done(L, m) => Found(Kept(d), L, m) \/ m \in Pending(d)
  /\ L[m].kind = "mouse_press" /\ Kind[L[m].on] = "menu" => m \in Kept(d)

LEMMA ReadyFacts ==
  ASSUME NEW c, NEW L, NEW h, NEW m, NEW k, Ready(c, L, h, m, k)
  PROVE  /\ Lived(L) /\ h \in Nat /\ m \in Nat /\ k \in Nat /\ h < m /\ m <= k /\ k <= Len(L)
         /\ Core(c, L, h) /\ c \in Captures /\ Len(L) \in Nat
         /\ m \in 1..Len(L) /\ L[m] \in EventRecs /\ L[m].n = m
         /\ L[m].on \in Controls /\ L[m].t \in Nat /\ Owner[L[m].on] \in Controls
         /\ L[k].kind = L[m].kind /\ h <= k
<1>1. Lived(L) /\ h \in Nat /\ m \in Nat /\ k \in Nat /\ h < m /\ m <= k /\ k <= Len(L)
  BY DEF Ready
<1>2. L \in Seq(EventRecs)
  BY <1>1 DEF Lived
<1>3. Len(L) \in Nat
  BY <1>2
<1>4. m \in 1..Len(L) /\ h <= k /\ k \in (h + 1)..k
  BY <1>1, <1>3
<1>5. L[m] \in EventRecs /\ L[m].n = m
  BY <1>1, <1>2, <1>4 DEF Lived
<1>6. L[m].on \in Controls /\ L[m].t \in Nat
  BY <1>5 DEF EventRecs
<1>7. Owner[L[m].on] \in Controls
  BY <1>6, FoldingAssumption
<1>8. L[k].kind = L[m].kind /\ Core(c, L, h)
  BY <1>4 DEF Ready
<1> QED
  BY <1>1, <1>3, <1>4, <1>5, <1>6, <1>7, <1>8 DEF Core

\* Something that happens and is recorded.
LEMMA NewStep ==
  ASSUME NEW b, NEW L, NEW h, NEW m, NEW k, Ready(b, L, h, m, k), L[m].kind # "mouse_release",
         NEW c, Core(c, L, h), c.pending = <<>> \/ L[m].kind # "mouse_press",
         NEW kind \in StepKinds, NEW on \in Controls, NEW S, m \in S, \A n \in S : n = m
  PROVE  LET d == Record(c, Step(kind, on, S))
         IN  /\ Core(d, L, k) /\ m \in Kept(d) /\ Kept(c) \subseteq Kept(d)
             /\ d.rec.drops = c.rec.drops /\ d.failed = c.failed
             /\ SameRuns(c, d) /\ SameClocks(c, d)
<1> DEFINE d == Record(c, Step(kind, on, S))
<1>1. Lived(L) /\ h \in Nat /\ m \in Nat /\ k \in Nat /\ h < m /\ m <= k /\ k <= Len(L) /\ h <= k
  BY ReadyFacts
<1>2. Fits(c, L, {m}, k) /\ \A F : Real(F, L, {m})
  BY <1>1, FreshFits
<1>3. Fits(c, L, S, k) /\ (kind = "click" => Real(c.failed, L, S)) /\ m \in S
  <2>1. S = {m}
    OBVIOUS
  <2> QED
    BY <1>2, <2>1
<1>4. on \in Controls \cup {NoControl}
  OBVIOUS
<1>5. /\ Core(d, L, k) /\ d.rec.drops = c.rec.drops /\ d.failed = c.failed
      /\ SameRuns(c, d) /\ SameClocks(c, d) /\ Told(d) = Told(c) \cup S
  BY <1>1, <1>3, <1>4, RecordCore
<1> HIDE DEF d
<1>6. Kept(c) \subseteq Kept(d) /\ m \in Kept(d)
  BY <1>3, <1>5 DEF Kept, SameRuns, Typing, Value
<1> QED
  BY <1>5, <1>6 DEF d

\* What was asked and forgotten on the way changes no promise.
LEMMA ReadyStill ==
  ASSUME NEW c, NEW L, NEW h, NEW m, NEW k, Ready(c, L, h, m, k),
         NEW d \in Captures, SameLedger(c, d), d.group = c.group, d.menuOn = c.menuOn,
         d.menuAt \in {c.menuAt, <<>>}, d.itemAt \in {c.itemAt, <<>>}
  PROVE  /\ Ready(d, L, h, m, k) /\ Kept(d) = Kept(c)
         /\ \A e : Handled(d, e, L, m, k) => Handled(c, e, L, m, k)
<1>1. Lived(L) /\ h \in Nat /\ Core(c, L, h) /\ Edge(c, L, h) /\ Accounts(c, L, h)
  BY DEF Ready
<1>2. Core(d, L, h) /\ Kept(d) = Kept(c)
  BY <1>1, SameCore
<1>3. Pending(d) = Pending(c) /\ d.pending = c.pending /\ d.rec = c.rec /\ d.failed = c.failed
  BY DEF SameLedger, SameRuns, Pending
<1>4. Edge(d, L, h)
  <2>1. Expects(d, L, h)
    BY <1>1, <1>3 DEF Edge, Expects
  <2>2. Opened(d, L, h)
    BY <1>1 DEF Edge, Opened
  <2>3. Chosen(d, L, h)
    BY <1>1, <1>3 DEF Edge, Chosen
  <2>4. Latest(d, h)
    BY <1>1, <1>3 DEF Edge, Latest
  <2> QED
    BY <2>1, <2>2, <2>3, <2>4 DEF Edge
<1>5. Accounts(d, L, h)
  BY <1>1, <1>2, <1>3 DEF Accounts
<1>6. Ready(d, L, h, m, k)
  BY <1>2, <1>4, <1>5 DEF Ready
<1>7. \A e : Handled(d, e, L, m, k) => Handled(c, e, L, m, k)
  BY <1>2, <1>3 DEF Handled
<1> QED
  BY <1>2, <1>6, <1>7

\* A press whose release is lost is accounted for.
LEMMA LostIsFound ==
  ASSUME NEW L, NEW h \in Nat, NEW c, Core(c, L, h), c.pending # <<>>,
         NEW F, Lost(F, L, c.pending[1].n), NEW K, F \subseteq K
  PROVE  \A n \in Pending(c) : Found(K, L, n)
<1> DEFINE n == c.pending[1].n
<1>1. n \in Nat /\ L[n].kind = "mouse_press"
  BY DEF Core, Waits
<1>2. Reach(L, n) = n..(n + 1)
  BY <1>1 DEF Reach
<1>3. n + 1 \in Reach(L, n)
  BY <1>1, <1>2
<1>4. Found(K, L, n)
  BY <1>3 DEF Lost, Found
<1> QED
  BY <1>4 DEF Pending

\* After a press comes its release: where something else comes, the press that
\* waits has lost its own.
LEMMA Settled ==
  ASSUME NEW c, NEW L, NEW h, NEW m, NEW k, Ready(c, L, h, m, k), L[m].kind # "mouse_release",
         c.pending # <<>>
  PROVE  Lost(c.failed, L, c.pending[1].n)
<1>1. /\ Lived(L) /\ h \in Nat /\ m \in Nat /\ k \in Nat /\ h < m /\ m <= k /\ k <= Len(L)
      /\ Core(c, L, h) /\ Len(L) \in Nat
  BY ReadyFacts
<1>2. Expects(c, L, h)
  BY DEF Ready, Edge
<1> DEFINE n == c.pending[1].n
<1>3. n \in 1..Len(L) /\ L[n].kind = "mouse_press"
  BY <1>1 DEF Core, Waits
<1>4. n # h
  <2> SUFFICES ASSUME n = h
               PROVE  FALSE
    OBVIOUS
  <2>1. h + 1 \in 1..Len(L) /\ h + 1 \in (h + 1)..k
    BY <1>1
  <2>2. L[h + 1].kind = L[m].kind
    BY <2>1 DEF Ready
  <2>3. L[h + 1].kind = "mouse_release"
    BY <2>1, <1>1, <1>3 DEF Lived, Down
  <2> QED
    BY <2>2, <2>3
<1> QED
  BY <1>2, <1>4 DEF Expects

\* A promise kept by an event that is no release.
LEMMA Quiet ==
  ASSUME NEW c, NEW L, NEW h, NEW m, NEW k, Ready(c, L, h, m, k), L[m].kind # "mouse_release",
         NEW d, Core(d, L, k), Kept(c) \subseteq Kept(d), c.failed \subseteq d.failed,
         d.group = c.group, d.pending \in {c.pending, <<>>},
         Opened(d, L, k),
         \/ d.itemAt \in {c.itemAt, <<>>}
         \/ d.itemAt = <<L[m].t>> /\ d.pending = <<>> /\ Kind[L[m].on] \in ItemKinds,
         d.rec.drops = c.rec.drops \/ Latest(d, k),
         \/ m \in Kept(d)
         \/ L[m].kind # "mouse_press" /\ Reach(L, m) \cap Kept(d) # {}
         \/ L[m].kind # "mouse_press" /\ ~Done(L, m)
  PROVE  Handled(c, d, L, m, k)
<1>1. /\ Lived(L) /\ h \in Nat /\ m \in Nat /\ k \in Nat /\ h < m /\ m <= k /\ k <= Len(L)
      /\ Core(c, L, h) /\ c \in Captures /\ Len(L) \in Nat
  BY ReadyFacts
<1>2. Edge(c, L, h)
  BY DEF Ready
<1>3. d.failed \subseteq Kept(d) /\ c.failed \subseteq Kept(d)
  BY DEF Kept
<1>4. c.pending # <<>> => Lost(c.failed, L, c.pending[1].n)
  BY Settled
<1>5. Expects(d, L, k)
  BY <1>4 DEF Expects, Lost
<1>6. Chosen(d, L, k)
  <2>1. CASE d.itemAt \in {c.itemAt, <<>>}
    <3>1. 1..h \subseteq 1..k
      BY <1>1
    <3> QED
      BY <2>1, <3>1, <1>2 DEF Edge, Chosen
  <2>2. CASE d.itemAt = <<L[m].t>> /\ d.pending = <<>> /\ Kind[L[m].on] \in ItemKinds
    <3>1. m \in 1..k
      BY <1>1
    <3>2. d.itemAt[1] = L[m].t
      BY <2>2
    <3> QED
      BY <2>2, <3>1, <3>2 DEF Chosen
  <2> QED
    BY <2>1, <2>2
<1>7. Latest(d, k)
  <2> SUFFICES ASSUME d.rec.drops = c.rec.drops
               PROVE  Latest(d, k)
    OBVIOUS
  <2> DEFINE drops == c.rec.drops
  <2>1. drops # <<>> => drops[Len(drops)].of \in 1..h
    <3> SUFFICES ASSUME drops # <<>>
                 PROVE  drops[Len(drops)].of \in 1..h
      OBVIOUS
    <3>1. drops \in Seq(GapRecs)
      BY <1>1 DEF Captures
    <3>2. Len(drops) \in DOMAIN drops
      BY <3>1, EmptySeq
    <3>3. drops[Len(drops)].of \in c.failed
      BY <3>2, <1>1 DEF Core, Gapped
    <3> QED
      BY <3>3, <1>1 DEF Core
  <2>2. k \notin 1..h
    BY <1>1
  <2> QED
    BY <2>1, <2>2 DEF Latest
<1>8. Edge(d, L, k)
  BY <1>5, <1>6, <1>7 DEF Edge
<1>9. \A n \in Pending(c) : Found(Kept(d), L, n)
  <2>1. CASE c.pending = <<>>
    BY <2>1 DEF Pending
  <2>2. CASE c.pending # <<>>
    BY <2>2, <1>1, <1>3, <1>4, LostIsFound
  <2> QED
    BY <2>1, <2>2
<1>10. m \in Kept(d) => Found(Kept(d), L, m)
  <2>1. m \in Reach(L, m)
    <3>1. m \in m..(m + 1) /\ m \in (m - 2)..(m + 1) /\ m \in {m}
      BY <1>1
    <3> QED
      BY <3>1 DEF Reach
  <2> QED
    BY <2>1 DEF Found
<1>11. Done(L, m) => Found(Kept(d), L, m)
  BY <1>10 DEF Found
<1>12. L[m].kind = "mouse_press" => m \in Kept(d)
  OBVIOUS
<1> QED
  BY <1>8, <1>9, <1>11, <1>12 DEF Handled

-----------------------------------------------------------------------------
(* A release.                                                               *)

\* The press that waits is in no other place, nor is its release.
LEMMA LetGo ==
  ASSUME NEW L, Lived(L), NEW h \in Nat, NEW c, Core(c, L, h), c.pending # <<>>
  PROVE  LET d == [c EXCEPT !.pending = <<>>]
             q == c.pending[1]
         IN  /\ Core(d, L, h) /\ d.rec = c.rec /\ d.failed = c.failed /\ d.pending = <<>>
             /\ d.typing = c.typing /\ d.value = c.value /\ SameClocks(c, d) /\ Kept(d) = Kept(c)
             /\ q \in EventRecs /\ q.n \in 1..h /\ q.n \in 1..Len(L) /\ q = L[q.n]
             /\ q.kind = "mouse_press" /\ Kind[q.on] # "menu" /\ Pending(c) = {q.n}
             /\ q.n \notin Claimed(d)
             /\ \A r \in Claimed(d) : ~Click(L, q.n, r)
             /\ \A p \in Claimed(d) : L[p].kind = "mouse_press" => p < q.n
<1> DEFINE d == [c EXCEPT !.pending = <<>>]
           q == c.pending[1]
<1>1. c \in Captures /\ Claimed(c) \subseteq 1..h /\ Apart(c) /\ Together(c, L)
  BY DEF Core
<1>2. /\ d \in Captures /\ d.rec = c.rec /\ d.failed = c.failed /\ d.pending = <<>>
      /\ d.typing = c.typing /\ d.value = c.value /\ SameClocks(c, d)
  BY <1>1, One DEF Captures, SameClocks
<1> HIDE DEF d
<1>3. Core(d, L, h) /\ Told(d) = Told(c) /\ Claimed(d) \subseteq Claimed(c)
  BY <1>2, FewerCore
<1>4. q \in EventRecs /\ Pending(c) = {q.n}
  BY <1>1, One DEF Captures, Pending
<1>5. /\ q.n \in 1..Len(L) /\ q = L[q.n] /\ q.kind = "mouse_press" /\ Kind[q.on] # "menu"
      /\ \A p \in Claimed(c) : L[p].kind = "mouse_press" => p <= q.n
  BY DEF Core, Waits
<1>6. Kept(d) = Kept(c) /\ Typing(d) = Typing(c) /\ Value(d) = Value(c) /\ Pending(d) = {}
  BY <1>2, <1>3 DEF Kept, Typing, Value, Pending
<1>7. q.n \notin Claimed(d)
  BY <1>1, <1>3, <1>4, <1>6 DEF Claimed, Apart
<1>8. q.n \in Claimed(c)
  BY <1>4 DEF Claimed
<1>9. \A r \in Claimed(d) : ~Click(L, q.n, r)
  <2> SUFFICES ASSUME NEW r \in Claimed(d), Click(L, q.n, r)
               PROVE  FALSE
    OBVIOUS
  <2>1. InOneStep(c, q.n, r) \/ {q.n, r} \subseteq Typing(c) \/ {q.n, r} \subseteq Value(c)
    BY <1>1, <1>3, <1>8 DEF Together
  <2>2. InOneStep(c, q.n, r) => q.n \in Told(c)
    BY DEF InOneStep, Told
  <2> QED
    BY <2>1, <2>2, <1>1, <1>4 DEF Apart
<1>10. \A p \in Claimed(d) : L[p].kind = "mouse_press" => p < q.n
  <2> SUFFICES ASSUME NEW p \in Claimed(d), L[p].kind = "mouse_press"
               PROVE  p < q.n
    OBVIOUS
  <2>1. p <= q.n /\ p # q.n /\ p \in 1..h /\ q.n \in 1..h
    BY <1>1, <1>3, <1>5, <1>7, <1>8
  <2> QED
    BY <2>1
<1> QED
  BY <1>1, <1>2, <1>3, <1>4, <1>5, <1>6, <1>7, <1>8, <1>9, <1>10 DEF d

\* Another press, alone.
LEMMA LoneFits ==
  ASSUME NEW L, Lived(L), NEW h \in Nat, NEW d, Core(d, L, h), d.pending = <<>>,
         NEW n \in 1..h, n \notin Claimed(d), L[n].kind = "mouse_press",
         \A r \in Claimed(d) : ~Click(L, n, r)
  PROVE  Fits(d, L, {n}, h) /\ \A F : Real(F, L, {n})
<1>1. ASSUME NEW p \in {n} \cup Claimed(d), NEW r \in {n} \cup Claimed(d), Click(L, p, r),
             {p, r} \cap {n} # {}
      PROVE  FALSE
  <2>1. r # n
    BY <1>1 DEF Click
  <2>2. p = n /\ r \in Claimed(d)
    BY <2>1, <1>1
  <2> QED
    BY <2>2, <1>1
<1>2. Fits(d, L, {n}, h)
  BY <1>1 DEF Fits
<1>3. \A F : Real(F, L, {n})
  BY DEF Real
<1> QED
  BY <1>2, <1>3

\* A press and the release that comes now.
LEMMA PairFits ==
  ASSUME NEW L, Lived(L), NEW h \in Nat, NEW d, Core(d, L, h), d.pending = <<>>,
         NEW n \in 1..h, n \notin Claimed(d), L[n].kind = "mouse_press",
         \A r \in Claimed(d) : ~Click(L, n, r),
         \A p \in Claimed(d) : L[p].kind = "mouse_press" => p < n,
         h + 1 <= Len(L), L[h + 1].kind = "mouse_release",
         Owner[L[n].on] = Owner[L[h + 1].on],
         NEW F, n # h => Lost(F, L, n)
  PROVE  Fits(d, L, {n, h + 1}, h + 1) /\ Real(F, L, {n, h + 1})
<1> DEFINE S == {n, h + 1}
<1>1. Claimed(d) \subseteq 1..h
  BY DEF Core
<1>2. h + 1 \notin 1..h /\ h + 2 \notin 1..h /\ n # h + 1 /\ n < h + 1 /\ 1..h \subseteq 1..(h + 1)
      /\ h + 1 \in 1..(h + 1)
  OBVIOUS
<1>3. S \subseteq 1..(h + 1) /\ S \cap Claimed(d) = {}
  BY <1>1, <1>2
<1>4. ASSUME NEW p \in S \cup Claimed(d), NEW r \in S \cup Claimed(d), Click(L, p, r), {p, r} \cap S # {}
      PROVE  {p, r} \subseteq S
  <2>1. L[p].kind = "mouse_press" /\ L[r].kind = "mouse_release" /\ r = p + 1
    BY <1>4 DEF Click
  <2>2. r # n /\ p # h + 1
    BY <2>1
  <2>3. CASE p = n
    <3>1. r \notin Claimed(d)
      BY <2>3, <1>4
    <3> QED
      BY <2>3, <3>1
  <2>4. CASE p # n
    <3>1. p \in Claimed(d) /\ r = h + 1
      BY <2>2, <2>4, <1>4
    <3>2. p = h /\ p < n
      BY <3>1, <2>1, <1>1
    <3> QED
      BY <3>2
  <2> QED
    BY <2>3, <2>4
<1>5. Fits(d, L, S, h + 1)
  BY <1>3, <1>4 DEF Fits
<1>6. Real(F, L, S)
  <2>1. First(S) = n
    <3>1. n \in S /\ \A x \in S : n <= x
      BY <1>2
    <3>2. \A y \in S : (\A x \in S : y <= x) => y = n
      BY <1>2
    <3> QED
      BY <3>1, <3>2 DEF First
  <2>2. \A p, r \in S : L[p].kind = "mouse_press" /\ L[r].kind = "mouse_release" => p = n /\ r = h + 1
    OBVIOUS
  <2>3. h + 1 = n + 1 \/ (L[n].kind = "mouse_press" /\ Lost(F, L, n))
    OBVIOUS
  <2>4. Owner[L[n].on] = Owner[L[h + 1].on]
    OBVIOUS
  <2> DEFINE T == S
  <2> HIDE DEF S
  <2>5. \A p, r \in T : L[p].kind = "mouse_press" /\ L[r].kind = "mouse_release" =>
          /\ Owner[L[p].on] = Owner[L[r].on]
          /\ r = p + 1 \/ (L[First(T)].kind = "mouse_press" /\ Lost(F, L, First(T)))
    BY <2>1, <2>2, <2>3, <2>4
  <2> QED
    BY <2>5 DEF Real
<1> QED
  BY <1>5, <1>6

\* The release that closes a drag that is a decision: a line only.
LEMMA DragCore ==
  ASSUME NEW L, Lived(L), NEW h \in Nat, NEW d, Core(d, L, h),
         NEW ev \in EventRecs, NEW n \in 1..h, ev.n = n
  PROVE  LET e == Drop(d, ev, "dragging")
         IN  /\ Core(e, L, h) /\ e.rec = d.rec /\ e.failed = d.failed \cup {n}
             /\ SameRuns(d, e) /\ SameClocks(d, e) /\ Kept(e) = Kept(d) \cup {n}
<1> DEFINE e == [d EXCEPT !.failed = @ \cup {ev.n}]
<1>1. Drop(d, ev, "dragging") = e
  BY DEF Drop, Deliberate
<1>2. d \in Captures /\ d.failed \subseteq 1..h
  BY DEF Core
<1>4. /\ e \in Captures /\ e.rec = d.rec /\ e.failed = d.failed \cup {n}
      /\ SameRuns(d, e) /\ SameClocks(d, e)
  BY <1>2 DEF Captures, SameRuns, SameClocks
<1> HIDE DEF e
<1>5. d.failed \subseteq e.failed /\ e.failed \subseteq 1..h
  BY <1>2, <1>4
<1>6. Core(e, L, h) /\ Told(e) = Told(d)
  BY <1>4, <1>5, FailedCore
<1>7. Kept(e) = Kept(d) \cup {n}
  BY <1>4, <1>6 DEF Kept, SameRuns, Typing, Value
<1> QED
  BY <1>1, <1>4, <1>6, <1>7

\* What becomes of a press and the release that closes it.
LEMMA ReleaseCore ==
  ASSUME NEW c, NEW L, NEW h, NEW m, NEW k, Ready(c, L, h, m, k), L[m].kind = "mouse_release",
         c.pending # <<>>
  PROVE  LET e == [c EXCEPT !.pending = <<>>]
             q == c.pending[1]
             d == Release(e, q, L[m])
         IN  /\ Core(d, L, k) /\ Kept(c) \cup {q.n} \subseteq Kept(d) /\ c.failed \subseteq d.failed
             /\ d.rec.drops = c.rec.drops /\ d.pending = <<>> /\ SameClocks(c, d)
<1> DEFINE e == [c EXCEPT !.pending = <<>>]
           q == c.pending[1]
           n == q.n
           ev == L[m]
           d == Release(e, q, ev)
<1>1. /\ Lived(L) /\ h \in Nat /\ m \in Nat /\ k \in Nat /\ Core(c, L, h)
      /\ m \in 1..Len(L) /\ ev \in EventRecs /\ ev.n = m /\ ev.on \in Controls
      /\ Owner[ev.on] \in Controls /\ Len(L) \in Nat
  BY ReadyFacts
<1>2. m = h + 1 /\ k = h + 1 /\ h + 1 <= Len(L) /\ h <= k
  BY <1>1 DEF Ready, MouseKinds
<1>3. /\ Core(e, L, h) /\ e.rec = c.rec /\ e.failed = c.failed /\ e.pending = <<>>
      /\ SameClocks(c, e) /\ Kept(e) = Kept(c)
      /\ q \in EventRecs /\ n \in 1..h /\ n \in 1..Len(L) /\ q = L[n]
      /\ q.kind = "mouse_press" /\ Kind[q.on] # "menu"
      /\ n \notin Claimed(e)
      /\ \A r \in Claimed(e) : ~Click(L, n, r)
      /\ \A p \in Claimed(e) : L[p].kind = "mouse_press" => p < n
  <2>1. LET x == [c EXCEPT !.pending = <<>>]
            p == c.pending[1]
        IN  /\ Core(x, L, h) /\ x.rec = c.rec /\ x.failed = c.failed /\ x.pending = <<>>
            /\ x.typing = c.typing /\ x.value = c.value /\ SameClocks(c, x) /\ Kept(x) = Kept(c)
            /\ p \in EventRecs /\ p.n \in 1..h /\ p.n \in 1..Len(L) /\ p = L[p.n]
            /\ p.kind = "mouse_press" /\ Kind[p.on] # "menu" /\ Pending(c) = {p.n}
            /\ p.n \notin Claimed(x)
            /\ \A r \in Claimed(x) : ~Click(L, p.n, r)
            /\ \A r \in Claimed(x) : L[r].kind = "mouse_press" => r < p.n
    <3> HIDE DEF ev
    <3> QED
      BY <1>1, LetGo
  <2> QED
    BY <2>1
<1>4. q.on \in Controls /\ Owner[q.on] \in Controls
  BY <1>3, FoldingAssumption DEF EventRecs
<1>5. n # h => Lost(c.failed, L, n)
  BY DEF Ready, Edge, Expects
<1> DEFINE paired == Target(q) = Target(ev) /\ ev.t - q.t <= ClickMs
           menu == Kind[q.on] \in {"bar", "menu"} \/ Kind[ev.on] \in {"bar", "menu"}
           one == Record(e, Step("click", Target(q), {n}))
           two == Record(one, Step("click", Target(ev), {m}))
<1>6. /\ paired => d = Record(e, Step("click", Target(ev), {n, m}))
      /\ ~paired /\ menu => d = two
      /\ ~paired /\ ~menu /\ ChangesValue(e, q) => d = FlushValue(BeginWheelOrDrag(e, q))
      /\ ~paired /\ ~menu /\ ~ChangesValue(e, q) => d = Drop(e, q, "dragging")
  BY <1>1 DEF Release
<1>7. Target(q) = Owner[q.on] /\ Target(ev) = Owner[ev.on] /\ Target(q) \in Controls /\ Target(ev) \in Controls
  BY <1>1, <1>4 DEF Target
<1>8. "click" \in StepKinds
  BY DEF StepKinds
<1>9. Fits(e, L, {n}, h) /\ \A F : Real(F, L, {n})
  <2> HIDE DEF e, n
  <2> QED
    BY <1>1, <1>3, LoneFits DEF n
<1> HIDE DEF e
<1>10. CASE paired
  <2> DEFINE S == {n, m}
  <2>1. Fits(e, L, S, h + 1) /\ Real(c.failed, L, S)
    <3>1. Owner[L[n].on] = Owner[L[h + 1].on]
      BY <1>2, <1>3, <1>7, <1>10
    <3>2. L[h + 1].kind = "mouse_release" /\ L[n].kind = "mouse_press"
      BY <1>2, <1>3
    <3> HIDE DEF n
    <3>3. Fits(e, L, {n, h + 1}, h + 1) /\ Real(c.failed, L, {n, h + 1})
      BY <1>1, <1>2, <1>3, <1>5, <3>1, <3>2, PairFits
    <3> QED
      BY <3>3, <1>2
  <2>2. n \in S
    OBVIOUS
  <2>3. d = Record(e, Step("click", Target(ev), S))
    BY <1>6, <1>10
  <2> HIDE DEF S, d, ev, q
  <2>4. /\ Core(d, L, k) /\ d.rec.drops = e.rec.drops /\ d.failed = e.failed
        /\ SameRuns(e, d) /\ SameClocks(e, d) /\ Told(d) = Told(e) \cup S
    BY <1>1, <1>2, <1>3, <1>7, <1>8, <2>1, <2>3, RecordCore
  <2>5. Kept(c) \cup {n} \subseteq Kept(d)
    BY <1>3, <2>2, <2>4 DEF Kept, SameRuns, Typing, Value
  <2> QED
    BY <1>3, <2>4, <2>5 DEF SameRuns, SameClocks, d, ev, q, e
<1>11. CASE ~paired /\ menu
  <2> DEFINE S == {n}
             T == {m}
  <2>1. Fits(e, L, S, h) /\ Real(e.failed, L, S) /\ n \in S
    BY <1>9
  <2>2. one = Record(e, Step("click", Target(q), S))
    OBVIOUS
  <2>3. two = Record(one, Step("click", Target(ev), T))
    OBVIOUS
  <2>4. h <= h
    BY <1>1
  <2> HIDE DEF S, T, one, two
  <2>5. /\ Core(one, L, h) /\ one.rec.drops = e.rec.drops /\ one.failed = e.failed
        /\ SameRuns(e, one) /\ SameClocks(e, one) /\ Told(one) = Told(e) \cup S
    <3> HIDE DEF q
    <3> QED
      BY <1>1, <1>3, <1>7, <1>8, <2>1, <2>2, <2>4, RecordCore
  <2>6. Kept(one) = Kept(e) \cup S /\ Claimed(one) = Claimed(e) \cup S
    BY <2>5 DEF Kept, Claimed, SameRuns, Typing, Value, Pending
  <2>7. one.pending = <<>>
    BY <1>3, <2>5 DEF SameRuns
  <2>8. Fits(one, L, T, k)
    <3>1. Claimed(one) \subseteq 1..h
      BY <2>5 DEF Core
    <3>2. m \notin Claimed(one) /\ T \subseteq 1..k
      BY <1>1, <1>2, <3>1 DEF T
    <3>3. ASSUME NEW p \in T \cup Claimed(one), NEW r \in T \cup Claimed(one), Click(L, p, r),
                 {p, r} \cap T # {}
          PROVE  FALSE
      <4>1. L[p].kind = "mouse_press" /\ r = p + 1 /\ L[p].on = L[r].on /\ Kind[L[p].on] # "bar"
        BY <3>3 DEF Click
      <4>2. p # m
        BY <4>1
      <4>3. r = m /\ p \in Claimed(one)
        BY <4>2, <3>3 DEF T
      <4>4. p = h /\ p \in Claimed(e) \cup {n}
        BY <1>1, <1>2, <2>6, <3>1, <4>1, <4>3 DEF S
      <4>5. p = n
        <5> SUFFICES ASSUME p # n
                     PROVE  FALSE
          OBVIOUS
        <5>1. p < n /\ n \in 1..h
          BY <4>1, <4>4, <1>3
        <5> QED
          BY <5>1, <4>4, <1>1
      <4>6. q.on = ev.on
        BY <4>1, <4>3, <4>5, <1>3
      <4>7. Kind[q.on] = "menu"
        <5>1. Kind[q.on] # "bar"
          BY <4>1, <4>5, <1>3
        <5> QED
          BY <5>1, <4>6, <1>11
      <4> QED
        BY <4>7, <1>3
    <3> QED
      BY <3>2, <3>3, <2>7 DEF Fits, T
  <2>9. Real(one.failed, L, T)
    BY DEF Real, T
  <2>10. /\ Core(two, L, k) /\ two.rec.drops = one.rec.drops /\ two.failed = one.failed
         /\ SameRuns(one, two) /\ SameClocks(one, two) /\ Told(two) = Told(one) \cup T
    <3> HIDE DEF ev
    <3> QED
      BY <1>1, <1>2, <1>7, <1>8, <2>3, <2>5, <2>8, <2>9, RecordCore
  <2>11. Kept(one) \subseteq Kept(two)
    BY <2>10 DEF Kept, SameRuns, Typing, Value
  <2>12. d = two
    BY <1>6, <1>11
  <2>13. Kept(c) \cup {n} \subseteq Kept(two)
    BY <1>3, <2>1, <2>6, <2>11
  <2>14. two.pending = <<>> /\ SameClocks(c, two) /\ two.rec.drops = c.rec.drops /\ c.failed \subseteq two.failed
    BY <1>3, <2>5, <2>7, <2>10 DEF SameRuns, SameClocks
  <2> HIDE DEF d
  <2> QED
    BY <2>10, <2>12, <2>13, <2>14 DEF d, e
<1>12. CASE ~paired /\ ~menu /\ ChangesValue(e, q)
  <2> DEFINE S == {n}
             f == BeginWheelOrDrag(e, q)
             fading == Answer(e, q) = "fading"
             selection == FALSE
  <2>1. Fits(e, L, S, k) /\ n \in S
    <3>1. 1..h \subseteq 1..k
      BY <1>1, <1>2
    <3> QED
      BY <1>9, <3>1 DEF Fits
  <2>2. \A x \in S : L[x].kind # "mouse_release"
    BY <1>3
  <2>3. f = BeginValue(e, q, S, selection, fading)
    BY DEF BeginWheelOrDrag
  <2>4. fading \in BOOLEAN /\ selection \in BOOLEAN /\ ~selection
    OBVIOUS
  <2> HIDE DEF S, fading, selection, f, q
  <2>5. /\ Core(f, L, k) /\ Kept(e) \cup S \subseteq Kept(f) /\ e.failed \subseteq f.failed
        /\ f.rec.drops = e.rec.drops /\ f.pending = e.pending /\ SameClocks(e, f)
    BY <1>1, <1>2, <1>3, <2>1, <2>2, <2>3, <2>4, BeginValueCore
  <2> DEFINE g == FlushValue(f)
  <2>6. /\ Core(g, L, k) /\ Ended(f, g) /\ g.pending = f.pending
    BY <1>1, <2>5, FlushValueEnds
  <2> HIDE DEF g
  <2>7. d = g
    BY <1>6, <1>12 DEF f, g
  <2> HIDE DEF d
  <2> QED
    BY <1>3, <2>1, <2>5, <2>6, <2>7 DEF Ended, SameClocks, d, e, q
<1>13. CASE ~paired /\ ~menu /\ ~ChangesValue(e, q)
  <2>1. d = Drop(e, q, "dragging")
    BY <1>6, <1>13
  <2>2. q \in EventRecs /\ q.n = n /\ n \in 1..h
    BY <1>3
  <2> HIDE DEF d, n, q
  <2>3. /\ Core(d, L, h) /\ d.rec = e.rec /\ d.failed = e.failed \cup {n}
        /\ SameRuns(e, d) /\ SameClocks(e, d) /\ Kept(d) = Kept(e) \cup {n}
    BY <1>1, <1>3, <2>1, <2>2, DragCore
  <2>4. Core(d, L, k)
    BY <1>1, <1>2, <2>3, LaterCore
  <2> QED
    BY <1>3, <2>3, <2>4 DEF SameRuns, SameClocks, d, e, n, q
<1> QED
  BY <1>10, <1>11, <1>12, <1>13 DEF e

\* A promise kept by a release: the press that waited is accounted for, or its
\* release is lost with this one.
LEMMA Loud ==
  ASSUME NEW c, NEW L, NEW h, NEW m, NEW k, Ready(c, L, h, m, k), L[m].kind = "mouse_release",
         NEW d, Core(d, L, k), Kept(c) \subseteq Kept(d), c.failed \subseteq d.failed,
         d.group = c.group,
         \/ d.pending = <<>> /\ Pending(c) \subseteq Kept(d)
         \/ d.pending = c.pending /\ (c.pending # <<>> => Lost(d.failed, L, c.pending[1].n)),
         d.itemAt = c.itemAt,
         d.rec.drops = c.rec.drops \/ Latest(d, k)
  PROVE  Handled(c, d, L, m, k)
<1>1. /\ Lived(L) /\ h \in Nat /\ m \in Nat /\ k \in Nat /\ h < m /\ m <= k /\ k <= Len(L)
      /\ Core(c, L, h) /\ c \in Captures /\ Len(L) \in Nat /\ L[k].kind = L[m].kind
  BY ReadyFacts
<1>2. Edge(c, L, h)
  BY DEF Ready
<1>3. d.failed \subseteq Kept(d)
  BY DEF Kept
<1>4. Expects(d, L, k)
  BY DEF Expects
<1>5. Opened(d, L, k)
  BY <1>1 DEF Opened
<1>6. Chosen(d, L, k)
  <2>1. 1..h \subseteq 1..k
    BY <1>1
  <2> QED
    BY <2>1, <1>2 DEF Edge, Chosen
<1>7. Latest(d, k)
  <2> SUFFICES ASSUME d.rec.drops = c.rec.drops
               PROVE  Latest(d, k)
    OBVIOUS
  <2> DEFINE drops == c.rec.drops
  <2>1. drops # <<>> => drops[Len(drops)].of \in 1..h
    <3> SUFFICES ASSUME drops # <<>>
                 PROVE  drops[Len(drops)].of \in 1..h
      OBVIOUS
    <3>1. drops \in Seq(GapRecs)
      BY <1>1 DEF Captures
    <3>2. Len(drops) \in DOMAIN drops
      BY <3>1, EmptySeq
    <3>3. drops[Len(drops)].of \in c.failed
      BY <3>2, <1>1 DEF Core, Gapped
    <3> QED
      BY <3>3, <1>1 DEF Core
  <2>2. k \notin 1..h
    BY <1>1
  <2> QED
    BY <2>1, <2>2 DEF Latest
<1>8. Edge(d, L, k)
  BY <1>4, <1>5, <1>6, <1>7 DEF Edge
<1>9. \A n \in Pending(c) : Found(Kept(d), L, n)
  <2>1. CASE d.pending = <<>> /\ Pending(c) \subseteq Kept(d)
    <3> SUFFICES ASSUME NEW n \in Pending(c)
                 PROVE  Found(Kept(d), L, n)
      OBVIOUS
    <3>1. n \in Nat /\ L[n].kind = "mouse_press"
      BY <1>1 DEF Core, Waits, Pending
    <3>2. n \in n..(n + 1)
      BY <3>1
    <3>3. Reach(L, n) = n..(n + 1)
      BY <3>1 DEF Reach
    <3> QED
      BY <2>1, <3>2, <3>3 DEF Found
  <2>2. CASE d.pending = c.pending /\ (c.pending # <<>> => Lost(d.failed, L, c.pending[1].n))
    <3>1. CASE c.pending = <<>>
      BY <3>1 DEF Pending
    <3>2. CASE c.pending # <<>>
      BY <3>2, <2>2, <1>1, <1>3, LostIsFound
    <3> QED
      BY <3>1, <3>2
  <2> QED
    BY <2>1, <2>2
<1>10. ~Done(L, m) /\ L[m].kind # "mouse_press"
  BY DEF Done
<1> QED
  BY <1>8, <1>9, <1>10 DEF Handled

LEMMA OrdinaryHandled ==
  ASSUME NEW c, NEW L, NEW h, NEW m, NEW k, Ready(c, L, h, m, k), L[m].kind \in MouseKinds,
         c.menuAt = <<>>, L[m].kind = "mouse_press" => Kind[L[m].on] # "menu"
  PROVE  Handled(c, HandleOrdinary(c, L[m]), L, m, k)
<1> DEFINE ev == L[m]
           r == Resolve(c, ev)
           d == HandleOrdinary(c, ev)
<1>1. /\ Lived(L) /\ h \in Nat /\ m \in Nat /\ k \in Nat /\ h < m /\ m <= k /\ k <= Len(L)
      /\ Core(c, L, h) /\ c \in Captures /\ Len(L) \in Nat
      /\ m \in 1..Len(L) /\ ev \in EventRecs /\ ev.n = m
      /\ ev.on \in Controls /\ ev.t \in Nat /\ Owner[ev.on] \in Controls
      /\ L[k].kind = L[m].kind /\ h <= k
  BY ReadyFacts
<1>2. m = h + 1 /\ k = m
  BY DEF Ready
<1>3. r \in Captures /\ SameLedger(c, r) /\ SameMoments(c, r)
  <2> HIDE DEF ev
  <2> QED
    BY <1>1, ResolveSame
<1> HIDE DEF r
<1>4. /\ Ready(r, L, h, m, k) /\ Kept(r) = Kept(c)
      /\ \A e : Handled(r, e, L, m, k) => Handled(c, e, L, m, k)
  BY <1>3, ReadyStill DEF SameMoments
<1>5. Core(r, L, h) /\ Edge(r, L, h)
  BY <1>4 DEF Ready
<1>6. r.menuAt = <<>>
  BY <1>3 DEF SameMoments
<1>7. /\ Answer(r, ev) = "missing" => d = DropUnresolved(r, ev)
      /\ Answer(r, ev) # "missing" /\ ev.kind = "mouse_double" =>
           d = Record(Conclude(r), Step("double_click", Target(ev), {m}))
      /\ Answer(r, ev) # "missing" /\ ev.kind = "mouse_press" =>
           d = [Conclude(r) EXCEPT !.pending = <<ev>>]
      /\ Answer(r, ev) # "missing" /\ ev.kind = "mouse_release" =>
           d = IF r.pending = <<>> THEN r
               ELSE Release([r EXCEPT !.pending = <<>>], r.pending[1], ev)
  BY <1>1 DEF HandleOrdinary, r
<1> HIDE DEF d
<1>8. SUFFICES Handled(r, d, L, m, k)
  BY <1>4 DEF d, ev
<1>9. CASE Answer(r, ev) = "missing"
  <2> DEFINE reason == IF Kind[Target(ev)] = "chrome" THEN "chrome" ELSE "not_found"
  <2>1. reason \in Reasons \cup Deliberate
    BY DEF Reasons, Deliberate
  <2>2. d = Drop(r, L[m], reason)
    BY <1>7, <1>9 DEF DropUnresolved
  <2>3. L[m].kind = "mouse_release" => m = h + 1 /\ Latest(r, h)
    BY <1>2, <1>5 DEF Edge
  <2> HIDE DEF reason
  <2>4. /\ Core(d, L, k) /\ Latest(d, k)
        /\ d.failed = r.failed \cup {m} /\ SameRuns(r, d) /\ SameClocks(r, d)
        /\ Kept(d) = Kept(r) \cup {m}
    BY <1>1, <1>5, <2>1, <2>2, <2>3, DropCore
  <2>5. m \in Kept(d) /\ m \in d.failed /\ d.pending = r.pending /\ d.itemAt = r.itemAt /\ d.group = r.group
        /\ d.menuAt = <<>>
    BY <1>6, <2>4 DEF SameRuns, SameClocks
  <2>6. CASE L[m].kind = "mouse_release"
    <3>1. r.pending # <<>> => Lost(d.failed, L, r.pending[1].n)
      BY <1>2, <1>5, <2>4, <2>5 DEF Edge, Expects, Lost
    <3> QED
      BY <1>4, <2>4, <2>5, <2>6, <3>1, Loud
  <2>7. CASE L[m].kind # "mouse_release"
    <3>1. Opened(d, L, k)
      BY <2>5 DEF Opened
    <3> QED
      BY <1>4, <2>4, <2>5, <2>7, <3>1, Quiet
  <2> QED
    BY <2>6, <2>7
<1>10. CASE Answer(r, ev) # "missing" /\ ev.kind = "mouse_double"
  <2> DEFINE e == Conclude(r)
  <2>1. /\ Core(e, L, h) /\ Ended(r, e) /\ e.pending = <<>>
    BY <1>1, <1>5, ConcludeEnds
  <2> DEFINE on == Target(ev)
             kind == "double_click"
             S == {m}
  <2>1a. m \in S /\ \A n \in S : n = m
    OBVIOUS
  <2>2. d = Record(e, Step(kind, on, S))
    BY <1>7, <1>10
  <2>3. kind \in StepKinds /\ on \in Controls /\ L[m].kind # "mouse_release"
    BY <1>1, <1>10 DEF StepKinds, Target
  <2> HIDE DEF e, on, kind, ev, S
  <2>4. /\ Core(d, L, k) /\ m \in Kept(d) /\ Kept(e) \subseteq Kept(d)
        /\ d.rec.drops = e.rec.drops /\ d.failed = e.failed /\ SameRuns(e, d) /\ SameClocks(e, d)
    BY <1>4, <2>1, <2>1a, <2>2, <2>3, NewStep
  <2>5. /\ Kept(r) \subseteq Kept(d) /\ m \in Kept(d) /\ r.failed \subseteq d.failed /\ d.pending = <<>>
        /\ d.group = r.group /\ d.menuAt = <<>> /\ d.itemAt = r.itemAt /\ d.rec.drops = r.rec.drops
    BY <1>6, <2>1, <2>4 DEF Ended, SameRuns, SameClocks
  <2>6. Opened(d, L, k)
    BY <2>5 DEF Opened
  <2> QED
    BY <1>4, <2>3, <2>4, <2>5, <2>6, Quiet
<1>11. CASE Answer(r, ev) # "missing" /\ ev.kind = "mouse_press"
  <2> DEFINE e == Conclude(r)
  <2>1. /\ Core(e, L, h) /\ Ended(r, e) /\ e.pending = <<>>
    BY <1>1, <1>5, ConcludeEnds
  <2>2. d = [e EXCEPT !.pending = <<ev>>]
    BY <1>7, <1>11
  <2>2a. L[m].kind = "mouse_press" /\ Kind[L[m].on] # "menu" /\ d = [e EXCEPT !.pending = <<L[m]>>]
    BY <1>11, <2>2
  <2>2b. L[m].n = m
    BY <1>1
  <2> HIDE DEF e, ev
  <2>3. /\ Core(d, L, m) /\ Kept(d) = Kept(e) /\ Pending(d) = {m}
        /\ d.rec = e.rec /\ d.failed = e.failed /\ d.pending = <<L[m]>> /\ SameClocks(e, d)
    <3>1. LET x == [e EXCEPT !.pending = <<L[m]>>]
          IN  /\ Core(x, L, m) /\ Kept(x) = Kept(e) /\ Pending(x) = {m}
              /\ x.rec = e.rec /\ x.failed = e.failed /\ x.pending = <<L[m]>> /\ SameClocks(e, x)
      BY <1>1, <1>2, <2>1, <2>2a, PressCore
    <3> QED
      BY <2>2a, <3>1
  <2>4. /\ Kept(r) \subseteq Kept(d) /\ r.failed \subseteq d.failed
        /\ d.group = r.group /\ d.menuAt = <<>> /\ d.itemAt = r.itemAt /\ d.rec.drops = r.rec.drops
    BY <1>6, <2>1, <2>3 DEF Ended, SameClocks
  <2>5. d.pending[1].n = m
    BY <2>2b, <2>3
  <2>6. Expects(d, L, k)
    BY <1>2, <2>4, <2>5 DEF Expects
  <2>7. Opened(d, L, k)
    BY <2>4 DEF Opened
  <2>8. Chosen(d, L, k)
    <3>1. 1..h \subseteq 1..k /\ \A item \in 1..h : item < m
      BY <1>1
    <3> QED
      BY <1>5, <2>4, <2>5, <3>1 DEF Edge, Chosen
  <2>9. Latest(d, k)
    <3> DEFINE drops == r.rec.drops
    <3> SUFFICES ASSUME drops # <<>>
                 PROVE  drops[Len(drops)].of # k
      BY <2>4 DEF Latest
    <3>1. drops \in Seq(GapRecs)
      BY <1>3 DEF Captures
    <3>2. Len(drops) \in DOMAIN drops
      BY <3>1, EmptySeq
    <3>3. drops[Len(drops)].of \in r.failed
      BY <3>2, <1>5 DEF Core, Gapped
    <3>4. drops[Len(drops)].of \in 1..h
      BY <3>3, <1>5 DEF Core
    <3> QED
      BY <1>1, <3>4
  <2>10. Edge(d, L, k)
    BY <2>6, <2>7, <2>8, <2>9 DEF Edge
  <2>11. \A n \in Pending(r) : Found(Kept(d), L, n)
    <3>1. CASE r.pending = <<>>
      BY <3>1 DEF Pending
    <3>2. CASE r.pending # <<>>
      <4>1. Lost(r.failed, L, r.pending[1].n)
        BY <1>4, <2>2a, <3>2, Settled
      <4>2. r.failed \subseteq Kept(d)
        BY <2>4 DEF Kept
      <4> QED
        BY <1>1, <1>5, <3>2, <4>1, <4>2, LostIsFound
    <3> QED
      BY <3>1, <3>2
  <2>12. m \in Pending(d)
    BY <2>3
  <2>13. Kind[L[m].on] # "menu"
    BY <2>2a
  <2> QED
    BY <1>2, <2>3, <2>4, <2>10, <2>11, <2>12, <2>13 DEF Handled
<1>12. CASE Answer(r, ev) # "missing" /\ ev.kind = "mouse_release"
  <2>1. CASE r.pending = <<>>
    <3>1. d = r
      BY <1>7, <1>12, <2>1
    <3>2. Core(d, L, k)
      BY <1>1, <1>5, <3>1, LaterCore
    <3> QED
      BY <1>4, <1>12, <2>1, <3>1, <3>2, Loud
  <2>2. CASE r.pending # <<>>
    <3>1. d = Release([r EXCEPT !.pending = <<>>], r.pending[1], ev)
      BY <1>7, <1>12, <2>2
    <3>2. /\ Core(d, L, k) /\ Kept(r) \cup {r.pending[1].n} \subseteq Kept(d) /\ r.failed \subseteq d.failed
          /\ d.rec.drops = r.rec.drops /\ d.pending = <<>> /\ SameClocks(r, d)
      <4>1. LET x == Release([r EXCEPT !.pending = <<>>], r.pending[1], L[m])
            IN  /\ Core(x, L, k) /\ Kept(r) \cup {r.pending[1].n} \subseteq Kept(x) /\ r.failed \subseteq x.failed
                /\ x.rec.drops = r.rec.drops /\ x.pending = <<>> /\ SameClocks(r, x)
        BY <1>4, <1>12, <2>2, ReleaseCore
      <4> QED
        BY <3>1, <4>1
    <3>3. Pending(r) \subseteq Kept(d) /\ Kept(r) \subseteq Kept(d) /\ d.group = r.group /\ d.itemAt = r.itemAt
      BY <2>2, <3>2 DEF Pending, SameClocks
    <3> QED
      BY <1>4, <1>12, <3>2, <3>3, Loud
  <2> QED
    BY <2>1, <2>2
<1>13. ev.kind \in {"mouse_press", "mouse_release", "mouse_double"}
  BY DEF MouseKinds
<1> QED
  BY <1>9, <1>10, <1>11, <1>12, <1>13

-----------------------------------------------------------------------------
(* Rows, choices and menus.                                                 *)

\* Something that happens and is a line.
LEMMA NewDrop ==
  ASSUME NEW b, NEW L, NEW h, NEW m, NEW k, Ready(b, L, h, m, k), L[m].kind # "mouse_release",
         NEW c, Core(c, L, h), NEW reason \in Reasons \cup Deliberate
  PROVE  LET d == Drop(c, L[m], reason)
         IN  /\ Core(d, L, k) /\ Latest(d, k) /\ m \in Kept(d) /\ Kept(c) \subseteq Kept(d)
             /\ c.failed \subseteq d.failed /\ SameRuns(c, d) /\ SameClocks(c, d)
<1>1. Lived(L) /\ h \in Nat /\ m \in Nat /\ k \in Nat /\ h < m /\ m <= k /\ k <= Len(L)
  BY ReadyFacts
<1>2. LET d == Drop(c, L[m], reason)
      IN  /\ Core(d, L, k) /\ Latest(d, k)
          /\ d.failed = c.failed \cup {m} /\ SameRuns(c, d) /\ SameClocks(c, d)
          /\ Kept(d) = Kept(c) \cup {m} /\ Told(d) = Told(c)
  BY <1>1, DropCore
<1> QED
  BY <1>2

\* Something that happens and begins or continues a run.
LEMMA NewRun ==
  ASSUME NEW b, NEW L, NEW h, NEW m, NEW k, Ready(b, L, h, m, k), L[m].kind # "mouse_release",
         NEW c, Core(c, L, h), c.pending = <<>> \/ L[m].kind # "mouse_press",
         NEW S, m \in S, \A n \in S : n = m,
         NEW selection \in BOOLEAN, NEW fading \in BOOLEAN, selection => c.value = <<>>
  PROVE  LET d == BeginValue(c, L[m], S, selection, fading)
         IN  /\ Core(d, L, k) /\ m \in Kept(d) /\ Kept(c) \subseteq Kept(d)
             /\ c.failed \subseteq d.failed /\ d.rec.drops = c.rec.drops
             /\ d.pending = c.pending /\ SameClocks(c, d)
<1> DEFINE ev == L[m]
<1>1. /\ Lived(L) /\ h \in Nat /\ m \in Nat /\ k \in Nat /\ h < m /\ m <= k /\ k <= Len(L) /\ h <= k
      /\ ev \in EventRecs
  BY ReadyFacts
<1>2. Fits(c, L, {m}, k)
  BY <1>1, FreshFits
<1>3. Fits(c, L, S, k)
  <2>1. S = {m}
    OBVIOUS
  <2> QED
    BY <1>2, <2>1
<1> DEFINE sel == selection
           fad == fading
<1>4. /\ sel \in BOOLEAN /\ fad \in BOOLEAN
      /\ c.value = <<>> \/ \A n \in S : L[n].kind # "mouse_release"
      /\ sel => c.value = <<>> /\ \A n \in S : L[n].kind # "mouse_release"
  OBVIOUS
<1> DEFINE d == BeginValue(c, ev, S, sel, fad)
<1> HIDE DEF ev, sel, fad
<1>5. /\ Core(d, L, k) /\ Kept(c) \cup S \subseteq Kept(d) /\ c.failed \subseteq d.failed
      /\ d.rec.drops = c.rec.drops /\ d.pending = c.pending /\ SameClocks(c, d)
  <2>1. Lived(L) /\ h \in Nat /\ k \in Nat /\ h <= k /\ ev \in EventRecs
    BY <1>1 DEF ev
  <2> QED
    BY <2>1, <1>3, <1>4, BeginValueCore
<1> HIDE DEF d
<1> QED
  BY <1>5 DEF d, ev, sel, fad

\* The step that a press ends, at the moment an item is pressed.
Choosing(c, t) == [Conclude(c) EXCEPT !.itemAt = <<t>>]

LEMMA ItemPressed ==
  ASSUME NEW L, Lived(L), NEW h \in Nat, NEW c, Core(c, L, h), NEW t \in Nat
  PROVE  LET d == Choosing(c, t)
         IN  /\ Core(d, L, h) /\ Kept(c) \subseteq Kept(d) /\ c.failed \subseteq d.failed
             /\ d.rec.drops = c.rec.drops /\ d.pending = <<>> /\ d.value = <<>> /\ d.typing = <<>>
             /\ d.itemAt = <<t>> /\ d.menuAt = c.menuAt /\ d.menuOn = c.menuOn /\ d.group = c.group
<1> DEFINE e == Conclude(c)
           d == [e EXCEPT !.itemAt = <<t>>]
<1>1. /\ Core(e, L, h) /\ Ended(c, e) /\ e.pending = <<>> /\ e.value = <<>> /\ e.typing = <<>>
  BY ConcludeEnds
<1> HIDE DEF e
<1>2. e \in Captures
  BY <1>1 DEF Core
<1>3. /\ d \in Captures /\ SameLedger(e, d) /\ d.itemAt = <<t>> /\ d.menuAt = e.menuAt
      /\ d.menuOn = e.menuOn /\ d.group = e.group
  <2>1. <<t>> \in Maybe(Nat)
    BY One
  <2> QED
    BY <1>2, <2>1 DEF Captures, SameLedger, SameRuns
<1> HIDE DEF d
<1>4. Core(d, L, h) /\ Kept(d) = Kept(e)
  BY <1>1, <1>3, SameCore
<1> QED
  BY <1>1, <1>3, <1>4 DEF Ended, SameClocks, SameLedger, SameRuns, Choosing, d, e

LEMMA RowHandled ==
  ASSUME NEW c, NEW L, NEW h, NEW m, NEW k, Ready(c, L, h, m, k), L[m].kind \in MouseKinds,
         L[m].kind # "mouse_release", c.menuAt = <<>>,
         Kind[L[m].on] \in {"row", "row_ambiguous", "row_selected", "row_lost"}
  PROVE  Handled(c, HandleRow(c, L[m]), L, m, k)
<1> DEFINE ev == L[m]
           r == Resolve(c, ev)
           d == HandleRow(c, ev)
           kind == IF ev.kind = "mouse_double" THEN "double_click" ELSE "click"
           t == ev.t
           pressed == Choosing(r, t)
           let == [r EXCEPT !.itemAt = <<>>]
           S == {m}
           fading == Answer(pressed, ev) = "fading"
           selection == TRUE
           reason == "no_item"
           on == ev.on
<1>1. /\ Lived(L) /\ h \in Nat /\ m \in Nat /\ k \in Nat
      /\ Core(c, L, h) /\ c \in Captures
      /\ m \in 1..Len(L) /\ ev \in EventRecs /\ ev.n = m
      /\ on \in Controls /\ t \in Nat /\ Owner[ev.on] \in Controls
  BY ReadyFacts
<1>2. /\ m \in S /\ \A n \in S : n = m
      /\ kind \in StepKinds /\ fading \in BOOLEAN /\ selection \in BOOLEAN
      /\ reason \in Reasons \cup Deliberate
  BY DEF StepKinds, Reasons
<1>3. r \in Captures /\ SameLedger(c, r) /\ SameMoments(c, r)
  <2> HIDE DEF ev
  <2> QED
    BY <1>1, ResolveSame
<1>4. Kind[on] # "menu" /\ (Kind[on] \in {"row", "row_selected"} => Kind[on] \in ItemKinds)
  BY DEF ItemKinds
<1>5. /\ Answer(r, ev) = "missing" => d = HandleOrdinary(r, ev)
      /\ Answer(r, ev) # "missing" /\ Kind[on] = "row" => d = Record(pressed, Step(kind, on, S))
      /\ Answer(r, ev) # "missing" /\ Kind[on] = "row_ambiguous" => d = Drop(let, L[m], reason)
      /\ Answer(r, ev) \in {"found", "fading"} /\ Kind[on] = "row_selected" =>
           d = BeginValue(pressed, L[m], S, selection, fading)
      /\ Answer(r, ev) # "missing" /\ Kind[on] # "row" /\ Kind[on] # "row_ambiguous"
           /\ ~(Answer(r, ev) \in {"found", "fading"} /\ Kind[on] = "row_selected") =>
           d = Drop(r, L[m], reason)
  BY <1>1 DEF HandleRow, RecordSelection, Choosing
<1> HIDE DEF r, d
<1>6. /\ Ready(r, L, h, m, k) /\ Kept(r) = Kept(c)
      /\ \A e : Handled(r, e, L, m, k) => Handled(c, e, L, m, k)
  BY <1>3, ReadyStill DEF SameMoments
<1>7. Core(r, L, h) /\ r.menuAt = <<>>
  BY <1>3, <1>6 DEF Ready, SameMoments
<1>8. /\ Core(pressed, L, h) /\ Kept(r) \subseteq Kept(pressed) /\ r.failed \subseteq pressed.failed
      /\ pressed.rec.drops = r.rec.drops /\ pressed.pending = <<>> /\ pressed.value = <<>>
      /\ pressed.itemAt = <<t>> /\ pressed.menuAt = r.menuAt /\ pressed.group = r.group
  <2>1. Lived(L) /\ h \in Nat /\ t \in Nat /\ Core(r, L, h)
    BY <1>1, <1>7
  <2> HIDE DEF t, pressed
  <2>2. pressed = Choosing(r, t)
    BY DEF pressed
  <2> QED
    BY <2>1, <2>2, ItemPressed
<1>9. let \in Captures /\ SameLedger(r, let) /\ let.itemAt = <<>> /\ let.menuAt = <<>> /\ let.group = r.group
  <2>1. <<>> \in Maybe(Nat)
    BY One
  <2> QED
    BY <1>3, <1>7, <2>1 DEF Captures, SameLedger, SameRuns
<1> HIDE DEF pressed, let, kind, S, fading, selection, reason, on, t
<1>10. Core(let, L, h) /\ Kept(let) = Kept(r)
  BY <1>1, <1>7, <1>9, SameCore
<1>11. SUFFICES Handled(r, d, L, m, k)
  BY <1>6 DEF d
<1>12. CASE Answer(r, ev) = "missing"
  <2>1. Handled(r, HandleOrdinary(r, L[m]), L, m, k)
    BY <1>4, <1>6, <1>7, OrdinaryHandled DEF on
  <2> QED
    BY <1>5, <1>12, <2>1
<1>13. CASE Answer(r, ev) # "missing" /\ Kind[on] = "row"
  <2>1. /\ Core(d, L, k) /\ m \in Kept(d) /\ Kept(pressed) \subseteq Kept(d)
        /\ d.rec.drops = pressed.rec.drops /\ d.failed = pressed.failed
        /\ SameRuns(pressed, d) /\ SameClocks(pressed, d)
    <3>1. d = Record(pressed, Step(kind, on, S))
      BY <1>5, <1>13
    <3>2. Ready(r, L, h, m, k) /\ Core(pressed, L, h) /\ pressed.pending = <<>>
          /\ kind \in StepKinds /\ on \in Controls /\ m \in S /\ \A n \in S : n = m
      BY <1>1, <1>2, <1>6, <1>8
    <3> QED
      BY <3>1, <3>2, NewStep
  <2>2. /\ Kept(r) \subseteq Kept(d) /\ r.failed \subseteq d.failed /\ d.group = r.group
        /\ d.pending = <<>> /\ d.itemAt = <<L[m].t>> /\ d.menuAt = <<>> /\ d.rec.drops = r.rec.drops
    BY <1>7, <1>8, <2>1 DEF SameRuns, SameClocks, t
  <2>3. Opened(d, L, k) /\ Kind[L[m].on] \in ItemKinds
    BY <1>4, <1>13, <2>2 DEF Opened, on
  <2> QED
    BY <1>6, <2>1, <2>2, <2>3, Quiet
<1>14. CASE Answer(r, ev) # "missing" /\ Kind[on] = "row_ambiguous"
  <2>1. /\ Core(d, L, k) /\ Latest(d, k) /\ m \in Kept(d) /\ Kept(let) \subseteq Kept(d)
        /\ let.failed \subseteq d.failed /\ SameRuns(let, d) /\ SameClocks(let, d)
    BY <1>2, <1>5, <1>6, <1>10, <1>14, NewDrop
  <2>2. /\ Kept(r) \subseteq Kept(d) /\ r.failed \subseteq d.failed /\ d.group = r.group
        /\ d.pending = r.pending /\ d.itemAt = <<>> /\ d.menuAt = <<>>
    BY <1>9, <1>10, <2>1 DEF SameRuns, SameClocks, SameLedger
  <2>3. Opened(d, L, k)
    BY <2>2 DEF Opened
  <2> QED
    BY <1>6, <2>1, <2>2, <2>3, Quiet
<1>15. CASE Answer(r, ev) \in {"found", "fading"} /\ Kind[on] = "row_selected"
  <2>1. /\ Core(d, L, k) /\ m \in Kept(d) /\ Kept(pressed) \subseteq Kept(d)
        /\ pressed.failed \subseteq d.failed /\ d.rec.drops = pressed.rec.drops
        /\ d.pending = pressed.pending /\ SameClocks(pressed, d)
    BY <1>2, <1>5, <1>6, <1>8, <1>15, NewRun
  <2>2. /\ Kept(r) \subseteq Kept(d) /\ r.failed \subseteq d.failed /\ d.group = r.group
        /\ d.pending = <<>> /\ d.itemAt = <<L[m].t>> /\ d.menuAt = <<>> /\ d.rec.drops = r.rec.drops
    BY <1>7, <1>8, <2>1 DEF SameClocks, t
  <2>3. Opened(d, L, k) /\ Kind[L[m].on] \in ItemKinds
    BY <1>4, <1>15, <2>2 DEF Opened, on
  <2> QED
    BY <1>6, <2>1, <2>2, <2>3, Quiet
<1>16. CASE /\ Answer(r, ev) # "missing" /\ Kind[on] # "row" /\ Kind[on] # "row_ambiguous"
            /\ ~(Answer(r, ev) \in {"found", "fading"} /\ Kind[on] = "row_selected")
  <2>1. /\ Core(d, L, k) /\ Latest(d, k) /\ m \in Kept(d) /\ Kept(r) \subseteq Kept(d)
        /\ r.failed \subseteq d.failed /\ SameRuns(r, d) /\ SameClocks(r, d)
    BY <1>2, <1>5, <1>6, <1>7, <1>16, NewDrop
  <2>2. d.group = r.group /\ d.pending = r.pending /\ d.itemAt = r.itemAt /\ d.menuAt = <<>>
    BY <1>7, <2>1 DEF SameRuns, SameClocks
  <2>3. Opened(d, L, k)
    BY <2>2 DEF Opened
  <2> QED
    BY <1>6, <2>1, <2>2, <2>3, Quiet
<1> QED
  BY <1>12, <1>13, <1>14, <1>15, <1>16

LEMMA ComboHandled ==
  ASSUME NEW c, NEW L, NEW h, NEW m, NEW k, Ready(c, L, h, m, k), L[m].kind \in MouseKinds,
         L[m].kind # "mouse_release", c.menuAt = <<>>,
         Kind[L[m].on] \in {"popup", "popup_unread"}
  PROVE  Handled(c, HandleCombo(c, L[m]), L, m, k)
<1> DEFINE ev == L[m]
           d == HandleCombo(c, ev)
           r == [c EXCEPT !.itemAt = <<>>]
           t == ev.t
           on == Target(ev)
           ended == Choosing(r, t)
           X == ClickToDrop(ended, on)
           chosen == DropClickOn(ended, on)
           of == {m} \cup X
           fading == ev.answer = "fading"
           selection == FALSE
           reason == "no_combo"
           kind == "select"
<1>1. /\ Lived(L) /\ h \in Nat /\ m \in Nat /\ k \in Nat /\ h < m /\ m <= k /\ k <= Len(L) /\ h <= k
      /\ Core(c, L, h) /\ c \in Captures
      /\ ev \in EventRecs /\ ev.n = m
      /\ on \in Controls /\ t \in Nat
  BY ReadyFacts DEF Target
<1>2. /\ fading \in BOOLEAN /\ selection \in BOOLEAN /\ ~selection
      /\ reason \in Reasons \cup Deliberate /\ kind \in StepKinds
      /\ on \in Controls \cup {NoControl} /\ kind # "click"
  BY <1>1 DEF Reasons, StepKinds
<1>3. /\ ev.answer \in {"reported", "missing"} => d = Drop(r, L[m], reason)
      /\ ev.answer \in {"found", "fading"} /\ Kind[ev.on] = "popup" =>
           d = Record(chosen, Step(kind, on, of))
      /\ ~(ev.answer \in {"reported", "missing"}) /\ ~(ev.answer \in {"found", "fading"} /\ Kind[ev.on] = "popup") =>
           d = BeginValue(chosen, ev, of, selection, fading)
  BY <1>1 DEF HandleCombo, Choosing
<1>4. r \in Captures /\ SameLedger(c, r) /\ r.group = c.group /\ r.menuAt = <<>> /\ r.menuOn = c.menuOn /\ r.itemAt = <<>>
  <2>1. <<>> \in Maybe(Nat)
    BY One
  <2> QED
    BY <1>1, <2>1 DEF Captures, SameLedger, SameRuns
<1>5. Kind[ev.on] \in ItemKinds
  BY DEF ItemKinds
<1> HIDE DEF d, r
<1>6. /\ Ready(r, L, h, m, k) /\ Kept(r) = Kept(c)
      /\ \A e : Handled(r, e, L, m, k) => Handled(c, e, L, m, k)
  BY <1>4, ReadyStill
<1>7. Core(r, L, h)
  BY <1>6 DEF Ready
<1>8. SUFFICES Handled(r, d, L, m, k)
  BY <1>6 DEF d
<1>9. CASE ev.answer \in {"reported", "missing"}
  <2> HIDE DEF reason
  <2>1. /\ Core(d, L, k) /\ Latest(d, k) /\ m \in Kept(d) /\ Kept(r) \subseteq Kept(d)
        /\ r.failed \subseteq d.failed /\ SameRuns(r, d) /\ SameClocks(r, d)
    BY <1>2, <1>3, <1>6, <1>7, <1>9, NewDrop
  <2>2. d.group = r.group /\ d.pending = r.pending /\ d.itemAt = r.itemAt /\ d.menuAt = <<>>
    BY <1>4, <2>1 DEF SameRuns, SameClocks
  <2>3. Opened(d, L, k)
    BY <2>2 DEF Opened
  <2> QED
    BY <1>6, <2>1, <2>2, <2>3, Quiet
<1>10. CASE ~(ev.answer \in {"reported", "missing"})
  <2>1. /\ Core(ended, L, h) /\ Kept(r) \subseteq Kept(ended) /\ r.failed \subseteq ended.failed
        /\ ended.rec.drops = r.rec.drops /\ ended.pending = <<>> /\ ended.value = <<>> /\ ended.typing = <<>>
        /\ ended.itemAt = <<t>> /\ ended.menuAt = r.menuAt /\ ended.group = r.group
    <3>1. Lived(L) /\ h \in Nat /\ t \in Nat
      BY <1>1
    <3> HIDE DEF t, ended
    <3>2. ended = Choosing(r, t)
      BY DEF ended
    <3> QED
      BY <3>1, <3>2, <1>7, ItemPressed
  <2> HIDE DEF ended, on, X, chosen
  <2>2. /\ Core(chosen, L, h) /\ Fits(chosen, L, X, h) /\ Kept(ended) = Kept(chosen) \cup X
        /\ chosen.rec.drops = ended.rec.drops /\ chosen.failed = ended.failed
        /\ SameRuns(ended, chosen) /\ SameClocks(ended, chosen)
    BY <1>1, <2>1, TakenBack DEF X, chosen
  <2>3. chosen.pending = <<>> /\ chosen.value = <<>>
    BY <2>1, <2>2 DEF SameRuns
  <2>4. Fits(chosen, L, of, k)
    BY <1>1, <2>2, <2>3, BothFit
  <2>5. m \in of /\ X \subseteq of
    OBVIOUS
  <2> HIDE DEF of, kind, fading, selection
  <2>6. /\ Core(d, L, k) /\ Kept(chosen) \cup of \subseteq Kept(d) /\ chosen.failed \subseteq d.failed
        /\ d.rec.drops = chosen.rec.drops /\ d.pending = chosen.pending /\ SameClocks(chosen, d)
    <3>1. CASE ev.answer \in {"found", "fading"} /\ Kind[ev.on] = "popup"
      <4>1. d = Record(chosen, Step(kind, on, of))
        BY <1>3, <3>1
      <4> HIDE DEF ev
      <4>2. /\ Core(d, L, k) /\ d.rec.drops = chosen.rec.drops /\ d.failed = chosen.failed
            /\ SameRuns(chosen, d) /\ SameClocks(chosen, d) /\ Told(d) = Told(chosen) \cup of
        BY <1>1, <1>2, <2>2, <2>4, <4>1, RecordCore
      <4> QED
        BY <4>2 DEF Kept, SameRuns, Typing, Value
    <3>2. CASE ~(ev.answer \in {"found", "fading"} /\ Kind[ev.on] = "popup")
      <4>1. d = BeginValue(chosen, ev, of, selection, fading)
        BY <1>3, <1>10, <3>2
      <4>2. Lived(L) /\ h \in Nat /\ k \in Nat /\ h <= k /\ ev \in EventRecs
        BY <1>1
      <4> HIDE DEF ev
      <4> QED
        BY <1>2, <2>2, <2>3, <2>4, <4>1, <4>2, BeginValueCore
    <3> QED
      BY <3>1, <3>2
  <2>7. /\ Kept(r) \subseteq Kept(d) /\ m \in Kept(d) /\ r.failed \subseteq d.failed /\ d.group = r.group
        /\ d.pending = <<>> /\ d.itemAt = <<L[m].t>> /\ d.menuAt = <<>> /\ d.rec.drops = r.rec.drops
    BY <1>4, <2>1, <2>2, <2>3, <2>5, <2>6 DEF SameClocks
  <2>8. Opened(d, L, k)
    BY <2>7 DEF Opened
  <2> QED
    BY <1>5, <1>6, <2>6, <2>7, <2>8, Quiet
<1> QED
  BY <1>9, <1>10

\* The release of a press on an item is no step: the selection is read.
LEMMA ItemReleaseHandled ==
  ASSUME NEW c, NEW L, NEW h, NEW m, NEW k, Ready(c, L, h, m, k),
         L[m].kind = "mouse_release", c.menuAt = <<>>, Within(L[m].t, c.itemAt, ClickMs)
  PROVE  Handled(c, FlushValue(c), L, m, k)
<1> DEFINE d == FlushValue(c)
<1>1. /\ Lived(L) /\ h \in Nat /\ m \in Nat /\ k \in Nat /\ h < m /\ m <= k /\ k <= Len(L) /\ h <= k
      /\ Core(c, L, h) /\ m \in 1..Len(L) /\ Len(L) \in Nat /\ L \in Seq(EventRecs)
  BY ReadyFacts DEF Lived
<1>2. m = h + 1 /\ Edge(c, L, h)
  BY DEF Ready, MouseKinds
<1>3. Core(d, L, h) /\ Ended(c, d) /\ d.pending = c.pending
  BY <1>1, FlushValueEnds
<1>4. Core(d, L, k)
  BY <1>1, <1>3, LaterCore
<1>5. ASSUME c.pending # <<>>
      PROVE  Lost(d.failed, L, c.pending[1].n)
  <2> DEFINE n == c.pending[1].n
  <2>1. Lost(c.failed, L, n) \/ n = h
    BY <1>2, <1>5 DEF Edge, Expects
  <2>2. CASE Lost(c.failed, L, n)
    BY <2>2, <1>3 DEF Lost, Ended
  <2>3. CASE n = h
    <3>1. PICK item \in 1..h : /\ L[item].t = c.itemAt[1]
                               /\ Kind[L[item].on] \in ItemKinds
                               /\ item < n
      BY <1>2, <1>5 DEF Edge, Chosen, Within
    <3>2. L[m].t - L[item].t <= ClickMs
      BY <3>1 DEF Within
    <3>3. item \in DOMAIN L /\ n + 1 = m /\ m \in DOMAIN L
      BY <1>1, <1>2, <2>3
    <3> HIDE DEF n
    <3>4. Shadow(L, n)
      BY <3>1, <3>2, <3>3 DEF Shadow
    <3> QED
      BY <3>4 DEF Lost, n
  <2> QED
    BY <2>1, <2>2, <2>3
<1> HIDE DEF d
<1>6. Handled(c, d, L, m, k)
  BY <1>3, <1>4, <1>5, Loud DEF Ended, SameClocks
<1> QED
  BY <1>6 DEF d

LEMMA ItemHandled ==
  ASSUME NEW c, NEW L, NEW h, NEW m, NEW k, Ready(c, L, h, m, k), L[m].kind \in MouseKinds,
         c.menuAt = <<>>, L[m].kind # "mouse_release" => Kind[L[m].on] # "menu"
  PROVE  Handled(c, HandleItem(c, L[m]), L, m, k)
<1> DEFINE ev == L[m]
           popup == Kind[ev.on] \in {"popup", "popup_unread"}
           row == Kind[ev.on] \in {"row", "row_ambiguous", "row_selected", "row_lost"}
           within == Within(ev.t, c.itemAt, ClickMs)
<1>1. CASE ev.kind = "mouse_release" /\ within
  <2>1. HandleItem(c, ev) = FlushValue(c)
    BY <1>1 DEF HandleItem
  <2> QED
    BY <1>1, <2>1, ItemReleaseHandled
<1>2. CASE ev.kind # "mouse_release" /\ popup
  <2>1. HandleItem(c, ev) = HandleCombo(c, ev)
    BY <1>2 DEF HandleItem
  <2>2. Handled(c, HandleCombo(c, L[m]), L, m, k)
    BY <1>2, ComboHandled
  <2> QED
    BY <2>1, <2>2
<1>3. CASE ev.kind # "mouse_release" /\ row
  <2>1. HandleItem(c, ev) = HandleRow(c, ev)
    BY <1>3 DEF HandleItem
  <2>2. Handled(c, HandleRow(c, L[m]), L, m, k)
    BY <1>3, RowHandled
  <2> QED
    BY <2>1, <2>2
<1>4. CASE ~(ev.kind = "mouse_release" /\ within) /\ ~(ev.kind # "mouse_release" /\ popup)
           /\ ~(ev.kind # "mouse_release" /\ row)
  <2>1. HandleItem(c, ev) = HandleOrdinary(c, ev)
    BY <1>4 DEF HandleItem
  <2>2. Handled(c, HandleOrdinary(c, L[m]), L, m, k)
    BY OrdinaryHandled
  <2> QED
    BY <2>1, <2>2
<1> QED
  BY <1>1, <1>2, <1>3, <1>4

\* The step that a press ends, at the moment an entry of a menu is pressed.
Opening(c, t, on) == [Conclude(c) EXCEPT !.menuAt = <<t>>, !.menuOn = on]

LEMMA MenuPressed ==
  ASSUME NEW L, Lived(L), NEW h \in Nat, NEW c, Core(c, L, h), NEW t \in Nat, NEW on \in Controls
  PROVE  LET d == Opening(c, t, on)
         IN  /\ Core(d, L, h) /\ Kept(c) \subseteq Kept(d) /\ c.failed \subseteq d.failed
             /\ d.rec.drops = c.rec.drops /\ d.pending = <<>>
             /\ d.itemAt = c.itemAt /\ d.menuOn = on /\ d.group = c.group
<1> DEFINE e == Conclude(c)
           d == [e EXCEPT !.menuAt = <<t>>, !.menuOn = on]
<1>1. /\ Core(e, L, h) /\ Ended(c, e) /\ e.pending = <<>>
  BY ConcludeEnds
<1> HIDE DEF e
<1>2. e \in Captures
  BY <1>1 DEF Core
<1>3. /\ d \in Captures /\ SameLedger(e, d) /\ d.itemAt = e.itemAt
      /\ d.menuOn = on /\ d.group = e.group
  <2>1. <<t>> \in Maybe(Nat)
    BY One
  <2> QED
    BY <1>2, <2>1 DEF Captures, SameLedger, SameRuns
<1> HIDE DEF d
<1>4. Core(d, L, h) /\ Kept(d) = Kept(e)
  BY <1>1, <1>3, SameCore
<1> QED
  BY <1>1, <1>3, <1>4 DEF Ended, SameClocks, SameLedger, SameRuns, Opening, d, e

LEMMA MenuPressHandled ==
  ASSUME NEW c, NEW L, NEW h, NEW m, NEW k, Ready(c, L, h, m, k), L[m].kind \in MouseKinds,
         L[m].kind # "mouse_release", c.menuAt = <<>>, Kind[L[m].on] = "menu"
  PROVE  Handled(c, HandleMenuPress(c, L[m]), L, m, k)
<1> DEFINE ev == L[m]
           d == HandleMenuPress(c, ev)
           t == ev.t
           on == ev.on
           S == {m}
           reason == "not_found"
           kind == "click"
           again == ev.kind = "mouse_double" /\ on = c.menuOn
           open == Opening(c, t, on)
<1>1. /\ Lived(L) /\ h \in Nat /\ m \in Nat /\ k \in Nat /\ h < m /\ m <= k /\ k <= Len(L)
      /\ Core(c, L, h) /\ c \in Captures /\ Len(L) \in Nat
      /\ m \in 1..Len(L) /\ ev \in EventRecs /\ ev.n = m
      /\ on \in Controls /\ t \in Nat
      /\ L[k].kind = L[m].kind
  BY ReadyFacts
<1>2. m = h + 1 /\ k = m
  BY DEF Ready
<1>3. /\ m \in S /\ \A n \in S : n = m
      /\ reason \in Reasons \cup Deliberate /\ kind \in StepKinds
  BY DEF Reasons, StepKinds
<1>4. /\ ~MenuItem(ev) => d = Drop(c, ev, reason)
      /\ MenuItem(ev) /\ again => d = [c EXCEPT !.menuAt = <<t>>]
      /\ MenuItem(ev) /\ ~again => d = Record(open, Step(kind, on, S))
  BY <1>1 DEF HandleMenuPress, Opening
<1> HIDE DEF d, S, reason, kind
<1>5. CASE ~MenuItem(ev)
  <2>1. /\ Core(d, L, k) /\ Latest(d, k) /\ m \in Kept(d) /\ Kept(c) \subseteq Kept(d)
        /\ c.failed \subseteq d.failed /\ SameRuns(c, d) /\ SameClocks(c, d)
    BY <1>1, <1>3, <1>4, <1>5, NewDrop
  <2>2. d.group = c.group /\ d.pending = c.pending /\ d.itemAt = c.itemAt /\ d.menuAt = <<>>
    BY <2>1 DEF SameRuns, SameClocks
  <2>3. Opened(d, L, k)
    BY <2>2 DEF Opened
  <2> QED
    BY <2>1, <2>2, <2>3, Quiet DEF d
<1>6. CASE MenuItem(ev) /\ again
  <2>1. d = [c EXCEPT !.menuAt = <<t>>]
    BY <1>4, <1>6
  <2>2. <<t>> \in Maybe(Nat)
    BY <1>1, One
  <2>3. d \in Captures /\ SameLedger(c, d) /\ d.group = c.group /\ d.itemAt = c.itemAt
    BY <1>1, <2>1, <2>2 DEF Captures, SameLedger, SameRuns
  <2>4. Core(d, L, h) /\ Kept(d) = Kept(c)
    BY <1>1, <2>3, SameCore
  <2>5. Core(d, L, k)
    BY <1>1, <1>2, <2>4, LaterCore
  <2>6. c.failed \subseteq d.failed /\ d.pending = c.pending /\ d.rec.drops = c.rec.drops
    BY <2>3 DEF SameLedger, SameRuns
  <2>7. L[m].kind = "mouse_double"
    BY <1>6
  <2>8. Opened(d, L, k)
    BY <1>2, <2>7 DEF Opened
  <2>9. Reach(L, m) \cap Kept(d) # {}
    <3>1. m > 2 /\ L[m - 2].kind = "mouse_press" /\ L[m - 2].on = L[m].on
      BY <1>1, <2>7 DEF Lived
    <3>2. m - 2 \in 1..h
      BY <1>1, <1>2, <3>1
    <3>3. m - 2 \in Kept(c)
      BY <3>1, <3>2 DEF Ready, Accounts
    <3>4. m - 2 \in Reach(L, m)
      <4>1. m - 2 \in (m - 2)..(m + 1)
        BY <1>1
      <4> QED
        BY <4>1, <2>7 DEF Reach
    <3> QED
      BY <2>4, <3>3, <3>4
  <2> QED
    BY <2>3, <2>4, <2>5, <2>6, <2>7, <2>8, <2>9, Quiet DEF d
<1>7. CASE MenuItem(ev) /\ ~again
  <2>1. d = Record(open, Step(kind, on, S))
    BY <1>4, <1>7
  <2>2. /\ Core(open, L, h) /\ Kept(c) \subseteq Kept(open) /\ c.failed \subseteq open.failed
        /\ open.rec.drops = c.rec.drops /\ open.pending = <<>>
        /\ open.itemAt = c.itemAt /\ open.menuOn = on /\ open.group = c.group
    <3>1. Lived(L) /\ h \in Nat /\ t \in Nat /\ on \in Controls /\ Core(c, L, h)
      BY <1>1
    <3> HIDE DEF t, on, open
    <3>2. open = Opening(c, t, on)
      BY DEF open
    <3> QED
      BY <3>1, <3>2, MenuPressed, SMTT(30)
  <2> HIDE DEF open, on
  <2>3. kind \in StepKinds /\ on \in Controls
    BY <1>1, <1>3 DEF on
  <2>4. /\ Core(d, L, k) /\ m \in Kept(d) /\ Kept(open) \subseteq Kept(d)
        /\ d.rec.drops = open.rec.drops /\ d.failed = open.failed
        /\ SameRuns(open, d) /\ SameClocks(open, d)
    BY <1>3, <2>1, <2>2, <2>3, NewStep
  <2>5. /\ Kept(c) \subseteq Kept(d) /\ c.failed \subseteq d.failed /\ d.group = c.group
        /\ d.pending = <<>> /\ d.itemAt = c.itemAt /\ d.menuOn = on /\ d.rec.drops = c.rec.drops
    BY <2>2, <2>4 DEF SameRuns, SameClocks
  <2>6. Opened(d, L, k)
    BY <1>2, <2>5 DEF Opened, on
  <2> QED
    BY <2>4, <2>5, <2>6, Quiet DEF d
<1> QED
  BY <1>5, <1>6, <1>7

\* The release that a menu's popup gets.
LEMMA MenuReleaseHandled ==
  ASSUME NEW c, NEW L, NEW h, NEW m, NEW k, Ready(c, L, h, m, k), L[m].kind = "mouse_release",
         c.menuAt # <<>>,
         NEW r \in Captures, SameLedger(c, r), r.group = c.group, r.itemAt = c.itemAt, r.menuOn = c.menuOn
  PROVE  Handled(c, HandleMenuRelease(r, L[m]), L, m, k)
<1> DEFINE ev == L[m]
           d == HandleMenuRelease(r, ev)
           on == ev.on
           S == {m}
           kind == "click"
<1>1. /\ Lived(L) /\ h \in Nat /\ m \in Nat /\ k \in Nat /\ h < m /\ m <= k /\ k <= Len(L) /\ h <= k
      /\ Core(c, L, h) /\ Len(L) \in Nat /\ m \in 1..Len(L) /\ ev.n = m /\ on \in Controls
  BY ReadyFacts
<1>2. m = h + 1 /\ k = m /\ Edge(c, L, h)
  BY DEF Ready, MouseKinds
<1>3. Core(r, L, h) /\ Kept(r) = Kept(c) /\ Claimed(r) = Claimed(c)
  <2>1. h \in Nat /\ Core(c, L, h)
    BY <1>1
  <2> HIDE DEF ev
  <2> QED
    BY <2>1, SameCore
<1>4. r.failed = c.failed /\ r.pending = c.pending /\ r.rec = c.rec
  BY DEF SameLedger, SameRuns
<1>5. c.pending # <<>> => Lost(c.failed, L, c.pending[1].n)
  BY <1>2 DEF Edge, Expects
<1>6. CASE ~(MenuItem(ev) /\ on # r.menuOn)
  <2>1. d = r
    BY <1>6 DEF HandleMenuRelease
  <2> HIDE DEF d
  <2>2. Core(d, L, k)
    BY <1>1, <1>3, <2>1, LaterCore
  <2> QED
    BY <1>3, <1>4, <1>5, <2>1, <2>2, Loud DEF d
<1>7. CASE MenuItem(ev) /\ on # r.menuOn
  <2>1. d = Record(r, Step(kind, on, S))
    BY <1>1, <1>7 DEF HandleMenuRelease
  <2>2. Fits(r, L, S, k)
    <3>1. Claimed(r) \subseteq 1..h
      BY <1>3 DEF Core
    <3>2. m \notin Claimed(r) /\ S \subseteq 1..k
      BY <1>1, <1>2, <3>1
    <3>3. ASSUME NEW p \in S \cup Claimed(r), NEW x \in S \cup Claimed(r), Click(L, p, x),
                 {p, x} \cap S # {}
          PROVE  FALSE
      <4>1. L[p].kind = "mouse_press" /\ x = p + 1 /\ L[p].on = L[x].on /\ p \in 1..Len(L)
        BY <3>3 DEF Click
      <4>2. p # m
        BY <4>1
      <4>3. x = m /\ p \in 1..h
        BY <4>2, <3>1, <3>3
      <4>4. p = h /\ h \in DOMAIN L
        BY <1>1, <1>2, <4>1, <4>3
      <4>5. L[h].on = c.menuOn
        BY <1>2, <4>1, <4>4 DEF Edge, Opened
      <4> QED
        BY <1>7, <4>1, <4>3, <4>4, <4>5
    <3>4. \A p \in S : L[p].kind # "mouse_press"
      OBVIOUS
    <3> QED
      BY <3>2, <3>3, <3>4 DEF Fits
  <2>3. Real(r.failed, L, S)
    BY DEF Real
  <2>4. kind \in StepKinds /\ on \in Controls \cup {NoControl}
    BY <1>1 DEF StepKinds
  <2> HIDE DEF d, S, kind, on, ev
  <2>5. /\ Core(d, L, k) /\ d.rec.drops = r.rec.drops /\ d.failed = r.failed
        /\ SameRuns(r, d) /\ SameClocks(r, d) /\ Told(d) = Told(r) \cup S
    BY <1>1, <1>3, <2>1, <2>2, <2>3, <2>4, RecordCore
  <2>6. /\ Kept(c) \subseteq Kept(d) /\ c.failed \subseteq d.failed /\ d.group = c.group
        /\ d.pending = c.pending /\ d.itemAt = c.itemAt /\ d.rec.drops = c.rec.drops
    <3>1. Kept(r) \subseteq Kept(d)
      BY <2>5 DEF Kept, SameRuns, Typing, Value
    <3> QED
      BY <1>3, <1>4, <2>5, <3>1 DEF SameRuns, SameClocks
  <2>7. c.pending # <<>> => Lost(d.failed, L, c.pending[1].n)
    BY <1>4, <1>5, <2>5
  <2> QED
    BY <2>5, <2>6, <2>7, Loud DEF d, ev
<1> QED
  BY <1>6, <1>7

LEMMA MouseHandled ==
  ASSUME NEW c, NEW L, NEW h, NEW m, NEW k, Ready(c, L, h, m, k), L[m].kind \in MouseKinds
  PROVE  Handled(c, HandleMouse(c, L[m]), L, m, k)
<1> DEFINE ev == L[m]
           over == [c EXCEPT !.menuAt = <<>>]
           d == HandleMouse(c, ev)
           within == Within(ev.t, c.menuAt, ClickMs)
<1>1. c \in Captures
  BY ReadyFacts
<1>2. /\ over \in Captures /\ SameLedger(c, over) /\ over.group = c.group /\ over.itemAt = c.itemAt
      /\ over.menuOn = c.menuOn /\ over.menuAt = <<>>
  <2>1. <<>> \in Maybe(Nat)
    BY One
  <2> QED
    BY <1>1, <2>1 DEF Captures, SameLedger, SameRuns
<1>3. /\ ev.kind = "mouse_release" /\ within => d = HandleMenuRelease(over, ev)
      /\ ev.kind # "mouse_release" /\ Kind[ev.on] = "menu" => d = HandleMenuPress(over, ev)
      /\ ~(ev.kind = "mouse_release" /\ within) /\ ~(ev.kind # "mouse_release" /\ Kind[ev.on] = "menu") =>
           d = HandleItem(over, ev)
  BY DEF HandleMouse
<1>4. within => c.menuAt # <<>>
  BY DEF Within
<1> HIDE DEF over, d, within
<1>5. /\ Ready(over, L, h, m, k)
      /\ \A e : Handled(over, e, L, m, k) => Handled(c, e, L, m, k)
  BY <1>2, ReadyStill
<1>6. CASE ev.kind = "mouse_release" /\ within
  <2>1. Handled(c, HandleMenuRelease(over, L[m]), L, m, k)
    BY <1>2, <1>4, <1>6, MenuReleaseHandled
  <2> QED
    BY <1>3, <1>6, <2>1 DEF d
<1>7. CASE ev.kind # "mouse_release" /\ Kind[ev.on] = "menu"
  <2>1. Handled(over, HandleMenuPress(over, L[m]), L, m, k)
    BY <1>2, <1>5, <1>7, MenuPressHandled
  <2> QED
    BY <1>3, <1>5, <1>7, <2>1 DEF d
<1>8. CASE ~(ev.kind = "mouse_release" /\ within) /\ ~(ev.kind # "mouse_release" /\ Kind[ev.on] = "menu")
  <2>1. Handled(over, HandleItem(over, L[m]), L, m, k)
    BY <1>2, <1>5, <1>8, ItemHandled
  <2> QED
    BY <1>3, <1>5, <1>8, <2>1 DEF d
<1> QED
  BY <1>6, <1>7, <1>8

-----------------------------------------------------------------------------
(* Keys, shortcuts, the wheel and closed windows.                           *)

\* The session b on the way, with what it held still in place.
OnTheWay(c, b, L, h) ==
  /\ Core(b, L, h) /\ Kept(c) \subseteq Kept(b) /\ c.failed \subseteq b.failed
  /\ b.rec.drops = c.rec.drops /\ b.pending \in {c.pending, <<>>}
  /\ b.group = c.group /\ b.itemAt = c.itemAt

LEMMA WayStarts ==
  ASSUME NEW L, NEW h, NEW c, Core(c, L, h)
  PROVE  OnTheWay(c, c, L, h)
  BY DEF OnTheWay

LEMMA AskedOnTheWay ==
  ASSUME NEW L, NEW h \in Nat, NEW c, NEW b, OnTheWay(c, b, L, h), NEW ev \in EventRecs
  PROVE  OnTheWay(c, Resolve(b, ev), L, h)
<1> DEFINE d == Resolve(b, ev)
<1>1. Core(b, L, h) /\ b \in Captures
  BY DEF OnTheWay, Core
<1>2. d \in Captures /\ SameLedger(b, d) /\ SameMoments(b, d)
  BY <1>1, ResolveSame
<1> HIDE DEF d
<1>3. Core(d, L, h) /\ Kept(d) = Kept(b)
  BY <1>1, <1>2, SameCore
<1>4. OnTheWay(c, d, L, h)
  BY <1>2, <1>3 DEF OnTheWay, SameLedger, SameRuns, SameMoments
<1> QED
  BY <1>4 DEF d

LEMMA EndedOnTheWay ==
  ASSUME NEW L, Lived(L), NEW h \in Nat, NEW c, NEW b, OnTheWay(c, b, L, h)
  PROVE  OnTheWay(c, FlushInput(b), L, h) /\ OnTheWay(c, Conclude(b), L, h)
<1>1. Core(b, L, h)
  BY DEF OnTheWay
<1> DEFINE d == FlushInput(b)
           e == Conclude(b)
<1>2. Core(d, L, h) /\ Ended(b, d) /\ d.pending = b.pending
  BY <1>1, FlushInputEnds
<1>3. Core(e, L, h) /\ Ended(b, e) /\ e.pending = <<>>
  BY <1>1, ConcludeEnds
<1> HIDE DEF d, e
<1>4. OnTheWay(c, d, L, h)
  BY <1>2 DEF OnTheWay, Ended, SameClocks
<1>5. OnTheWay(c, e, L, h)
  BY <1>3 DEF OnTheWay, Ended, SameClocks
<1> QED
  BY <1>4, <1>5 DEF d, e

\* The ways it ends: a step, a line, or a run.
LEMMA WayEnds ==
  ASSUME NEW c, NEW L, NEW h, NEW m, NEW k, Ready(c, L, h, m, k), L[m].kind \notin MouseKinds,
         NEW b, OnTheWay(c, b, L, h),
         NEW d, Core(d, L, k), m \in Kept(d), Kept(b) \subseteq Kept(d), b.failed \subseteq d.failed,
         d.pending = b.pending, SameClocks(b, d), d.rec.drops = b.rec.drops \/ Latest(d, k)
  PROVE  Handled(c, d, L, m, k)
<1>1. L[k].kind = L[m].kind
  BY ReadyFacts
<1>2. L[m].kind # "mouse_release" /\ L[k].kind # "mouse_press"
  BY <1>1 DEF MouseKinds
<1>3. Opened(d, L, k)
  BY <1>2 DEF Opened
<1>4. /\ Kept(c) \subseteq Kept(d) /\ c.failed \subseteq d.failed /\ d.group = c.group
      /\ d.pending \in {c.pending, <<>>} /\ d.itemAt = c.itemAt
      /\ d.rec.drops = c.rec.drops \/ Latest(d, k)
  BY DEF OnTheWay, SameClocks
<1> QED
  BY <1>2, <1>3, <1>4, Quiet

LEMMA EndsInAStep ==
  ASSUME NEW c, NEW L, NEW h, NEW m, NEW k, Ready(c, L, h, m, k), L[m].kind \notin MouseKinds,
         NEW b, OnTheWay(c, b, L, h), NEW kind \in StepKinds, NEW on \in Controls
  PROVE  Handled(c, Record(b, Step(kind, on, {m})), L, m, k)
<1> DEFINE S == {m}
           d == Record(b, Step(kind, on, S))
<1>1. m \in S /\ \A n \in S : n = m
  OBVIOUS
<1>2. L[m].kind # "mouse_release" /\ L[m].kind # "mouse_press" /\ Core(b, L, h)
  BY DEF MouseKinds, OnTheWay
<1> HIDE DEF S
<1>3. /\ Core(d, L, k) /\ m \in Kept(d) /\ Kept(b) \subseteq Kept(d)
      /\ d.rec.drops = b.rec.drops /\ d.failed = b.failed
      /\ SameRuns(b, d) /\ SameClocks(b, d)
  BY <1>1, <1>2, NewStep
<1> HIDE DEF d
<1>4. Handled(c, d, L, m, k)
  BY <1>3, WayEnds DEF SameRuns
<1> QED
  BY <1>4 DEF d, S

LEMMA EndsInALine ==
  ASSUME NEW c, NEW L, NEW h, NEW m, NEW k, Ready(c, L, h, m, k), L[m].kind \notin MouseKinds,
         NEW b, OnTheWay(c, b, L, h), NEW reason \in Reasons \cup Deliberate
  PROVE  Handled(c, Drop(b, L[m], reason), L, m, k)
<1> DEFINE d == Drop(b, L[m], reason)
<1>1. L[m].kind # "mouse_release" /\ Core(b, L, h)
  BY DEF MouseKinds, OnTheWay
<1>2. /\ Core(d, L, k) /\ Latest(d, k) /\ m \in Kept(d) /\ Kept(b) \subseteq Kept(d)
      /\ b.failed \subseteq d.failed /\ SameRuns(b, d) /\ SameClocks(b, d)
  BY <1>1, NewDrop
<1> HIDE DEF d
<1>3. Handled(c, d, L, m, k)
  BY <1>2, WayEnds DEF SameRuns
<1> QED
  BY <1>3 DEF d

LEMMA EndsUnresolved ==
  ASSUME NEW c, NEW L, NEW h, NEW m, NEW k, Ready(c, L, h, m, k), L[m].kind \notin MouseKinds,
         NEW b, OnTheWay(c, b, L, h)
  PROVE  Handled(c, DropUnresolved(b, L[m]), L, m, k)
<1> DEFINE reason == IF Kind[Target(L[m])] = "chrome" THEN "chrome" ELSE "not_found"
<1>1. reason \in Reasons \cup Deliberate
  BY DEF Reasons, Deliberate
<1>2. DropUnresolved(b, L[m]) = Drop(b, L[m], reason)
  BY DEF DropUnresolved
<1> HIDE DEF reason
<1> QED
  BY <1>1, <1>2, EndsInALine

LEMMA CloseHandled ==
  ASSUME NEW c, NEW L, NEW h, NEW m, NEW k, Ready(c, L, h, m, k), L[m].kind = "close_window"
  PROVE  Handled(c, HandleClose(c, L[m]), L, m, k)
<1> DEFINE ev == L[m]
           r == Resolve(Conclude(c), ev)
           d == HandleClose(c, ev)
           kind == "close_window"
           on == ev.on
<1>1. /\ Lived(L) /\ h \in Nat /\ k \in Nat /\ h <= k /\ Core(c, L, h) /\ ev \in EventRecs /\ ev.n = m /\ on \in Controls
      /\ L[k].kind = L[m].kind
  BY ReadyFacts
<1>2. L[m].kind \notin MouseKinds /\ kind \in StepKinds
  BY DEF MouseKinds, StepKinds
<1>3. OnTheWay(c, r, L, h)
  <2>1. OnTheWay(c, Conclude(c), L, h)
    BY <1>1, WayStarts, EndedOnTheWay
  <2>2. h \in Nat /\ ev \in EventRecs
    BY <1>1
  <2> HIDE DEF ev
  <2> QED
    BY <2>1, <2>2, AskedOnTheWay
<1>4. /\ Kind[on] # "window" => d = c
      /\ Kind[on] = "window" /\ Answer(r, ev) = "missing" => d = DropUnresolved(r, L[m])
      /\ Kind[on] = "window" /\ Answer(r, ev) # "missing" => d = Record(r, Step(kind, on, {m}))
  BY <1>1 DEF HandleClose
<1>5. CASE Kind[on] # "window"
  <2>1. ~Done(L, m) /\ L[m].kind # "mouse_press" /\ L[m].kind # "mouse_release"
    BY <1>5 DEF Done
  <2>2. Opened(c, L, k)
    BY <1>1 DEF Opened
  <2>3. Core(c, L, k)
    BY <1>1, LaterCore
  <2> QED
    BY <1>4, <1>5, <2>1, <2>2, <2>3, Quiet
<1> HIDE DEF r, kind, on
<1>6. CASE Kind[on] = "window" /\ Answer(r, ev) = "missing"
  <2>1. Handled(c, DropUnresolved(r, L[m]), L, m, k)
    BY <1>2, <1>3, EndsUnresolved
  <2> QED
    BY <1>4, <1>6, <2>1
<1>7. CASE Kind[on] = "window" /\ Answer(r, ev) # "missing"
  <2>1. Handled(c, Record(r, Step(kind, on, {m})), L, m, k)
    BY <1>1, <1>2, <1>3, EndsInAStep
  <2> QED
    BY <1>4, <1>7, <2>1
<1> QED
  BY <1>5, <1>6, <1>7

LEMMA ShortcutHandled ==
  ASSUME NEW c, NEW L, NEW h, NEW m, NEW k, Ready(c, L, h, m, k), L[m].kind = "shortcut"
  PROVE  Handled(c, HandleShortcut(c, L[m]), L, m, k)
<1> DEFINE ev == L[m]
           r == Resolve(FlushInput(c), ev)
           d == HandleShortcut(c, ev)
           kind == "shortcut"
           on == Target(ev)
<1>1. /\ Lived(L) /\ h \in Nat /\ Core(c, L, h) /\ ev \in EventRecs /\ ev.n = m /\ on \in Controls
  BY ReadyFacts DEF Target
<1>2. L[m].kind \notin MouseKinds /\ kind \in StepKinds
  BY DEF MouseKinds, StepKinds
<1>3. OnTheWay(c, r, L, h)
  <2>1. OnTheWay(c, FlushInput(c), L, h)
    BY <1>1, WayStarts, EndedOnTheWay
  <2>2. h \in Nat /\ ev \in EventRecs
    BY <1>1
  <2> HIDE DEF ev
  <2> QED
    BY <2>1, <2>2, AskedOnTheWay
<1>4. d = IF Answer(r, ev) = "missing" THEN DropUnresolved(r, L[m]) ELSE Record(r, Step(kind, on, {m}))
  BY <1>1 DEF HandleShortcut
<1> HIDE DEF r, kind, on
<1>5. Handled(c, DropUnresolved(r, L[m]), L, m, k)
  BY <1>2, <1>3, EndsUnresolved
<1>6. Handled(c, Record(r, Step(kind, on, {m})), L, m, k)
  BY <1>1, <1>2, <1>3, EndsInAStep
<1> QED
  BY <1>4, <1>5, <1>6

LEMMA KeyHandled ==
  ASSUME NEW c, NEW L, NEW h, NEW m, NEW k, Ready(c, L, h, m, k), L[m].kind = "key_press"
  PROVE  Handled(c, HandleKey(c, L[m]), L, m, k)
<1> DEFINE ev == L[m]
           r == Resolve(c, ev)
           e == FlushInput(r)
           d == HandleKey(c, ev)
           kind == IF ev.key = "command" THEN "shortcut" ELSE "key"
           on == Target(ev)
           typed == HandleCharacter(r, ev)
<1>1. /\ Lived(L) /\ h \in Nat /\ m \in Nat /\ k \in Nat /\ h < m /\ m <= k /\ k <= Len(L) /\ h <= k
      /\ Core(c, L, h) /\ ev \in EventRecs /\ ev.n = m /\ on \in Controls
  BY ReadyFacts DEF Target
<1>2. L[m].kind \notin MouseKinds /\ kind \in StepKinds
  BY DEF MouseKinds, StepKinds
<1>3. OnTheWay(c, r, L, h) /\ OnTheWay(c, e, L, h)
  <2>1. OnTheWay(c, c, L, h)
    BY <1>1, WayStarts
  <2>2. h \in Nat /\ ev \in EventRecs /\ Lived(L)
    BY <1>1
  <2> HIDE DEF ev, r, e
  <2>3. OnTheWay(c, r, L, h)
    BY <2>1, <2>2, AskedOnTheWay DEF r
  <2> QED
    BY <2>2, <2>3, EndedOnTheWay DEF e
<1>4. \/ d = DropUnresolved(r, L[m])
      \/ d = Record(e, Step(kind, on, {m}))
      \/ d = typed
  BY <1>1 DEF HandleKey
<1> HIDE DEF r, e, kind, on
<1>5. Handled(c, DropUnresolved(r, L[m]), L, m, k)
  BY <1>2, <1>3, EndsUnresolved
<1>6. Handled(c, Record(e, Step(kind, on, {m})), L, m, k)
  BY <1>1, <1>2, <1>3, EndsInAStep
<1>7. Handled(c, typed, L, m, k)
  <2>1. Core(r, L, h)
    BY <1>3 DEF OnTheWay
  <2>2. Fits(r, L, {m}, k)
    <3>1. L[m].kind # "mouse_release" /\ L[m].kind # "mouse_press"
      BY <1>2 DEF MouseKinds
    <3> QED
      BY <1>1, <2>1, <3>1, FreshFits
  <2>3. Fits(r, L, {ev.n}, k)
    BY <1>1, <2>2
  <2>4. /\ Core(typed, L, k) /\ Kept(r) \cup {ev.n} \subseteq Kept(typed) /\ r.failed \subseteq typed.failed
        /\ typed.rec.drops = r.rec.drops /\ typed.pending = r.pending /\ SameClocks(r, typed)
    <3>1. Lived(L) /\ h \in Nat /\ k \in Nat /\ h <= k /\ ev \in EventRecs
      BY <1>1
    <3> HIDE DEF ev
    <3> QED
      BY <2>1, <2>3, <3>1, CharacterCore
  <2>5. m \in Kept(typed) /\ Kept(r) \subseteq Kept(typed)
    BY <1>1, <2>4
  <2> HIDE DEF typed
  <2> QED
    BY <1>2, <1>3, <2>4, <2>5, WayEnds
<1> QED
  BY <1>4, <1>5, <1>6, <1>7

LEMMA WheelHandled ==
  ASSUME NEW c, NEW L, NEW h, NEW m, NEW k, Ready(c, L, h, m, k), L[m].kind = "wheel"
  PROVE  Handled(c, HandleWheel(c, L[m]), L, m, k)
<1> DEFINE ev == L[m]
           r == Resolve(c, ev)
           e == FlushInput(r)
           d == HandleWheel(c, ev)
           reason == "scrolling"
           S == {m}
           fading == Answer(r, ev) = "fading"
           selection == FALSE
           turned == BeginValue(r, L[m], S, selection, fading)
<1>1. Lived(L) /\ h \in Nat /\ Core(c, L, h) /\ ev \in EventRecs /\ ev.n = m
  BY ReadyFacts
<1>2. /\ L[m].kind \notin MouseKinds /\ reason \in Reasons \cup Deliberate
      /\ L[m].kind # "mouse_release" /\ L[m].kind # "mouse_press"
      /\ m \in S /\ \A n \in S : n = m
      /\ fading \in BOOLEAN /\ selection \in BOOLEAN /\ ~selection
  BY DEF MouseKinds, Deliberate
<1>3. OnTheWay(c, r, L, h) /\ OnTheWay(c, e, L, h)
  <2>1. OnTheWay(c, c, L, h)
    BY <1>1, WayStarts
  <2>2. h \in Nat /\ ev \in EventRecs /\ Lived(L)
    BY <1>1
  <2> HIDE DEF ev, r, e
  <2>3. OnTheWay(c, r, L, h)
    BY <2>1, <2>2, AskedOnTheWay DEF r
  <2> QED
    BY <2>2, <2>3, EndedOnTheWay DEF e
<1>4. \/ d = DropUnresolved(e, L[m])
      \/ d = Drop(e, L[m], reason)
      \/ d = turned
  BY <1>1 DEF HandleWheel, BeginWheelOrDrag
<1> HIDE DEF r, e, reason, S, fading, selection
<1>5. Handled(c, DropUnresolved(e, L[m]), L, m, k)
  BY <1>2, <1>3, EndsUnresolved
<1>6. Handled(c, Drop(e, L[m], reason), L, m, k)
  BY <1>2, <1>3, EndsInALine
<1>7. Handled(c, turned, L, m, k)
  <2>1. Core(r, L, h)
    BY <1>3 DEF OnTheWay
  <2>2. /\ Core(turned, L, k) /\ m \in Kept(turned) /\ Kept(r) \subseteq Kept(turned)
        /\ r.failed \subseteq turned.failed /\ turned.rec.drops = r.rec.drops
        /\ turned.pending = r.pending /\ SameClocks(r, turned)
    BY <1>2, <2>1, NewRun
  <2> HIDE DEF turned
  <2> QED
    BY <1>2, <1>3, <2>2, WayEnds
<1> QED
  BY <1>4, <1>5, <1>6, <1>7

\* Every handler keeps the promise.
LEMMA EveryHandled ==
  ASSUME NEW c, NEW L, NEW h, NEW m, NEW k, Ready(c, L, h, m, k)
  PROVE  Handled(c, Handle(c, L[m]), L, m, k)
<1> DEFINE ev == L[m]
<1>1. ev \in EventRecs
  BY ReadyFacts
<1>2. ev.kind \in EventKinds
  BY <1>1 DEF EventRecs
<1>3. CASE ev.kind \in MouseKinds
  <2>1. Handle(c, ev) = HandleMouse(c, ev)
    BY <1>3 DEF Handle, MouseKinds
  <2> QED
    BY <1>3, <2>1, MouseHandled
<1>4. CASE ev.kind = "key_press"
  <2>1. Handle(c, ev) = HandleKey(c, ev)
    BY <1>4 DEF Handle, MouseKinds
  <2> QED
    BY <1>4, <2>1, KeyHandled
<1>5. CASE ev.kind = "shortcut"
  <2>1. Handle(c, ev) = HandleShortcut(c, ev)
    BY <1>5 DEF Handle, MouseKinds
  <2> QED
    BY <1>5, <2>1, ShortcutHandled
<1>6. CASE ev.kind = "wheel"
  <2>1. Handle(c, ev) = HandleWheel(c, ev)
    BY <1>6 DEF Handle, MouseKinds
  <2> QED
    BY <1>6, <2>1, WheelHandled
<1>7. CASE ev.kind = "close_window"
  <2>1. Handle(c, ev) = HandleClose(c, ev)
    BY <1>7 DEF Handle, MouseKinds
  <2> QED
    BY <1>7, <2>1, CloseHandled
<1> QED
  BY <1>2, <1>3, <1>4, <1>5, <1>6, <1>7 DEF EventKinds

-----------------------------------------------------------------------------
(* Something else happens: what was promised about the past stays true.     *)

LEMMA Longer ==
  ASSUME NEW L \in Seq(EventRecs), NEW ev \in EventRecs
  PROVE  LET M == Append(L, ev)
         IN  /\ M \in Seq(EventRecs) /\ Len(L) \in Nat /\ Len(M) = Len(L) + 1
             /\ M[Len(L) + 1] = ev /\ \A n \in 1..Len(L) : M[n] = L[n]
             /\ DOMAIN L = 1..Len(L) /\ DOMAIN M = 1..(Len(L) + 1) /\ DOMAIN L \subseteq DOMAIN M
             /\ \A n \in 1..(Len(L) + 1) : n = Len(L) + 1 \/ n \in 1..Len(L)
  OBVIOUS

\* A shadow stays, and so does what is lost or found.
LEMMA StillFound ==
  ASSUME NEW L \in Seq(EventRecs), NEW ev \in EventRecs
  PROVE  LET M == Append(L, ev)
         IN  /\ \A F, n : Lost(F, L, n) => Lost(F, M, n)
             /\ \A n \in 1..Len(L) : Done(M, n) <=> Done(L, n)
             /\ \A K : \A n \in 1..Len(L) : Found(K, L, n) => Found(K, M, n)
<1> DEFINE M == Append(L, ev)
<1>1. /\ \A n \in DOMAIN L : M[n] = L[n] /\ n \in DOMAIN M
      /\ DOMAIN L = 1..Len(L)
  BY Longer
<1> HIDE DEF M
<1>2. \A n : Shadow(L, n) => Shadow(M, n)
  BY <1>1 DEF Shadow
<1>3. \A F, n : Lost(F, L, n) => Lost(F, M, n)
  BY <1>2 DEF Lost
<1>4. \A n \in 1..Len(L) : Done(M, n) <=> Done(L, n)
  BY <1>1 DEF Done
<1>5. \A K : \A n \in 1..Len(L) : Found(K, L, n) => Found(K, M, n)
  <2> SUFFICES ASSUME NEW K, NEW n \in 1..Len(L), Found(K, L, n)
               PROVE  Found(K, M, n)
    OBVIOUS
  <2>1. Reach(M, n) = Reach(L, n)
    BY <1>1 DEF Reach
  <2>2. Burst(L, n) => Burst(M, n)
    BY <1>1 DEF Burst
  <2> QED
    BY <1>2, <2>1, <2>2 DEF Found
<1> QED
  BY <1>3, <1>4, <1>5 DEF M

LEMMA CoreLater ==
  ASSUME NEW L \in Seq(EventRecs), NEW ev \in EventRecs, NEW h \in 0..Len(L), NEW c, Core(c, L, h)
  PROVE  Core(c, Append(L, ev), h)
<1> DEFINE M == Append(L, ev)
<1>1. /\ \A n \in 1..Len(L) : M[n] = L[n]
      /\ Len(M) = Len(L) + 1 /\ Len(L) \in Nat /\ DOMAIN L = 1..Len(L)
  BY Longer
<1>2. \A n \in 1..h : n \in 1..Len(L) /\ n \in 1..Len(M)
  BY <1>1
<1>3. \A n \in 1..Len(L) : n \in 1..Len(M)
  BY <1>1
<1>4. \A F, n : Lost(F, L, n) => Lost(F, M, n)
  BY StillFound
<1> HIDE DEF M
<1>5. Claimed(c) \cup c.failed \subseteq 1..h
  BY DEF Core
<1>6. \A n \in Claimed(c) \cup c.failed : n \in 1..Len(L) /\ M[n] = L[n]
  BY <1>1, <1>2, <1>5
<1>7. Together(c, M)
  <2> SUFFICES ASSUME NEW p \in Claimed(c), NEW r \in Claimed(c), Click(M, p, r)
               PROVE  Click(L, p, r)
    BY DEF Core, Together
  <2> QED
    BY <1>6 DEF Click
<1>8. Clicked(c, M)
  <2> SUFFICES ASSUME NEW i \in DOMAIN c.rec.actions, c.rec.actions[i].kind = "click"
               PROVE  Real(c.failed, M, c.rec.actions[i].of)
    BY DEF Clicked
  <2> DEFINE of == c.rec.actions[i].of
  <2>1. Real(c.failed, L, of)
    BY DEF Core, Clicked
  <2>2. of \subseteq Claimed(c)
    BY DEF Claimed, Told
  <2> HIDE DEF of
  <2>3. Real(c.failed, M, of)
    <3>1. of # {} => First(of) \in of
      <4>1. of \in SUBSET Nat
        BY <1>1, <1>6, <2>2
      <4> QED
        BY <4>1, Lists!Least DEF First
    <3>2. of # {} => M[First(of)] = L[First(of)]
      BY <1>6, <2>2, <3>1
    <3>3. Lost(c.failed, L, First(of)) => Lost(c.failed, M, First(of))
      BY <1>4
    <3> QED
      BY <1>6, <2>1, <2>2, <3>2, <3>3 DEF Real
  <2> QED
    BY <2>3 DEF of
<1>9. Waits(c, M)
  BY <1>1, <1>3, <1>6 DEF Core, Waits
<1>10. Selected(c, M)
  <2>1. c.value # <<>> => c.value[1].of \subseteq Claimed(c)
    BY DEF Claimed, Value
  <2> QED
    BY <1>6, <2>1 DEF Core, Selected
<1>11. Gapped(c, M)
  <2>1. Gapped(c, L)
    BY DEF Core
  <2>2. \A d \in DOMAIN c.rec.drops : c.rec.drops[d].of \in c.failed
    BY <2>1 DEF Gapped
  <2> QED
    BY <1>6, <2>1, <2>2 DEF Gapped
<1>12. Core(c, M, h)
  BY <1>5, <1>7, <1>8, <1>9, <1>10, <1>11 DEF Core
<1> QED
  BY <1>12 DEF M

LEMMA PromisesLater ==
  ASSUME NEW L \in Seq(EventRecs), NEW ev \in EventRecs, NEW h \in 0..Len(L), NEW c,
         Edge(c, L, h), Accounts(c, L, h)
  PROVE  Edge(c, Append(L, ev), h) /\ Accounts(c, Append(L, ev), h)
<1> DEFINE M == Append(L, ev)
<1>1. \A n \in 1..Len(L) : M[n] = L[n]
  BY Longer
<1>2. \A n \in 1..h : n \in 1..Len(L) /\ M[n] = L[n]
  BY <1>1
<1>3. /\ \A F, n : Lost(F, L, n) => Lost(F, M, n)
      /\ \A n \in 1..Len(L) : Done(M, n) <=> Done(L, n)
      /\ \A K : \A n \in 1..Len(L) : Found(K, L, n) => Found(K, M, n)
  BY StillFound
<1>4. h \in DOMAIN M => h \in DOMAIN L /\ M[h] = L[h]
  BY <1>1
<1> HIDE DEF M
<1>5. Expects(c, M, h)
  BY <1>3 DEF Edge, Expects
<1>6. Opened(c, M, h)
  BY <1>4 DEF Edge, Opened
<1>7. Chosen(c, M, h)
  BY <1>2 DEF Edge, Chosen
<1>8. Edge(c, M, h)
  BY <1>5, <1>6, <1>7 DEF Edge
<1> DEFINE K == Kept(c)
<1> HIDE DEF K
<1>9. \A n \in 1..h : Done(M, n) => Found(K, M, n) \/ n \in Pending(c)
  <2>1. \A n \in 1..h : Done(L, n) => Found(K, L, n) \/ n \in Pending(c)
    BY DEF Accounts, K
  <2>2. \A n \in 1..Len(L) : (Done(M, n) <=> Done(L, n)) /\ (Found(K, L, n) => Found(K, M, n))
    BY <1>3
  <2> QED
    BY <1>2, <2>1, <2>2
<1>10. \A n \in 1..h : M[n].kind = "mouse_press" /\ Kind[M[n].on] = "menu" => n \in K
  BY <1>2 DEF Accounts, K
<1>11. Accounts(c, M, h)
  BY <1>9, <1>10 DEF Accounts, K
<1> QED
  BY <1>8, <1>11 DEF M

\* The group is only collected.
LEMMA GroupSet ==
  ASSUME NEW L, NEW h \in Nat, NEW c, Core(c, L, h), NEW g \in Seq(EventRecs)
  PROVE  LET d == [c EXCEPT !.group = g]
         IN  /\ Core(d, L, h) /\ d.group = g
             /\ Edge(c, L, h) => Edge(d, L, h)
             /\ Accounts(c, L, h) => Accounts(d, L, h)
<1> DEFINE d == [c EXCEPT !.group = g]
<1>1. c \in Captures
  BY DEF Core
<1> HIDE DEF EventRecs
<1>2. /\ d \in Captures /\ SameLedger(c, d) /\ d.group = g
      /\ d.menuAt = c.menuAt /\ d.menuOn = c.menuOn /\ d.itemAt = c.itemAt
  BY <1>1 DEF Captures, SameLedger, SameRuns
<1> HIDE DEF d
<1>3. Core(d, L, h) /\ Kept(d) = Kept(c)
  BY <1>2, SameCore
<1>4. Pending(d) = Pending(c) /\ d.pending = c.pending /\ d.rec = c.rec /\ d.failed = c.failed
  BY <1>2 DEF SameLedger, SameRuns, Pending
<1>5. Edge(c, L, h) => Edge(d, L, h)
  <2> SUFFICES ASSUME Edge(c, L, h)
               PROVE  Edge(d, L, h)
    OBVIOUS
  <2>1. Expects(d, L, h)
    BY <1>2, <1>4 DEF Edge, Expects
  <2>2. Opened(d, L, h)
    BY <1>2 DEF Edge, Opened
  <2>3. Chosen(d, L, h)
    BY <1>2, <1>4 DEF Edge, Chosen
  <2>4. Latest(d, h)
    BY <1>4 DEF Edge, Latest
  <2> QED
    BY <2>1, <2>2, <2>3, <2>4 DEF Edge
<1>6. Accounts(c, L, h) => Accounts(d, L, h)
  BY <1>3, <1>4 DEF Accounts
<1> QED
  BY <1>2, <1>3, <1>5, <1>6 DEF d

-----------------------------------------------------------------------------
(* What was collected is folded.                                            *)

\* The one that speaks for the group is what was done, never the window's copy
\* where there is something more specific.
LEMMA MostSpecificIsReal ==
  ASSUME NEW L, Lived(L), NEW g \in Seq(EventRecs), g # <<>>, Grouped(g, L)
  PROVE  \E m \in g[1].n..Len(L) : MostSpecific(g) = L[m]
<1> DEFINE specific == {i \in DOMAIN g : Kind[g[i].on] # "window"}
           least(S) == CHOOSE i \in S : \A j \in S : i <= j
<1>1. 1 \in DOMAIN g /\ DOMAIN g \subseteq Nat
  BY EmptySeq
<1>2. \A i \in DOMAIN g : /\ Reports(L, g[i]) /\ g[i].n \in g[1].n..Len(L)
                          /\ g[i].kind = L[Len(L)].kind
  BY DEF Grouped
<1>3. \E i \in DOMAIN g : /\ MostSpecific(g) = g[i]
                          /\ Kind[g[i].on] = "window" => specific = {}
  <2>1. CASE specific = {}
    BY <1>1, <2>1 DEF MostSpecific
  <2>2. CASE specific # {}
    <3>1. specific \in SUBSET Nat
      BY <1>1
    <3> DEFINE T == specific
    <3> HIDE DEF specific
    <3>2. \E x \in T : \A y \in T : x <= y
      BY <2>2, <3>1, Lists!Least
    <3>3. least(T) \in T
      BY <3>2
    <3>4. MostSpecific(g) = g[least(T)]
      BY <2>2 DEF MostSpecific, specific
    <3> QED
      BY <3>3, <3>4 DEF specific
  <2> QED
    BY <2>1, <2>2
<1>4. PICK i \in DOMAIN g : /\ MostSpecific(g) = g[i]
                            /\ Kind[g[i].on] = "window" => specific = {}
  BY <1>3
<1> DEFINE n == g[i].n
<1>5. CASE g[i] = L[n]
  BY <1>2, <1>4, <1>5
<1>6. CASE g[i] # L[n]
  <2>1. /\ Window # NoControl /\ L[n].kind \in MouseKinds
        /\ g[i] = [L[n] EXCEPT !.on = Window] /\ n \in DOMAIN L
    BY <1>2, <1>6 DEF Reports
  <2>2. L \in Seq(EventRecs) /\ L[n] \in EventRecs /\ n \in 1..Len(L)
    BY <2>1 DEF Lived
  <2>3. g[i].on = Window /\ g[i].kind = L[n].kind
    BY <2>1, <2>2 DEF EventRecs
  <2>4. Kind[Window] = "window" /\ \A c \in Pressable \cup Elsewhere : Kind[c] = "window" => c = Window
    BY <2>1, CaptureAssumption
  <2>5. specific = {}
    BY <1>4, <2>3, <2>4
  <2>6. g[1].n = Len(L) /\ n = Len(L)
    BY <1>2, <2>1, <2>2, <2>3 DEF Grouped
  <2>7. \E j \in DOMAIN g : g[j] = L[n]
    BY <2>2, <2>6 DEF Grouped
  <2>8. Kind[L[n].on] = "window"
    BY <2>5, <2>7
  <2>9. L[n].on \in Pressable \cup Elsewhere
    BY <2>1, <2>2 DEF Lived
  <2>10. L[n].on = Window
    BY <2>4, <2>8, <2>9
  <2>11. g[i] = L[n]
    BY <2>1, <2>2, <2>10 DEF EventRecs
  <2> QED
    BY <1>6, <2>11
<1> QED
  BY <1>5, <1>6

\* Where a group stands.
LEMMA GroupFacts ==
  ASSUME NEW L, Lived(L), NEW g \in Seq(EventRecs), g # <<>>, Grouped(g, L)
  PROVE  /\ g[1].n \in 1..Len(L) /\ g[1].t = L[g[1].n].t /\ Len(L) \in 1..Len(L)
         /\ \A n \in g[1].n..Len(L) : /\ n \in 1..Len(L) /\ L[n].kind = L[Len(L)].kind
                                      /\ L[n].t \in Nat /\ L[n].t - g[1].t \in 0..GroupMs
         /\ L[Len(L)].kind \in MouseKinds => g[1].n = Len(L)
<1>1. 1 \in DOMAIN g
  BY EmptySeq
<1>2. Reports(L, g[1])
  BY <1>1 DEF Grouped
<1>3. L \in Seq(EventRecs) /\ DOMAIN L = 1..Len(L) /\ Len(L) \in Nat
  BY DEF Lived
<1>4. g[1].n \in 1..Len(L) /\ Len(L) \in 1..Len(L)
  BY <1>2, <1>3 DEF Reports
<1>5. g[1].t = L[g[1].n].t
  <2>1. L[g[1].n] \in EventRecs
    BY <1>3, <1>4
  <2> QED
    BY <1>2, <2>1 DEF Reports, EventRecs
<1>6. ASSUME NEW n \in g[1].n..Len(L)
      PROVE  /\ n \in 1..Len(L) /\ L[n].kind = L[Len(L)].kind
             /\ L[n].t \in Nat /\ L[n].t - g[1].t \in 0..GroupMs
  <2>1. n \in 1..Len(L) /\ g[1].n <= n
    BY <1>3, <1>4
  <2>2. PICK i \in DOMAIN g : g[i] = L[n]
    BY DEF Grouped
  <2>3. L[n].kind = L[Len(L)].kind /\ L[n].t - g[1].t <= GroupMs
    BY <2>2 DEF Grouped
  <2>4. L[g[1].n].t <= L[n].t
    BY <1>4, <2>1 DEF Lived
  <2>5. L[n].t \in Nat /\ L[g[1].n].t \in Nat
    <3>1. L[n] \in EventRecs /\ L[g[1].n] \in EventRecs
      BY <1>3, <1>4, <2>1
    <3> QED
      BY <3>1 DEF EventRecs
  <2>6. L[n].t - g[1].t \in 0..GroupMs
    <3>1. g[1].t \in Nat /\ GroupMs \in Nat
      BY <1>5, <2>5, FoldingAssumption
    <3> QED
      BY <1>5, <2>3, <2>4, <2>5, <3>1
  <2> QED
    BY <2>1, <2>3, <2>5, <2>6
<1>7. L[Len(L)].kind \in MouseKinds => g[1].n = Len(L)
  BY DEF Grouped
<1> QED
  BY <1>4, <1>5, <1>6, <1>7

LEMMA MoreKept ==
  ASSUME NEW L, NEW n, NEW K, NEW J, K \subseteq J, Found(K, L, n)
  PROVE  Found(J, L, n)
BY DEF Found

LEMMA FlushFolds ==
  ASSUME NEW c, NEW L, Lived(L), Going(c, L)
  PROVE  Going(FlushGroup(c), L) /\ FlushGroup(c).group = <<>>
<1> DEFINE g == c.group
           h == g[1].n - 1
           b == [c EXCEPT !.group = <<>>]
           k == Len(L)
<1>1. CASE g = <<>>
  BY <1>1 DEF FlushGroup
<1>2. CASE g # <<>>
  <2>1. Core(c, L, h) /\ Edge(c, L, h) /\ Accounts(c, L, h) /\ Grouped(g, L)
    BY <1>2 DEF Going, Folded
  <2>2. g \in Seq(EventRecs)
    BY <2>1 DEF Core, Captures
  <2>3. /\ g[1].n \in 1..Len(L) /\ g[1].t = L[g[1].n].t /\ Len(L) \in 1..Len(L)
        /\ \A n \in g[1].n..Len(L) : /\ n \in 1..Len(L) /\ L[n].kind = L[Len(L)].kind
                                     /\ L[n].t \in Nat /\ L[n].t - g[1].t \in 0..GroupMs
        /\ L[Len(L)].kind \in MouseKinds => g[1].n = Len(L)
    BY <1>2, <2>1, <2>2, GroupFacts
  <2>4. PICK m \in g[1].n..Len(L) : MostSpecific(g) = L[m]
    BY <1>2, <2>1, <2>2, MostSpecificIsReal
  <2>5. /\ h \in Nat /\ m \in Nat /\ k \in Nat /\ h < m /\ m <= k /\ k <= Len(L)
        /\ h + 1 = g[1].n
    BY <2>3
  <2>6. /\ Core(b, L, h) /\ b.group = <<>> /\ Edge(b, L, h) /\ Accounts(b, L, h)
    <3> DEFINE e == <<>>
    <3>1. e \in Seq(EventRecs)
      OBVIOUS
    <3>2. h \in Nat
      BY <2>5
    <3> HIDE DEF e, h
    <3>3. LET d == [c EXCEPT !.group = e]
          IN  Core(d, L, h) /\ d.group = e /\ Edge(d, L, h) /\ Accounts(d, L, h)
      BY <2>1, <3>1, <3>2, GroupSet
    <3> QED
      BY <3>3 DEF e
  <2>7. FlushGroup(c) = Handle(b, L[m])
    BY <1>2, <2>4 DEF FlushGroup
  <2> HIDE DEF b, h
  <2>8. /\ \A n \in (h + 1)..k : L[n].kind = L[m].kind
        /\ L[m].kind \in MouseKinds => m = h + 1 /\ k = m
    BY <2>3, <2>5
  <2>9. Ready(b, L, h, m, k)
    BY <2>5, <2>6, <2>8 DEF Ready
  <2> DEFINE d == Handle(b, L[m])
  <2>10. Handled(b, d, L, m, k)
    BY <2>9, EveryHandled
  <2> HIDE DEF d
  <2>11. d.group = <<>> /\ Core(d, L, k) /\ Edge(d, L, k) /\ Kept(b) \subseteq Kept(d)
    BY <2>6, <2>10 DEF Handled
  <2>12. ASSUME NEW n \in 1..k, Done(L, n)
         PROVE  Found(Kept(d), L, n) \/ n \in Pending(d)
    <3>1. CASE n \in 1..h
      <4>1. Found(Kept(b), L, n) \/ n \in Pending(b)
        BY <2>6, <2>12, <3>1 DEF Accounts
      <4>2. Found(Kept(b), L, n) => Found(Kept(d), L, n)
        BY <2>11, MoreKept
      <4>3. n \in Pending(b) => Found(Kept(d), L, n) \/ n \in Pending(d)
        BY <2>10 DEF Handled
      <4> QED
        BY <4>1, <4>2, <4>3
    <3>2. CASE n = m
      BY <2>10, <2>12, <3>2 DEF Handled
    <3>3. CASE n \notin 1..h /\ n # m
      <4>1. n \in g[1].n..Len(L)
        BY <2>5, <3>3
      <4>2. L[n].kind = L[m].kind /\ m \in DOMAIN L \ {n}
        BY <2>3, <3>3, <4>1 DEF Lived
      <4>3. L[m].t - L[n].t \in (-GroupMs)..GroupMs
        <5>1. /\ L[n].t \in Nat /\ L[m].t \in Nat
              /\ L[n].t - g[1].t \in 0..GroupMs /\ L[m].t - g[1].t \in 0..GroupMs
          BY <2>3, <4>1
        <5>2. g[1].t \in Nat /\ GroupMs \in Nat
          <6>1. g[1].n \in g[1].n..Len(L)
            BY <2>3
          <6> QED
            BY <2>3, <6>1, FoldingAssumption
        <5> QED
          BY <5>1, <5>2
      <4> QED
        BY <4>2, <4>3 DEF Found, Burst
    <3> QED
      BY <3>1, <3>2, <3>3
  <2>13. ASSUME NEW n \in 1..k, L[n].kind = "mouse_press", Kind[L[n].on] = "menu"
         PROVE  n \in Kept(d)
    <3>1. CASE n \in 1..h
      BY <2>6, <2>11, <2>13, <3>1 DEF Accounts
    <3>2. CASE n \notin 1..h
      <4>1. n \in g[1].n..Len(L)
        BY <2>5, <3>2
      <4>2. L[m].kind \in MouseKinds
        BY <2>3, <2>13, <4>1 DEF MouseKinds
      <4>3. n = m
        BY <2>3, <2>5, <2>8, <4>1, <4>2
      <4> QED
        BY <2>10, <2>13, <4>3 DEF Handled
    <3> QED
      BY <3>1, <3>2
  <2>14. Accounts(d, L, k)
    BY <2>12, <2>13 DEF Accounts
  <2>15. Going(d, L)
    BY <2>11, <2>14 DEF Going, Folded, Grouped
  <2> QED
    BY <2>7, <2>11, <2>15 DEF d
<1> QED
  BY <1>1, <1>2

-----------------------------------------------------------------------------
(* What has just happened is collected.                                     *)

\* What the window and the widget are told, one after the other: Fed.
FedTo(c, ev) == IF ev.kind \in MouseKinds /\ Window # NoControl
                THEN Feed(Feed(c, [ev EXCEPT !.on = Window]), ev)
                ELSE Feed(c, ev)

LEMMA NewGroup ==
  ASSUME NEW c, NEW L \in Seq(EventRecs), Going(c, L), c.group = <<>>,
         NEW ev \in EventRecs, ev.n = Len(L) + 1,
         NEW g \in Seq(EventRecs), g # <<>>, g[1].n = ev.n, Grouped(g, Append(L, ev))
  PROVE  Going([c EXCEPT !.group = g], Append(L, ev))
<1> DEFINE M == Append(L, ev)
           h == Len(L)
           d == [c EXCEPT !.group = g]
<1>1. h \in Nat /\ h \in 0..Len(L)
  OBVIOUS
<1>2. Core(c, L, h) /\ Edge(c, L, h) /\ Accounts(c, L, h)
  BY DEF Going, Folded
<1>3. Core(c, M, h) /\ Edge(c, M, h) /\ Accounts(c, M, h)
  BY <1>1, <1>2, CoreLater, PromisesLater
<1>4. ev.n - 1 = h
  BY <1>1
<1> HIDE DEF M, h
<1>5. Core(d, M, h) /\ d.group = g /\ Edge(d, M, h) /\ Accounts(d, M, h)
  BY <1>1, <1>3, GroupSet
<1> HIDE DEF d
<1>6. Folded(d, M) = h
  BY <1>4, <1>5 DEF Folded
<1>7. Going(d, M)
  BY <1>5, <1>6 DEF Going, M
<1> QED
  BY <1>7 DEF M, d

\* One report joins the group, or is the first of a new one.
LEMMA OneCollected ==
  ASSUME NEW c, NEW L, Lived(L), Going(c, L),
         NEW ev \in EventRecs, ev.n = Len(L) + 1,
         ev.kind \in MouseKinds /\ c.group # <<>> => ~SameInteraction(c.group[1], ev)
  PROVE  Going(Feed(c, ev), Append(L, ev))
<1> DEFINE M == Append(L, ev)
           g == c.group
           b == IF g # <<>> /\ ~SameInteraction(g[1], ev) THEN FlushGroup(c) ELSE c
<1>1. /\ L \in Seq(EventRecs) /\ M \in Seq(EventRecs) /\ Len(L) \in Nat /\ Len(M) = Len(L) + 1
      /\ M[Len(L) + 1] = ev /\ \A n \in 1..Len(L) : M[n] = L[n]
      /\ DOMAIN L = 1..Len(L) /\ DOMAIN M = 1..(Len(L) + 1) /\ DOMAIN L \subseteq DOMAIN M
  BY Longer DEF Lived
<1>2. ev.t \in Nat /\ GroupMs \in Nat /\ ev.t - ev.t <= GroupMs
  BY FoldingAssumption DEF EventRecs
<1>3. Feed(c, ev) = [b EXCEPT !.group = Append(b.group, ev)]
  BY DEF Feed
<1>4. CASE g = <<>> \/ ~SameInteraction(g[1], ev)
  <2>1. Going(b, L) /\ b.group = <<>>
    BY <1>4, FlushFolds
  <2> HIDE DEF b
  <2> DEFINE f == Append(b.group, ev)
  <2>2. f = <<ev>>
    BY <2>1
  <2> HIDE DEF f, M
  <2>3. f \in Seq(EventRecs) /\ f # <<>> /\ f[1] = ev /\ DOMAIN f = {1}
    BY <2>2
  <2>4. Reports(M, ev)
    BY <1>1 DEF Reports
  <2>5. Grouped(f, M)
    <3>1. ev.n \in ev.n..Len(M) /\ \A n \in ev.n..Len(M) : n = Len(L) + 1
      BY <1>1
    <3>2. M[Len(M)] = ev
      BY <1>1
    <3> QED
      BY <1>1, <1>2, <2>3, <2>4, <3>1, <3>2 DEF Grouped
  <2>6. Going([b EXCEPT !.group = f], Append(L, ev))
    BY <1>1, <2>1, <2>3, <2>5, NewGroup DEF M
  <2> QED
    BY <1>3, <2>6 DEF f
<1>5. CASE g # <<>> /\ SameInteraction(g[1], ev)
  <2> DEFINE h == g[1].n - 1
             f == Append(g, ev)
             d == [c EXCEPT !.group = f]
  <2>1. Core(c, L, h) /\ Edge(c, L, h) /\ Accounts(c, L, h) /\ Grouped(g, L)
    BY <1>5 DEF Going, Folded
  <2>2. g \in Seq(EventRecs)
    BY <2>1 DEF Core, Captures
  <2>3. g[1].n \in 1..Len(L) /\ Len(L) \in 1..Len(L)
    BY <1>5, <2>1, <2>2, GroupFacts
  <2>4. h \in 0..Len(L) /\ h \in Nat
    BY <2>3
  <2>5. /\ f \in Seq(EventRecs) /\ f # <<>> /\ f[1] = g[1] /\ DOMAIN f = 1..(Len(g) + 1)
        /\ f[Len(g) + 1] = ev /\ \A i \in 1..Len(g) : f[i] = g[i]
        /\ \A i \in DOMAIN f : i \in 1..Len(g) \/ i = Len(g) + 1
        /\ Len(g) \in Nat /\ DOMAIN g = 1..Len(g) /\ 1 \in DOMAIN g
    <3> HIDE DEF g
    <3>1. Len(g) \in Nat \ {0} /\ DOMAIN g = 1..Len(g)
      BY <1>5, <2>2, EmptySeq
    <3>2. 1 \in DOMAIN g /\ 1 \in 1..Len(g)
      BY <3>1
    <3>3. /\ f \in Seq(EventRecs) /\ Len(f) = Len(g) + 1
          /\ f[Len(g) + 1] = ev /\ \A i \in 1..Len(g) : f[i] = g[i]
      BY <2>2
    <3> HIDE DEF f
    <3>4. DOMAIN f = 1..(Len(g) + 1) /\ f # <<>>
      BY <3>1, <3>3
    <3>5. \A i \in 1..(Len(g) + 1) : i \in 1..Len(g) \/ i = Len(g) + 1
      BY <3>1
    <3> QED
      BY <3>1, <3>2, <3>3, <3>4, <3>5
  <2>6. Feed(c, ev) = d
    BY <1>3, <1>5
  <2> HIDE DEF f, h
  <2>7. Core(c, M, h) /\ Edge(c, M, h) /\ Accounts(c, M, h)
    BY <1>1, <2>1, <2>4, CoreLater, PromisesLater
  <2> HIDE DEF M
  <2>8. Core(d, M, h) /\ d.group = f /\ Edge(d, M, h) /\ Accounts(d, M, h)
    BY <2>4, <2>5, <2>7, GroupSet
  <2> HIDE DEF d
  <2>9. ev.kind = g[1].kind /\ ev.t - g[1].t <= GroupMs /\ g[1].kind = L[Len(L)].kind
    BY <1>5, <2>1, <2>5 DEF SameInteraction, Grouped
  <2>10. M[Len(M)] = ev
    BY <1>1
  <2>11. Grouped(f, M)
    <3>1. ASSUME NEW i \in DOMAIN f
          PROVE  /\ Reports(M, f[i]) /\ f[i].n \in f[1].n..Len(M)
                 /\ f[i].kind = M[Len(M)].kind /\ f[i].t - f[1].t <= GroupMs
      <4>1. CASE i = Len(g) + 1
        <5>1. Reports(M, ev)
          BY <1>1 DEF Reports
        <5>2. ev.n \in g[1].n..Len(M)
          BY <1>1, <2>3
        <5> QED
          BY <2>5, <2>9, <2>10, <4>1, <5>1, <5>2
      <4>2. CASE i \in 1..Len(g)
        <5>1. Reports(L, g[i]) /\ g[i].n \in g[1].n..Len(L) /\ g[i].kind = L[Len(L)].kind
              /\ g[i].t - g[1].t <= GroupMs
          BY <1>5, <2>1, <2>5, <4>2 DEF Grouped
        <5>2. Reports(M, g[i])
          BY <1>1, <5>1 DEF Reports
        <5>3. g[i].n \in g[1].n..Len(M)
          BY <1>1, <2>3, <5>1
        <5> QED
          BY <2>5, <2>9, <2>10, <4>2, <5>1, <5>2, <5>3
      <4> QED
        BY <2>5, <4>1, <4>2
    <3>2. ASSUME NEW n \in f[1].n..Len(M)
          PROVE  \E i \in DOMAIN f : f[i] = M[n]
      <4>1. CASE n = Len(L) + 1
        <5>1. Len(g) + 1 \in DOMAIN f
          BY <2>5
        <5> QED
          BY <1>1, <2>5, <4>1, <5>1
      <4>2. CASE n # Len(L) + 1
        <5>1. n \in g[1].n..Len(L) /\ n \in 1..Len(L)
          BY <1>1, <2>3, <2>5, <4>2
        <5>2. PICK i \in DOMAIN g : g[i] = L[n]
          BY <1>5, <2>1, <5>1 DEF Grouped
        <5>3. i \in DOMAIN f /\ f[i] = g[i]
          BY <2>5
        <5> QED
          BY <1>1, <5>1, <5>2, <5>3
      <4> QED
        BY <4>1, <4>2
    <3>3. M[Len(M)].kind \notin MouseKinds
      BY <1>5, <2>10
    <3> QED
      BY <3>1, <3>2, <3>3 DEF Grouped
  <2>12. Folded(d, M) = h
    BY <2>5, <2>8 DEF Folded, h
  <2>13. Going(d, M)
    BY <2>8, <2>11, <2>12 DEF Going
  <2> QED
    BY <2>6, <2>13 DEF M
<1> QED
  BY <1>4, <1>5

LEMMA FedFolds ==
  ASSUME NEW c, NEW L, Lived(L), Going(c, L),
         NEW ev \in EventRecs, ev.n = Len(L) + 1,
         ev.kind \in MouseKinds /\ L # <<>> => ev.t - L[Len(L)].t > GroupMs
  PROVE  Going(FedTo(c, ev), Append(L, ev))
<1> DEFINE copy == [ev EXCEPT !.on = Window]
           g == c.group
<1>1. /\ L \in Seq(EventRecs) /\ Len(L) \in Nat /\ GroupMs \in Nat /\ ev.t \in Nat
  BY FoldingAssumption DEF Lived, EventRecs
<1>2. g \in Seq(EventRecs) /\ (g # <<>> => Grouped(g, L))
  <2>1. \E h : Core(c, L, h)
    BY DEF Going
  <2> QED
    BY <2>1 DEF Core, Captures, Going
<1>3. ev.kind \in MouseKinds /\ g # <<>> => ~SameInteraction(g[1], ev)
  <2> SUFFICES ASSUME ev.kind \in MouseKinds, g # <<>>, SameInteraction(g[1], ev)
               PROVE  FALSE
    OBVIOUS
  <2>1. /\ g[1].n \in 1..Len(L) /\ g[1].t = L[g[1].n].t
        /\ L[Len(L)].kind \in MouseKinds => g[1].n = Len(L)
    BY <1>2, GroupFacts
  <2>2. 1 \in DOMAIN g
    BY <1>2, EmptySeq
  <2>3. g[1].kind = L[Len(L)].kind
    BY <1>2, <2>2 DEF Grouped
  <2>4. ev.t - L[Len(L)].t <= GroupMs
    BY <2>1, <2>3 DEF SameInteraction
  <2>5. L # <<>> /\ L[Len(L)].t \in Nat
    <3>1. Len(L) \in 1..Len(L)
      BY <1>1, <2>1
    <3>2. L[Len(L)] \in EventRecs
      BY <1>1, <3>1
    <3> QED
      BY <3>1, <3>2 DEF EventRecs
  <2> QED
    BY <1>1, <2>4, <2>5
<1>4. CASE ~(ev.kind \in MouseKinds /\ Window # NoControl)
  <2>1. FedTo(c, ev) = Feed(c, ev)
    BY <1>4 DEF FedTo
  <2> QED
    BY <1>3, <2>1, OneCollected
<1>5. CASE ev.kind \in MouseKinds /\ Window # NoControl
  <2> DEFINE b == IF g # <<>> /\ ~SameInteraction(g[1], copy) THEN FlushGroup(c) ELSE c
             M == Append(L, ev)
             e == [b EXCEPT !.group = <<copy>>]
             one == <<copy>>
             f == Append(one, ev)
  <2>1. /\ copy \in EventRecs /\ copy.kind = ev.kind /\ copy.t = ev.t /\ copy.n = ev.n
    <3>1. Window \in Controls
      BY <1>5, CaptureAssumption
    <3> QED
      BY <3>1 DEF EventRecs
  <2>2. g # <<>> => ~SameInteraction(g[1], copy)
    BY <1>3, <1>5, <2>1 DEF SameInteraction
  <2>3. Going(b, L) /\ b.group = <<>>
    BY <2>2, FlushFolds
  <2>4. Feed(c, copy) = [b EXCEPT !.group = Append(b.group, copy)]
    BY DEF Feed
  <2>5. b \in Captures
    <3>1. \E h : Core(b, L, h)
      BY <2>3 DEF Going
    <3> QED
      BY <3>1 DEF Core
  <2>6. SameInteraction(copy, ev)
    BY <1>1, <2>1 DEF SameInteraction
  <2>7. M[Len(M)] = ev /\ ev.n = Len(M) /\ Len(M) \in DOMAIN M
    BY <1>1
  <2> HIDE DEF b, copy
  <2>8. Append(b.group, copy) = <<copy>>
    BY <2>3
  <2>9. Feed(c, copy) = e /\ e.group = <<copy>>
    BY <2>4, <2>5, <2>8 DEF Captures
  <2>10. Feed(e, ev) = [b EXCEPT !.group = f]
    <3>1. e.group[1] = copy
      BY <2>9
    <3>2. Feed(e, ev) = [e EXCEPT !.group = Append(e.group, ev)]
      BY <2>6, <3>1 DEF Feed
    <3>3. Append(e.group, ev) = f
      BY <2>9
    <3> HIDE DEF f
    <3>4. [e EXCEPT !.group = f] = [b EXCEPT !.group = f]
      BY <2>5 DEF Captures
    <3> QED
      BY <3>2, <3>3, <3>4
  <2>11. f \in Seq(EventRecs) /\ f # <<>> /\ f[1] = copy /\ f[2] = ev /\ DOMAIN f = {1, 2}
    <3>1. one \in Seq(EventRecs) /\ Len(one) = 1 /\ one[1] = copy
      BY <2>1
    <3> HIDE DEF one
    <3>2. /\ f \in Seq(EventRecs) /\ Len(f) = Len(one) + 1 /\ f[Len(one) + 1] = ev
          /\ \A n \in 1..Len(one) : f[n] = one[n]
      BY <3>1, Longer
    <3> HIDE DEF f
    <3>3. Len(f) = 2 /\ f[1] = copy /\ f[2] = ev
      BY <3>1, <3>2
    <3>4. DOMAIN f = 1..2 /\ f # <<>>
      <4>1. f \in Seq(EventRecs)
        BY <3>2
      <4>2. DOMAIN f = 1..Len(f) /\ Len(<<>>) = 0
        BY <4>1, LenProperties, EmptySeq
      <4> QED
        BY <3>3, <4>2
    <3>5. 1..2 = {1, 2}
      OBVIOUS
    <3> QED
      BY <3>2, <3>3, <3>4, <3>5
  <2> HIDE DEF f, M
  <2>12. Grouped(f, M)
    <3>1. Reports(M, ev) /\ Reports(M, copy)
      BY <1>5, <2>1, <2>7 DEF Reports, copy
    <3>2. /\ \A n \in ev.n..Len(M) : n = ev.n
          /\ ev.n \in ev.n..Len(M) /\ ev.t - ev.t <= GroupMs
      <4>1. Len(M) \in Nat
        BY <2>7, <1>1
      <4> QED
        BY <1>1, <2>7, <4>1
    <3> QED
      BY <2>1, <2>7, <2>11, <3>1, <3>2 DEF Grouped
  <2>13. Going([b EXCEPT !.group = f], Append(L, ev))
    BY <1>1, <2>1, <2>3, <2>11, <2>12, NewGroup DEF M
  <2>14. FedTo(c, ev) = Feed(Feed(c, copy), ev)
    BY <1>5 DEF FedTo, copy
  <2> QED
    BY <2>9, <2>10, <2>13, <2>14
<1> QED
  BY <1>4, <1>5

\* What has been folded is finished.
LEMMA FinishedOver ==
  ASSUME NEW c, NEW L, Lived(L), Going(c, L)
  PROVE  Over(Finish(c), L)
<1> DEFINE b == FlushGroup(c)
           h == Len(L)
           d == Conclude(b)
<1>1. Going(b, L) /\ b.group = <<>>
  BY FlushFolds
<1>2. h \in Nat
  BY DEF Lived
<1>3. Finish(c) = d
  BY DEF Finish
<1> HIDE DEF b
<1>4. Core(b, L, h) /\ Edge(b, L, h) /\ Accounts(b, L, h)
  BY <1>1 DEF Going, Folded
<1> HIDE DEF h
<1>5. Core(d, L, h) /\ Ended(b, d) /\ d.typing = <<>> /\ d.value = <<>> /\ d.pending = <<>>
  BY <1>2, <1>4, ConcludeEnds
<1> HIDE DEF d
<1>6. Kept(b) \subseteq Kept(d) /\ b.failed \subseteq Kept(d) /\ d.group = <<>>
  BY <1>1, <1>5 DEF Ended, SameClocks, Kept
<1>7. ASSUME NEW n \in 1..h, Done(L, n), L[n].kind = "mouse_press" => n + 1 \in 1..h
      PROVE  Found(Kept(d), L, n)
  <2>1. Found(Kept(b), L, n) \/ n \in Pending(b)
    BY <1>4, <1>7 DEF Accounts
  <2>2. CASE Found(Kept(b), L, n)
    BY <1>6, <2>2, MoreKept
  <2>3. CASE n \in Pending(b)
    <3>1. b.pending # <<>> /\ n = b.pending[1].n
      BY <2>3 DEF Pending
    <3>2. L[n].kind = "mouse_press"
      BY <1>4, <3>1 DEF Core, Waits
    <3>3. n # h
      BY <1>2, <1>7, <3>2
    <3>4. Lost(b.failed, L, b.pending[1].n)
      BY <1>4, <3>1, <3>3 DEF Edge, Expects
    <3> QED
      BY <1>2, <1>4, <1>6, <2>3, <3>1, <3>4, LostIsFound
  <2> QED
    BY <2>1, <2>2, <2>3
<1>8. Over(d, L)
  BY <1>5, <1>6, <1>7 DEF Over, h
<1> QED
  BY <1>3, <1>8

-----------------------------------------------------------------------------
(* The invariant.                                                           *)

LEMMA InitIInv == Init => IInv
<1> SUFFICES ASSUME Init
             PROVE  IInv
  OBVIOUS
<1> DEFINE launch == Step("launch", NoControl, {})
<1>1. launch \in StepRecs /\ launch.of = {} /\ launch.kind = "launch"
  BY DEF Step, StepRecs, StepKinds
<1> HIDE DEF launch
<1>2. /\ cap.rec.actions = <<launch>> /\ cap.rec.drops = <<>> /\ cap.failed = {} /\ cap.group = <<>>
      /\ cap.pending = <<>> /\ cap.menuAt = <<>> /\ cap.itemAt = <<>> /\ cap.typing = <<>> /\ cap.value = <<>>
  BY DEF Init, NewCapture, NewRecording, launch
<1>3. cap \in Captures
  <2>1. /\ <<launch>> \in Seq(StepRecs) /\ <<>> \in Seq(GapRecs) /\ <<>> \in Seq(EventRecs)
        /\ <<>> \in Maybe(EventRecs) /\ <<>> \in Maybe(Nat) /\ <<>> \in Maybe(TypingRuns) /\ <<>> \in Maybe(ValueRuns)
    BY <1>1, One
  <2>2. [c \in Controls |-> "unknown"] \in [Controls -> Answers \cup {"unknown"}]
    OBVIOUS
  <2> HIDE DEF StepRecs, GapRecs, EventRecs, TypingRuns, ValueRuns
  <2> QED
    BY <2>1, <2>2 DEF Init, NewCapture, NewRecording, Captures, launch
<1>4. /\ DOMAIN <<launch>> = {1} /\ <<launch>>[1] = launch /\ <<launch>> # <<>>
  OBVIOUS
<1>5. Told(cap) = {} /\ Typing(cap) = {} /\ Value(cap) = {} /\ Pending(cap) = {} /\ Claimed(cap) = {}
  BY <1>1, <1>2, <1>4 DEF Told, Typing, Value, Pending, Claimed
<1>6. Core(cap, log, 0)
  <2>1. Apart(cap) /\ Together(cap, log)
    BY <1>2, <1>4, <1>5 DEF Apart, Together
  <2>2. Clicked(cap, log)
    BY <1>1, <1>2, <1>4 DEF Clicked
  <2>3. Waits(cap, log) /\ Selected(cap, log)
    BY <1>2 DEF Waits, Selected
  <2>4. Gapped(cap, log)
    BY <1>2 DEF Gapped
  <2> QED
    BY <1>1, <1>2, <1>3, <1>4, <1>5, <2>1, <2>2, <2>3, <2>4 DEF Core
<1>7. Edge(cap, log, 0) /\ Accounts(cap, log, 0)
  BY <1>2 DEF Edge, Expects, Opened, Chosen, Latest, Accounts, Init
<1>8. Folded(cap, log) = 0 /\ Grouped(cap.group, log)
  BY <1>2 DEF Init, Folded, Grouped
<1>9. Going(cap, log)
  BY <1>6, <1>7, <1>8 DEF Going
<1>10. Lived(log)
  BY DEF Init, Lived
<1>11. Held /\ ~done
  BY DEF Init, Held
<1> QED
  BY <1>9, <1>10, <1>11 DEF IInv

\* What a person can do keeps the list one that a person can have done.
LEMMA LivesOn ==
  ASSUME NEW L, Lived(L), NEW ev \in EventRecs, ev.n = Len(L) + 1,
         L # <<>> => L[Len(L)].t <= ev.t,
         L # <<>> /\ L[Len(L)].kind \in Down => ev.kind = "mouse_release",
         ev.kind \in MouseKinds => ev.on \in Pressable \cup Elsewhere,
         ev.kind = "mouse_double" =>
           Len(L) >= 2 /\ L[Len(L) - 1].kind = "mouse_press" /\ L[Len(L) - 1].on = ev.on
  PROVE  Lived(Append(L, ev))
<1> DEFINE M == Append(L, ev)
           k == Len(L)
<1>1. /\ L \in Seq(EventRecs) /\ M \in Seq(EventRecs) /\ k \in Nat /\ Len(M) = k + 1
      /\ M[k + 1] = ev /\ \A n \in 1..k : M[n] = L[n]
      /\ \A n \in 1..(k + 1) : n = k + 1 \/ n \in 1..k
  BY Longer DEF Lived
<1>2. k \in 1..k => L # <<>>
  BY <1>1
<1>3. \A n \in 1..k : k \in 1..k /\ n <= k
  BY <1>1
<1> HIDE DEF M, k
<1>4. \A n \in 1..k : L[n].t <= L[k].t /\ L[n].t \in Nat
  <2>1. \A n \in 1..k : L[n] \in EventRecs
    BY <1>1 DEF k
  <2> QED
    BY <1>3, <2>1 DEF Lived, EventRecs, k
<1>5. ev.t \in Nat
  BY DEF EventRecs
<1>6. \A n \in 1..(k + 1) : M[n].n = n
  BY <1>1 DEF Lived, k
<1>7. ASSUME NEW n \in 1..(k + 1), NEW m \in 1..(k + 1), n <= m
      PROVE  M[n].t <= M[m].t
  <2>1. CASE m \in 1..k
    <3>1. n \in 1..k
      BY <1>1, <1>7, <2>1
    <3> QED
      BY <1>1, <1>7, <2>1, <3>1 DEF Lived, k
  <2>2. CASE m = k + 1 /\ n = k + 1
    BY <1>1, <1>5, <2>2
  <2>3. CASE m = k + 1 /\ n \in 1..k
    <3>1. M[n].t <= L[k].t /\ L[k].t <= ev.t /\ M[n].t \in Nat /\ L[k].t \in Nat
      BY <1>1, <1>2, <1>3, <1>4, <2>3 DEF k
    <3> QED
      BY <1>1, <1>5, <2>3, <3>1
  <2> QED
    BY <1>1, <2>1, <2>2, <2>3
<1>8. ASSUME NEW n \in 1..(k + 1), NEW m \in 1..(k + 1), m = n + 1, M[n].kind \in Down
      PROVE  M[m].kind = "mouse_release"
  <2>1. n \in 1..k
    BY <1>1, <1>8
  <2>2. CASE m \in 1..k
    BY <1>1, <1>8, <2>1, <2>2 DEF Lived, k
  <2>3. CASE m = k + 1
    <3>1. n = k /\ k \in 1..k
      BY <1>1, <1>8, <2>1, <2>3
    <3> QED
      BY <1>1, <1>2, <1>8, <2>3, <3>1 DEF k
  <2> QED
    BY <1>1, <2>2, <2>3
<1>9. ASSUME NEW n \in 1..(k + 1), M[n].kind = "mouse_double"
      PROVE  n > 2 /\ M[n - 2].kind = "mouse_press" /\ M[n - 2].on = M[n].on
  <2>1. CASE n \in 1..k
    <3>1. n > 2 /\ L[n - 2].kind = "mouse_press" /\ L[n - 2].on = L[n].on
      BY <1>1, <1>9, <2>1 DEF Lived, k
    <3>2. n - 2 \in 1..k
      BY <1>1, <2>1, <3>1
    <3> QED
      BY <1>1, <2>1, <3>1, <3>2
  <2>2. CASE n = k + 1
    <3>1. k >= 2 /\ L[k - 1].kind = "mouse_press" /\ L[k - 1].on = ev.on
      BY <1>1, <1>9, <2>2 DEF k
    <3>2. k - 1 \in 1..k /\ n - 2 = k - 1 /\ n > 2
      BY <1>1, <2>2, <3>1
    <3> QED
      BY <1>1, <2>2, <3>1, <3>2
  <2> QED
    BY <1>1, <2>1, <2>2
<1>10. \A n \in 1..(k + 1) : M[n].kind \in MouseKinds => M[n].on \in Pressable \cup Elsewhere
  BY <1>1 DEF Lived, k
<1>11. Lived(M)
  BY <1>1, <1>6, <1>7, <1>8, <1>9, <1>10 DEF Lived
<1> QED
  BY <1>11 DEF M

\* Something happens.
LEMMA HappensIInv ==
  ASSUME IInv, NEW kind \in EventKinds, NEW on \in Controls, NEW key \in KeySorts \cup {"none"},
         NEW interval \in Intervals, Happens(kind, on, key, interval),
         kind \in MouseKinds => interval > GroupMs /\ on \in Pressable \cup Elsewhere,
         kind # "mouse_release" => down = <<>>,
         kind = "mouse_double" =>
           Len(log) >= 2 /\ log[Len(log) - 1].kind = "mouse_press" /\ log[Len(log) - 1].on = on
  PROVE  IInv'
<1>1. /\ ~done /\ now' = now + interval /\ done' = done
      /\ Lived(log) /\ Held /\ Going(cap, log)
  BY DEF Happens, IInv
<1>2. PICK answer \in Known[on] :
        LET ev == [n |-> Len(log) + 1, kind |-> kind, on |-> on, t |-> now', key |-> key,
                   answer |-> answer]
        IN  /\ log' = Append(log, ev) /\ cap' = Fed(ev)
            /\ down' = CASE kind \in {"mouse_press", "mouse_double"} -> <<ev>>
                         [] kind = "mouse_release" -> <<>>
                         [] OTHER -> down
  BY DEF Happens
<1> DEFINE ev == [n |-> Len(log) + 1, kind |-> kind, on |-> on, t |-> now', key |-> key,
                  answer |-> answer]
<1>3. /\ now \in Nat /\ now' \in Nat /\ now <= now' /\ Len(log) \in Nat /\ log \in Seq(EventRecs)
      /\ GroupMs \in Nat /\ interval \in Nat
  BY <1>1, CaptureAssumption, FoldingAssumption DEF Held, Lived
<1>4. answer \in Answers
  BY CaptureAssumption
<1>5. ev \in EventRecs
  BY <1>3, <1>4 DEF EventRecs
<1>6. /\ ev.n = Len(log) + 1 /\ ev.kind = kind /\ ev.on = on /\ ev.t = now'
      /\ log' = Append(log, ev) /\ cap' = Fed(ev)
      /\ down' = CASE kind \in {"mouse_press", "mouse_double"} -> <<ev>>
                   [] kind = "mouse_release" -> <<>>
                   [] OTHER -> down
  BY <1>2
<1> HIDE DEF ev
<1>7. log # <<>> => log[Len(log)].t \in Nat /\ log[Len(log)].t <= now
  <2> SUFFICES ASSUME log # <<>>
               PROVE  log[Len(log)].t \in Nat /\ log[Len(log)].t <= now
    OBVIOUS
  <2>1. Len(log) \in 1..Len(log)
    BY <1>3, EmptySeq
  <2>2. log[Len(log)] \in EventRecs
    BY <1>3, <2>1
  <2> QED
    BY <1>1, <2>2 DEF Held, EventRecs
<1>8. log # <<>> => log[Len(log)].t <= ev.t
  BY <1>3, <1>6, <1>7
<1>9. log # <<>> /\ log[Len(log)].kind \in Down => ev.kind = "mouse_release"
  BY <1>1, <1>6 DEF Held
<1>10. Lived(Append(log, ev))
  BY <1>1, <1>5, <1>6, <1>8, <1>9, LivesOn
<1>11. ev.kind \in MouseKinds /\ log # <<>> => ev.t - log[Len(log)].t > GroupMs
  BY <1>1, <1>3, <1>6, <1>7
<1>12. Going(FedTo(cap, ev), Append(log, ev))
  BY <1>1, <1>5, <1>6, <1>11, FedFolds
<1>13. cap' = FedTo(cap, ev)
  BY <1>6 DEF Fed, FedTo
<1>14. /\ log'[Len(log')] = ev /\ log' # <<>>
  <2>1. log' \in Seq(EventRecs) /\ Len(log') = Len(log) + 1 /\ log'[Len(log) + 1] = ev
    BY <1>3, <1>5, <1>6, Longer
  <2> QED
    BY <1>3, <2>1, EmptySeq
<1>15. Held'
  <2>1. down' # <<>> <=> ev.kind \in Down
    BY <1>6, <1>1 DEF Down, Held
  <2>2. down' # <<>> => down'[1] = ev
    BY <1>6, <1>1 DEF Down, Held
  <2>3. done' \in BOOLEAN
    BY <1>1 DEF Held
  <2> QED
    BY <1>3, <1>6, <1>14, <2>1, <2>2, <2>3 DEF Held
<1>16. Lived(log') /\ Going(cap', log')
  BY <1>6, <1>10, <1>12, <1>13
<1> QED
  BY <1>1, <1>15, <1>16 DEF IInv

\* The release of what is down is on something the mouse reaches.
LEMMA DownReached ==
  ASSUME IInv, down # <<>>
  PROVE  down[1].on \in Pressable \cup Elsewhere
<1>1. log # <<>> /\ log[Len(log)].kind \in Down /\ down[1] = log[Len(log)] /\ Lived(log)
  BY DEF IInv, Held
<1>2. Len(log) \in 1..Len(log)
  BY <1>1, EmptySeq DEF Lived
<1>3. log[Len(log)].kind \in MouseKinds
  BY <1>1 DEF Down, MouseKinds
<1> QED
  BY <1>1, <1>2, <1>3 DEF Lived

LEMMA NextIInv == IInv /\ [Next]_vars => IInv'
<1> SUFFICES ASSUME IInv, [Next]_vars
             PROVE  IInv'
  OBVIOUS
<1>0. /\ Pressable \subseteq Controls /\ Elsewhere \subseteq Controls /\ Hot \subseteq Controls
      /\ Turned \subseteq Controls /\ Closed \subseteq Controls
      /\ \A typed \in Typed : typed[1] \in Controls /\ typed[2] \in KeySorts
  BY CaptureAssumption
<1>1. CASE Press
  <2>1. PICK on \in Pressable, interval \in Intervals :
          interval > GroupMs /\ Happens("mouse_press", on, "none", interval)
    BY <1>1 DEF Press
  <2> DEFINE kind == "mouse_press"
             key == "none"
  <2>2. kind \in EventKinds /\ key \in KeySorts \cup {"none"} /\ kind # "mouse_double" /\ down = <<>>
        /\ on \in Controls /\ on \in Pressable \cup Elsewhere /\ Happens(kind, on, key, interval)
    BY <1>0, <1>1, <2>1 DEF Press, EventKinds, MouseKinds
  <2> HIDE DEF kind, key
  <2> QED
    BY <2>1, <2>2, HappensIInv
<1>2. CASE ReleaseButton
  <2>1. PICK on \in {down[1].on} \cup Elsewhere, interval \in Intervals :
          interval > GroupMs /\ Happens("mouse_release", on, "none", interval)
    BY <1>2 DEF ReleaseButton
  <2> DEFINE kind == "mouse_release"
             key == "none"
  <2>2. on \in Pressable \cup Elsewhere
    BY <1>2, DownReached DEF ReleaseButton
  <2>3. kind \in EventKinds /\ key \in KeySorts \cup {"none"} /\ kind # "mouse_double"
        /\ kind = "mouse_release" /\ on \in Controls /\ Happens(kind, on, key, interval)
    BY <1>0, <2>1, <2>2 DEF EventKinds, MouseKinds
  <2> HIDE DEF kind, key
  <2> QED
    BY <2>1, <2>2, <2>3, HappensIInv
<1>3. CASE Double
  <2> DEFINE on == log[Len(log)].on
             kind == "mouse_double"
             key == "none"
  <2>1. /\ down = <<>> /\ Len(log) >= 2
        /\ log[Len(log) - 1].kind = "mouse_press" /\ log[Len(log)].kind = "mouse_release"
        /\ log[Len(log) - 1].on = on
    BY <1>3 DEF Double
  <2>2. PICK interval \in Intervals : interval > GroupMs /\ Happens(kind, on, key, interval)
    BY <1>3 DEF Double
  <2>3. on \in Pressable \cup Elsewhere
    <3>1. Lived(log) /\ Len(log) \in 1..Len(log)
      BY <2>1 DEF IInv, Lived
    <3>2. log[Len(log)].kind \in MouseKinds
      BY <2>1 DEF MouseKinds
    <3> QED
      BY <3>1, <3>2 DEF Lived
  <2>4. kind \in EventKinds /\ key \in KeySorts \cup {"none"} /\ on \in Controls
    BY <1>0, <2>3 DEF EventKinds, MouseKinds
  <2> HIDE DEF kind, key, on
  <2> QED
    BY <2>1, <2>2, <2>3, <2>4, HappensIInv
<1>4. CASE PressKey
  <2>1. PICK typed \in Typed, interval \in Intervals :
          Happens("key_press", typed[1], typed[2], interval)
    BY <1>4 DEF PressKey
  <2> DEFINE kind == "key_press"
             on == typed[1]
             key == typed[2]
  <2>2. /\ kind \in EventKinds /\ key \in KeySorts \cup {"none"} /\ kind # "mouse_double"
        /\ kind \notin MouseKinds /\ down = <<>> /\ on \in Controls /\ Happens(kind, on, key, interval)
    BY <1>0, <1>4, <2>1 DEF PressKey, EventKinds, MouseKinds
  <2> HIDE DEF kind, on, key
  <2> QED
    BY <2>2, HappensIInv
<1>5. CASE Shortcut
  <2>1. PICK on \in Hot, interval \in Intervals :
          interval > GroupMs /\ Happens("shortcut", on, "none", interval)
    BY <1>5 DEF Shortcut
  <2> DEFINE kind == "shortcut"
             key == "none"
  <2>2. /\ kind \in EventKinds /\ key \in KeySorts \cup {"none"} /\ kind # "mouse_double"
        /\ kind \notin MouseKinds /\ down = <<>> /\ on \in Controls /\ Happens(kind, on, key, interval)
    BY <1>0, <1>5, <2>1 DEF Shortcut, EventKinds, MouseKinds
  <2> HIDE DEF kind, key
  <2> QED
    BY <2>2, HappensIInv
<1>6. CASE TurnWheel
  <2>1. PICK on \in Turned, interval \in Intervals : Happens("wheel", on, "none", interval)
    BY <1>6 DEF TurnWheel
  <2> DEFINE kind == "wheel"
             key == "none"
  <2>2. /\ kind \in EventKinds /\ key \in KeySorts \cup {"none"} /\ kind # "mouse_double"
        /\ kind \notin MouseKinds /\ down = <<>> /\ on \in Controls /\ Happens(kind, on, key, interval)
    BY <1>0, <1>6, <2>1 DEF TurnWheel, EventKinds, MouseKinds
  <2> HIDE DEF kind, key
  <2> QED
    BY <2>2, HappensIInv
<1>7. CASE CloseWindow
  <2>1. PICK on \in Closed, interval \in Intervals :
          interval > GroupMs /\ Happens("close_window", on, "none", interval)
    BY <1>7 DEF CloseWindow
  <2> DEFINE kind == "close_window"
             key == "none"
  <2>2. /\ kind \in EventKinds /\ key \in KeySorts \cup {"none"} /\ kind # "mouse_double"
        /\ kind \notin MouseKinds /\ down = <<>> /\ on \in Controls /\ Happens(kind, on, key, interval)
    BY <1>0, <1>7, <2>1 DEF CloseWindow, EventKinds, MouseKinds
  <2> HIDE DEF kind, key
  <2> QED
    BY <2>2, HappensIInv
<1>8. CASE FlushStale
  <2>1. Lived(log) /\ Held /\ Going(cap, log) /\ ~done
    BY <1>8 DEF IInv, FlushStale
  <2>2. Going(cap', log')
    BY <1>8, <2>1, FlushFolds DEF FlushStale
  <2>3. now' \in Nat /\ now <= now' /\ now \in Nat
    BY <1>8, <2>1, CaptureAssumption DEF FlushStale, Held
  <2>4. log # <<>> => log[Len(log)].t <= now'
    <3> SUFFICES ASSUME log # <<>>
                 PROVE  log[Len(log)].t <= now'
      OBVIOUS
    <3>1. Len(log) \in 1..Len(log) /\ log \in Seq(EventRecs)
      BY <2>1, EmptySeq DEF Lived
    <3>2. log[Len(log)].t \in Nat /\ log[Len(log)].t <= now
      <4>1. log[Len(log)] \in EventRecs
        BY <3>1
      <4> QED
        BY <2>1, <4>1 DEF EventRecs, Held
    <3> QED
      BY <2>3, <3>2
  <2>5. Held'
    BY <1>8, <2>1, <2>3, <2>4 DEF FlushStale, Held
  <2> QED
    BY <1>8, <2>1, <2>2, <2>5 DEF FlushStale, IInv
<1>9. CASE FinishSession
  <2>1. Lived(log) /\ Held /\ Going(cap, log) /\ ~done
    BY <1>9 DEF IInv, FinishSession
  <2>2. Over(cap', log')
    BY <1>9, <2>1, FinishedOver DEF FinishSession
  <2>3. Held'
    BY <1>9, <2>1 DEF FinishSession, Held
  <2> QED
    BY <1>9, <2>1, <2>2, <2>3 DEF FinishSession, IInv
<1>10. CASE UNCHANGED vars
  BY <1>10 DEF vars, IInv, Held
<1> QED
  BY <1>1, <1>2, <1>3, <1>4, <1>5, <1>6, <1>7, <1>8, <1>9, <1>10 DEF Next

\* Whatever happened, in whatever order and at whatever pace, the session stands
\* where IInv says: what is folded is in one place (Core), what is waited for is
\* still to come or is gone for good (Edge), nothing is lost (Accounts), and the
\* group holds what is newest (Grouped).
LEMMA Invariance == Spec => []IInv
<1>1. Init => IInv
  BY InitIInv
<1>2. IInv /\ [Next]_vars => IInv'
  BY NextIInv
<1> QED
  BY <1>1, <1>2, PTL DEF Spec

-----------------------------------------------------------------------------
(* What the recording says.                                                 *)

LEMMA SessionCore ==
  ASSUME IInv
  PROVE  \E h \in 0..Len(log) : Core(cap, log, h)
<1>1. Len(log) \in Nat /\ Lived(log)
  BY DEF IInv, Lived
<1>2. CASE done
  BY <1>1, <1>2 DEF IInv, Over
<1>3. CASE ~done /\ cap.group = <<>>
  BY <1>1, <1>3 DEF IInv, Going, Folded
<1>4. CASE ~done /\ cap.group # <<>>
  <2> DEFINE h == cap.group[1].n - 1
  <2>1. Core(cap, log, h) /\ Grouped(cap.group, log)
    BY <1>4 DEF IInv, Going, Folded
  <2>2. cap.group \in Seq(EventRecs)
    BY <2>1 DEF Core, Captures
  <2>3. cap.group[1].n \in 1..Len(log)
    BY <1>1, <1>4, <2>1, <2>2, GroupFacts
  <2>4. h \in 0..Len(log)
    BY <1>1, <2>3
  <2> QED
    BY <2>1, <2>4
<1> QED
  BY <1>2, <1>3, <1>4

\* ClicksAreReal: a click in the recording is a press and its own release, on
\* one control; drags are never taken for one, except where the release the
\* press waits for was lost (capture.py:675-717).
THEOREM ClicksReal == Spec => []ClicksAreReal
<1>1. IInv => ClicksAreReal
  <2> SUFFICES ASSUME IInv, NEW i \in DOMAIN Steps, Steps[i].kind = "click",
                      NEW p \in Steps[i].of, NEW r \in Steps[i].of,
                      log[p].kind = "mouse_press", log[r].kind = "mouse_release"
               PROVE  /\ Target(log[p]) = Target(log[r])
                      /\ r = p + 1 \/ ReleaseWasLost(Steps[i])
    BY DEF ClicksAreReal
  <2>1. \E h : Core(cap, log, h)
    BY SessionCore
  <2>2. Real(cap.failed, log, Steps[i].of)
    BY <2>1 DEF Core, Clicked, Steps
  <2>3. log[First(Steps[i].of)].kind = "mouse_press" /\ Lost(cap.failed, log, First(Steps[i].of))
          => ReleaseWasLost(Steps[i])
    BY DEF Lost, Shadow, ReleaseWasLost, InTheShadowOfAnItem, Events
  <2> QED
    BY <2>2, <2>3 DEF Real, Target
<1> QED
  BY <1>1, Invariance, PTL

\* OneStepPerGesture: no event is in two steps, and a click on one control,
\* but for a bar held long, is never two: neither the popup's release, the
\* second half of a double click nor the window's copy becomes another
\* (capture.py:1003-1058, 757-768, 594-601).
THEOREM OneStep == Spec => []OneStepPerGesture
<1>1. IInv => OneStepPerGesture
  <2> SUFFICES ASSUME IInv, NEW i \in DOMAIN Steps, NEW j \in DOMAIN Steps, i # j,
                      NEW p \in Steps[i].of, NEW r \in Steps[j].of
               PROVE  /\ p # r
                      /\ ~ /\ log[p].kind = "mouse_press" /\ r = p + 1
                           /\ log[r].kind = "mouse_release" /\ log[p].on = log[r].on
                           /\ Kind[log[p].on] # "bar"
    BY DEF OneStepPerGesture
  <2>1. PICK h \in 0..Len(log) : Core(cap, log, h)
    BY SessionCore
  <2>2. Apart(cap) /\ Together(cap, log) /\ Claimed(cap) \subseteq 1..h
    BY <2>1 DEF Core
  <2>3. \A m \in DOMAIN Steps, n \in DOMAIN Steps : m # n => Steps[m].of \cap Steps[n].of = {}
    BY <2>2 DEF Apart, Steps
  <2>4. p \in Told(cap) /\ r \in Told(cap) /\ p \in Claimed(cap) /\ r \in Claimed(cap)
    BY DEF Told, Claimed, Steps
  <2>5. p # r
    BY <2>3
  <2>6. ASSUME log[p].kind = "mouse_press", r = p + 1, log[r].kind = "mouse_release",
               log[p].on = log[r].on, Kind[log[p].on] # "bar"
        PROVE  FALSE
    <3>1. p \in 1..Len(log) /\ r \in 1..Len(log)
      <4>1. Len(log) \in Nat
        BY DEF IInv, Lived
      <4>2. 1..h \subseteq 1..Len(log)
        BY <4>1
      <4> QED
        BY <2>2, <2>4, <4>2
    <3>2. Click(log, p, r)
      BY <2>6, <3>1 DEF Click
    <3>3. InOneStep(cap, p, r) \/ {p, r} \subseteq Typing(cap) \/ {p, r} \subseteq Value(cap)
      BY <2>2, <2>4, <3>2 DEF Together
    <3>4. p \notin Typing(cap) /\ p \notin Value(cap)
      BY <2>2, <2>4 DEF Apart
    <3>5. PICK k \in DOMAIN Steps : p \in Steps[k].of /\ r \in Steps[k].of
      BY <3>3, <3>4 DEF InOneStep, Steps
    <3>6. k = i /\ k = j
      BY <2>3, <3>5
    <3> QED
      BY <3>6
  <2> QED
    BY <2>5, <2>6
<1> QED
  BY <1>1, Invariance, PTL

\* OneGapPerClick: a click nobody could identify is one gap, not one for the
\* press and one for the release (capture.py:1491-1531).
THEOREM OneGap == Spec => []OneGapPerClick
<1>1. IInv => OneGapPerClick
  <2> SUFFICES ASSUME IInv
               PROVE  OneGapPerClick
    OBVIOUS
  <2>1. \E h : Core(cap, log, h)
    BY SessionCore
  <2>2. Gapped(cap, log)
    BY <2>1 DEF Core
  <2> QED
    BY <2>2 DEF Gapped, OneGapPerClick, Gaps
<1> QED
  BY <1>1, Invariance, PTL

\* NoSilentLoss: everything that was done is in a step, is in the report of
\* what was not recorded, or is still in the session's hands, while it goes on
\* and after it is finished; but for the release that is taken for a choice's
\* own and the second delivery of one interaction (capture.py:589-601, 757-761).
THEOREM NothingIsLost == Spec => []NoSilentLoss
<1>1. IInv => NoSilentLoss
  <2> SUFFICES ASSUME IInv, NEW n \in Starts
               PROVE  Accounted(n) \/ InTheShadowOfAnItem(n) \/ InABurst(n)
    BY DEF NoSilentLoss
  <2> DEFINE K == Kept(cap)
             all == Covered \cup cap.failed \cup InHand
  <2>1. log \in Seq(EventRecs) /\ Len(log) \in Nat /\ DOMAIN log = 1..Len(log)
    BY DEF IInv, Lived
  <2>2. n \in 1..Len(log) /\ Done(log, n) /\ (log[n].kind = "mouse_press" => n + 1 \in 1..Len(log))
    BY <2>1 DEF Starts, Events, Done
  <2>3. PICK h \in 0..Len(log) : Core(cap, log, h)
    BY SessionCore
  <2>4. K \subseteq Events /\ K \subseteq all
    <3>1. K \subseteq 1..h
      BY <2>3 DEF Core, Kept, Claimed
    <3>2. 1..h \subseteq 1..Len(log)
      BY <2>1
    <3>3. Told(cap) = Covered /\ Typing(cap) \subseteq InHand /\ Value(cap) \subseteq InHand
      BY DEF Told, Covered, Steps, Typing, Value, InHand
    <3> QED
      BY <2>1, <3>1, <3>2, <3>3 DEF Kept, Events
  <2>5. n \in all => Accounted(n)
    <3>1. n \in n..(n + 1) /\ n \in (n - 2)..(n + 1) /\ n \in {n}
      BY <2>2
    <3>2. n \in Gesture(n)
      BY <2>1, <2>2, <3>1 DEF Gesture, Events
    <3> QED
      BY <3>2 DEF Accounted
  <2>6. Found(K, log, n) => Accounted(n) \/ InTheShadowOfAnItem(n) \/ InABurst(n)
    <3>1. Reach(log, n) \cap K # {} => Accounted(n)
      <4>1. Gesture(n) = Reach(log, n) \cap Events
        BY DEF Gesture, Reach
      <4> HIDE DEF K
      <4> QED
        BY <2>4, <4>1 DEF Accounted
    <3>2. Shadow(log, n) => InTheShadowOfAnItem(n)
      BY DEF Shadow, InTheShadowOfAnItem, Events
    <3>3. Burst(log, n) => InABurst(n)
      BY DEF Burst, InABurst, Events
    <3> QED
      BY <3>1, <3>2, <3>3 DEF Found
  <2>7. CASE done
    <3>1. Found(K, log, n)
      BY <2>2, <2>7 DEF IInv, Over
    <3> QED
      BY <2>6, <3>1
  <2>8. CASE ~done /\ n \in 1..Folded(cap, log)
    <3>1. Found(K, log, n) \/ n \in Pending(cap)
      BY <2>2, <2>8 DEF IInv, Going, Accounts
    <3>2. Pending(cap) \subseteq InHand
      BY DEF Pending, InHand
    <3> QED
      BY <2>5, <2>6, <3>1, <3>2
  <2>9. CASE ~done /\ n \notin 1..Folded(cap, log)
    <3>1. cap.group # <<>>
      BY <2>2, <2>9 DEF Folded
    <3>2. Grouped(cap.group, log)
      BY <2>9 DEF IInv, Going
    <3>3. cap.group \in Seq(EventRecs)
      BY <2>3 DEF Core, Captures
    <3>4. cap.group[1].n \in 1..Len(log)
      BY <3>1, <3>2, <3>3, GroupFacts DEF IInv
    <3>5. n \in cap.group[1].n..Len(log)
      BY <2>1, <2>2, <2>9, <3>1, <3>4 DEF Folded
    <3>6. \E i \in DOMAIN cap.group : cap.group[i] = log[n]
      BY <3>1, <3>2, <3>5 DEF Grouped
    <3>7. log[n].n = n
      BY <2>2 DEF IInv, Lived
    <3>8. n \in InHand
      BY <3>6, <3>7 DEF InHand
    <3> QED
      BY <2>5, <3>8
  <2> QED
    BY <2>7, <2>8, <2>9
<1> QED
  BY <1>1, Invariance, PTL
-----------------------------------------------------------------------------
(* The order of steps and gaps.                                             *)

\* ReleaseWasLost for the events of a step, CountedOff for a gap.
Late(F, L, of) == L[First(of)].kind = "mouse_press" /\ Lost(F, L, First(of))
Uncounted(L, gap) == \E n \in DOMAIN L : n > gap.of /\ Kind[L[n].on] \in {"popup", "popup_unread"}

\* The step t can come behind s, or behind a gap.
Before(F, L, s, t) == \/ First(s.of) < First(t.of)
                      \/ ReadLate(s) /\ ReadLate(t)
                      \/ Late(F, L, t.of)
                      \/ L[First(s.of)].kind = "mouse_release"
After(F, L, gap, s) == \/ First(s.of) > gap.of
                       \/ Late(F, L, s.of)
                       \/ ReadLate(s) /\ gap.kind \in MouseKinds \cup {"key_press"}
                       \/ Uncounted(L, gap)

\* The step can come at the end of the recording.
Follows(F, L, rec, s) ==
  /\ s.of # {}
  /\ \A i \in 2..Len(rec.actions) : Before(F, L, rec.actions[i], s)
  /\ \A d \in DOMAIN rec.drops : After(F, L, rec.drops[d], s)

\* The gap is where it was lost among the steps.
Placed(F, L, gap, a) ==
  /\ gap.after <= Len(a)
  /\ \A i \in 2..Len(a) : IF i <= gap.after THEN First(a[i].of) < gap.of ELSE After(F, L, gap, a[i])

\* The steps are in order, and the gaps among them.
Listed(F, L, rec) ==
  LET a == rec.actions
  IN  /\ \A i \in 2..Len(a) : a[i].of # {}
      /\ \A i, j \in 2..Len(a) : i < j => Before(F, L, a[i], a[j])
      /\ \A d \in DOMAIN rec.drops : Uncounted(L, rec.drops[d]) \/ Placed(F, L, rec.drops[d], a)

\* The steps that the runs in progress would be.
TypingStep(run) == Step("type", run.on, run.of)
Open(c) == (IF c.typing = <<>> THEN {} ELSE {TypingStep(c.typing[1])})
             \cup (IF c.value = <<>> THEN {} ELSE {ValueStep(c.value[1])})

\* What is in progress can still be recorded, and what waits came before it.
Ordered(c, L) ==
  /\ Listed(c.failed, L, c.rec)
  /\ \A s \in Open(c) : ReadLate(s) /\ Follows(c.failed, L, c.rec, s)
  /\ c.pending # <<>> =>
       /\ \A s \in Open(c) : \A n \in s.of : c.pending[1].n < n
       /\ \A d \in DOMAIN c.rec.drops : c.rec.drops[d].of # c.pending[1].n

LEMMA Firsts ==
  ASSUME NEW S \in SUBSET Nat, S # {}
  PROVE  First(S) \in S /\ First(S) \in Nat /\ \A n \in S : First(S) <= n
<1>1. \E x \in S : \A y \in S : x <= y
  BY Lists!Least
<1> QED
  BY <1>1 DEF First

LEMMA FirstIs ==
  ASSUME NEW S \in SUBSET Nat, NEW x \in S, \A n \in S : x <= n
  PROVE  First(S) = x
<1>1. First(S) \in S /\ First(S) \in Nat /\ First(S) <= x
  BY Firsts
<1>2. x <= First(S) /\ x \in Nat
  BY <1>1
<1> HIDE DEF First
<1> QED
  BY <1>1, <1>2

\* A longer report keeps what was in order in order.
LEMMA OrderKept ==
  ASSUME NEW F, NEW G, F \subseteq G, NEW L
  PROVE  /\ \A s, t : Before(F, L, s, t) => Before(G, L, s, t)
         /\ \A gap, s : After(F, L, gap, s) => After(G, L, gap, s)
         /\ \A rec, s : Follows(F, L, rec, s) => Follows(G, L, rec, s)
         /\ \A rec : Listed(F, L, rec) => Listed(G, L, rec)
<1>1. \A of : Late(F, L, of) => Late(G, L, of)
  BY DEF Late, Lost
<1>2. \A s, t : Before(F, L, s, t) => Before(G, L, s, t)
  BY <1>1 DEF Before
<1>3. \A gap, s : After(F, L, gap, s) => After(G, L, gap, s)
  BY <1>1 DEF After
<1>4. \A rec, s : Follows(F, L, rec, s) => Follows(G, L, rec, s)
  BY <1>2, <1>3 DEF Follows
<1>5. \A gap, a : Placed(F, L, gap, a) => Placed(G, L, gap, a)
  BY <1>3 DEF Placed
<1>6. \A rec : Listed(F, L, rec) => Listed(G, L, rec)
  BY <1>2, <1>5 DEF Listed
<1> QED
  BY <1>2, <1>3, <1>4, <1>6

\* A step that was begun when another was, and is read late if that is, can
\* stand where that one does.
LEMMA InItsPlace ==
  ASSUME NEW F, NEW L, NEW s, NEW t, First(t.of) = First(s.of), t.of # {},
         ReadLate(s) => ReadLate(t)
  PROVE  /\ \A r : Before(F, L, r, s) => Before(F, L, r, t)
         /\ \A gap : After(F, L, gap, s) => After(F, L, gap, t)
         /\ \A rec : Follows(F, L, rec, s) => Follows(F, L, rec, t)
<1>1. \A r : Before(F, L, r, s) => Before(F, L, r, t)
  BY DEF Before, Late
<1>2. \A gap : After(F, L, gap, s) => After(F, L, gap, t)
  BY DEF After, Late
<1> QED
  BY <1>1, <1>2 DEF Follows

\* One more step, which can come at the end.
LEMMA StepListed ==
  ASSUME NEW F, NEW L, NEW rec, rec.actions \in Seq(StepRecs), rec.drops \in Seq(GapRecs), Listed(F, L, rec),
         NEW s \in StepRecs, Follows(F, L, rec, s),
         NEW longer, longer.actions = Append(rec.actions, s), longer.drops = rec.drops
  PROVE  /\ Listed(F, L, longer)
         /\ \A t : Follows(F, L, rec, t) /\ Before(F, L, s, t) => Follows(F, L, longer, t)
<1> DEFINE a == rec.actions
           b == longer.actions
           N == Len(a)
<1>1. /\ N \in Nat /\ Len(b) = N + 1 /\ b[N + 1] = s
      /\ \A i \in 1..N : b[i] = a[i]
  BY DEF StepRecs
<1>2. \A d \in DOMAIN rec.drops : rec.drops[d].after \in Nat
  <2>1. \A d \in DOMAIN rec.drops : rec.drops[d] \in GapRecs
    OBVIOUS
  <2> QED
    BY <2>1 DEF GapRecs
<1> HIDE DEF a, b, N
<1>3. \A i \in 2..(N + 1) : (i \in 2..N /\ i \in 1..N) \/ i = N + 1
  BY <1>1
<1>4. /\ \A i \in 2..N : a[i].of # {} /\ Before(F, L, a[i], s)
      /\ \A i, j \in 2..N : i < j => Before(F, L, a[i], a[j])
      /\ s.of # {}
  BY DEF Listed, Follows, a, N
<1>5. \A i \in 2..Len(b) : b[i].of # {}
  BY <1>1, <1>3, <1>4
<1>6. ASSUME NEW i \in 2..Len(b), NEW j \in 2..Len(b), i < j
      PROVE  Before(F, L, b[i], b[j])
  <2>1. i \in 2..N /\ i \in 1..N
    BY <1>1, <1>3, <1>6
  <2>2. CASE j \in 2..N /\ j \in 1..N
    BY <1>1, <1>4, <1>6, <2>1, <2>2
  <2>3. CASE j = N + 1
    BY <1>1, <1>4, <2>1, <2>3
  <2> QED
    BY <1>1, <1>3, <2>2, <2>3
<1>7. ASSUME NEW d \in DOMAIN rec.drops
      PROVE  Uncounted(L, rec.drops[d]) \/ Placed(F, L, rec.drops[d], b)
  <2> DEFINE gap == rec.drops[d]
  <2>1. CASE Uncounted(L, gap)
    BY <2>1
  <2>2. CASE Placed(F, L, gap, a)
    <3>1. /\ gap.after <= N /\ gap.after \in Nat /\ After(F, L, gap, s)
          /\ \A i \in 2..N : IF i <= gap.after THEN First(a[i].of) < gap.of ELSE After(F, L, gap, a[i])
      BY <1>2, <2>2 DEF Placed, Follows, N
    <3> HIDE DEF gap
    <3>2. \A i \in 2..Len(b) : IF i <= gap.after THEN First(b[i].of) < gap.of ELSE After(F, L, gap, b[i])
      <4> SUFFICES ASSUME NEW i \in 2..Len(b)
                   PROVE  IF i <= gap.after THEN First(b[i].of) < gap.of ELSE After(F, L, gap, b[i])
        OBVIOUS
      <4>1. CASE i \in 2..N /\ i \in 1..N
        BY <1>1, <3>1, <4>1
      <4>2. CASE i = N + 1
        <5>1. ~(i <= gap.after)
          BY <1>1, <3>1, <4>2
        <5> QED
          BY <1>1, <3>1, <4>2, <5>1
      <4> QED
        BY <1>1, <1>3, <4>1, <4>2
    <3>3. gap.after <= Len(b)
      BY <1>1, <3>1
    <3>4. Placed(F, L, gap, b)
      BY <3>2, <3>3 DEF Placed
    <3> QED
      BY <3>4 DEF gap
  <2> QED
    BY <2>1, <2>2 DEF Listed, a
<1>8. Listed(F, L, longer)
  BY <1>5, <1>6, <1>7 DEF Listed, b
<1>9. ASSUME NEW t, Follows(F, L, rec, t), Before(F, L, s, t)
      PROVE  Follows(F, L, longer, t)
  <2>1. \A i \in 2..N : Before(F, L, a[i], t)
    BY <1>9 DEF Follows, a, N
  <2>2. \A i \in 2..Len(b) : Before(F, L, b[i], t)
    BY <1>1, <1>3, <1>9, <2>1
  <2> QED
    BY <1>9, <2>2 DEF Follows, b
<1> QED
  BY <1>8, <1>9

\* A session that has one more step, or only lets go of runs and waits for less.
LEMMA StepOrdered ==
  ASSUME NEW L, NEW c \in Captures, Ordered(c, L),
         NEW s \in StepRecs, Follows(c.failed, L, c.rec, s),
         NEW d \in Captures, d.rec.actions = Append(c.rec.actions, s), d.rec.drops = c.rec.drops,
         c.failed \subseteq d.failed, d.pending \in {c.pending, <<>>},
         \A t \in Open(d) : t \in Open(c) /\ (ReadLate(s) \/ Before(c.failed, L, s, t))
  PROVE  Ordered(d, L)
<1>1. c.rec.actions \in Seq(StepRecs) /\ c.rec.drops \in Seq(GapRecs) /\ Listed(c.failed, L, c.rec)
  BY DEF Captures, Ordered
<1>2. /\ Listed(c.failed, L, d.rec)
      /\ \A t : Follows(c.failed, L, c.rec, t) /\ Before(c.failed, L, s, t) => Follows(c.failed, L, d.rec, t)
  BY <1>1, StepListed
<1>3. Listed(d.failed, L, d.rec)
  BY <1>2, OrderKept
<1>4. ASSUME NEW t \in Open(d)
      PROVE  ReadLate(t) /\ Follows(d.failed, L, d.rec, t)
  <2>1. t \in Open(c) /\ ReadLate(t) /\ Follows(c.failed, L, c.rec, t)
    BY <1>4 DEF Ordered
  <2>2. Before(c.failed, L, s, t)
    BY <1>4, <2>1 DEF Before
  <2>3. Follows(c.failed, L, d.rec, t)
    BY <1>2, <2>1, <2>2
  <2> QED
    BY <2>1, <2>3, OrderKept
<1>5. d.pending # <<>> => /\ \A t \in Open(d) : \A n \in t.of : d.pending[1].n < n
                          /\ \A i \in DOMAIN d.rec.drops : d.rec.drops[i].of # d.pending[1].n
  BY DEF Ordered
<1> QED
  BY <1>3, <1>4, <1>5 DEF Ordered

LEMMA RestOrdered ==
  ASSUME NEW L, NEW c, Ordered(c, L),
         NEW d, d.rec = c.rec, c.failed \subseteq d.failed, d.pending \in {c.pending, <<>>},
         Open(d) \subseteq Open(c)
  PROVE  Ordered(d, L)
<1>1. Listed(d.failed, L, d.rec)
  BY OrderKept DEF Ordered
<1>2. \A t \in Open(d) : ReadLate(t) /\ Follows(d.failed, L, d.rec, t)
  BY OrderKept DEF Ordered
<1> QED
  BY <1>1, <1>2 DEF Ordered

\* A session that begins or continues a run.
LEMMA RunOrdered ==
  ASSUME NEW L, NEW c, Ordered(c, L),
         NEW d, d.rec = c.rec, d.failed = c.failed, d.pending = c.pending,
         NEW t, ReadLate(t), Follows(c.failed, L, c.rec, t), Open(d) \subseteq Open(c) \cup {t},
         c.pending # <<>> => \A n \in t.of : c.pending[1].n < n
  PROVE  Ordered(d, L)
BY DEF Ordered

-----------------------------------------------------------------------------
(* What is recorded in order.                                               *)

\* A step begun now, or with a press whose release was lost.
LEMMA FollowsAt ==
  ASSUME NEW L, NEW h \in Nat, NEW c, Core(c, L, h), Ordered(c, L),
         NEW s, s.of # {}, NEW n \in Nat, First(s.of) = n,
         \/ Late(c.failed, L, s.of)
         \/ n >= h /\ n \notin Told(c) /\ \A d \in DOMAIN c.rec.drops : c.rec.drops[d].of # n
  PROVE  Follows(c.failed, L, c.rec, s)
<1> DEFINE a == c.rec.actions
           drops == c.rec.drops
<1>1. CASE Late(c.failed, L, s.of)
  BY <1>1 DEF Follows, Before, After
<1>2. CASE n >= h /\ n \notin Told(c) /\ \A d \in DOMAIN drops : drops[d].of # n
  <2>1. a \in Seq(StepRecs) /\ Told(c) \subseteq 1..h /\ c.failed \subseteq 1..h
    BY DEF Core, Captures, Claimed
  <2>2. ASSUME NEW i \in 2..Len(a)
        PROVE  Before(c.failed, L, a[i], s)
    <3>1. i \in DOMAIN a /\ a[i] \in StepRecs
      BY <2>1
    <3>2. a[i].of \in SUBSET Nat /\ a[i].of # {} /\ a[i].of \subseteq Told(c)
      BY <3>1, <2>2 DEF StepRecs, Ordered, Listed, Told
    <3>3. First(a[i].of) \in Told(c) /\ First(a[i].of) \in Nat
      BY <3>2, Firsts
    <3>4. First(a[i].of) <= h /\ First(a[i].of) # n
      BY <1>2, <2>1, <3>3
    <3> QED
      BY <1>2, <3>3, <3>4 DEF Before
  <2>3. ASSUME NEW d \in DOMAIN drops
        PROVE  After(c.failed, L, drops[d], s)
    <3>1. drops[d].of \in c.failed
      BY <2>3 DEF Core, Gapped
    <3>2. drops[d].of \in 1..h /\ drops[d].of # n
      BY <1>2, <2>1, <3>1
    <3> QED
      BY <1>2, <3>2 DEF After
  <2> QED
    BY <2>2, <2>3 DEF Follows
<1> QED
  BY <1>1, <1>2

\* A step begun now with something else that happened.
LEMMA NewFollows ==
  ASSUME NEW L, NEW h \in Nat, NEW c, Core(c, L, h), Ordered(c, L),
         NEW m \in Nat, h < m, NEW s, s.of = {m}
  PROVE  Follows(c.failed, L, c.rec, s)
<1>1. First(s.of) = m
  BY FirstIs
<1>2. m \notin Told(c) /\ \A d \in DOMAIN c.rec.drops : c.rec.drops[d].of # m
  <2>1. \A n \in 1..h : n # m
    OBVIOUS
  <2> QED
    BY <2>1 DEF Core, Claimed, Gapped
<1>3. s.of # {} /\ m >= h
  OBVIOUS
<1> QED
  BY <1>1, <1>2, <1>3, FollowsAt

LEMMA OpenStep ==
  ASSUME NEW c \in Captures
  PROVE  /\ Open(c) \subseteq StepRecs
         /\ \A s \in Open(c) : s.of \subseteq Claimed(c)
<1>1. c.typing # <<>> => c.typing[1] \in TypingRuns
  BY One DEF Captures
<1>2. c.value # <<>> => c.value[1] \in ValueRuns
  BY One DEF Captures
<1>3. \A run \in TypingRuns : TypingStep(run) \in StepRecs /\ TypingStep(run).of = run.of
  BY DEF TypingRuns, TypingStep, Step, StepRecs, StepKinds
<1>4. \A run \in ValueRuns : ValueStep(run) \in StepRecs /\ ValueStep(run).of = run.of
  BY DEF ValueRuns, ValueStep, Step, StepRecs, StepKinds
<1> QED
  BY <1>1, <1>2, <1>3, <1>4 DEF Open, Claimed, Typing, Value

LEMMA FlushTypingOrdered ==
  ASSUME NEW L, Lived(L), NEW h \in Nat, NEW c, Core(c, L, h), Ordered(c, L)
  PROVE  Ordered(FlushTyping(c), L)
<1>1. CASE c.typing = <<>>
  BY <1>1 DEF FlushTyping
<1>2. CASE c.typing # <<>>
  <2> DEFINE e == [c EXCEPT !.typing = <<>>]
             s == TypingStep(c.typing[1])
             d == FlushTyping(c)
  <2>1. c \in Captures
    BY DEF Core
  <2>2. e \in Captures /\ e.rec = c.rec /\ e.failed = c.failed
    BY <2>1, One DEF Captures
  <2>3. s \in Open(c) /\ s \in StepRecs
    BY <1>2, <2>1, OpenStep DEF Open
  <2>4. d = Record(e, s)
    BY <1>2 DEF FlushTyping, TypingStep
  <2> HIDE DEF e, s
  <2>5. /\ d.rec.actions = Append(c.rec.actions, s) /\ d.rec.drops = c.rec.drops /\ d.failed = c.failed
    BY <2>2, <2>3, <2>4, RecordShape
  <2>6. d \in Captures /\ d.typing = <<>> /\ d.value = c.value /\ d.pending = c.pending
    BY FlushTypingEnds DEF Core
  <2> HIDE DEF d
  <2>7. Open(d) \subseteq Open(c)
    BY <2>6 DEF Open
  <2>8. ReadLate(s) /\ Follows(c.failed, L, c.rec, s)
    BY <2>3 DEF Ordered
  <2>9. Ordered(d, L)
    BY <2>1, <2>3, <2>5, <2>6, <2>7, <2>8, StepOrdered
  <2> QED
    BY <2>9 DEF d
<1> QED
  BY <1>1, <1>2

\* A value is read while something else that is read late goes on.
LEMMA FlushValueOrdered ==
  ASSUME NEW L, Lived(L), NEW h \in Nat, NEW c, Core(c, L, h), Ordered(c, L)
  PROVE  LET d == FlushValue(c)
         IN  /\ Ordered(d, L)
             /\ \A t : ReadLate(t) /\ Follows(c.failed, L, c.rec, t) => Follows(d.failed, L, d.rec, t)
<1>1. CASE c.value = <<>>
  BY <1>1 DEF FlushValue
<1>2. CASE c.value # <<>>
  <2> DEFINE e == [c EXCEPT !.value = <<>>]
             s == ValueStep(c.value[1])
             d == FlushValue(c)
  <2>1. c \in Captures
    BY DEF Core
  <2>2. e \in Captures /\ e.rec = c.rec /\ e.failed = c.failed
    BY <2>1, One DEF Captures
  <2>3. s \in Open(c) /\ s \in StepRecs
    BY <1>2, <2>1, OpenStep DEF Open
  <2>4. d = IF c.value[1].fading THEN [e EXCEPT !.failed = @ \cup c.value[1].of] ELSE Record(e, s)
    BY <1>2 DEF FlushValue
  <2>5. d \in Captures /\ d.value = <<>> /\ d.typing = c.typing /\ d.pending = c.pending /\ c.failed \subseteq d.failed
    BY FlushValueEnds DEF Core, Ended
  <2> HIDE DEF e, s, d
  <2>6. Open(d) \subseteq Open(c)
    BY <2>5 DEF Open
  <2>7. ReadLate(s) /\ Follows(c.failed, L, c.rec, s)
    BY <2>3 DEF Ordered
  <2>8. CASE c.value[1].fading
    <3>1. d.rec = c.rec
      BY <2>2, <2>4, <2>8 DEF Captures
    <3>2. Ordered(d, L)
      BY <2>5, <2>6, <3>1, RestOrdered
    <3>3. \A t : Follows(c.failed, L, c.rec, t) => Follows(d.failed, L, d.rec, t)
      BY <2>5, <3>1, OrderKept
    <3> QED
      BY <3>2, <3>3 DEF d
  <2>9. CASE ~c.value[1].fading
    <3>1. /\ d.rec.actions = Append(c.rec.actions, s) /\ d.rec.drops = c.rec.drops
      BY <2>2, <2>3, <2>4, <2>9, RecordShape
    <3>2. Ordered(d, L)
      BY <2>1, <2>3, <2>5, <2>6, <2>7, <3>1, StepOrdered
    <3>3. ASSUME NEW t, ReadLate(t), Follows(c.failed, L, c.rec, t)
          PROVE  Follows(d.failed, L, d.rec, t)
      <4>1. Before(c.failed, L, s, t)
        BY <2>7, <3>3 DEF Before
      <4>2. c.rec.actions \in Seq(StepRecs) /\ c.rec.drops \in Seq(GapRecs) /\ Listed(c.failed, L, c.rec)
        BY <2>1 DEF Captures, Ordered
      <4>3. Follows(c.failed, L, d.rec, t)
        BY <2>3, <2>7, <3>1, <3>3, <4>1, <4>2, StepListed
      <4> QED
        BY <2>5, <4>3, OrderKept
    <3> QED
      BY <3>2, <3>3 DEF d
  <2> QED
    BY <2>8, <2>9
<1> QED
  BY <1>1, <1>2

LEMMA FlushInputOrdered ==
  ASSUME NEW L, Lived(L), NEW h \in Nat, NEW c, Core(c, L, h), Ordered(c, L)
  PROVE  Ordered(FlushInput(c), L) /\ Open(FlushInput(c)) = {}
<1> DEFINE e == FlushTyping(c)
<1>1. Core(e, L, h) /\ Ordered(e, L)
  BY FlushTypingEnds, FlushTypingOrdered
<1>2. FlushInput(c) = FlushValue(e)
  BY DEF FlushInput
<1> HIDE DEF e
<1>3. Ordered(FlushInput(c), L)
  BY <1>1, <1>2, FlushValueOrdered
<1>4. FlushInput(c).typing = <<>> /\ FlushInput(c).value = <<>>
  BY FlushInputEnds
<1> QED
  BY <1>3, <1>4 DEF Open

LEMMA ConcludeOrdered ==
  ASSUME NEW L, Lived(L), NEW h \in Nat, NEW c, Core(c, L, h), Ordered(c, L)
  PROVE  Ordered(Conclude(c), L) /\ Open(Conclude(c)) = {}
<1> DEFINE e == FlushInput(c)
           d == [e EXCEPT !.pending = <<>>]
<1>1. Core(e, L, h) /\ Ordered(e, L) /\ Open(e) = {}
  BY FlushInputEnds, FlushInputOrdered
<1>2. Conclude(c) = d
  BY DEF Conclude
<1> HIDE DEF e
<1>3. d.rec = e.rec /\ d.failed = e.failed /\ d.pending = <<>> /\ d.typing = e.typing /\ d.value = e.value
  BY <1>1 DEF Core, Captures
<1> HIDE DEF d
<1>4. Open(d) = {}
  BY <1>1, <1>3 DEF Open
<1> QED
  BY <1>1, <1>2, <1>3, <1>4, RestOrdered

\* A line, and a gap if it is no decision, behind all the steps: what runs is
\* read late, and a wheel, a shortcut or a closed window has ended the runs.
LEMMA DropOrdered ==
  ASSUME NEW L, Lived(L), NEW h \in Nat, NEW c, Core(c, L, h), Ordered(c, L),
         NEW m \in Nat, h < m, m <= Len(L), NEW reason \in Reasons \cup Deliberate,
         Open(c) = {} \/ L[m].kind \in MouseKinds \cup {"key_press"}
  PROVE  Ordered(Drop(c, L[m], reason), L)
<1> DEFINE d == Drop(c, L[m], reason)
           gap == Gap(c, L[m], reason)
           old == c.rec.drops
           a == c.rec.actions
<1>1. c \in Captures /\ Claimed(c) \cup c.failed \subseteq 1..h
  BY DEF Core
<1>2. m \in 1..Len(L) /\ L[m] \in EventRecs /\ L[m].n = m
  <2>1. m \in 1..Len(L)
    BY DEF Lived
  <2> QED
    BY <2>1 DEF Lived
<1>3. /\ d \in Captures /\ d.rec.actions = a /\ d.failed = c.failed \cup {m} /\ SameRuns(c, d)
      /\ \/ d.rec = c.rec
         \/ d.rec.drops = Append(old, gap) /\ gap \in GapRecs
  BY <1>1, <1>2, DropShape
<1>4. gap.of = m /\ gap.kind = L[m].kind /\ gap.after = Len(a)
  BY <1>2 DEF Gap
<1> HIDE DEF d, gap
<1>5. d.pending = c.pending /\ Open(d) = Open(c) /\ c.failed \subseteq d.failed
  BY <1>3 DEF SameRuns, Open
<1>6. CASE d.rec = c.rec
  <2>1. Ordered(d, L)
    BY <1>5, <1>6, RestOrdered
  <2> QED
    BY <2>1 DEF d
<1>7. CASE d.rec.drops = Append(old, gap) /\ gap \in GapRecs
  <2> DEFINE new == d.rec.drops
  <2>1. a \in Seq(StepRecs) /\ old \in Seq(GapRecs)
    BY <1>1 DEF Captures
  <2>2. /\ \A i \in DOMAIN old : i \in DOMAIN new /\ new[i] = old[i]
        /\ \A i \in DOMAIN new : (i \in DOMAIN old /\ new[i] = old[i]) \/ new[i] = gap
    <3>1. /\ DOMAIN new = 1..(Len(old) + 1) /\ DOMAIN old = 1..Len(old) /\ Len(old) \in Nat
          /\ new[Len(old) + 1] = gap /\ \A i \in 1..Len(old) : new[i] = old[i]
      <4> HIDE DEF old
      <4> QED
        BY <1>7, <2>1
    <3> HIDE DEF new, old
    <3>2. \A i \in 1..(Len(old) + 1) : i \in 1..Len(old) \/ i = Len(old) + 1
      BY <3>1
    <3>3. \A i \in 1..Len(old) : i \in 1..(Len(old) + 1)
      BY <3>1
    <3> QED
      BY <3>1, <3>2, <3>3
  <2> HIDE DEF new
  <2>3. ASSUME NEW i \in 2..Len(a)
        PROVE  First(a[i].of) < m /\ i <= Len(a)
    <3>1. i \in DOMAIN a /\ a[i] \in StepRecs
      BY <2>1
    <3>2. a[i].of \in SUBSET Nat /\ a[i].of # {} /\ a[i].of \subseteq Claimed(c)
      BY <3>1, <2>3 DEF StepRecs, Ordered, Listed, Told, Claimed
    <3>3. First(a[i].of) \in 1..h
      BY <1>1, <3>2, Firsts
    <3> QED
      BY <3>3
  <2>4. Placed(d.failed, L, gap, a)
    <3>1. Len(a) <= Len(a)
      BY <2>1
    <3> QED
      BY <1>4, <2>3, <3>1 DEF Placed
  <2>5. Listed(d.failed, L, c.rec)
    BY <1>5, OrderKept DEF Ordered
  <2>6. Listed(d.failed, L, d.rec)
    BY <1>3, <2>2, <2>4, <2>5 DEF Listed, new
  <2>7. ASSUME NEW s \in Open(c)
        PROVE  ReadLate(s) /\ Follows(d.failed, L, d.rec, s)
    <3>1. ReadLate(s) /\ Follows(d.failed, L, c.rec, s)
      BY <1>5, OrderKept DEF Ordered
    <3>2. After(d.failed, L, gap, s)
      BY <1>4, <2>7, <3>1 DEF After
    <3> QED
      BY <1>3, <2>2, <3>1, <3>2 DEF Follows, new
  <2>8. c.pending # <<>> => c.pending[1].n # m
    <3>1. c.pending # <<>> => c.pending[1].n \in 1..h
      BY <1>1 DEF Claimed, Pending
    <3> QED
      BY <3>1
  <2>9. Ordered(d, L)
    BY <1>4, <1>5, <2>2, <2>6, <2>7, <2>8 DEF Ordered, new
  <2> QED
    BY <2>9 DEF d
<1> QED
  BY <1>3, <1>6, <1>7

\* What is asked on the way, the moments and the group change no order.
LEMMA SameOrdered ==
  ASSUME NEW L, NEW c, Ordered(c, L), NEW d, SameLedger(c, d)
  PROVE  Ordered(d, L) /\ Open(d) = Open(c)
<1>1. Open(d) = Open(c) /\ d.rec = c.rec /\ c.failed \subseteq d.failed /\ d.pending \in {c.pending, <<>>}
  BY DEF SameLedger, SameRuns, Open
<1> QED
  BY <1>1, RestOrdered

\* Something that happens and is a step of its own: the runs are over, or it is
\* a release that chooses from a menu.
LEMMA NewStepOrdered ==
  ASSUME NEW L, NEW h \in Nat, NEW c, Core(c, L, h), Ordered(c, L),
         NEW m \in Nat, h < m, NEW kind \in StepKinds, NEW on \in Controls,
         Open(c) = {} \/ L[m].kind = "mouse_release"
  PROVE  Ordered(Record(c, Step(kind, on, {m})), L)
<1> DEFINE s == Step(kind, on, {m})
           d == Record(c, s)
<1>1. s \in StepRecs /\ s.of = {m}
  BY DEF Step, StepRecs
<1> HIDE DEF s
<1>2. c \in Captures
  BY DEF Core
<1>3. /\ d \in Captures /\ d.rec.actions = Append(c.rec.actions, s) /\ d.rec.drops = c.rec.drops
      /\ d.failed = c.failed /\ SameRuns(c, d)
  BY <1>1, <1>2, RecordShape
<1> HIDE DEF d
<1>4. Follows(c.failed, L, c.rec, s)
  BY <1>1, NewFollows
<1>5. Open(d) = Open(c) /\ d.pending = c.pending
  BY <1>3 DEF SameRuns, Open
<1>6. ASSUME NEW t \in Open(d)
      PROVE  t \in Open(c) /\ Before(c.failed, L, s, t)
  <2>1. First(s.of) = m
    BY <1>1, FirstIs
  <2> QED
    BY <1>5, <1>6, <2>1 DEF Before
<1>7. Ordered(d, L)
  BY <1>1, <1>2, <1>3, <1>4, <1>5, <1>6, StepOrdered
<1> QED
  BY <1>7 DEF d, s

LEMMA FirstOfTwo ==
  ASSUME NEW S \in SUBSET Nat, NEW T \in SUBSET Nat, S # {}, T # {}
  PROVE  First(S \cup T) \in {First(S), First(T)}
<1> DEFINE U == S \cup T
<1>1. U \in SUBSET Nat /\ U # {} /\ S \subseteq U /\ T \subseteq U
  OBVIOUS
<1>2. First(U) \in S \/ First(U) \in T
  <2> HIDE DEF U
  <2>1. First(U) \in U
    BY <1>1, Firsts
  <2> QED
    BY <2>1 DEF U
<1> HIDE DEF U
<1>3. First(U) \in Nat /\ \A n \in U : First(U) <= n
  BY <1>1, Firsts
<1>4. ASSUME First(U) \in S
      PROVE  First(S) = First(U)
  <2> DEFINE n == First(U)
  <2>1. n \in S /\ \A x \in S : n <= x
    BY <1>1, <1>3, <1>4
  <2> HIDE DEF n
  <2>2. First(S) = n
    BY <2>1, FirstIs
  <2> QED
    BY <2>2 DEF n
<1>5. ASSUME First(U) \in T
      PROVE  First(T) = First(U)
  <2> DEFINE n == First(U)
  <2>1. n \in T /\ \A x \in T : n <= x
    BY <1>1, <1>3, <1>5
  <2> HIDE DEF n
  <2>2. First(T) = n
    BY <2>1, FirstIs
  <2> QED
    BY <2>2 DEF n
<1> QED
  BY <1>2, <1>4, <1>5 DEF U

\* A run joined by what can come at the end stands where the older of the two
\* does.
LEMMA JoinFollows ==
  ASSUME NEW F, NEW L, NEW rec, NEW s, NEW r, NEW t,
         s.of \in SUBSET Nat, r.of \in SUBSET Nat, s.of # {}, r.of # {}, t.of = s.of \cup r.of,
         Follows(F, L, rec, s), Follows(F, L, rec, r), ReadLate(t)
  PROVE  Follows(F, L, rec, t)
<1>1. First(t.of) = First(s.of) \/ First(t.of) = First(r.of)
  BY FirstOfTwo
<1>2. t.of # {}
  OBVIOUS
<1>3. CASE First(t.of) = First(s.of)
  BY <1>2, <1>3, InItsPlace
<1>4. CASE First(t.of) = First(r.of)
  BY <1>2, <1>4, InItsPlace
<1> QED
  BY <1>1, <1>3, <1>4

\* A value changes from here on, or goes on changing.
LEMMA BeginValueOrdered ==
  ASSUME NEW L, Lived(L), NEW h \in Nat, NEW c, Core(c, L, h), Ordered(c, L),
         NEW ev \in EventRecs, NEW S \in SUBSET Nat, S # {},
         NEW selection \in BOOLEAN, NEW fading \in BOOLEAN,
         Follows(c.failed, L, c.rec, Step("select", Target(ev), S)),
         c.pending # <<>> => \A n \in S : c.pending[1].n < n,
         selection => Kind[ev.on] = "row_selected"
  PROVE  Ordered(BeginValue(c, ev, S, selection, fading), L)
<1> DEFINE other == c.value # <<>> /\ c.value[1].on # Target(ev)
           e == IF other THEN FlushValue(c) ELSE c
           d == BeginValue(c, ev, S, selection, fading)
           run == [on |-> Target(ev), of |-> S, selection |-> selection, fading |-> fading]
           longer == [e.value[1] EXCEPT !.of = @ \cup S, !.selection = @ \/ selection]
           s == Step("select", Target(ev), S)
<1>1. s.of = S /\ ReadLate(s)
  BY DEF Step, ReadLate
<1>2. selection => \E x \in Controls : Kind[x] = "row_selected" /\ Target(ev) = Owner[x]
  BY DEF EventRecs, Target
<1>3. d = IF e.value = <<>> THEN [e EXCEPT !.value = <<run>>]
          ELSE [e EXCEPT !.value = <<longer>>]
  BY DEF BeginValue
<1> HIDE DEF s
<1>4. /\ e \in Captures /\ Ordered(e, L) /\ Follows(e.failed, L, e.rec, s) /\ e.pending = c.pending
      /\ e.value # <<>> => e.value[1].on = Target(ev)
  <2>1. CASE other
    BY <1>1, <2>1, FlushValueEnds, FlushValueOrdered DEF Core, s
  <2>2. CASE ~other
    BY <2>2 DEF Core, s
  <2> QED
    BY <2>1, <2>2
<1>5. Target(ev) \in Controls
  BY FoldingAssumption DEF EventRecs, Target
<1> HIDE DEF e, d
<1>6. CASE e.value = <<>>
  <2> DEFINE t == ValueStep(run)
  <2>1. t.of = S /\ t.on = Target(ev) /\ (t.kind = "select" \/ selection)
    BY DEF ValueStep, Step
  <2>2. ReadLate(t)
    BY <1>2, <2>1 DEF ReadLate
  <2>3. d = [e EXCEPT !.value = <<run>>]
    BY <1>3, <1>6
  <2> HIDE DEF run
  <2>4. /\ d.rec = e.rec /\ d.failed = e.failed /\ d.pending = e.pending
        /\ d.typing = e.typing /\ d.value = <<run>>
    BY <1>4, <2>3 DEF Captures
  <2>5. <<run>>[1] = run
    OBVIOUS
  <2>6. Open(d) \subseteq Open(e) \cup {t}
    BY <2>4, <2>5 DEF Open
  <2> HIDE DEF t
  <2>7. Follows(e.failed, L, e.rec, t)
    BY <1>1, <1>4, <2>1, <2>2, InItsPlace
  <2>8. e.pending # <<>> => \A n \in t.of : e.pending[1].n < n
    BY <1>4, <2>1
  <2>9. Ordered(d, L)
    BY <1>4, <2>2, <2>4, <2>6, <2>7, <2>8, RunOrdered
  <2> QED
    BY <2>9 DEF d
<1>7. CASE e.value # <<>>
  <2> DEFINE old == e.value[1]
             r == ValueStep(old)
             t == ValueStep(longer)
  <2>1. old \in ValueRuns /\ old.on = Target(ev)
    BY <1>4, <1>7, One DEF Captures
  <2>2. r \in Open(e) /\ r.of = old.of /\ r.on = old.on /\ r.kind = IF old.selection THEN "click" ELSE "select"
    BY <1>7 DEF Open, ValueStep, Step
  <2>3. ReadLate(r) /\ Follows(e.failed, L, e.rec, r)
    BY <1>4, <2>2 DEF Ordered
  <2>4. /\ t.of = S \cup old.of /\ t.on = Target(ev)
        /\ t.kind = "select" \/ old.selection \/ selection
    BY <2>1 DEF ValueRuns, ValueStep, Step
  <2>5. old.selection => \E x \in Controls : Kind[x] = "row_selected" /\ Target(ev) = Owner[x]
    BY <2>1, <2>2, <2>3 DEF ReadLate
  <2>6. ReadLate(t)
    BY <1>2, <2>4, <2>5 DEF ReadLate
  <2>7. d = [e EXCEPT !.value = <<longer>>]
    BY <1>3, <1>7
  <2> HIDE DEF longer
  <2>8. /\ d.rec = e.rec /\ d.failed = e.failed /\ d.pending = e.pending
        /\ d.typing = e.typing /\ d.value = <<longer>>
    BY <1>4, <2>7 DEF Captures
  <2>9. <<longer>>[1] = longer
    OBVIOUS
  <2>10. Open(d) \subseteq Open(e) \cup {t}
    BY <2>8, <2>9 DEF Open
  <2>11. old.of \in SUBSET Nat /\ old.of # {}
    BY <2>1, <2>2, <2>3 DEF ValueRuns, Follows
  <2> HIDE DEF t, r, old
  <2>12. Follows(e.failed, L, e.rec, t)
    BY <1>1, <1>4, <2>2, <2>3, <2>4, <2>6, <2>11, JoinFollows
  <2>13. e.pending # <<>> => \A n \in t.of : e.pending[1].n < n
    BY <1>4, <2>2, <2>4 DEF Ordered
  <2>14. Ordered(d, L)
    BY <1>4, <2>6, <2>8, <2>10, <2>12, <2>13, RunOrdered
  <2> QED
    BY <2>14 DEF d
<1> QED
  BY <1>6, <1>7

\* A character begins a run of typing or goes on with it.
LEMMA CharacterOrdered ==
  ASSUME NEW L, Lived(L), NEW h \in Nat, NEW c, Core(c, L, h), Ordered(c, L),
         NEW ev \in EventRecs, h < ev.n
  PROVE  Ordered(HandleCharacter(c, ev), L)
<1> DEFINE other == c.typing # <<>> /\ c.typing[1].on # ev.on
           e == IF other THEN FlushInput(c) ELSE c
           d == HandleCharacter(c, ev)
           m == ev.n
           run == [on |-> ev.on, of |-> {m}]
           longer == [e.typing[1] EXCEPT !.of = @ \cup {m}]
           s == Step("type", ev.on, {m})
<1>1. s.of = {m} /\ ReadLate(s) /\ m \in Nat
  BY DEF Step, ReadLate, EventRecs
<1>2. d = IF e.typing = <<>> THEN [e EXCEPT !.typing = <<run>>]
          ELSE [e EXCEPT !.typing = <<longer>>]
  BY DEF HandleCharacter
<1>3. Core(e, L, h) /\ Ordered(e, L)
  BY FlushInputEnds, FlushInputOrdered
<1> HIDE DEF e, d, s
<1>4. e \in Captures /\ (e.pending # <<>> => e.pending[1].n < m)
  <2>1. e.pending # <<>> => e.pending[1].n \in 1..h
    BY <1>3 DEF Core, Claimed, Pending
  <2> QED
    BY <1>3, <1>1, <2>1 DEF Core
<1>5. Follows(e.failed, L, e.rec, s)
  BY <1>1, <1>3, NewFollows
<1>6. CASE e.typing = <<>>
  <2> DEFINE t == TypingStep(run)
  <2>1. t.of = {m} /\ ReadLate(t)
    BY DEF TypingStep, Step, ReadLate
  <2>2. d = [e EXCEPT !.typing = <<run>>]
    BY <1>2, <1>6
  <2> HIDE DEF run
  <2>3. /\ d.rec = e.rec /\ d.failed = e.failed /\ d.pending = e.pending
        /\ d.value = e.value /\ d.typing = <<run>>
    BY <1>4, <2>2 DEF Captures
  <2>4. <<run>>[1] = run
    OBVIOUS
  <2>5. Open(d) \subseteq Open(e) \cup {t}
    BY <2>3, <2>4 DEF Open
  <2> HIDE DEF t
  <2>6. Follows(e.failed, L, e.rec, t)
    BY <1>1, <1>3, <2>1, NewFollows
  <2>7. Ordered(d, L)
    BY <1>3, <1>4, <2>1, <2>3, <2>5, <2>6, RunOrdered
  <2> QED
    BY <2>7 DEF d
<1>7. CASE e.typing # <<>>
  <2> DEFINE old == e.typing[1]
             r == TypingStep(old)
             t == TypingStep(longer)
  <2>1. old \in TypingRuns
    BY <1>4, <1>7, One DEF Captures
  <2>2. r \in Open(e) /\ r.of = old.of
    BY <1>7 DEF Open, TypingStep, Step
  <2>3. Follows(e.failed, L, e.rec, r)
    BY <1>3, <2>2 DEF Ordered
  <2>4. t.of = {m} \cup old.of /\ ReadLate(t)
    BY <2>1 DEF TypingRuns, TypingStep, Step, ReadLate
  <2>5. d = [e EXCEPT !.typing = <<longer>>]
    BY <1>2, <1>7
  <2> HIDE DEF longer
  <2>6. /\ d.rec = e.rec /\ d.failed = e.failed /\ d.pending = e.pending
        /\ d.value = e.value /\ d.typing = <<longer>>
    BY <1>4, <2>5 DEF Captures
  <2>7. <<longer>>[1] = longer
    OBVIOUS
  <2>8. Open(d) \subseteq Open(e) \cup {t}
    BY <2>6, <2>7 DEF Open
  <2>9. old.of \in SUBSET Nat /\ old.of # {}
    BY <2>1, <2>2, <2>3 DEF TypingRuns, Follows
  <2> HIDE DEF t, r, old
  <2>10. Follows(e.failed, L, e.rec, t)
    BY <1>1, <1>5, <2>2, <2>3, <2>4, <2>9, JoinFollows
  <2>11. e.pending # <<>> => \A n \in t.of : e.pending[1].n < n
    BY <1>3, <1>4, <2>2, <2>4 DEF Ordered
  <2>12. Ordered(d, L)
    BY <1>3, <2>4, <2>6, <2>8, <2>10, <2>11, RunOrdered
  <2> QED
    BY <2>12 DEF d
<1> QED
  BY <1>6, <1>7

\* The press that starts a click waits, and nothing else is in progress.
LEMMA PressOrdered ==
  ASSUME NEW L, Lived(L), NEW h \in Nat, NEW c, Core(c, L, h), Ordered(c, L), Open(c) = {},
         NEW m \in 1..Len(L), h < m
  PROVE  Ordered([c EXCEPT !.pending = <<L[m]>>], L)
<1> DEFINE ev == L[m]
           d == [c EXCEPT !.pending = <<ev>>]
<1>1. c \in Captures /\ ev.n = m
  BY DEF Core, Lived
<1>2. <<ev>>[1] = ev
  OBVIOUS
<1> HIDE DEF ev
<1>3. /\ d.rec = c.rec /\ d.failed = c.failed /\ d.typing = c.typing /\ d.value = c.value
      /\ d.pending = <<ev>>
  BY <1>1 DEF Captures
<1> HIDE DEF d
<1>4. Open(d) = {}
  BY <1>3 DEF Open
<1>5. \A i \in DOMAIN c.rec.drops : c.rec.drops[i].of # m
  <2>1. \A n \in 1..h : n # m
    OBVIOUS
  <2> QED
    BY <2>1 DEF Core, Gapped
<1>6. Ordered(d, L)
  BY <1>1, <1>2, <1>3, <1>4, <1>5 DEF Ordered
<1> QED
  BY <1>6 DEF d, ev

\* What becomes of a press and the release that closes it is in its place: what
\* is in progress was begun after the press, and a press that has waited for
\* longer has lost its release.
LEMMA ReleaseOrdered ==
  ASSUME NEW c, NEW L, NEW h, NEW m, NEW k, Ready(c, L, h, m, k), Ordered(c, L),
         L[m].kind = "mouse_release", c.pending # <<>>
  PROVE  Ordered(Release([c EXCEPT !.pending = <<>>], c.pending[1], L[m]), L)
<1> DEFINE e == [c EXCEPT !.pending = <<>>]
           q == c.pending[1]
           n == q.n
           ev == L[m]
           d == Release(e, q, ev)
<1>1. /\ Lived(L) /\ h \in Nat /\ m \in Nat /\ k \in Nat /\ Core(c, L, h)
      /\ m \in 1..Len(L) /\ ev \in EventRecs /\ ev.n = m /\ ev.on \in Controls
      /\ Owner[ev.on] \in Controls /\ Len(L) \in Nat /\ h < m
  BY ReadyFacts
<1>3. /\ Core(e, L, h) /\ e.rec = c.rec /\ e.failed = c.failed /\ e.pending = <<>>
      /\ e.typing = c.typing /\ e.value = c.value
      /\ q \in EventRecs /\ n \in 1..h /\ n \in 1..Len(L) /\ q = L[n]
      /\ q.kind = "mouse_press" /\ n \notin Claimed(e)
      /\ \A r \in Claimed(e) : ~Click(L, n, r)
  <2>1. LET x == [c EXCEPT !.pending = <<>>]
            p == c.pending[1]
        IN  /\ Core(x, L, h) /\ x.rec = c.rec /\ x.failed = c.failed /\ x.pending = <<>>
            /\ x.typing = c.typing /\ x.value = c.value /\ SameClocks(c, x) /\ Kept(x) = Kept(c)
            /\ p \in EventRecs /\ p.n \in 1..h /\ p.n \in 1..Len(L) /\ p = L[p.n]
            /\ p.kind = "mouse_press" /\ Kind[p.on] # "menu" /\ Pending(c) = {p.n}
            /\ p.n \notin Claimed(x)
            /\ \A r \in Claimed(x) : ~Click(L, p.n, r)
            /\ \A r \in Claimed(x) : L[r].kind = "mouse_press" => r < p.n
    <3> HIDE DEF ev
    <3> QED
      BY <1>1, LetGo
  <2> QED
    BY <2>1
<1>4. q.on \in Controls /\ Owner[q.on] \in Controls
  BY <1>3, FoldingAssumption DEF EventRecs
<1>5. Lost(e.failed, L, n) \/ n = h
  BY <1>3 DEF Ready, Edge, Expects
<1> DEFINE paired == Target(q) = Target(ev) /\ ev.t - q.t <= ClickMs
           menu == Kind[q.on] \in {"bar", "menu"} \/ Kind[ev.on] \in {"bar", "menu"}
           one == Record(e, Step("click", Target(q), {n}))
           two == Record(one, Step("click", Target(ev), {m}))
<1>6. /\ paired => d = Record(e, Step("click", Target(ev), {n, m}))
      /\ ~paired /\ menu => d = two
      /\ ~paired /\ ~menu /\ ChangesValue(e, q) => d = FlushValue(BeginWheelOrDrag(e, q))
      /\ ~paired /\ ~menu /\ ~ChangesValue(e, q) => d = Drop(e, q, "dragging")
  BY <1>1 DEF Release
<1>7. Target(q) \in Controls /\ Target(ev) \in Controls
  BY <1>1, <1>4 DEF Target
<1>8. "click" \in StepKinds
  BY DEF StepKinds
<1>9. Fits(e, L, {n}, h) /\ \A F : Real(F, L, {n})
  <2> HIDE DEF e, n
  <2> QED
    BY <1>1, <1>3, LoneFits DEF n
<1> HIDE DEF e
<1>10. Open(e) = Open(c) /\ e \in Captures
  BY <1>3 DEF Open, Core
<1>11. Ordered(e, L)
  <2>1. e.rec = c.rec /\ c.failed \subseteq e.failed /\ e.pending \in {c.pending, <<>>} /\ Open(e) \subseteq Open(c)
    BY <1>3, <1>10
  <2> QED
    BY <2>1, RestOrdered
<1>12. \A t \in Open(e) : t.of # {} /\ t.of \in SUBSET Nat /\ First(t.of) \in Nat /\ n < First(t.of)
  <2> SUFFICES ASSUME NEW t \in Open(e)
               PROVE  t.of # {} /\ t.of \in SUBSET Nat /\ First(t.of) \in Nat /\ n < First(t.of)
    OBVIOUS
  <2>1. t \in Open(c) /\ t \in StepRecs
    BY <1>10, OpenStep
  <2>2. t.of # {} /\ t.of \in SUBSET Nat /\ \A x \in t.of : n < x
    BY <2>1 DEF Ordered, Follows, StepRecs
  <2>3. First(t.of) \in t.of /\ First(t.of) \in Nat
    BY <2>2, Firsts
  <2> QED
    BY <2>2, <2>3
<1>13. n \in Nat /\ n <= h /\ n # m /\ n < m
  BY <1>1, <1>3
<1>14. ASSUME NEW s, First(s.of) = n, s.of # {}
       PROVE  Follows(e.failed, L, e.rec, s) /\ \A t \in Open(e) : Before(e.failed, L, s, t)
  <2>1. CASE Lost(e.failed, L, n)
    <3>1. Late(e.failed, L, s.of)
      BY <1>3, <1>14, <2>1 DEF Late
    <3> HIDE DEF n
    <3> QED
      BY <1>1, <1>3, <1>11, <1>12, <1>13, <1>14, <3>1, FollowsAt DEF Before
  <2>2. CASE n = h
    <3>1. n >= h /\ n \notin Told(e)
      BY <1>1, <1>3, <2>2 DEF Claimed
    <3>2. \A i \in DOMAIN e.rec.drops : e.rec.drops[i].of # n
      BY <1>3 DEF Ordered
    <3> HIDE DEF n
    <3> QED
      BY <1>1, <1>3, <1>11, <1>12, <1>13, <1>14, <3>1, <3>2, FollowsAt DEF Before
  <2> QED
    BY <1>5, <2>1, <2>2
<1>15. CASE paired
  <2> DEFINE S == {n, m}
             s == Step("click", Target(ev), S)
  <2>1. s \in StepRecs /\ s.of = S /\ s.of # {}
    <3>1. S \subseteq Nat
      BY <1>1, <1>13
    <3> HIDE DEF S
    <3>2. S # {}
      BY DEF S
    <3> HIDE DEF ev
    <3> QED
      BY <1>7, <1>8, <3>1, <3>2 DEF Step, StepRecs
  <2>2. First(s.of) = n
    <3>1. S \in SUBSET Nat /\ n \in S /\ \A x \in S : n <= x
      BY <1>1, <1>13
    <3> HIDE DEF S, s, n
    <3> QED
      BY <2>1, <3>1, FirstIs
  <2>3. d = Record(e, s)
    BY <1>6, <1>15
  <2> HIDE DEF s, d
  <2>4. Follows(e.failed, L, e.rec, s) /\ \A t \in Open(e) : Before(e.failed, L, s, t)
    BY <1>14, <2>1, <2>2
  <2>5. /\ d \in Captures /\ d.rec.actions = Append(e.rec.actions, s) /\ d.rec.drops = e.rec.drops
        /\ d.failed = e.failed /\ SameRuns(e, d)
    BY <1>10, <2>1, <2>3, RecordShape
  <2>6. d.pending = e.pending /\ Open(d) = Open(e)
    BY <2>5 DEF SameRuns, Open
  <2>7. Ordered(d, L)
    BY <1>10, <1>11, <2>1, <2>4, <2>5, <2>6, StepOrdered
  <2> QED
    BY <2>7 DEF d, e
<1>16. CASE ~paired /\ menu
  <2> DEFINE S == {n}
             s == Step("click", Target(q), S)
  <2>1. s \in StepRecs /\ s.of = S /\ s.of # {}
    <3> HIDE DEF n, q
    <3> QED
      BY <1>7, <1>8, <1>13 DEF Step, StepRecs
  <2>2. First(s.of) = n
    <3>1. S \in SUBSET Nat /\ n \in S /\ \A x \in S : n <= x
      BY <1>13
    <3> HIDE DEF S, s, n
    <3> QED
      BY <2>1, <3>1, FirstIs
  <2>3. one = Record(e, s)
    OBVIOUS
  <2>4. Fits(e, L, S, h) /\ Real(e.failed, L, S) /\ h <= h
    <3>1. h <= h
      BY <1>1
    <3>2. Fits(e, L, S, h) /\ Real(e.failed, L, S)
      BY <1>9
    <3> QED
      BY <3>1, <3>2
  <2>5. d = two
    BY <1>6, <1>16
  <2>6. two = Record(one, Step("click", Target(ev), {m}))
    OBVIOUS
  <2> HIDE DEF S, one, two, d
  <2>7. Core(one, L, h)
    <3>1. one = Record(e, Step("click", Target(q), S))
      BY <2>3
    <3> HIDE DEF q
    <3> QED
      BY <1>1, <1>3, <1>7, <1>8, <2>4, <3>1, RecordCore
  <2> HIDE DEF s
  <2>8. Follows(e.failed, L, e.rec, s) /\ \A t \in Open(e) : Before(e.failed, L, s, t)
    BY <1>14, <2>1, <2>2
  <2>9. /\ one \in Captures /\ one.rec.actions = Append(e.rec.actions, s) /\ one.rec.drops = e.rec.drops
        /\ one.failed = e.failed /\ SameRuns(e, one)
    BY <1>10, <2>1, <2>3, RecordShape
  <2>10. one.pending = e.pending /\ Open(one) = Open(e)
    BY <2>9 DEF SameRuns, Open
  <2>11. Ordered(one, L)
    BY <1>10, <1>11, <2>1, <2>8, <2>9, <2>10, StepOrdered
  <2> HIDE DEF ev
  <2>12. L[m].kind = "mouse_release" /\ m \in Nat
    BY <1>1
  <2>13. Ordered(two, L)
    BY <1>1, <1>7, <1>8, <2>6, <2>7, <2>11, <2>12, NewStepOrdered
  <2> QED
    BY <2>5, <2>13 DEF d, e, ev
<1>17. CASE ~paired /\ ~menu /\ ChangesValue(e, q)
  <2> DEFINE S == {n}
             f == BeginWheelOrDrag(e, q)
             fading == Answer(e, q) = "fading"
             selection == FALSE
             s == Step("select", Target(q), S)
  <2>1. s.of = S /\ S \in SUBSET Nat /\ S # {}
    BY <1>13 DEF Step
  <2>2. First(S) = n
    <3>1. n \in S /\ \A x \in S : n <= x
      BY <1>13
    <3> HIDE DEF S, s, n
    <3> QED
      BY <2>1, <3>1, FirstIs
  <2>3. Fits(e, L, S, h) /\ h <= h
    BY <1>1, <1>9
  <2>4. \A x \in S : L[x].kind # "mouse_release"
    BY <1>3
  <2>5. f = BeginValue(e, q, S, selection, fading)
    BY DEF BeginWheelOrDrag
  <2>6. fading \in BOOLEAN /\ selection \in BOOLEAN /\ ~selection
    OBVIOUS
  <2>7. d = FlushValue(f)
    BY <1>6, <1>17
  <2> HIDE DEF s
  <2>8. Follows(e.failed, L, e.rec, s)
    BY <1>14, <2>1, <2>2
  <2>9. e.pending = <<>> /\ q \in EventRecs
    BY <1>3
  <2> HIDE DEF S, fading, selection, f, q, d
  <2>10. Core(f, L, h)
    BY <1>1, <1>3, <2>3, <2>4, <2>5, <2>6, <2>9, BeginValueCore
  <2>11. Ordered(f, L)
    BY <1>1, <1>3, <1>11, <2>1, <2>5, <2>6, <2>8, <2>9, BeginValueOrdered DEF s
  <2>12. Ordered(d, L)
    BY <1>1, <2>7, <2>10, <2>11, FlushValueOrdered
  <2> QED
    BY <2>12 DEF d, e, q
<1>18. CASE ~paired /\ ~menu /\ ~ChangesValue(e, q)
  <2>1. d = Drop(e, q, "dragging")
    BY <1>6, <1>18
  <2>2. q \in EventRecs /\ q.n = n /\ n \in 1..h
    BY <1>3
  <2> HIDE DEF d, n, q
  <2>3. d.rec = e.rec /\ d.failed = e.failed \cup {n} /\ SameRuns(e, d)
    BY <1>1, <1>3, <2>1, <2>2, DragCore
  <2>4. Open(d) = Open(e) /\ e.failed \subseteq d.failed /\ d.pending \in {e.pending, <<>>}
    BY <2>3 DEF SameRuns, Open
  <2>5. Ordered(d, L)
    BY <1>11, <2>3, <2>4, RestOrdered
  <2> QED
    BY <2>5 DEF d, e, q
<1> QED
  BY <1>15, <1>16, <1>17, <1>18 DEF e

LEMMA OrdinaryOrdered ==
  ASSUME NEW c, NEW L, NEW h, NEW m, NEW k, Ready(c, L, h, m, k), Ordered(c, L), L[m].kind \in MouseKinds
  PROVE  Ordered(HandleOrdinary(c, L[m]), L)
<1> DEFINE ev == L[m]
           r == Resolve(c, ev)
           d == HandleOrdinary(c, ev)
           e == Conclude(r)
           on == Target(ev)
           kind == "double_click"
<1>1. /\ Lived(L) /\ h \in Nat /\ m \in Nat /\ h < m /\ m <= Len(L)
      /\ Core(c, L, h) /\ c \in Captures /\ m \in 1..Len(L) /\ ev \in EventRecs /\ ev.n = m
      /\ on \in Controls
  <2>1. k <= Len(L) /\ m <= k /\ k \in Nat /\ Len(L) \in Nat /\ m \in Nat
    BY ReadyFacts
  <2> QED
    BY <2>1, ReadyFacts DEF Target
<1>2. r \in Captures /\ SameLedger(c, r) /\ SameMoments(c, r)
  <2> HIDE DEF ev
  <2> QED
    BY <1>1, ResolveSame
<1>3. /\ Answer(r, ev) = "missing" => d = DropUnresolved(r, ev)
      /\ Answer(r, ev) # "missing" /\ ev.kind = "mouse_double" => d = Record(e, Step(kind, on, {m}))
      /\ Answer(r, ev) # "missing" /\ ev.kind = "mouse_press" => d = [e EXCEPT !.pending = <<ev>>]
      /\ Answer(r, ev) # "missing" /\ ev.kind = "mouse_release" =>
           d = IF r.pending = <<>> THEN r
               ELSE Release([r EXCEPT !.pending = <<>>], r.pending[1], ev)
  BY <1>1 DEF HandleOrdinary, r
<1> HIDE DEF r, d
<1>4. Core(r, L, h) /\ Ordered(r, L) /\ Ready(r, L, h, m, k)
  BY <1>1, <1>2, SameCore, SameOrdered, ReadyStill DEF SameMoments
<1>5. Core(e, L, h) /\ Ordered(e, L) /\ Open(e) = {}
  BY <1>1, <1>4, ConcludeEnds, ConcludeOrdered
<1> HIDE DEF e, on, kind
<1>6. CASE Answer(r, ev) = "missing"
  <2> DEFINE reason == IF Kind[Target(ev)] = "chrome" THEN "chrome" ELSE "not_found"
  <2>1. reason \in Reasons \cup Deliberate
    BY DEF Reasons, Deliberate
  <2>2. d = Drop(r, L[m], reason)
    BY <1>3, <1>6 DEF DropUnresolved
  <2>3. L[m].kind \in MouseKinds \cup {"key_press"}
    OBVIOUS
  <2> HIDE DEF reason
  <2>4. Ordered(d, L)
    BY <1>1, <1>4, <2>1, <2>2, <2>3, DropOrdered
  <2> QED
    BY <2>4 DEF d
<1>7. CASE Answer(r, ev) # "missing" /\ ev.kind = "mouse_double"
  <2>1. kind \in StepKinds /\ d = Record(e, Step(kind, on, {m}))
    BY <1>3, <1>7 DEF StepKinds, kind
  <2>2. Ordered(d, L)
    BY <1>1, <1>5, <2>1, NewStepOrdered
  <2> QED
    BY <2>2 DEF d
<1>8. CASE Answer(r, ev) # "missing" /\ ev.kind = "mouse_press"
  <2>1. Ordered([e EXCEPT !.pending = <<L[m]>>], L)
    BY <1>1, <1>5, PressOrdered
  <2> QED
    BY <1>3, <1>8, <2>1 DEF d
<1>9. CASE Answer(r, ev) # "missing" /\ ev.kind = "mouse_release"
  <2>1. CASE r.pending = <<>>
    BY <1>3, <1>4, <1>9, <2>1 DEF d
  <2>2. CASE r.pending # <<>>
    <3>1. Ordered(Release([r EXCEPT !.pending = <<>>], r.pending[1], L[m]), L)
      BY <1>4, <1>9, <2>2, ReleaseOrdered
    <3> QED
      BY <1>3, <1>9, <2>2, <3>1 DEF d
  <2> QED
    BY <2>1, <2>2
<1> QED
  BY <1>6, <1>7, <1>8, <1>9 DEF MouseKinds

LEMMA ChoosingOrdered ==
  ASSUME NEW L, Lived(L), NEW h \in Nat, NEW c, Core(c, L, h), Ordered(c, L), NEW t \in Nat
  PROVE  Ordered(Choosing(c, t), L) /\ Open(Choosing(c, t)) = {}
<1> DEFINE e == Conclude(c)
           d == [e EXCEPT !.itemAt = <<t>>]
<1>1. Core(e, L, h) /\ Ordered(e, L) /\ Open(e) = {}
  BY ConcludeEnds, ConcludeOrdered
<1> HIDE DEF e
<1>2. SameLedger(e, d)
  BY <1>1 DEF Core, Captures, SameLedger, SameRuns
<1> HIDE DEF d
<1>3. Ordered(d, L) /\ Open(d) = {}
  BY <1>1, <1>2, SameOrdered
<1> QED
  BY <1>3 DEF Choosing, d, e

LEMMA OpeningOrdered ==
  ASSUME NEW L, Lived(L), NEW h \in Nat, NEW c, Core(c, L, h), Ordered(c, L), NEW t \in Nat,
         NEW on \in Controls
  PROVE  Ordered(Opening(c, t, on), L) /\ Open(Opening(c, t, on)) = {}
<1> DEFINE e == Conclude(c)
           d == [e EXCEPT !.menuAt = <<t>>, !.menuOn = on]
<1>1. Core(e, L, h) /\ Ordered(e, L) /\ Open(e) = {}
  BY ConcludeEnds, ConcludeOrdered
<1> HIDE DEF e
<1>2. SameLedger(e, d)
  BY <1>1 DEF Core, Captures, SameLedger, SameRuns
<1> HIDE DEF d
<1>3. Ordered(d, L) /\ Open(d) = {}
  BY <1>1, <1>2, SameOrdered
<1> QED
  BY <1>3 DEF Opening, d, e

LEMMA RowOrdered ==
  ASSUME NEW c, NEW L, NEW h, NEW m, NEW k, Ready(c, L, h, m, k), Ordered(c, L), L[m].kind \in MouseKinds
  PROVE  Ordered(HandleRow(c, L[m]), L)
<1> DEFINE ev == L[m]
           r == Resolve(c, ev)
           d == HandleRow(c, ev)
           kind == IF ev.kind = "mouse_double" THEN "double_click" ELSE "click"
           t == ev.t
           pressed == Choosing(r, t)
           let == [r EXCEPT !.itemAt = <<>>]
           S == {m}
           fading == Answer(pressed, ev) = "fading"
           selection == TRUE
           reason == "no_item"
           on == ev.on
<1>1. /\ Lived(L) /\ h \in Nat /\ m \in Nat /\ h < m /\ m <= Len(L)
      /\ Core(c, L, h) /\ c \in Captures
      /\ m \in 1..Len(L) /\ ev \in EventRecs /\ ev.n = m
      /\ on \in Controls /\ t \in Nat
  <2>1. k <= Len(L) /\ m <= k /\ k \in Nat /\ Len(L) \in Nat /\ m \in Nat
    BY ReadyFacts
  <2> QED
    BY <2>1, ReadyFacts
<1>2. /\ S \in SUBSET Nat /\ S # {}
      /\ kind \in StepKinds /\ fading \in BOOLEAN /\ selection \in BOOLEAN
      /\ reason \in Reasons \cup Deliberate
  BY <1>1 DEF StepKinds, Reasons
<1>3. r \in Captures /\ SameLedger(c, r) /\ SameMoments(c, r)
  <2> HIDE DEF ev
  <2> QED
    BY <1>1, ResolveSame
<1>4. /\ Answer(r, ev) = "missing" => d = HandleOrdinary(r, ev)
      /\ Answer(r, ev) # "missing" /\ Kind[on] = "row" => d = Record(pressed, Step(kind, on, S))
      /\ Answer(r, ev) # "missing" /\ Kind[on] = "row_ambiguous" => d = Drop(let, L[m], reason)
      /\ Answer(r, ev) \in {"found", "fading"} /\ Kind[on] = "row_selected" =>
           d = BeginValue(pressed, L[m], S, selection, fading)
      /\ Answer(r, ev) # "missing" /\ Kind[on] # "row" /\ Kind[on] # "row_ambiguous"
           /\ ~(Answer(r, ev) \in {"found", "fading"} /\ Kind[on] = "row_selected") =>
           d = Drop(r, L[m], reason)
  BY <1>1 DEF HandleRow, RecordSelection, Choosing
<1>5. L[m].kind \in MouseKinds \cup {"key_press"}
  OBVIOUS
<1> HIDE DEF r, d
<1>6. Core(r, L, h) /\ Ordered(r, L) /\ Ready(r, L, h, m, k)
  BY <1>1, <1>3, SameCore, SameOrdered, ReadyStill DEF SameMoments
<1>7. Core(pressed, L, h) /\ pressed.pending = <<>> /\ Ordered(pressed, L) /\ Open(pressed) = {}
  <2>1. Lived(L) /\ h \in Nat /\ t \in Nat /\ Core(r, L, h)
    BY <1>1, <1>6
  <2> HIDE DEF t, pressed
  <2>2. pressed = Choosing(r, t)
    BY DEF pressed
  <2> QED
    BY <1>6, <2>1, <2>2, ItemPressed, ChoosingOrdered
<1>8. let \in Captures /\ SameLedger(r, let)
  <2>1. <<>> \in Maybe(Nat)
    BY One
  <2> QED
    BY <1>3, <2>1 DEF Captures, SameLedger, SameRuns
<1> HIDE DEF pressed, let, kind, fading, selection, reason, on, t
<1>9. CASE Answer(r, ev) = "missing"
  <2>1. Ordered(HandleOrdinary(r, L[m]), L)
    BY <1>6, OrdinaryOrdered
  <2> QED
    BY <1>4, <1>9, <2>1 DEF d
<1>10. CASE Answer(r, ev) # "missing" /\ Kind[on] = "row"
  <2>1. d = Record(pressed, Step(kind, on, {m}))
    BY <1>4, <1>10
  <2>2. Ordered(d, L)
    BY <1>1, <1>2, <1>7, <2>1, NewStepOrdered
  <2> QED
    BY <2>2 DEF d
<1>11. CASE Answer(r, ev) # "missing" /\ Kind[on] = "row_ambiguous"
  <2>1. Core(let, L, h) /\ Ordered(let, L)
    BY <1>1, <1>6, <1>8, SameCore, SameOrdered
  <2>2. Ordered(d, L)
    BY <1>1, <1>2, <1>4, <1>5, <1>11, <2>1, DropOrdered
  <2> QED
    BY <2>2 DEF d
<1>12. CASE Answer(r, ev) \in {"found", "fading"} /\ Kind[on] = "row_selected"
  <2> DEFINE s == Step("select", Target(L[m]), S)
  <2>1. s.of = {m}
    BY DEF Step
  <2> HIDE DEF s
  <2>2. Follows(pressed.failed, L, pressed.rec, s)
    BY <1>1, <1>7, <2>1, NewFollows
  <2>3. L[m] \in EventRecs /\ (selection => Kind[L[m].on] = "row_selected")
    BY <1>1, <1>12 DEF on
  <2>4. d = BeginValue(pressed, L[m], S, selection, fading)
    BY <1>4, <1>12
  <2> HIDE DEF S
  <2>5. Ordered(BeginValue(pressed, L[m], S, selection, fading), L)
    BY <1>1, <1>2, <1>7, <2>2, <2>3, BeginValueOrdered DEF s
  <2> QED
    BY <2>4, <2>5 DEF d
<1>13. CASE /\ Answer(r, ev) # "missing" /\ Kind[on] # "row" /\ Kind[on] # "row_ambiguous"
            /\ ~(Answer(r, ev) \in {"found", "fading"} /\ Kind[on] = "row_selected")
  <2>1. Ordered(d, L)
    BY <1>1, <1>2, <1>4, <1>5, <1>6, <1>13, DropOrdered
  <2> QED
    BY <2>1 DEF d
<1> QED
  BY <1>9, <1>10, <1>11, <1>12, <1>13

\* The click that opened a popup is taken back for the choice, which stands
\* where the click stood; the gaps counted since are counted off.
LEMMA TakenBackOrdered ==
  ASSUME NEW L, Lived(L), NEW h \in Nat, NEW c, Core(c, L, h), Ordered(c, L), Open(c) = {},
         NEW control \in Controls, NEW m \in 1..Len(L), h < m,
         Kind[L[m].on] \in {"popup", "popup_unread"}
  PROVE  LET X == ClickToDrop(c, control)
             d == DropClickOn(c, control)
         IN  /\ Ordered(d, L) /\ Open(d) = {}
             /\ \A s : s.of = {m} \cup X /\ ReadLate(s) => Follows(d.failed, L, d.rec, s)
<1> DEFINE X == ClickToDrop(c, control)
           a == c.rec.actions
           N == Len(a)
           d == [c EXCEPT !.rec = WithoutLast(@)]
<1>1. c \in Captures /\ a # <<>> /\ a[1].kind = "launch" /\ Claimed(c) \cup c.failed \subseteq 1..h
  BY DEF Core
<1>2. \A i \in DOMAIN c.rec.drops : Uncounted(L, c.rec.drops[i])
  <2> SUFFICES ASSUME NEW i \in DOMAIN c.rec.drops
               PROVE  Uncounted(L, c.rec.drops[i])
    OBVIOUS
  <2>1. c.rec.drops[i].of \in 1..h
    BY <1>1 DEF Core, Gapped
  <2>2. m > c.rec.drops[i].of /\ m \in DOMAIN L
    BY <2>1 DEF Lived
  <2> QED
    BY <2>2 DEF Uncounted
<1>3. CASE X = {}
  <2>1. DropClickOn(c, control) = c
    BY <1>3 DEF DropClickOn
  <2>2. ASSUME NEW s, s.of = {m}
        PROVE  Follows(c.failed, L, c.rec, s)
    <3>1. m \in Nat
      OBVIOUS
    <3> QED
      BY <2>2, <3>1, NewFollows
  <2>3. {m} \cup X = {m}
    BY <1>3
  <2> QED
    BY <1>3, <2>1, <2>2, <2>3
<1>4. CASE X # {}
  <2>1. DropClickOn(c, control) = d
    BY <1>4 DEF DropClickOn
  <2>2. a[N].kind = "click" /\ X = a[N].of
    BY <1>4 DEF ClickToDrop
  <2>3. /\ d \in Captures /\ d.rec.drops = c.rec.drops /\ d.failed = c.failed
        /\ SameRuns(c, d)
        /\ N \in Nat \ {0} /\ DOMAIN a = 1..N /\ DOMAIN d.rec.actions = 1..(N - 1)
        /\ \A i \in 1..(N - 1) : d.rec.actions[i] = a[i]
    BY <1>1, ShorterShape
  <2> HIDE DEF d, N, X
  <2>4. N # 1
    BY <1>1, <2>2
  <2>5. N \in 2..N /\ N \in 1..N /\ \A i \in 2..(N - 1) : i \in 2..N /\ i \in 1..(N - 1) /\ i < N
    BY <2>3, <2>4
  <2>6. Len(d.rec.actions) = N - 1
    <3>1. d.rec.actions \in Seq(StepRecs) /\ N - 1 \in Nat
      BY <2>3 DEF Captures
    <3> DEFINE b == d.rec.actions
    <3>2. b \in Seq(StepRecs) /\ DOMAIN b = 1..(N - 1)
      BY <2>3, <3>1
    <3> HIDE DEF b
    <3>3. DOMAIN b = 1..Len(b) /\ Len(b) \in Nat
      BY <3>2
    <3>4. Len(b) = N - 1
      BY <3>1, <3>2, <3>3
    <3> QED
      BY <3>4 DEF b
  <2>7. /\ \A i \in 2..N : a[i].of # {}
        /\ \A i, j \in 2..N : i < j => Before(c.failed, L, a[i], a[j])
    BY DEF Ordered, Listed, N
  <2>8. Listed(d.failed, L, d.rec)
    BY <1>2, <2>3, <2>5, <2>6, <2>7 DEF Listed
  <2>9. Open(d) = {} /\ d.pending = c.pending
    BY <2>3 DEF Open, SameRuns
  <2>10. Ordered(d, L)
    BY <2>3, <2>8, <2>9 DEF Ordered
  <2>11. X \in SUBSET Nat /\ X \subseteq 1..h
    <3>1. a \in Seq(StepRecs) /\ N \in DOMAIN a
      BY <1>1, <2>3, <2>5 DEF Captures
    <3>2. a[N] \in StepRecs
      BY <3>1
    <3>3. X \subseteq Told(c)
      BY <2>2, <3>1 DEF Told
    <3> QED
      BY <1>1, <2>2, <3>2, <3>3 DEF StepRecs, Claimed
  <2>12. First({m} \cup X) = First(X)
    <3> DEFINE x == First(X)
               S == {m} \cup X
    <3>1. x \in X /\ \A n \in X : x <= n
      BY <1>4, <2>11, Firsts
    <3> HIDE DEF x
    <3>2. x <= m
      BY <2>11, <3>1
    <3>3. S \in SUBSET Nat /\ x \in S /\ \A n \in S : x <= n
      BY <2>11, <3>1, <3>2
    <3> HIDE DEF S
    <3>4. First(S) = x
      BY <3>3, FirstIs
    <3> QED
      BY <3>4 DEF S, x
  <2>13. ASSUME NEW s, s.of = {m} \cup X, ReadLate(s)
         PROVE  Follows(d.failed, L, d.rec, s)
    <3>1. First(s.of) = First(a[N].of) /\ s.of # {}
      BY <2>2, <2>12, <2>13
    <3>2. \A i \in 2..(N - 1) : Before(c.failed, L, a[i], s)
      <4> DEFINE u == a[N]
      <4>1. First(s.of) = First(u.of) /\ s.of # {} /\ (ReadLate(u) => ReadLate(s))
        BY <2>13, <3>1
      <4>2. \A i \in 2..(N - 1) : Before(c.failed, L, a[i], u)
        BY <2>5, <2>7
      <4> HIDE DEF u
      <4>3. \A r : Before(c.failed, L, r, u) => Before(c.failed, L, r, s)
        BY <4>1, InItsPlace
      <4> QED
        BY <4>2, <4>3
    <3>3. \A i \in DOMAIN d.rec.drops : After(d.failed, L, d.rec.drops[i], s)
      BY <1>2, <2>3 DEF After
    <3> QED
      BY <2>3, <2>5, <2>6, <3>1, <3>2, <3>3 DEF Follows
  <2> QED
    BY <2>1, <2>9, <2>10, <2>13 DEF X
<1> QED
  BY <1>3, <1>4

LEMMA ComboOrdered ==
  ASSUME NEW c, NEW L, NEW h, NEW m, NEW k, Ready(c, L, h, m, k), Ordered(c, L), L[m].kind \in MouseKinds,
         L[m].kind # "mouse_release", Kind[L[m].on] \in {"popup", "popup_unread"}
  PROVE  Ordered(HandleCombo(c, L[m]), L)
<1> DEFINE ev == L[m]
           d == HandleCombo(c, ev)
           r == [c EXCEPT !.itemAt = <<>>]
           t == ev.t
           on == Target(ev)
           ended == Choosing(r, t)
           X == ClickToDrop(ended, on)
           chosen == DropClickOn(ended, on)
           of == {m} \cup X
           fading == ev.answer = "fading"
           selection == FALSE
           reason == "no_combo"
           kind == "select"
           s == Step(kind, on, of)
<1>1. /\ Lived(L) /\ h \in Nat /\ m \in Nat /\ h < m /\ m <= Len(L) /\ m \in 1..Len(L)
      /\ k \in Nat /\ m <= k /\ k <= Len(L) /\ h <= k
      /\ Core(c, L, h) /\ c \in Captures
      /\ ev \in EventRecs /\ ev.n = m
      /\ on \in Controls /\ t \in Nat
  <2>1. k <= Len(L) /\ m <= k /\ k \in Nat /\ Len(L) \in Nat /\ m \in Nat
    BY ReadyFacts
  <2> QED
    BY <2>1, ReadyFacts DEF Target
<1>2. /\ fading \in BOOLEAN /\ selection \in BOOLEAN /\ ~selection
      /\ reason \in Reasons \cup Deliberate /\ kind \in StepKinds
      /\ L[m].kind \in MouseKinds \cup {"key_press"}
  BY DEF Reasons, StepKinds
<1>3. /\ ev.answer \in {"reported", "missing"} => d = Drop(r, L[m], reason)
      /\ ev.answer \in {"found", "fading"} /\ Kind[ev.on] = "popup" => d = Record(chosen, s)
      /\ ~(ev.answer \in {"reported", "missing"}) /\ ~(ev.answer \in {"found", "fading"} /\ Kind[ev.on] = "popup") =>
           d = BeginValue(chosen, ev, of, selection, fading)
  BY <1>1 DEF HandleCombo, Choosing
<1>4. r \in Captures /\ SameLedger(c, r)
  <2>1. <<>> \in Maybe(Nat)
    BY One
  <2> QED
    BY <1>1, <2>1 DEF Captures, SameLedger, SameRuns
<1> HIDE DEF d, r
<1>5. Core(r, L, h) /\ Ordered(r, L)
  BY <1>1, <1>4, SameCore, SameOrdered
<1>6. CASE ev.answer \in {"reported", "missing"}
  <2> HIDE DEF reason
  <2>1. Ordered(d, L)
    BY <1>1, <1>2, <1>3, <1>5, <1>6, DropOrdered
  <2> QED
    BY <2>1 DEF d
<1>7. CASE ~(ev.answer \in {"reported", "missing"})
  <2>1. Core(ended, L, h) /\ Ordered(ended, L) /\ Open(ended) = {} /\ ended.pending = <<>>
    <3>1. Lived(L) /\ h \in Nat /\ t \in Nat
      BY <1>1
    <3> HIDE DEF t, ended
    <3>2. ended = Choosing(r, t)
      BY DEF ended
    <3> QED
      BY <3>1, <3>2, <1>5, ItemPressed, ChoosingOrdered
  <2>2. s.of = of /\ ReadLate(s) /\ s.kind = "select"
    BY DEF Step, ReadLate
  <2> HIDE DEF ended, on, chosen, s, X
  <2>3. /\ Core(chosen, L, h) /\ Fits(chosen, L, X, h) /\ SameRuns(ended, chosen)
    BY <1>1, <2>1, TakenBack DEF X, chosen
  <2>4. /\ Ordered(chosen, L) /\ Open(chosen) = {}
        /\ \A x : x.of = of /\ ReadLate(x) => Follows(chosen.failed, L, chosen.rec, x)
    BY <1>1, <2>1, TakenBackOrdered DEF X, chosen
  <2>5. chosen.pending = <<>> /\ chosen \in Captures
    BY <2>1, <2>3 DEF SameRuns, Core
  <2>6. of \in SUBSET Nat /\ of # {}
    <3>1. X \subseteq 1..h
      BY <2>3 DEF Fits
    <3>2. m \in of /\ \A x \in of : x \in Nat
      BY <1>1, <3>1
    <3> QED
      BY <3>2
  <2> HIDE DEF of
  <2>7. Follows(chosen.failed, L, chosen.rec, s)
    BY <2>2, <2>4
  <2> HIDE DEF fading, selection, kind
  <2>8. CASE ev.answer \in {"found", "fading"} /\ Kind[ev.on] = "popup"
    <3>1. d = Record(chosen, s)
      BY <1>3, <2>8
    <3>2. s \in StepRecs
      BY <1>1, <1>2, <2>6 DEF s, Step, StepRecs
    <3>3. /\ d \in Captures /\ d.rec.actions = Append(chosen.rec.actions, s) /\ d.rec.drops = chosen.rec.drops
          /\ d.failed = chosen.failed /\ SameRuns(chosen, d)
      BY <2>5, <3>1, <3>2, RecordShape
    <3>4. d.pending = chosen.pending /\ Open(d) = {}
      BY <2>4, <3>3 DEF SameRuns, Open
    <3>5. Ordered(d, L)
      BY <2>4, <2>5, <2>7, <3>2, <3>3, <3>4, StepOrdered
    <3> QED
      BY <3>5 DEF d
  <2>9. CASE ~(ev.answer \in {"found", "fading"} /\ Kind[ev.on] = "popup")
    <3>1. d = BeginValue(chosen, L[m], of, selection, fading)
      BY <1>3, <1>7, <2>9
    <3>2. Follows(chosen.failed, L, chosen.rec, Step("select", Target(L[m]), of))
      BY <2>7 DEF s, kind, on
    <3>3. L[m] \in EventRecs /\ (selection => Kind[L[m].on] = "row_selected")
      BY <1>1, <1>2
    <3>4. Ordered(BeginValue(chosen, L[m], of, selection, fading), L)
      BY <1>1, <1>2, <2>3, <2>4, <2>5, <2>6, <3>2, <3>3, BeginValueOrdered
    <3> QED
      BY <3>1, <3>4 DEF d
  <2> QED
    BY <2>8, <2>9
<1> QED
  BY <1>6, <1>7

LEMMA ItemOrdered ==
  ASSUME NEW c, NEW L, NEW h, NEW m, NEW k, Ready(c, L, h, m, k), Ordered(c, L), L[m].kind \in MouseKinds
  PROVE  Ordered(HandleItem(c, L[m]), L)
<1> DEFINE ev == L[m]
           popup == Kind[ev.on] \in {"popup", "popup_unread"}
           row == Kind[ev.on] \in {"row", "row_ambiguous", "row_selected", "row_lost"}
           within == Within(ev.t, c.itemAt, ClickMs)
<1>1. CASE ev.kind = "mouse_release" /\ within
  <2>1. HandleItem(c, ev) = FlushValue(c)
    BY <1>1 DEF HandleItem
  <2> QED
    BY <2>1, ReadyFacts, FlushValueOrdered
<1>2. CASE ev.kind # "mouse_release" /\ popup
  <2>1. HandleItem(c, ev) = HandleCombo(c, ev)
    BY <1>2 DEF HandleItem
  <2>2. Ordered(HandleCombo(c, L[m]), L)
    BY <1>2, ComboOrdered
  <2> QED
    BY <2>1, <2>2
<1>3. CASE ev.kind # "mouse_release" /\ row
  <2>1. HandleItem(c, ev) = HandleRow(c, ev)
    BY <1>3 DEF HandleItem
  <2>2. Ordered(HandleRow(c, L[m]), L)
    BY RowOrdered
  <2> QED
    BY <2>1, <2>2
<1>4. CASE ~(ev.kind = "mouse_release" /\ within) /\ ~(ev.kind # "mouse_release" /\ popup)
           /\ ~(ev.kind # "mouse_release" /\ row)
  <2>1. HandleItem(c, ev) = HandleOrdinary(c, ev)
    BY <1>4 DEF HandleItem
  <2>2. Ordered(HandleOrdinary(c, L[m]), L)
    BY OrdinaryOrdered
  <2> QED
    BY <2>1, <2>2
<1> QED
  BY <1>1, <1>2, <1>3, <1>4

LEMMA MenuPressOrdered ==
  ASSUME NEW c, NEW L, NEW h, NEW m, NEW k, Ready(c, L, h, m, k), Ordered(c, L), L[m].kind \in MouseKinds
  PROVE  Ordered(HandleMenuPress(c, L[m]), L)
<1> DEFINE ev == L[m]
           d == HandleMenuPress(c, ev)
           t == ev.t
           on == ev.on
           reason == "not_found"
           kind == "click"
           again == ev.kind = "mouse_double" /\ on = c.menuOn
           open == Opening(c, t, on)
<1>1. /\ Lived(L) /\ h \in Nat /\ m \in Nat /\ h < m /\ m <= Len(L)
      /\ Core(c, L, h) /\ c \in Captures
      /\ ev \in EventRecs /\ ev.n = m
      /\ on \in Controls /\ t \in Nat
  <2>1. k <= Len(L) /\ m <= k /\ k \in Nat /\ Len(L) \in Nat /\ m \in Nat
    BY ReadyFacts
  <2> QED
    BY <2>1, ReadyFacts
<1>2. /\ reason \in Reasons \cup Deliberate /\ kind \in StepKinds
      /\ L[m].kind \in MouseKinds \cup {"key_press"}
  BY DEF Reasons, StepKinds
<1>3. /\ ~MenuItem(ev) => d = Drop(c, L[m], reason)
      /\ MenuItem(ev) /\ again => d = [c EXCEPT !.menuAt = <<t>>]
      /\ MenuItem(ev) /\ ~again => d = Record(open, Step(kind, on, {m}))
  BY <1>1 DEF HandleMenuPress, Opening
<1> HIDE DEF d, reason, kind
<1>4. CASE ~MenuItem(ev)
  <2>1. Ordered(d, L)
    BY <1>1, <1>2, <1>3, <1>4, DropOrdered
  <2> QED
    BY <2>1 DEF d
<1>5. CASE MenuItem(ev) /\ again
  <2>1. d = [c EXCEPT !.menuAt = <<t>>]
    BY <1>3, <1>5
  <2>2. SameLedger(c, d)
    BY <1>1, <2>1 DEF Captures, SameLedger, SameRuns
  <2>3. Ordered(d, L)
    BY <2>2, SameOrdered
  <2> QED
    BY <2>3 DEF d
<1>6. CASE MenuItem(ev) /\ ~again
  <2>1. Core(open, L, h) /\ Ordered(open, L) /\ Open(open) = {}
    <3>1. Lived(L) /\ h \in Nat /\ t \in Nat /\ on \in Controls /\ Core(c, L, h)
      BY <1>1
    <3> HIDE DEF t, on, open
    <3>2. open = Opening(c, t, on)
      BY DEF open
    <3>3. Core(open, L, h)
      BY <3>1, <3>2, MenuPressed, SMTT(30)
    <3> QED
      BY <3>1, <3>2, <3>3, OpeningOrdered
  <2>2. d = Record(open, Step(kind, on, {m}))
    BY <1>3, <1>6
  <2> HIDE DEF open, on
  <2>3. on \in Controls
    BY <1>1 DEF on
  <2>4. Ordered(d, L)
    BY <1>1, <1>2, <2>1, <2>2, <2>3, NewStepOrdered
  <2> QED
    BY <2>4 DEF d
<1> QED
  BY <1>4, <1>5, <1>6

LEMMA MouseOrdered ==
  ASSUME NEW c, NEW L, NEW h, NEW m, NEW k, Ready(c, L, h, m, k), Ordered(c, L), L[m].kind \in MouseKinds
  PROVE  Ordered(HandleMouse(c, L[m]), L)
<1> DEFINE ev == L[m]
           over == [c EXCEPT !.menuAt = <<>>]
           d == HandleMouse(c, ev)
           on == ev.on
           kind == "click"
           within == Within(ev.t, c.menuAt, ClickMs)
<1>1. /\ c \in Captures /\ Lived(L) /\ h \in Nat /\ m \in Nat /\ h < m /\ Core(c, L, h)
      /\ on \in Controls /\ ev.n = m
  BY ReadyFacts
<1>2. /\ over \in Captures /\ SameLedger(c, over) /\ over.group = c.group /\ over.itemAt = c.itemAt
      /\ over.menuOn = c.menuOn /\ over.menuAt = <<>>
  <2>1. <<>> \in Maybe(Nat)
    BY One
  <2> QED
    BY <1>1, <2>1 DEF Captures, SameLedger, SameRuns
<1>3. \/ ev.kind = "mouse_release" /\ d \in {over, Record(over, Step(kind, on, {m}))}
      \/ d = HandleMenuPress(over, ev)
      \/ d = HandleItem(over, ev)
  BY <1>1 DEF HandleMouse, HandleMenuRelease
<1> HIDE DEF over, d, on, kind
<1>4. Ready(over, L, h, m, k) /\ Core(over, L, h) /\ Ordered(over, L)
  BY <1>1, <1>2, ReadyStill, SameCore, SameOrdered
<1>5. CASE ev.kind = "mouse_release" /\ d = Record(over, Step(kind, on, {m}))
  <2>1. kind \in StepKinds
    BY DEF StepKinds, kind
  <2>2. Ordered(d, L)
    BY <1>1, <1>4, <1>5, <2>1, NewStepOrdered
  <2> QED
    BY <2>2 DEF d
<1>6. CASE d = HandleMenuPress(over, ev)
  BY <1>4, <1>6, MenuPressOrdered DEF d
<1>7. CASE d = HandleItem(over, ev)
  BY <1>4, <1>7, ItemOrdered DEF d
<1> QED
  BY <1>3, <1>4, <1>5, <1>6, <1>7 DEF d

\* What is asked on the way, and the runs that it ends.
LEMMA OrderedOnTheWay ==
  ASSUME NEW L, Lived(L), NEW h \in Nat, NEW c, Core(c, L, h), Ordered(c, L), NEW ev \in EventRecs
  PROVE  /\ Core(Resolve(c, ev), L, h) /\ Ordered(Resolve(c, ev), L)
         /\ Open(Resolve(c, ev)) = Open(c) /\ Resolve(c, ev).pending = c.pending
<1> DEFINE d == Resolve(c, ev)
<1>1. d \in Captures /\ SameLedger(c, d)
  BY ResolveSame DEF Core
<1> HIDE DEF d
<1>2. Core(d, L, h) /\ Ordered(d, L) /\ Open(d) = Open(c) /\ d.pending = c.pending
  BY <1>1, SameCore, SameOrdered DEF SameLedger, SameRuns
<1> QED
  BY <1>2 DEF d

LEMMA UnresolvedOrdered ==
  ASSUME NEW L, Lived(L), NEW h \in Nat, NEW c, Core(c, L, h), Ordered(c, L),
         NEW m \in Nat, h < m, m <= Len(L),
         Open(c) = {} \/ L[m].kind \in MouseKinds \cup {"key_press"}
  PROVE  Ordered(DropUnresolved(c, L[m]), L)
<1> DEFINE reason == IF Kind[Target(L[m])] = "chrome" THEN "chrome" ELSE "not_found"
<1>1. reason \in Reasons \cup Deliberate
  BY DEF Reasons, Deliberate
<1>2. DropUnresolved(c, L[m]) = Drop(c, L[m], reason)
  BY DEF DropUnresolved
<1> HIDE DEF reason
<1> QED
  BY <1>1, <1>2, DropOrdered

LEMMA CloseOrdered ==
  ASSUME NEW c, NEW L, NEW h, NEW m, NEW k, Ready(c, L, h, m, k), Ordered(c, L)
  PROVE  Ordered(HandleClose(c, L[m]), L)
<1> DEFINE ev == L[m]
           e == Conclude(c)
           r == Resolve(e, ev)
           d == HandleClose(c, ev)
           kind == "close_window"
           on == ev.on
<1>1. /\ Lived(L) /\ h \in Nat /\ m \in Nat /\ h < m /\ m <= Len(L)
      /\ Core(c, L, h) /\ ev \in EventRecs /\ ev.n = m /\ on \in Controls
  <2>1. k <= Len(L) /\ m <= k /\ k \in Nat /\ Len(L) \in Nat /\ m \in Nat
    BY ReadyFacts
  <2> QED
    BY <2>1, ReadyFacts
<1>2. d \in {c, DropUnresolved(r, L[m]), Record(r, Step(kind, on, {m}))} /\ kind \in StepKinds
  BY <1>1 DEF HandleClose, StepKinds
<1>3. Core(e, L, h) /\ Ordered(e, L) /\ Open(e) = {}
  BY <1>1, ConcludeEnds, ConcludeOrdered
<1> HIDE DEF e, ev, kind, on, d
<1>4. Core(r, L, h) /\ Ordered(r, L) /\ Open(r) = {}
  BY <1>1, <1>3, OrderedOnTheWay
<1> HIDE DEF r
<1>5. Ordered(DropUnresolved(r, L[m]), L)
  BY <1>1, <1>4, UnresolvedOrdered
<1>6. Ordered(Record(r, Step(kind, on, {m})), L)
  BY <1>1, <1>2, <1>4, NewStepOrdered
<1>7. Ordered(d, L)
  BY <1>2, <1>5, <1>6
<1> QED
  BY <1>7 DEF d, ev

LEMMA ShortcutOrdered ==
  ASSUME NEW c, NEW L, NEW h, NEW m, NEW k, Ready(c, L, h, m, k), Ordered(c, L)
  PROVE  Ordered(HandleShortcut(c, L[m]), L)
<1> DEFINE ev == L[m]
           e == FlushInput(c)
           r == Resolve(e, ev)
           d == HandleShortcut(c, ev)
           kind == "shortcut"
           on == Target(ev)
<1>1. /\ Lived(L) /\ h \in Nat /\ m \in Nat /\ h < m /\ m <= Len(L)
      /\ Core(c, L, h) /\ ev \in EventRecs /\ ev.n = m /\ on \in Controls
  <2>1. k <= Len(L) /\ m <= k /\ k \in Nat /\ Len(L) \in Nat /\ m \in Nat
    BY ReadyFacts
  <2> QED
    BY <2>1, ReadyFacts DEF Target
<1>2. d \in {DropUnresolved(r, L[m]), Record(r, Step(kind, on, {m}))} /\ kind \in StepKinds
  BY <1>1 DEF HandleShortcut, StepKinds
<1>3. Core(e, L, h) /\ Ordered(e, L) /\ Open(e) = {}
  BY <1>1, FlushInputEnds, FlushInputOrdered
<1> HIDE DEF e, ev, kind, on, d
<1>4. Core(r, L, h) /\ Ordered(r, L) /\ Open(r) = {}
  BY <1>1, <1>3, OrderedOnTheWay
<1> HIDE DEF r
<1>5. Ordered(DropUnresolved(r, L[m]), L)
  BY <1>1, <1>4, UnresolvedOrdered
<1>6. Ordered(Record(r, Step(kind, on, {m})), L)
  BY <1>1, <1>2, <1>4, NewStepOrdered
<1>7. Ordered(d, L)
  BY <1>2, <1>5, <1>6
<1> QED
  BY <1>7 DEF d, ev

LEMMA KeyOrdered ==
  ASSUME NEW c, NEW L, NEW h, NEW m, NEW k, Ready(c, L, h, m, k), Ordered(c, L), L[m].kind = "key_press"
  PROVE  Ordered(HandleKey(c, L[m]), L)
<1> DEFINE ev == L[m]
           r == Resolve(c, ev)
           e == FlushInput(r)
           d == HandleKey(c, ev)
           kind == IF ev.key = "command" THEN "shortcut" ELSE "key"
           on == Target(ev)
           typed == HandleCharacter(r, ev)
<1>1. /\ Lived(L) /\ h \in Nat /\ m \in Nat /\ h < m /\ m <= Len(L) /\ h < ev.n
      /\ Core(c, L, h) /\ ev \in EventRecs /\ ev.n = m /\ on \in Controls
  <2>1. k <= Len(L) /\ m <= k /\ k \in Nat /\ Len(L) \in Nat /\ m \in Nat
    BY ReadyFacts
  <2> QED
    BY <2>1, ReadyFacts DEF Target
<1>2. d \in {DropUnresolved(r, L[m]), Record(e, Step(kind, on, {m})), typed} /\ kind \in StepKinds
  BY <1>1 DEF HandleKey, StepKinds
<1>3. L[m].kind \in MouseKinds \cup {"key_press"}
  OBVIOUS
<1> HIDE DEF kind, on, d, ev
<1>4. Core(r, L, h) /\ Ordered(r, L)
  BY <1>1, OrderedOnTheWay
<1> HIDE DEF r
<1>5. Core(e, L, h) /\ Ordered(e, L) /\ Open(e) = {}
  BY <1>1, <1>4, FlushInputEnds, FlushInputOrdered
<1>6. Ordered(DropUnresolved(r, L[m]), L)
  BY <1>1, <1>3, <1>4, UnresolvedOrdered
<1>7. Ordered(Record(e, Step(kind, on, {m})), L)
  <2> HIDE DEF e
  <2> QED
    BY <1>1, <1>2, <1>5, NewStepOrdered
<1>8. Ordered(typed, L)
  BY <1>1, <1>4, CharacterOrdered
<1>9. Ordered(d, L)
  BY <1>2, <1>6, <1>7, <1>8
<1> QED
  BY <1>9 DEF d, ev

LEMMA WheelOrdered ==
  ASSUME NEW c, NEW L, NEW h, NEW m, NEW k, Ready(c, L, h, m, k), Ordered(c, L)
  PROVE  Ordered(HandleWheel(c, L[m]), L)
<1> DEFINE ev == L[m]
           r == Resolve(c, ev)
           e == FlushInput(r)
           d == HandleWheel(c, ev)
           reason == "scrolling"
           S == {m}
           fading == Answer(r, ev) = "fading"
           selection == FALSE
           turned == BeginValue(r, ev, S, selection, fading)
           s == Step("select", Target(ev), S)
<1>1. /\ Lived(L) /\ h \in Nat /\ m \in Nat /\ h < m /\ m <= Len(L)
      /\ Core(c, L, h) /\ ev \in EventRecs /\ ev.n = m
  <2>1. k <= Len(L) /\ m <= k /\ k \in Nat /\ Len(L) \in Nat /\ m \in Nat
    BY ReadyFacts
  <2> QED
    BY <2>1, ReadyFacts
<1>2. /\ reason \in Reasons \cup Deliberate /\ s.of = {m}
      /\ S \in SUBSET Nat /\ S # {} /\ \A n \in S : n = m
      /\ fading \in BOOLEAN /\ selection \in BOOLEAN /\ ~selection
  BY <1>1 DEF Deliberate, Step
<1>3. d \in {DropUnresolved(e, L[m]), Drop(e, L[m], reason), turned}
  BY <1>1 DEF HandleWheel, BeginWheelOrDrag
<1> HIDE DEF reason, d, ev, S, fading, selection, s
<1>4. Core(r, L, h) /\ Ordered(r, L)
  BY <1>1, OrderedOnTheWay
<1> HIDE DEF r
<1>5. Core(e, L, h) /\ Ordered(e, L) /\ Open(e) = {}
  BY <1>1, <1>4, FlushInputEnds, FlushInputOrdered
<1> HIDE DEF e
<1>6. Ordered(DropUnresolved(e, L[m]), L)
  BY <1>1, <1>5, UnresolvedOrdered
<1>7. Ordered(Drop(e, L[m], reason), L)
  BY <1>1, <1>2, <1>5, DropOrdered
<1>8. Ordered(turned, L)
  <2>1. Follows(r.failed, L, r.rec, s)
    BY <1>1, <1>2, <1>4, NewFollows
  <2>2. r.pending # <<>> => \A n \in S : r.pending[1].n < n
    <3>1. r.pending # <<>> => r.pending[1].n \in 1..h
      BY <1>4 DEF Core, Claimed, Pending
    <3> QED
      BY <1>1, <1>2, <3>1
  <2> QED
    BY <1>1, <1>2, <1>4, <2>1, <2>2, BeginValueOrdered DEF s
<1>9. Ordered(d, L)
  BY <1>3, <1>6, <1>7, <1>8
<1> QED
  BY <1>9 DEF d, ev

\* Every handler keeps the order.
LEMMA EveryOrdered ==
  ASSUME NEW c, NEW L, NEW h, NEW m, NEW k, Ready(c, L, h, m, k), Ordered(c, L)
  PROVE  Ordered(Handle(c, L[m]), L)
<1> DEFINE ev == L[m]
<1>1. ev \in EventRecs
  BY ReadyFacts
<1>2. ev.kind \in EventKinds
  BY <1>1 DEF EventRecs
<1>3. CASE ev.kind \in MouseKinds
  <2>1. Handle(c, ev) = HandleMouse(c, ev)
    BY <1>3 DEF Handle, MouseKinds
  <2> QED
    BY <1>3, <2>1, MouseOrdered
<1>4. CASE ev.kind = "key_press"
  <2>1. Handle(c, ev) = HandleKey(c, ev)
    BY <1>4 DEF Handle, MouseKinds
  <2> QED
    BY <1>4, <2>1, KeyOrdered
<1>5. CASE ev.kind = "shortcut"
  <2>1. Handle(c, ev) = HandleShortcut(c, ev)
    BY <1>5 DEF Handle, MouseKinds
  <2> QED
    BY <2>1, ShortcutOrdered
<1>6. CASE ev.kind = "wheel"
  <2>1. Handle(c, ev) = HandleWheel(c, ev)
    BY <1>6 DEF Handle, MouseKinds
  <2> QED
    BY <2>1, WheelOrdered
<1>7. CASE ev.kind = "close_window"
  <2>1. Handle(c, ev) = HandleClose(c, ev)
    BY <1>7 DEF Handle, MouseKinds
  <2> QED
    BY <2>1, CloseOrdered
<1> QED
  BY <1>2, <1>3, <1>4, <1>5, <1>6, <1>7 DEF EventKinds

\* The group is put aside, or set.
LEMMA GroupOrdered ==
  ASSUME NEW L, NEW c \in Captures, Ordered(c, L), NEW g
  PROVE  Ordered([c EXCEPT !.group = g], L)
<1> DEFINE d == [c EXCEPT !.group = g]
<1>1. SameLedger(c, d)
  BY DEF Captures, SameLedger, SameRuns
<1> HIDE DEF d
<1>2. Ordered(d, L)
  BY <1>1, SameOrdered
<1> QED
  BY <1>2 DEF d

\* What has been collected is handled in order.
LEMMA FlushGroupOrdered ==
  ASSUME NEW c, NEW L, Lived(L), Going(c, L), Ordered(c, L)
  PROVE  Ordered(FlushGroup(c), L)
<1> DEFINE g == c.group
           h == g[1].n - 1
           b == [c EXCEPT !.group = <<>>]
           k == Len(L)
<1>1. CASE g = <<>>
  BY <1>1 DEF FlushGroup
<1>2. CASE g # <<>>
  <2>1. Core(c, L, h) /\ Edge(c, L, h) /\ Accounts(c, L, h) /\ Grouped(g, L)
    BY <1>2 DEF Going, Folded
  <2>2. g \in Seq(EventRecs) /\ c \in Captures
    BY <2>1 DEF Core, Captures
  <2>3. /\ g[1].n \in 1..Len(L) /\ Len(L) \in 1..Len(L)
        /\ \A n \in g[1].n..Len(L) : n \in 1..Len(L) /\ L[n].kind = L[Len(L)].kind
        /\ L[Len(L)].kind \in MouseKinds => g[1].n = Len(L)
    BY <1>2, <2>1, <2>2, GroupFacts
  <2>4. PICK m \in g[1].n..Len(L) : MostSpecific(g) = L[m]
    BY <1>2, <2>1, <2>2, MostSpecificIsReal
  <2>5. /\ h \in Nat /\ m \in Nat /\ k \in Nat /\ h < m /\ m <= k /\ k <= Len(L)
        /\ h + 1 = g[1].n
    BY <2>3
  <2>6. Core(b, L, h) /\ Edge(b, L, h) /\ Accounts(b, L, h)
    <3> DEFINE e == <<>>
    <3>1. e \in Seq(EventRecs)
      OBVIOUS
    <3>2. h \in Nat
      BY <2>5
    <3> HIDE DEF e, h
    <3>3. LET d == [c EXCEPT !.group = e]
          IN  Core(d, L, h) /\ d.group = e /\ Edge(d, L, h) /\ Accounts(d, L, h)
      BY <2>1, <3>1, <3>2, GroupSet
    <3> QED
      BY <3>3 DEF e
  <2>7. FlushGroup(c) = Handle(b, L[m])
    BY <1>2, <2>4 DEF FlushGroup
  <2>8. Ordered(b, L)
    BY <2>2, GroupOrdered
  <2> HIDE DEF b, h
  <2>9. /\ \A n \in (h + 1)..k : L[n].kind = L[m].kind
        /\ L[m].kind \in MouseKinds => m = h + 1 /\ k = m
    BY <2>3, <2>5
  <2>10. Ready(b, L, h, m, k)
    BY <2>5, <2>6, <2>9 DEF Ready
  <2> QED
    BY <2>7, <2>8, <2>10, EveryOrdered
<1> QED
  BY <1>1, <1>2

\* What happens next changes nothing of what was in order.
LEMMA OrderedLater ==
  ASSUME NEW L \in Seq(EventRecs), NEW ev \in EventRecs, NEW c \in Captures,
         Claimed(c) \subseteq 1..Len(L), Ordered(c, L)
  PROVE  Ordered(c, Append(L, ev))
<1> DEFINE M == Append(L, ev)
           F == c.failed
           a == c.rec.actions
           drops == c.rec.drops
<1>1. /\ DOMAIN L = 1..Len(L) /\ DOMAIN L \subseteq DOMAIN M /\ Len(L) \in Nat
      /\ \A n \in 1..Len(L) : M[n] = L[n]
  BY Longer
<1>2. \A n : Lost(F, L, n) => Lost(F, M, n)
  BY StillFound
<1>3. \A gap : Uncounted(L, gap) => Uncounted(M, gap)
  BY <1>1 DEF Uncounted
<1>4. a \in Seq(StepRecs)
  BY DEF Captures
<1>6. ASSUME NEW s \in StepRecs, s.of # {}, s.of \subseteq Claimed(c)
      PROVE  M[First(s.of)] = L[First(s.of)]
  <2>1. s.of \in SUBSET Nat
    BY DEF StepRecs
  <2>2. First(s.of) \in s.of
    BY <1>6, <2>1, Firsts
  <2> QED
    BY <1>1, <1>6, <2>2
<1>7. ASSUME NEW i \in 2..Len(a)
      PROVE  a[i] \in StepRecs /\ a[i].of # {} /\ M[First(a[i].of)] = L[First(a[i].of)]
  <2>1. i \in DOMAIN a /\ a[i] \in StepRecs
    BY <1>4
  <2>2. a[i].of # {} /\ a[i].of \subseteq Claimed(c)
    BY <1>7, <2>1 DEF Ordered, Listed, Told, Claimed
  <2> QED
    BY <1>6, <2>1, <2>2
<1>8. ASSUME NEW s \in Open(c)
      PROVE  /\ s.of # {} /\ M[First(s.of)] = L[First(s.of)]
             /\ ReadLate(s) /\ Follows(F, L, c.rec, s)
  <2>1. s \in StepRecs /\ s.of \subseteq Claimed(c)
    BY <1>8, OpenStep
  <2>2. ReadLate(s) /\ Follows(F, L, c.rec, s) /\ s.of # {}
    BY <1>8 DEF Ordered, Follows
  <2> QED
    BY <1>6, <2>1, <2>2
<1> HIDE DEF M, F, a, drops
<1>9. \A t : M[First(t.of)] = L[First(t.of)] /\ Late(F, L, t.of) => Late(F, M, t.of)
  BY <1>2 DEF Late
<1>10. \A s, t : /\ M[First(s.of)] = L[First(s.of)] /\ M[First(t.of)] = L[First(t.of)]
                 /\ Before(F, L, s, t)
                 => Before(F, M, s, t)
  BY <1>9 DEF Before
<1>11. \A gap, s : M[First(s.of)] = L[First(s.of)] /\ After(F, L, gap, s) => After(F, M, gap, s)
  BY <1>3, <1>9 DEF After
<1>12. \A d \in DOMAIN drops : Placed(F, L, drops[d], a) => Placed(F, M, drops[d], a)
  BY <1>7, <1>11 DEF Placed
<1>13. Listed(F, M, c.rec)
  <2>1. Listed(F, L, c.rec)
    BY DEF Ordered, F
  <2> QED
    BY <1>3, <1>7, <1>10, <1>12, <2>1 DEF Listed, a, drops
<1>14. \A s \in Open(c) : ReadLate(s) /\ Follows(F, M, c.rec, s)
  <2> SUFFICES ASSUME NEW s \in Open(c)
               PROVE  ReadLate(s) /\ Follows(F, M, c.rec, s)
    OBVIOUS
  <2>1. /\ s.of # {} /\ M[First(s.of)] = L[First(s.of)] /\ ReadLate(s) /\ Follows(F, L, c.rec, s)
    BY <1>8
  <2>2. \A i \in 2..Len(a) : Before(F, M, a[i], s)
    BY <1>7, <1>10, <2>1 DEF Follows, a
  <2>3. \A d \in DOMAIN drops : After(F, M, drops[d], s)
    BY <1>11, <2>1 DEF Follows, drops
  <2> QED
    BY <2>1, <2>2, <2>3 DEF Follows, a, drops
<1> QED
  BY <1>13, <1>14 DEF Ordered, M, F

LEMMA FeedOrdered ==
  ASSUME NEW c, NEW L, Lived(L), Going(c, L), Ordered(c, L), NEW ev \in EventRecs
  PROVE  /\ Ordered(Feed(c, ev), L) /\ Feed(c, ev) \in Captures
         /\ Feed(c, ev).group # <<>> /\ SameInteraction(Feed(c, ev).group[1], ev)
<1> DEFINE g == c.group
           b == IF g # <<>> /\ ~SameInteraction(g[1], ev) THEN FlushGroup(c) ELSE c
           f == Append(b.group, ev)
           d == [b EXCEPT !.group = f]
<1>1. Feed(c, ev) = d
  BY DEF Feed
<1>2. Ordered(b, L) /\ Going(b, L)
  BY FlushGroupOrdered, FlushFolds
<1>3. b.group = <<>> \/ (b.group # <<>> /\ SameInteraction(b.group[1], ev))
  BY FlushFolds
<1> HIDE DEF b
<1>4. b \in Captures /\ b.group \in Seq(EventRecs)
  <2>1. \E h : Core(b, L, h)
    BY <1>2 DEF Going
  <2> QED
    BY <2>1 DEF Core, Captures
<1>5. SameInteraction(ev, ev)
  <2>1. ev.t \in Nat /\ GroupMs \in Nat
    BY FoldingAssumption DEF EventRecs
  <2> QED
    BY <2>1 DEF SameInteraction
<1>6. f \in Seq(EventRecs) /\ f # <<>> /\ SameInteraction(f[1], ev)
  <2>1. CASE b.group = <<>>
    <3>1. f = <<ev>>
      BY <2>1
    <3> QED
      BY <1>5, <3>1
  <2>2. CASE b.group # <<>>
    <3> DEFINE old == b.group
    <3>1. old \in Seq(EventRecs) /\ Len(old) \in Nat \ {0}
      BY <1>4, <2>2, EmptySeq
    <3> HIDE DEF old
    <3>2. 1 \in 1..Len(old)
      BY <3>1
    <3>3. Append(old, ev) \in Seq(EventRecs) /\ Append(old, ev)[1] = old[1] /\ Append(old, ev) # <<>>
      BY <3>1, <3>2
    <3> QED
      BY <1>3, <2>2, <3>3 DEF old
  <2> QED
    BY <2>1, <2>2
<1> HIDE DEF f
<1>7. Ordered(d, L)
  BY <1>2, <1>4, GroupOrdered
<1>8. d.group = f
  BY <1>4 DEF Captures
<1>9. d \in Captures
  BY <1>4, <1>6 DEF Captures
<1> HIDE DEF d
<1> QED
  BY <1>1, <1>6, <1>7, <1>8, <1>9

LEMMA FedOrdered ==
  ASSUME NEW c, NEW L, Lived(L), Going(c, L), Ordered(c, L), NEW ev \in EventRecs
  PROVE  Ordered(FedTo(c, ev), L) /\ FedTo(c, ev).group # <<>>
<1> DEFINE copy == [ev EXCEPT !.on = Window]
           e == Feed(c, copy)
<1>1. CASE ~(ev.kind \in MouseKinds /\ Window # NoControl)
  BY <1>1, FeedOrdered DEF FedTo
<1>2. CASE ev.kind \in MouseKinds /\ Window # NoControl
  <2>1. copy \in EventRecs /\ copy.kind = ev.kind /\ copy.t = ev.t
    <3>1. Window \in Controls
      BY <1>2, CaptureAssumption
    <3> QED
      BY <3>1 DEF EventRecs
  <2>2. FedTo(c, ev) = Feed(e, ev)
    BY <1>2 DEF FedTo
  <2> HIDE DEF copy
  <2>3. Ordered(e, L) /\ e \in Captures /\ e.group # <<>> /\ SameInteraction(e.group[1], copy)
    BY <2>1, FeedOrdered
  <2> HIDE DEF e
  <2>4. SameInteraction(e.group[1], ev)
    BY <2>1, <2>3 DEF SameInteraction
  <2> DEFINE f == Append(e.group, ev)
  <2>5. Feed(e, ev) = [e EXCEPT !.group = f] /\ e.group \in Seq(EventRecs)
    BY <2>3, <2>4 DEF Feed, Captures
  <2>6. f # <<>>
    <3> DEFINE old == e.group
    <3>1. old \in Seq(EventRecs)
      BY <2>5
    <3> HIDE DEF old
    <3>2. Len(Append(old, ev)) = Len(old) + 1 /\ Len(old) \in Nat /\ Len(<<>>) = 0
      BY <3>1, EmptySeq
    <3>3. Append(old, ev) # <<>>
      BY <3>2
    <3> QED
      BY <3>3 DEF old
  <2> HIDE DEF f
  <2>7. [e EXCEPT !.group = f].group = f
    BY <2>3 DEF Captures
  <2> QED
    BY <2>2, <2>3, <2>5, <2>6, <2>7, GroupOrdered
<1> QED
  BY <1>1, <1>2

LEMMA FinishOrdered ==
  ASSUME NEW c, NEW L, Lived(L), Going(c, L), Ordered(c, L)
  PROVE  Ordered(Finish(c), L)
<1> DEFINE b == FlushGroup(c)
           h == Len(L)
<1>1. Going(b, L) /\ b.group = <<>> /\ Ordered(b, L)
  BY FlushFolds, FlushGroupOrdered
<1>2. h \in Nat
  BY DEF Lived
<1>3. Core(b, L, h)
  BY <1>1 DEF Going, Folded
<1>4. Finish(c) = Conclude(b)
  BY DEF Finish
<1> HIDE DEF b, h
<1> QED
  BY <1>1, <1>2, <1>3, <1>4, ConcludeOrdered

\* What happens is collected behind what was in order.
LEMMA FedStaysOrdered ==
  ASSUME NEW c, NEW L, Lived(L), Going(c, L), Ordered(c, L),
         NEW ev \in EventRecs, ev.n = Len(L) + 1,
         ev.kind \in MouseKinds /\ L # <<>> => ev.t - L[Len(L)].t > GroupMs,
         Lived(Append(L, ev))
  PROVE  Ordered(FedTo(c, ev), Append(L, ev))
<1> DEFINE d == FedTo(c, ev)
           M == Append(L, ev)
           h == d.group[1].n - 1
<1>1. Going(d, M) /\ Lived(M)
  BY FedFolds
<1>2. Ordered(d, L) /\ d.group # <<>>
  BY FedOrdered
<1>3. L \in Seq(EventRecs) /\ Len(L) \in Nat /\ Len(M) = Len(L) + 1
  BY Longer DEF Lived
<1> HIDE DEF d, M
<1>4. Core(d, M, h) /\ Grouped(d.group, M)
  BY <1>1, <1>2 DEF Going, Folded
<1>5. d \in Captures /\ d.group \in Seq(EventRecs) /\ Claimed(d) \subseteq 1..h
  BY <1>4 DEF Core, Captures
<1>6. d.group[1].n \in 1..Len(M)
  BY <1>1, <1>2, <1>4, <1>5, GroupFacts
<1>7. 1..h \subseteq 1..Len(L)
  BY <1>3, <1>6
<1>8. Claimed(d) \subseteq 1..Len(L)
  BY <1>5, <1>7
<1> HIDE DEF h
<1>9. Ordered(d, Append(L, ev))
  BY <1>2, <1>3, <1>5, <1>8, OrderedLater
<1> QED
  BY <1>9 DEF d

-----------------------------------------------------------------------------
(* The order, as an invariant.                                              *)

LEMMA InitOrdered == Init => Ordered(cap, log)
<1> SUFFICES ASSUME Init
             PROVE  Ordered(cap, log)
  OBVIOUS
<1> DEFINE launch == Step("launch", NoControl, {})
           a == cap.rec.actions
<1>1. /\ a = <<launch>> /\ cap.rec.drops = <<>> /\ cap.pending = <<>>
      /\ cap.typing = <<>> /\ cap.value = <<>>
  BY DEF Init, NewCapture, NewRecording
<1>2. Len(a) = 1 /\ 2..Len(a) = {} /\ DOMAIN cap.rec.drops = {}
  BY <1>1
<1>3. Listed(cap.failed, log, cap.rec)
  BY <1>2 DEF Listed
<1>4. Open(cap) = {}
  BY <1>1 DEF Open
<1> QED
  BY <1>1, <1>3, <1>4 DEF Ordered

LEMMA HappensOrdered ==
  ASSUME IInv, IInv', Ordered(cap, log), NEW kind, NEW on, NEW key, NEW interval \in Intervals,
         Happens(kind, on, key, interval), kind \in MouseKinds => interval > GroupMs
  PROVE  Ordered(cap', log')
<1>1. ~done /\ Lived(log) /\ Held /\ Going(cap, log) /\ Lived(log')
  BY DEF Happens, IInv
<1>2. PICK answer \in Known[on] :
        LET ev == [n |-> Len(log) + 1, kind |-> kind, on |-> on, t |-> now', key |-> key,
                   answer |-> answer]
        IN  log' = Append(log, ev) /\ cap' = Fed(ev)
  BY DEF Happens
<1> DEFINE ev == [n |-> Len(log) + 1, kind |-> kind, on |-> on, t |-> now', key |-> key,
                  answer |-> answer]
<1>3. /\ now \in Nat /\ now' = now + interval /\ interval \in Nat /\ GroupMs \in Nat
      /\ log \in Seq(EventRecs) /\ Len(log) \in Nat /\ log' \in Seq(EventRecs)
  BY <1>1, CaptureAssumption, FoldingAssumption DEF Held, Lived, Happens
<1>4. /\ ev.n = Len(log) + 1 /\ ev.kind = kind /\ ev.t = now'
      /\ log' = Append(log, ev) /\ cap' = Fed(ev)
  BY <1>2
<1> HIDE DEF ev
<1>5. ev \in EventRecs
  <2> DEFINE old == log
             M == Append(old, ev)
  <2>1. Len(M) = Len(old) + 1 /\ M[Len(old) + 1] = ev /\ M \in Seq(EventRecs) /\ Len(old) \in Nat
    BY <1>3, <1>4
  <2> HIDE DEF M, old
  <2>2. Len(old) + 1 \in 1..Len(M)
    BY <2>1
  <2> QED
    BY <2>1, <2>2
<1>6. log # <<>> => log[Len(log)].t \in Nat /\ log[Len(log)].t <= now
  <2> SUFFICES ASSUME log # <<>>
               PROVE  log[Len(log)].t \in Nat /\ log[Len(log)].t <= now
    OBVIOUS
  <2>1. Len(log) \in 1..Len(log)
    BY <1>3, EmptySeq
  <2>2. log[Len(log)] \in EventRecs
    BY <1>3, <2>1
  <2> QED
    BY <1>1, <2>2 DEF Held, EventRecs
<1>7. ev.kind \in MouseKinds /\ log # <<>> => ev.t - log[Len(log)].t > GroupMs
  BY <1>3, <1>4, <1>6
<1>8. Lived(Append(log, ev))
  BY <1>1, <1>4
<1>9. Ordered(FedTo(cap, ev), Append(log, ev))
  BY <1>1, <1>4, <1>5, <1>7, <1>8, FedStaysOrdered
<1>10. cap' = FedTo(cap, ev)
  BY <1>4 DEF Fed, FedTo
<1> QED
  BY <1>4, <1>9, <1>10

LEMMA NextOrdered == IInv /\ Ordered(cap, log) /\ IInv' /\ [Next]_vars => Ordered(cap', log')
<1> SUFFICES ASSUME IInv, Ordered(cap, log), IInv', [Next]_vars
             PROVE  Ordered(cap', log')
  OBVIOUS
<1>1. CASE Press
  BY <1>1, HappensOrdered DEF Press
<1>2. CASE ReleaseButton
  BY <1>2, HappensOrdered DEF ReleaseButton
<1>3. CASE Double
  BY <1>3, HappensOrdered DEF Double
<1>4. CASE PressKey
  BY <1>4, HappensOrdered DEF PressKey, MouseKinds
<1>5. CASE Shortcut
  BY <1>5, HappensOrdered DEF Shortcut
<1>6. CASE TurnWheel
  BY <1>6, HappensOrdered DEF TurnWheel, MouseKinds
<1>7. CASE CloseWindow
  BY <1>7, HappensOrdered DEF CloseWindow
<1>8. CASE FlushStale
  <2>1. ~done
    BY <1>8 DEF FlushStale
  <2>2. Ordered(FlushGroup(cap), log)
    BY <2>1, FlushGroupOrdered DEF IInv
  <2> QED
    BY <1>8, <2>2 DEF FlushStale
<1>9. CASE FinishSession
  <2>1. ~done
    BY <1>9 DEF FinishSession
  <2>2. Ordered(Finish(cap), log)
    BY <2>1, FinishOrdered DEF IInv
  <2> QED
    BY <1>9, <2>2 DEF FinishSession
<1>10. CASE UNCHANGED vars
  BY <1>10 DEF vars
<1> QED
  BY <1>1, <1>2, <1>3, <1>4, <1>5, <1>6, <1>7, <1>8, <1>9, <1>10 DEF Next

\* Whatever happens, the session stays in order.
LEMMA OrderKeptAlways == Spec => []Ordered(cap, log)
<1> DEFINE Inv == IInv /\ Ordered(cap, log)
<1>1. Init => Inv
  BY InitIInv, InitOrdered
<1>2. Inv /\ [Next]_vars => Inv'
  BY NextIInv, NextOrdered
<1>3. Inv => Ordered(cap, log)
  OBVIOUS
<1> HIDE DEF Inv
<1> QED
  BY <1>1, <1>2, <1>3, PTL DEF Spec

\* StepsInOrder: the steps are in the order they were begun; only two that are
\* read late change places, and only a press whose release was lost comes behind
\* what was begun after it (capture.py:1269-1272, 1152-1154, 688-706).
THEOREM StepsOrdered == Spec => []StepsInOrder
<1>1. Ordered(cap, log) => StepsInOrder
  <2> SUFFICES ASSUME Ordered(cap, log)
               PROVE  StepsInOrder
    OBVIOUS
  <2>1. \A of : Late(cap.failed, log, of) => \A s : s.of = of => ReleaseWasLost(s)
    BY DEF Late, Lost, Shadow, ReleaseWasLost, InTheShadowOfAnItem, Events
  <2>2. \A i, j \in 2..Len(Steps) : i < j => Before(cap.failed, log, Steps[i], Steps[j])
    BY DEF Ordered, Listed, Steps
  <2> QED
    BY <2>1, <2>2 DEF Before, StepsInOrder
<1> QED
  BY <1>1, OrderKeptAlways, PTL

\* GapsInPlace: a gap stands between what was done before it and what was done
\* after it, but for the run or the press that was in progress when the event
\* was lost, and for a place counted before a choice from a combo box took the
\* click that opened it back (capture.py:1491-1531, 893-901).
THEOREM GapsPlaced == Spec => []GapsInPlace
<1>1. IInv /\ Ordered(cap, log) => GapsInPlace
  <2> SUFFICES ASSUME IInv, Ordered(cap, log), NEW d \in DOMAIN Gaps, NEW i \in 2..Len(Steps)
               PROVE  \/ GapSplits(Gaps[d], i)
                      \/ i > Gaps[d].after /\ ReleaseWasLost(Steps[i])
                      \/ /\ i > Gaps[d].after /\ ReadLate(Steps[i])
                         /\ Gaps[d].kind \in MouseKinds \cup {"key_press"}
                      \/ CountedOff(Gaps[d])
    BY DEF GapsInPlace
  <2> DEFINE gap == Gaps[d]
             s == Steps[i]
  <2>1. Late(cap.failed, log, s.of) => ReleaseWasLost(s)
    BY DEF Late, Lost, Shadow, ReleaseWasLost, InTheShadowOfAnItem, Events
  <2>2. Uncounted(log, gap) => CountedOff(gap)
    BY DEF Uncounted, CountedOff, Events
  <2>3. Uncounted(log, gap) \/ Placed(cap.failed, log, gap, Steps)
    BY DEF Ordered, Listed, Gaps, Steps
  <2>4. CASE i <= gap.after /\ Placed(cap.failed, log, gap, Steps)
    BY <2>4 DEF Placed, GapSplits
  <2>5. CASE ~(i <= gap.after) /\ Placed(cap.failed, log, gap, Steps)
    <3>1. After(cap.failed, log, gap, s)
      BY <2>5 DEF Placed
    <3>2. i > gap.after
      <4>1. cap.rec.drops \in Seq(GapRecs)
        BY SessionCore DEF Core, Captures
      <4>2. gap \in GapRecs
        BY <4>1 DEF Gaps
      <4>3. gap.after \in Nat
        BY <4>2 DEF GapRecs
      <4> QED
        BY <2>5, <4>3
    <3> QED
      BY <2>1, <2>2, <2>5, <3>1, <3>2 DEF After, GapSplits
  <2> QED
    BY <2>2, <2>3, <2>4, <2>5
<1> QED
  BY <1>1, Invariance, OrderKeptAlways, PTL

-----------------------------------------------------------------------------
(* What the steps are on.                                                   *)

Named(x) == Known[x] # {"missing"} /\ Kind[x] # "chrome"

\* StepsAreAddressable for one step.
Right(s) == Named(s.on) /\ (s.kind \in {"click", "double_click"} => s.on # Window)

\* What was found out is true of the control, and what the session holds back
\* is on something a step can be on.
Addressed(c) ==
  /\ c \in Captures
  /\ c.rec.actions # <<>> /\ c.rec.actions[1].kind = "launch"
  /\ \A i \in 2..Len(c.rec.actions) : Right(c.rec.actions[i])
  /\ \A x \in Controls : c.cache[x] \notin {"unknown", "missing"} => Named(x)
  /\ c.typing # <<>> => Named(c.typing[1].on)
  /\ c.value # <<>> => Named(c.value[1].on) /\ (c.value[1].selection => c.value[1].on # Window)
  /\ c.pending # <<>> => Named(Target(c.pending[1])) /\ Target(c.pending[1]) # Window

\* What the application was asked about really happened.
Heard(ev) == /\ ev \in EventRecs /\ ev.answer \in Known[ev.on]
             /\ ev.kind \in MouseKinds => ev.on \in Pressable \cup Elsewhere

LEMMA HeardOf ==
  ASSUME NEW ev, Heard(ev)
  PROVE  /\ ev \in EventRecs /\ ev.on \in Controls /\ Target(ev) \in Controls
         /\ ev.n \in Nat /\ ev.t \in Nat /\ ev.answer \in Answers
         /\ ev.kind \in MouseKinds => ev.on # Window /\ Target(ev) # Window
         /\ ev.answer # "missing" => Known[ev.on] # {"missing"} /\ Known[Target(ev)] # {"missing"}
         /\ Known[Target(ev)] # {"missing"} <=> Known[ev.on] # {"missing"}
         /\ Kind[ev.on] # "chrome" => Kind[Target(ev)] # "chrome"
<1>1. ev \in EventRecs /\ ev.on \in Controls /\ Target(ev) \in Controls
  BY FoldingAssumption DEF Heard, EventRecs, Target
<1>2. ev.n \in Nat /\ ev.t \in Nat /\ ev.answer \in Answers
  BY <1>1 DEF EventRecs
<1>3. ev.kind \in MouseKinds => ev.on # Window /\ Target(ev) # Window
  BY AddressAssumption DEF Heard, Target
<1>4. ev.answer # "missing" => Known[ev.on] # {"missing"}
  BY DEF Heard
<1>5. /\ Known[Target(ev)] # {"missing"} <=> Known[ev.on] # {"missing"}
      /\ Kind[ev.on] # "chrome" => Kind[Target(ev)] # "chrome"
  BY <1>1, AddressAssumption DEF Target
<1> QED
  BY <1>1, <1>2, <1>3, <1>4, <1>5

\* The moments and the group name nothing.
LEMMA MomentsAddressed ==
  ASSUME NEW c, Addressed(c), NEW d \in Captures, SameLedger(c, d), d.cache = c.cache
  PROVE  Addressed(d)
BY DEF Addressed, SameLedger, SameRuns

LEMMA RecordAddressed ==
  ASSUME NEW c, Addressed(c), NEW s \in StepRecs, Right(s)
  PROVE  Addressed(Record(c, s))
<1> DEFINE d == Record(c, s)
           N == Len(c.rec.actions)
<1>1. c \in Captures
  BY DEF Addressed
<1>2. /\ d \in Captures /\ d.rec.actions = Append(c.rec.actions, s)
      /\ SameRuns(c, d) /\ d.cache = c.cache
  BY <1>1, RecordShape DEF SameClocks
<1> HIDE DEF d
<1>3. /\ DOMAIN d.rec.actions = 1..(N + 1) /\ DOMAIN c.rec.actions = 1..N /\ N \in Nat
      /\ \A i \in 1..N : d.rec.actions[i] = c.rec.actions[i]
      /\ d.rec.actions[N + 1] = s
  BY <1>1, <1>2, OneMoreTold
<1>4. c.rec.actions \in Seq(StepRecs) /\ d.rec.actions \in Seq(StepRecs)
  BY <1>1, <1>2 DEF Captures
<1>5. Len(d.rec.actions) = N + 1
  <2> DEFINE b == d.rec.actions
  <2>1. b \in Seq(StepRecs) /\ DOMAIN b = 1..(N + 1)
    BY <1>3, <1>4
  <2>2. DOMAIN b = 1..Len(b) /\ Len(b) \in Nat
    BY <2>1, LenProperties
  <2> HIDE DEF b, N
  <2>3. Len(b) = N + 1
    BY <1>3, <2>1, <2>2
  <2> QED
    BY <2>3 DEF b
<1>6. 1 \in 1..N /\ d.rec.actions # <<>>
  <2>1. N # 0
    BY <1>4, EmptySeq DEF Addressed
  <2>2. 1 \in 1..N /\ 1 \in 1..(N + 1)
    BY <1>3, <2>1
  <2> QED
    BY <1>3, <2>2
<1> HIDE DEF N
<1>7. \A i \in 2..(N + 1) : i = N + 1 \/ (i \in 2..N /\ i \in 1..N)
  BY <1>3
<1>8. \A i \in 2..N : Right(c.rec.actions[i])
  BY DEF Addressed, N
<1>9. \A i \in 2..Len(d.rec.actions) : Right(d.rec.actions[i])
  BY <1>3, <1>5, <1>7, <1>8
<1>10. Addressed(d)
  BY <1>2, <1>3, <1>6, <1>9 DEF Addressed, SameRuns
<1> QED
  BY <1>10 DEF d

LEMMA NewStepAddressed ==
  ASSUME NEW c, Addressed(c), NEW kind \in StepKinds, NEW on \in Controls, NEW S \in SUBSET Nat,
         Named(on), kind \in {"click", "double_click"} => on # Window
  PROVE  Addressed(Record(c, Step(kind, on, S)))
<1> DEFINE s == Step(kind, on, S)
<1>1. s \in StepRecs /\ s.on = on /\ s.kind = kind
  BY DEF Step, StepRecs
<1> HIDE DEF s
<1>2. Right(s)
  BY <1>1 DEF Right
<1>3. Addressed(Record(c, s))
  BY <1>1, <1>2, RecordAddressed
<1> QED
  BY <1>3 DEF s

LEMMA DropAddressed ==
  ASSUME NEW c, Addressed(c), NEW ev \in EventRecs, NEW reason \in Reasons \cup Deliberate
  PROVE  Addressed(Drop(c, ev, reason))
<1> DEFINE d == Drop(c, ev, reason)
<1>1. c \in Captures
  BY DEF Addressed
<1>2. d \in Captures /\ d.rec.actions = c.rec.actions /\ SameRuns(c, d) /\ d.cache = c.cache
  BY <1>1, DropShape DEF SameClocks
<1> HIDE DEF d
<1>3. Addressed(d)
  BY <1>2 DEF Addressed, SameRuns
<1> QED
  BY <1>3 DEF d

LEMMA UnresolvedAddressed ==
  ASSUME NEW c, Addressed(c), NEW ev \in EventRecs
  PROVE  Addressed(DropUnresolved(c, ev))
<1>1. /\ "chrome" \in Reasons \cup Deliberate /\ "not_found" \in Reasons \cup Deliberate
  BY DEF Reasons, Deliberate
<1> QED
  BY <1>1, DropAddressed DEF DropUnresolved

\* A run that ends is a step on what it was on.
LEMMA FlushTypingAddressed ==
  ASSUME NEW c, Addressed(c)
  PROVE  /\ Addressed(FlushTyping(c)) /\ FlushTyping(c).typing = <<>>
         /\ FlushTyping(c).value = c.value /\ FlushTyping(c).pending = c.pending
         /\ SameClocks(c, FlushTyping(c))
<1>1. CASE c.typing = <<>>
  BY <1>1 DEF FlushTyping, SameClocks
<1>2. CASE c.typing # <<>>
  <2> DEFINE e == [c EXCEPT !.typing = <<>>]
             run == c.typing[1]
             d == Record(e, Step("type", run.on, run.of))
  <2>1. c \in Captures /\ run \in TypingRuns
    BY <1>2, One DEF Addressed, Captures
  <2>2. /\ e \in Captures /\ e.typing = <<>> /\ e.rec = c.rec /\ e.value = c.value
        /\ e.pending = c.pending /\ e.cache = c.cache /\ SameClocks(c, e)
    BY <2>1, One DEF Captures, SameClocks
  <2>3. FlushTyping(c) = d
    BY <1>2 DEF FlushTyping
  <2> HIDE DEF e
  <2>4. Addressed(e)
    BY <2>2 DEF Addressed
  <2>5. run.on \in Controls /\ run.of \in SUBSET Nat /\ Named(run.on) /\ "type" \in StepKinds
    BY <1>2, <2>1 DEF TypingRuns, Addressed, StepKinds
  <2>6. Step("type", run.on, run.of) \in StepRecs
    BY <2>5 DEF Step, StepRecs
  <2> HIDE DEF run
  <2>7. SameRuns(e, d) /\ SameClocks(e, d)
    BY <2>2, <2>6, RecordShape
  <2>8. Addressed(d)
    BY <2>4, <2>5, NewStepAddressed
  <2> HIDE DEF d
  <2> QED
    BY <2>2, <2>3, <2>7, <2>8 DEF SameRuns, SameClocks
<1> QED
  BY <1>1, <1>2

LEMMA FlushValueAddressed ==
  ASSUME NEW c, Addressed(c)
  PROVE  /\ Addressed(FlushValue(c)) /\ FlushValue(c).value = <<>>
         /\ FlushValue(c).typing = c.typing /\ FlushValue(c).pending = c.pending
         /\ SameClocks(c, FlushValue(c))
<1>1. CASE c.value = <<>>
  BY <1>1 DEF FlushValue, SameClocks
<1>2. CASE c.value # <<>>
  <2> DEFINE e == [c EXCEPT !.value = <<>>]
             run == c.value[1]
             s == ValueStep(run)
             d == Record(e, s)
             f == [e EXCEPT !.failed = @ \cup run.of]
  <2>1. c \in Captures /\ run \in ValueRuns
    BY <1>2, One DEF Addressed, Captures
  <2>2. /\ e \in Captures /\ e.value = <<>> /\ e.rec = c.rec /\ e.typing = c.typing
        /\ e.pending = c.pending /\ e.cache = c.cache /\ SameClocks(c, e)
    BY <2>1, One DEF Captures, SameClocks
  <2>3. FlushValue(c) = IF run.fading THEN f ELSE d
    BY <1>2 DEF FlushValue
  <2> HIDE DEF e
  <2>4. Addressed(e)
    BY <2>2 DEF Addressed
  <2>5. /\ run.on \in Controls /\ run.of \in SUBSET Nat /\ Named(run.on)
        /\ run.selection => run.on # Window
    BY <1>2, <2>1 DEF ValueRuns, Addressed
  <2>6. s \in StepRecs /\ Right(s)
    <3>1. s.on = run.on /\ (s.kind \in {"click", "double_click"} => run.selection)
      BY <2>1 DEF ValueStep, Step, ValueRuns
    <3>2. s \in StepRecs
      BY <2>5 DEF ValueStep, Step, StepRecs, StepKinds
    <3> QED
      BY <2>5, <3>1, <3>2 DEF Right
  <2> HIDE DEF s
  <2>7. SameRuns(e, d) /\ SameClocks(e, d)
    BY <2>2, <2>6, RecordShape
  <2>8. Addressed(d)
    BY <2>4, <2>6, RecordAddressed
  <2> HIDE DEF d
  <2>9. f \in Captures /\ f.rec = e.rec /\ SameRuns(e, f) /\ SameClocks(e, f)
    BY <2>2, <2>5 DEF Captures, SameRuns, SameClocks
  <2> HIDE DEF f
  <2>10. Addressed(f)
    BY <2>4, <2>9 DEF Addressed, SameRuns, SameClocks
  <2> QED
    BY <2>2, <2>3, <2>7, <2>8, <2>9, <2>10 DEF SameRuns, SameClocks
<1> QED
  BY <1>1, <1>2

LEMMA InputAddressed ==
  ASSUME NEW c, Addressed(c)
  PROVE  /\ Addressed(FlushInput(c)) /\ FlushInput(c).typing = <<>> /\ FlushInput(c).value = <<>>
         /\ FlushInput(c).pending = c.pending /\ SameClocks(c, FlushInput(c))
<1> DEFINE e == FlushTyping(c)
<1>1. Addressed(e) /\ e.typing = <<>> /\ e.pending = c.pending /\ SameClocks(c, e)
  BY FlushTypingAddressed
<1>2. FlushInput(c) = FlushValue(e)
  BY DEF FlushInput
<1> HIDE DEF e
<1>3. /\ Addressed(FlushValue(e)) /\ FlushValue(e).value = <<>>
      /\ FlushValue(e).typing = e.typing /\ FlushValue(e).pending = e.pending
      /\ SameClocks(e, FlushValue(e))
  BY <1>1, FlushValueAddressed
<1> QED
  BY <1>1, <1>2, <1>3 DEF SameClocks

LEMMA ConcludeAddressed ==
  ASSUME NEW c, Addressed(c)
  PROVE  /\ Addressed(Conclude(c)) /\ Conclude(c).typing = <<>> /\ Conclude(c).value = <<>>
         /\ Conclude(c).pending = <<>> /\ SameClocks(c, Conclude(c))
<1> DEFINE e == FlushInput(c)
           d == [e EXCEPT !.pending = <<>>]
<1>1. /\ Addressed(e) /\ e.typing = <<>> /\ e.value = <<>> /\ SameClocks(c, e)
  BY InputAddressed
<1>2. Conclude(c) = d
  BY DEF Conclude
<1> HIDE DEF e
<1>3. e \in Captures
  BY <1>1 DEF Addressed
<1>4. /\ d \in Captures /\ d.rec = e.rec /\ d.typing = e.typing /\ d.value = e.value
      /\ d.pending = <<>> /\ d.cache = e.cache /\ SameClocks(e, d)
  BY <1>3, One DEF Captures, SameClocks
<1> HIDE DEF d
<1>5. Addressed(d)
  BY <1>1, <1>4 DEF Addressed
<1> QED
  BY <1>1, <1>2, <1>4, <1>5 DEF SameClocks

-----------------------------------------------------------------------------
(* What every handler names.                                                *)

LEMMA ResolveAddressed ==
  ASSUME NEW c, Addressed(c), NEW ev, Heard(ev)
  PROVE  LET d == Resolve(c, ev)
         IN  /\ Addressed(d) /\ SameLedger(c, d) /\ Answer(d, ev) \in Answers
             /\ Answer(d, ev) # "missing" => Named(Target(ev))
<1> DEFINE to == Target(ev)
           answer == IF Kind[to] = "chrome" THEN "missing" ELSE ev.answer
           d == Resolve(c, ev)
<1>1. /\ c \in Captures /\ c.cache \in [Controls -> Answers \cup {"unknown"}]
      /\ \A x \in Controls : c.cache[x] \notin {"unknown", "missing"} => Named(x)
  BY DEF Addressed, Captures
<1>2. /\ to \in Controls /\ ev \in EventRecs /\ ev.answer \in Answers
      /\ ev.answer # "missing" => Known[to] # {"missing"}
  BY HeardOf
<1>3. d \in Captures /\ SameLedger(c, d)
  BY <1>1, <1>2, ResolveSame
<1>4. answer \in Answers /\ (answer # "missing" => Named(to))
  BY <1>2 DEF Named, Answers
<1> HIDE DEF answer, to
<1>5. d.cache = IF c.cache[to] # "unknown" THEN c.cache ELSE [c.cache EXCEPT ![to] = answer]
  BY <1>1 DEF Resolve, Captures, answer, to
<1> HIDE DEF d
<1>6. d.cache[to] \in Answers
  BY <1>1, <1>2, <1>4, <1>5
<1>7. \A x \in Controls : d.cache[x] \notin {"unknown", "missing"} => Named(x)
  BY <1>1, <1>2, <1>4, <1>5
<1>8. "unknown" \notin Answers
  BY DEF Answers
<1>9. Addressed(d)
  BY <1>3, <1>7 DEF Addressed, SameLedger, SameRuns
<1> QED
  BY <1>2, <1>3, <1>6, <1>7, <1>8, <1>9 DEF Answer, to, d

LEMMA BeginValueAddressed ==
  ASSUME NEW c, Addressed(c), NEW ev \in EventRecs, NEW S \in SUBSET Nat,
         NEW selection \in BOOLEAN, NEW fading \in BOOLEAN,
         Named(Target(ev)), selection => Target(ev) # Window
  PROVE  Addressed(BeginValue(c, ev, S, selection, fading))
<1> DEFINE other == c.value # <<>> /\ c.value[1].on # Target(ev)
           e == IF other THEN FlushValue(c) ELSE c
           d == BeginValue(c, ev, S, selection, fading)
           run == [on |-> Target(ev), of |-> S, selection |-> selection, fading |-> fading]
           longer == [e.value[1] EXCEPT !.of = @ \cup S, !.selection = @ \/ selection]
           next == IF e.value = <<>> THEN run ELSE longer
<1>1. Addressed(e) /\ (e.value # <<>> => e.value[1].on = Target(ev))
  BY FlushValueAddressed
<1>2. d = [e EXCEPT !.value = <<next>>]
  BY DEF BeginValue
<1>3. Target(ev) \in Controls
  BY FoldingAssumption DEF Target, EventRecs
<1> HIDE DEF e
<1>4. e \in Captures
  BY <1>1 DEF Addressed
<1>5. /\ next \in ValueRuns /\ next.on = Target(ev)
      /\ next.selection => Target(ev) # Window
  <2>1. CASE e.value = <<>>
    BY <1>3, <2>1 DEF ValueRuns
  <2>2. CASE e.value # <<>>
    <3>1. e.value[1] \in ValueRuns
      BY <1>4, <2>2, One DEF Captures
    <3>2. e.value[1].selection => Target(ev) # Window
      BY <1>1, <2>2 DEF Addressed
    <3>3. /\ longer \in ValueRuns /\ longer.on = Target(ev)
          /\ longer.selection = (e.value[1].selection \/ selection)
      BY <1>1, <2>2, <3>1 DEF ValueRuns
    <3> QED
      BY <2>2, <3>2, <3>3
  <2> QED
    BY <2>1, <2>2
<1> HIDE DEF next
<1>6. /\ d \in Captures /\ d.rec = e.rec /\ d.typing = e.typing /\ d.pending = e.pending
      /\ d.cache = e.cache /\ d.value = <<next>>
  <2>1. <<next>> \in Maybe(ValueRuns)
    BY <1>5, One
  <2> QED
    BY <1>2, <1>4, <2>1 DEF Captures
<1>7. d.value[1] = next
  BY <1>6
<1> HIDE DEF d
<1>8. Addressed(d)
  BY <1>1, <1>5, <1>6, <1>7 DEF Addressed
<1> QED
  BY <1>8 DEF d

LEMMA ReleaseAddressed ==
  ASSUME NEW c, Addressed(c), NEW press \in EventRecs, Named(Target(press)), Target(press) # Window,
         NEW ev, Heard(ev), ev.kind \in MouseKinds, Named(Target(ev))
  PROVE  Addressed(Release(c, press, ev))
<1> DEFINE paired == Target(press) = Target(ev) /\ ev.t - press.t <= ClickMs
           menu == Kind[press.on] \in {"bar", "menu"} \/ Kind[ev.on] \in {"bar", "menu"}
           first == Record(c, Step("click", Target(press), {press.n}))
<1>1. Target(ev) # Window /\ Target(ev) \in Controls /\ ev.n \in Nat
  BY HeardOf
<1>2. Target(press) \in Controls /\ press.n \in Nat
  BY FoldingAssumption DEF Target, EventRecs
<1>3. "click" \in StepKinds /\ "dragging" \in Reasons \cup Deliberate
  BY DEF StepKinds, Deliberate
<1>4. CASE paired
  <2> DEFINE S == {press.n, ev.n}
  <2>1. S \in SUBSET Nat
    BY <1>1, <1>2
  <2>2. Release(c, press, ev) = Record(c, Step("click", Target(ev), S))
    BY <1>4 DEF Release
  <2> HIDE DEF S
  <2> QED
    BY <1>1, <1>3, <2>1, <2>2, NewStepAddressed
<1>5. CASE ~paired /\ menu
  <2> DEFINE S == {press.n}
             T == {ev.n}
  <2>1. S \in SUBSET Nat /\ T \in SUBSET Nat
    BY <1>1, <1>2
  <2>2. Release(c, press, ev) = Record(Record(c, Step("click", Target(press), S)), Step("click", Target(ev), T))
    BY <1>5 DEF Release
  <2> HIDE DEF S, T
  <2>3. Addressed(Record(c, Step("click", Target(press), S)))
    BY <1>2, <1>3, <2>1, NewStepAddressed
  <2> QED
    BY <1>1, <1>3, <2>1, <2>2, <2>3, NewStepAddressed
<1>6. CASE ~paired /\ ~menu /\ ChangesValue(c, press)
  <2> DEFINE S == {press.n}
             off == FALSE
             fading == Answer(c, press) = "fading"
             e == BeginValue(c, press, S, off, fading)
  <2>1. S \in SUBSET Nat /\ off \in BOOLEAN /\ ~off /\ fading \in BOOLEAN
    BY <1>2
  <2>2. Release(c, press, ev) = FlushValue(e)
    BY <1>6 DEF Release, BeginWheelOrDrag
  <2> HIDE DEF S, off, fading
  <2>3. Addressed(e)
    BY <2>1, BeginValueAddressed
  <2> HIDE DEF e
  <2> QED
    BY <2>2, <2>3, FlushValueAddressed
<1>7. CASE ~paired /\ ~menu /\ ~ChangesValue(c, press)
  <2>1. Release(c, press, ev) = Drop(c, press, "dragging")
    BY <1>7 DEF Release
  <2> QED
    BY <1>3, <2>1, DropAddressed
<1> QED
  BY <1>4, <1>5, <1>6, <1>7

LEMMA OrdinaryAddressed ==
  ASSUME NEW raw, Addressed(raw), NEW ev, Heard(ev), ev.kind \in MouseKinds
  PROVE  Addressed(HandleOrdinary(raw, ev))
<1> DEFINE c == Resolve(raw, ev)
           e == Conclude(c)
<1>1. Addressed(c) /\ Answer(c, ev) \in Answers /\ (Answer(c, ev) # "missing" => Named(Target(ev)))
  BY ResolveAddressed
<1>2. /\ ev \in EventRecs /\ ev.n \in Nat /\ Target(ev) \in Controls /\ Target(ev) # Window
  BY HeardOf
<1>3. HandleOrdinary(raw, ev) =
        CASE Answer(c, ev) = "missing" -> DropUnresolved(c, ev)
          [] Answer(c, ev) # "missing" /\ ev.kind = "mouse_double" ->
               Record(e, Step("double_click", Target(ev), {ev.n}))
          [] Answer(c, ev) # "missing" /\ ev.kind = "mouse_press" -> [e EXCEPT !.pending = <<ev>>]
          [] Answer(c, ev) # "missing" /\ ev.kind = "mouse_release" ->
               IF c.pending = <<>> THEN c
               ELSE Release([c EXCEPT !.pending = <<>>], c.pending[1], ev)
  BY DEF HandleOrdinary
<1> HIDE DEF c
<1>4. Addressed(e) /\ e \in Captures /\ c \in Captures
  BY <1>1, ConcludeAddressed DEF Addressed
<1> HIDE DEF e
<1>5. CASE Answer(c, ev) = "missing"
  BY <1>1, <1>2, <1>3, <1>5, UnresolvedAddressed
<1>6. CASE Answer(c, ev) # "missing" /\ ev.kind = "mouse_double"
  <2> DEFINE S == {ev.n}
  <2>1. S \in SUBSET Nat /\ "double_click" \in StepKinds
    BY <1>2 DEF StepKinds
  <2>2. HandleOrdinary(raw, ev) = Record(e, Step("double_click", Target(ev), S))
    BY <1>3, <1>6
  <2> HIDE DEF S
  <2> QED
    BY <1>1, <1>2, <1>4, <1>6, <2>1, <2>2, NewStepAddressed
<1>7. CASE Answer(c, ev) # "missing" /\ ev.kind = "mouse_press"
  <2> DEFINE d == [e EXCEPT !.pending = <<ev>>]
  <2>1. <<ev>> \in Maybe(EventRecs)
    BY <1>2, One
  <2>2. /\ d \in Captures /\ d.rec = e.rec /\ d.typing = e.typing /\ d.value = e.value
        /\ d.cache = e.cache /\ d.pending = <<ev>>
    BY <1>4, <2>1 DEF Captures
  <2>3. HandleOrdinary(raw, ev) = d
    BY <1>3, <1>7
  <2> HIDE DEF d
  <2>4. d.pending[1] = ev
    BY <2>2
  <2>5. Addressed(d)
    BY <1>1, <1>2, <1>4, <1>7, <2>2, <2>4 DEF Addressed
  <2> QED
    BY <2>3, <2>5
<1>8. CASE Answer(c, ev) # "missing" /\ ev.kind = "mouse_release"
  <2>1. CASE c.pending = <<>>
    BY <1>1, <1>3, <1>8, <2>1
  <2>2. CASE c.pending # <<>>
    <3> DEFINE b == [c EXCEPT !.pending = <<>>]
               press == c.pending[1]
    <3>1. press \in EventRecs /\ Named(Target(press)) /\ Target(press) # Window
      BY <1>1, <1>4, <2>2, One DEF Addressed, Captures
    <3>2. /\ b \in Captures /\ b.rec = c.rec /\ b.typing = c.typing /\ b.value = c.value
          /\ b.cache = c.cache /\ b.pending = <<>>
      BY <1>4, One DEF Captures
    <3>3. HandleOrdinary(raw, ev) = Release(b, press, ev)
      BY <1>3, <1>8, <2>2
    <3> HIDE DEF b, press
    <3>4. Addressed(b)
      BY <1>1, <3>2 DEF Addressed
    <3> QED
      BY <1>1, <1>8, <3>1, <3>3, <3>4, ReleaseAddressed
  <2> QED
    BY <2>1, <2>2
<1> QED
  BY <1>5, <1>6, <1>7, <1>8 DEF MouseKinds

\* A moment is set or forgotten.
LEMMA ItemAtAddressed ==
  ASSUME NEW c, Addressed(c), NEW at \in Maybe(Nat)
  PROVE  LET d == [c EXCEPT !.itemAt = at]
         IN  /\ Addressed(d) /\ d.pending = c.pending /\ d.cache = c.cache /\ d.rec = c.rec
             /\ d.menuOn = c.menuOn
<1> DEFINE d == [c EXCEPT !.itemAt = at]
<1>1. c \in Captures
  BY DEF Addressed
<1>2. /\ d \in Captures /\ SameLedger(c, d) /\ d.cache = c.cache /\ d.pending = c.pending
      /\ d.rec = c.rec /\ d.menuOn = c.menuOn
  BY <1>1 DEF Captures, SameLedger, SameRuns
<1> HIDE DEF d
<1>3. Addressed(d)
  BY <1>2, MomentsAddressed
<1> QED
  BY <1>2, <1>3 DEF d

LEMMA MenuAtAddressed ==
  ASSUME NEW c, Addressed(c), NEW at \in Maybe(Nat), NEW on \in Controls \cup {NoControl}
  PROVE  Addressed([c EXCEPT !.menuAt = at, !.menuOn = on])
<1> DEFINE d == [c EXCEPT !.menuAt = at, !.menuOn = on]
<1>1. c \in Captures
  BY DEF Addressed
<1>2. d \in Captures /\ SameLedger(c, d) /\ d.cache = c.cache
  BY <1>1 DEF Captures, SameLedger, SameRuns
<1> HIDE DEF d
<1>3. Addressed(d)
  BY <1>2, MomentsAddressed
<1> QED
  BY <1>3 DEF d

\* The click that opened the popup goes.
LEMMA DropClickAddressed ==
  ASSUME NEW c, Addressed(c), NEW control
  PROVE  Addressed(DropClickOn(c, control)) /\ ClickToDrop(c, control) \in SUBSET Nat
<1> DEFINE a == c.rec.actions
           N == Len(a)
           d == [c EXCEPT !.rec = WithoutLast(@)]
<1>1. c \in Captures /\ a # <<>> /\ a \in Seq(StepRecs)
  BY DEF Addressed, Captures
<1>2. N \in Nat \ {0} /\ DOMAIN a = 1..N /\ a[N] \in StepRecs
  <2>1. N \in Nat \ {0} /\ DOMAIN a = 1..N
    BY <1>1, EmptySeq
  <2>2. N \in DOMAIN a
    BY <2>1
  <2> QED
    BY <1>1, <2>1, <2>2
<1>3. ClickToDrop(c, control) \in SUBSET Nat
  BY <1>2 DEF ClickToDrop, StepRecs
<1>4. CASE ClickToDrop(c, control) = {}
  BY <1>3, <1>4 DEF DropClickOn
<1>5. CASE ClickToDrop(c, control) # {}
  <2>1. DropClickOn(c, control) = d
    BY <1>5 DEF DropClickOn
  <2>2. /\ d \in Captures /\ SameRuns(c, d) /\ SameClocks(c, d)
        /\ DOMAIN d.rec.actions = 1..(N - 1)
        /\ \A i \in 1..(N - 1) : d.rec.actions[i] = a[i]
    BY <1>1, ShorterShape
  <2> HIDE DEF d
  <2>3. d.rec.actions \in Seq(StepRecs)
    BY <2>2 DEF Captures
  <2>4. Len(d.rec.actions) = N - 1
    <3> DEFINE b == d.rec.actions
    <3>1. b \in Seq(StepRecs) /\ DOMAIN b = 1..(N - 1)
      BY <2>2, <2>3
    <3>2. DOMAIN b = 1..Len(b) /\ Len(b) \in Nat
      BY <3>1, LenProperties
    <3>3. N - 1 \in Nat
      BY <1>2
    <3> HIDE DEF b, N
    <3>4. Len(b) = N - 1
      BY <3>1, <3>2, <3>3
    <3> QED
      BY <3>4 DEF b
  <2>5. N # 1
    <3>1. a[N].kind = "click" /\ a[1].kind = "launch"
      BY <1>5 DEF ClickToDrop, Addressed
    <3> QED
      BY <3>1
  <2> HIDE DEF N
  <2>6. 1 \in 1..(N - 1) /\ \A i \in 2..(N - 1) : i \in 2..N /\ i \in 1..(N - 1)
    BY <1>2, <2>5
  <2>7. d.rec.actions # <<>> /\ d.rec.actions[1].kind = "launch"
    <3>1. 1 \in DOMAIN d.rec.actions /\ d.rec.actions[1] = a[1]
      BY <2>2, <2>6
    <3>2. d.rec.actions # <<>>
      BY <3>1, DOMAIN <<>> = {}
    <3>3. a[1].kind = "launch"
      BY DEF Addressed
    <3> QED
      BY <3>1, <3>2, <3>3
  <2>8. \A i \in 2..N : Right(a[i])
    BY DEF Addressed, N
  <2>9. \A i \in 2..Len(d.rec.actions) : Right(d.rec.actions[i])
    BY <2>2, <2>4, <2>6, <2>8
  <2>10. Addressed(d)
    BY <2>2, <2>7, <2>9 DEF Addressed, SameRuns, SameClocks
  <2> QED
    BY <1>3, <2>1, <2>10
<1> QED
  BY <1>4, <1>5

LEMMA ComboAddressed ==
  ASSUME NEW raw, Addressed(raw), NEW ev, Heard(ev), ev.kind \in MouseKinds,
         Kind[ev.on] \in {"popup", "popup_unread"}
  PROVE  Addressed(HandleCombo(raw, ev))
<1> DEFINE none == <<>>
           now1 == <<ev.t>>
           c == [raw EXCEPT !.itemAt = none]
           ended == [Conclude(c) EXCEPT !.itemAt = now1]
           X == ClickToDrop(ended, Target(ev))
           S == {ev.n} \cup X
           chosen == DropClickOn(ended, Target(ev))
<1>1. /\ ev \in EventRecs /\ ev.n \in Nat /\ ev.t \in Nat /\ Target(ev) \in Controls /\ Target(ev) # Window
      /\ ev.answer \in Answers
      /\ ev.answer # "missing" => Known[Target(ev)] # {"missing"}
      /\ Kind[ev.on] # "chrome" => Kind[Target(ev)] # "chrome"
  BY HeardOf
<1>2. none \in Maybe(Nat) /\ now1 \in Maybe(Nat)
  BY <1>1, One
<1>3. ev.answer # "missing" => Named(Target(ev))
  BY <1>1 DEF Named
<1>4. HandleCombo(raw, ev) =
        CASE ev.answer \in {"reported", "missing"} -> Drop(c, ev, "no_combo")
          [] ev.answer \in {"found", "fading"} /\ Kind[ev.on] = "popup" ->
               Record(chosen, Step("select", Target(ev), S))
          [] OTHER -> BeginValue(chosen, ev, S, FALSE, ev.answer = "fading")
  BY DEF HandleCombo
<1> HIDE DEF none, now1
<1>5. Addressed(c)
  BY <1>2, ItemAtAddressed
<1> HIDE DEF c
<1>6. Addressed(Conclude(c))
  BY <1>5, ConcludeAddressed
<1>7. Addressed(ended)
  BY <1>2, <1>6, ItemAtAddressed
<1> HIDE DEF ended
<1>8. Addressed(chosen) /\ X \in SUBSET Nat
  BY <1>7, DropClickAddressed
<1> HIDE DEF chosen
<1>9. S \in SUBSET Nat
  BY <1>1, <1>8
<1> HIDE DEF S, X
<1>10. CASE ev.answer \in {"reported", "missing"}
  <2>1. "no_combo" \in Reasons \cup Deliberate
    BY DEF Reasons
  <2> QED
    BY <1>1, <1>4, <1>5, <1>10, <2>1, DropAddressed
<1>11. CASE ev.answer \in {"found", "fading"} /\ Kind[ev.on] = "popup"
  <2>1. "select" \in StepKinds
    BY DEF StepKinds
  <2>2. Named(Target(ev))
    BY <1>3, <1>11
  <2>3. HandleCombo(raw, ev) = Record(chosen, Step("select", Target(ev), S))
    BY <1>4, <1>11
  <2> QED
    BY <1>1, <1>8, <1>9, <2>1, <2>2, <2>3, NewStepAddressed
<1>12. CASE ev.answer \in {"found", "fading"} /\ Kind[ev.on] # "popup"
  <2> DEFINE off == FALSE
             fading == ev.answer = "fading"
  <2>1. off \in BOOLEAN /\ fading \in BOOLEAN /\ ~off
    OBVIOUS
  <2>2. Named(Target(ev))
    BY <1>3, <1>12
  <2>3. HandleCombo(raw, ev) = BeginValue(chosen, ev, S, off, fading)
    BY <1>4, <1>12
  <2> HIDE DEF off, fading
  <2> QED
    BY <1>1, <1>8, <1>9, <2>1, <2>2, <2>3, BeginValueAddressed
<1> QED
  BY <1>1, <1>10, <1>11, <1>12 DEF Answers

LEMMA RowAddressed ==
  ASSUME NEW raw, Addressed(raw), NEW ev, Heard(ev), ev.kind \in MouseKinds
  PROVE  Addressed(HandleRow(raw, ev))
<1> DEFINE c == Resolve(raw, ev)
           kind == IF ev.kind = "mouse_double" THEN "double_click" ELSE "click"
           none == <<>>
           now1 == <<ev.t>>
           pressed == [Conclude(c) EXCEPT !.itemAt = now1]
           S == {ev.n}
<1>1. Addressed(c) /\ Answer(c, ev) \in Answers /\ (Answer(c, ev) # "missing" => Named(Target(ev)))
  BY ResolveAddressed
<1>2. /\ ev \in EventRecs /\ ev.n \in Nat /\ ev.t \in Nat /\ ev.on \in Controls
      /\ Target(ev) \in Controls /\ Target(ev) # Window /\ ev.on # Window
      /\ Known[Target(ev)] # {"missing"} <=> Known[ev.on] # {"missing"}
  BY HeardOf
<1>3. HandleRow(raw, ev) =
        CASE Answer(c, ev) = "missing" -> HandleOrdinary(c, ev)
          [] Answer(c, ev) # "missing" /\ Kind[ev.on] = "row" -> Record(pressed, Step(kind, ev.on, S))
          [] Answer(c, ev) # "missing" /\ Kind[ev.on] = "row_ambiguous" ->
               Drop([c EXCEPT !.itemAt = none], ev, "no_item")
          [] Answer(c, ev) \in {"found", "fading"} /\ Kind[ev.on] = "row_selected" ->
               RecordSelection(pressed, ev)
          [] OTHER -> Drop(c, ev, "no_item")
  BY DEF HandleRow
<1>4. none \in Maybe(Nat) /\ now1 \in Maybe(Nat)
  BY <1>2, One
<1>5. S \in SUBSET Nat /\ kind \in StepKinds /\ "no_item" \in Reasons \cup Deliberate
  BY <1>2 DEF StepKinds, Reasons
<1> HIDE DEF c, none, now1, kind
<1>6. Addressed(Conclude(c))
  BY <1>1, ConcludeAddressed
<1>7. Addressed(pressed) /\ Addressed([c EXCEPT !.itemAt = none])
  BY <1>1, <1>4, <1>6, ItemAtAddressed
<1> HIDE DEF pressed
<1>8. CASE Answer(c, ev) = "missing"
  BY <1>1, <1>3, <1>8, OrdinaryAddressed
<1>9. CASE Answer(c, ev) # "missing" /\ Kind[ev.on] = "row"
  <2>1. Named(ev.on)
    BY <1>1, <1>2, <1>9 DEF Named
  <2>2. HandleRow(raw, ev) = Record(pressed, Step(kind, ev.on, S))
    BY <1>3, <1>9
  <2> HIDE DEF S
  <2> QED
    BY <1>2, <1>5, <1>7, <2>1, <2>2, NewStepAddressed
<1>10. CASE Answer(c, ev) # "missing" /\ Kind[ev.on] = "row_ambiguous"
  <2> DEFINE e == [c EXCEPT !.itemAt = none]
  <2>1. HandleRow(raw, ev) = Drop(e, ev, "no_item")
    BY <1>3, <1>10
  <2>2. Addressed(e)
    BY <1>7
  <2> HIDE DEF e
  <2> QED
    BY <1>2, <1>5, <2>1, <2>2, DropAddressed
<1>11. CASE Answer(c, ev) \in {"found", "fading"} /\ Kind[ev.on] = "row_selected"
  <2> DEFINE on == TRUE
             fading == Answer(pressed, ev) = "fading"
  <2>1. on \in BOOLEAN /\ fading \in BOOLEAN
    OBVIOUS
  <2>2. Named(Target(ev))
    BY <1>1, <1>11
  <2>3. HandleRow(raw, ev) = BeginValue(pressed, ev, S, on, fading)
    BY <1>3, <1>11 DEF RecordSelection
  <2> HIDE DEF on, fading, S
  <2> QED
    BY <1>2, <1>5, <1>7, <2>1, <2>2, <2>3, BeginValueAddressed
<1>12. CASE /\ Answer(c, ev) # "missing" /\ Kind[ev.on] \notin {"row", "row_ambiguous"}
            /\ ~(Answer(c, ev) \in {"found", "fading"} /\ Kind[ev.on] = "row_selected")
  <2>1. HandleRow(raw, ev) = Drop(c, ev, "no_item")
    BY <1>3, <1>12
  <2> QED
    BY <1>1, <1>2, <1>5, <2>1, DropAddressed
<1> QED
  BY <1>8, <1>9, <1>10, <1>11, <1>12

LEMMA ItemAddressed ==
  ASSUME NEW c, Addressed(c), NEW ev, Heard(ev), ev.kind \in MouseKinds
  PROVE  Addressed(HandleItem(c, ev))
<1>1. Addressed(FlushValue(c)) /\ Addressed(HandleOrdinary(c, ev)) /\ Addressed(HandleRow(c, ev))
  BY FlushValueAddressed, OrdinaryAddressed, RowAddressed
<1>2. Kind[ev.on] \in {"popup", "popup_unread"} => Addressed(HandleCombo(c, ev))
  BY ComboAddressed
<1> QED
  BY <1>1, <1>2 DEF HandleItem

LEMMA MenuAddressed ==
  ASSUME NEW raw, Addressed(raw), NEW ev, Heard(ev), ev.kind \in MouseKinds
  PROVE  Addressed(HandleMouse(raw, ev))
<1> DEFINE none == <<>>
           now1 == <<ev.t>>
           c == [raw EXCEPT !.menuAt = none]
           S == {ev.n}
<1>1. /\ ev \in EventRecs /\ ev.n \in Nat /\ ev.t \in Nat /\ ev.on \in Controls /\ ev.on # Window
      /\ ev.answer # "missing" => Known[ev.on] # {"missing"}
  BY HeardOf
<1>2. none \in Maybe(Nat) /\ now1 \in Maybe(Nat)
  BY <1>1, One
<1>3. MenuItem(ev) => Named(ev.on)
  BY <1>1 DEF MenuItem, Named
<1>4. S \in SUBSET Nat /\ "click" \in StepKinds /\ "not_found" \in Reasons \cup Deliberate
  BY <1>1 DEF StepKinds, Reasons
<1>5. HandleMouse(raw, ev) =
        CASE ev.kind = "mouse_release" /\ Within(ev.t, raw.menuAt, ClickMs) -> HandleMenuRelease(c, ev)
          [] ev.kind # "mouse_release" /\ Kind[ev.on] = "menu" -> HandleMenuPress(c, ev)
          [] OTHER -> HandleItem(c, ev)
  BY DEF HandleMouse
<1>6. Addressed(c)
  <2>1. raw \in Captures
    BY DEF Addressed
  <2>2. raw.menuOn \in Controls \cup {NoControl}
    BY <2>1 DEF Captures
  <2>3. c = [raw EXCEPT !.menuAt = none, !.menuOn = raw.menuOn]
    BY <2>1 DEF Captures
  <2> HIDE DEF none
  <2> QED
    BY <1>2, <2>2, <2>3, MenuAtAddressed
<1> HIDE DEF c, none, now1
<1>7. Addressed(HandleMenuRelease(c, ev))
  <2>1. MenuItem(ev) => Addressed(Record(c, Step("click", ev.on, S)))
    <3> HIDE DEF S
    <3> QED
      BY <1>1, <1>3, <1>4, <1>6, NewStepAddressed
  <2> QED
    BY <1>6, <2>1 DEF HandleMenuRelease
<1>8. Addressed(HandleMenuPress(c, ev))
  <2> DEFINE e == [Conclude(c) EXCEPT !.menuAt = now1, !.menuOn = ev.on]
             again == [c EXCEPT !.menuAt = now1]
  <2>1. HandleMenuPress(c, ev) =
          CASE ~MenuItem(ev) -> Drop(c, ev, "not_found")
            [] MenuItem(ev) /\ ev.kind = "mouse_double" /\ ev.on = c.menuOn -> again
            [] OTHER -> Record(e, Step("click", ev.on, S))
    BY DEF HandleMenuPress, now1
  <2>2. Addressed(Conclude(c))
    BY <1>6, ConcludeAddressed
  <2>3. Addressed(e)
    BY <1>1, <1>2, <2>2, MenuAtAddressed
  <2>4. Addressed(again)
    <3>1. c \in Captures
      BY <1>6 DEF Addressed
    <3>2. c.menuOn \in Controls \cup {NoControl} /\ again = [c EXCEPT !.menuAt = now1, !.menuOn = c.menuOn]
      BY <3>1 DEF Captures
    <3> HIDE DEF again
    <3> QED
      BY <1>2, <1>6, <3>2, MenuAtAddressed
  <2> HIDE DEF e, again, S
  <2>5. Addressed(Drop(c, ev, "not_found"))
    BY <1>1, <1>4, <1>6, DropAddressed
  <2>6. MenuItem(ev) => Addressed(Record(e, Step("click", ev.on, S)))
    BY <1>1, <1>3, <1>4, <2>3, NewStepAddressed
  <2> QED
    BY <2>1, <2>4, <2>5, <2>6
<1>9. Addressed(HandleItem(c, ev))
  BY <1>6, ItemAddressed
<1> QED
  BY <1>5, <1>7, <1>8, <1>9

LEMMA CloseAddressed ==
  ASSUME NEW raw, Addressed(raw), NEW ev, Heard(ev)
  PROVE  Addressed(HandleClose(raw, ev))
<1> DEFINE b == Conclude(raw)
           c == Resolve(b, ev)
           S == {ev.n}
<1>1. /\ ev \in EventRecs /\ ev.n \in Nat /\ ev.on \in Controls
      /\ Known[Target(ev)] # {"missing"} <=> Known[ev.on] # {"missing"}
  BY HeardOf
<1>2. S \in SUBSET Nat /\ "close_window" \in StepKinds
  BY <1>1 DEF StepKinds
<1>3. HandleClose(raw, ev) =
        CASE Kind[ev.on] # "window" -> raw
          [] Kind[ev.on] = "window" /\ Answer(c, ev) = "missing" -> DropUnresolved(c, ev)
          [] OTHER -> Record(c, Step("close_window", ev.on, S))
  BY DEF HandleClose
<1>4. Addressed(b)
  BY ConcludeAddressed
<1> HIDE DEF b, S
<1>5. Addressed(c) /\ (Answer(c, ev) # "missing" => Named(Target(ev)))
  BY <1>4, ResolveAddressed
<1> HIDE DEF c
<1>6. CASE Kind[ev.on] # "window"
  BY <1>3, <1>6
<1>7. CASE Kind[ev.on] = "window" /\ Answer(c, ev) = "missing"
  BY <1>1, <1>3, <1>5, <1>7, UnresolvedAddressed
<1>8. CASE Kind[ev.on] = "window" /\ Answer(c, ev) # "missing"
  <2>1. Named(ev.on)
    BY <1>1, <1>5, <1>8 DEF Named
  <2>2. HandleClose(raw, ev) = Record(c, Step("close_window", ev.on, S))
    BY <1>3, <1>8
  <2> QED
    BY <1>1, <1>2, <1>5, <2>1, <2>2, NewStepAddressed
<1> QED
  BY <1>6, <1>7, <1>8

LEMMA ShortcutAddressed ==
  ASSUME NEW raw, Addressed(raw), NEW ev, Heard(ev)
  PROVE  Addressed(HandleShortcut(raw, ev))
<1> DEFINE b == FlushInput(raw)
           c == Resolve(b, ev)
           S == {ev.n}
<1>1. ev \in EventRecs /\ ev.n \in Nat /\ Target(ev) \in Controls
  BY HeardOf
<1>2. S \in SUBSET Nat /\ "shortcut" \in StepKinds
  BY <1>1 DEF StepKinds
<1>3. HandleShortcut(raw, ev) =
        IF Answer(c, ev) = "missing" THEN DropUnresolved(c, ev)
        ELSE Record(c, Step("shortcut", Target(ev), S))
  BY DEF HandleShortcut
<1>4. Addressed(b)
  BY InputAddressed
<1> HIDE DEF b, S
<1>5. Addressed(c) /\ (Answer(c, ev) # "missing" => Named(Target(ev)))
  BY <1>4, ResolveAddressed
<1> HIDE DEF c
<1> QED
  BY <1>1, <1>2, <1>3, <1>5, UnresolvedAddressed, NewStepAddressed

LEMMA CharacterAddressed ==
  ASSUME NEW c, Addressed(c), NEW ev \in EventRecs, Named(ev.on)
  PROVE  Addressed(HandleCharacter(c, ev))
<1> DEFINE other == c.typing # <<>> /\ c.typing[1].on # ev.on
           e == IF other THEN FlushInput(c) ELSE c
           run == [on |-> ev.on, of |-> {ev.n}]
           longer == [e.typing[1] EXCEPT !.of = @ \cup {ev.n}]
           next == IF e.typing = <<>> THEN run ELSE longer
           d == [e EXCEPT !.typing = <<next>>]
<1>1. Addressed(e)
  BY InputAddressed
<1>2. HandleCharacter(c, ev) = d
  BY DEF HandleCharacter
<1>3. ev.on \in Controls /\ ev.n \in Nat
  BY DEF EventRecs
<1> HIDE DEF e
<1>4. e \in Captures
  BY <1>1 DEF Addressed
<1>5. next \in TypingRuns /\ Named(next.on)
  <2>1. CASE e.typing = <<>>
    BY <1>3, <2>1 DEF TypingRuns
  <2>2. CASE e.typing # <<>>
    <3>1. e.typing[1] \in TypingRuns /\ Named(e.typing[1].on)
      BY <1>1, <1>4, <2>2, One DEF Captures, Addressed
    <3>2. longer \in TypingRuns /\ longer.on = e.typing[1].on
      BY <1>3, <3>1 DEF TypingRuns
    <3> QED
      BY <2>2, <3>1, <3>2
  <2> QED
    BY <2>1, <2>2
<1> HIDE DEF next
<1>6. /\ d \in Captures /\ d.rec = e.rec /\ d.value = e.value /\ d.pending = e.pending
      /\ d.cache = e.cache /\ d.typing = <<next>>
  <2>1. <<next>> \in Maybe(TypingRuns)
    BY <1>5, One
  <2> QED
    BY <1>4, <2>1 DEF Captures
<1>7. d.typing[1] = next
  BY <1>6
<1> HIDE DEF d
<1>8. Addressed(d)
  BY <1>1, <1>5, <1>6, <1>7 DEF Addressed
<1> QED
  BY <1>2, <1>8

LEMMA KeyAddressed ==
  ASSUME NEW raw, Addressed(raw), NEW ev, Heard(ev)
  PROVE  Addressed(HandleKey(raw, ev))
<1> DEFINE c == Resolve(raw, ev)
           e == FlushInput(c)
           S == {ev.n}
<1>1. /\ ev \in EventRecs /\ ev.n \in Nat /\ ev.on \in Controls /\ Target(ev) \in Controls
      /\ Known[Target(ev)] # {"missing"} <=> Known[ev.on] # {"missing"}
  BY HeardOf
<1>2. S \in SUBSET Nat /\ "shortcut" \in StepKinds /\ "key" \in StepKinds
  BY <1>1 DEF StepKinds
<1>3. HandleKey(raw, ev) =
        CASE Answer(c, ev) = "missing" -> DropUnresolved(c, ev)
          [] Answer(c, ev) # "missing" /\ ev.key = "command" ->
               Record(e, Step("shortcut", Target(ev), S))
          [] Answer(c, ev) # "missing" /\ ev.key = "text" /\ Kind[ev.on] = "field" ->
               HandleCharacter(c, ev)
          [] OTHER -> Record(e, Step("key", Target(ev), S))
  BY DEF HandleKey
<1> HIDE DEF c, S
<1>4. Addressed(c) /\ (Answer(c, ev) # "missing" => Named(Target(ev)))
  BY ResolveAddressed DEF c
<1>5. Addressed(e)
  BY <1>4, InputAddressed
<1> HIDE DEF e
<1>6. Answer(c, ev) = "missing" => Addressed(DropUnresolved(c, ev))
  BY <1>1, <1>4, UnresolvedAddressed
<1>7. Answer(c, ev) # "missing" => /\ Addressed(Record(e, Step("shortcut", Target(ev), S)))
                                   /\ Addressed(Record(e, Step("key", Target(ev), S)))
  BY <1>1, <1>2, <1>4, <1>5, NewStepAddressed
<1>8. Answer(c, ev) # "missing" /\ Kind[ev.on] = "field" => Addressed(HandleCharacter(c, ev))
  <2> SUFFICES ASSUME Answer(c, ev) # "missing", Kind[ev.on] = "field"
               PROVE  Addressed(HandleCharacter(c, ev))
    OBVIOUS
  <2>1. Named(ev.on)
    BY <1>1, <1>4 DEF Named
  <2> QED
    BY <1>1, <1>4, <2>1, CharacterAddressed
<1> QED
  BY <1>3, <1>6, <1>7, <1>8

LEMMA WheelAddressed ==
  ASSUME NEW raw, Addressed(raw), NEW ev, Heard(ev)
  PROVE  Addressed(HandleWheel(raw, ev))
<1> DEFINE c == Resolve(raw, ev)
           e == FlushInput(c)
           S == {ev.n}
           off == FALSE
           fading == Answer(c, ev) = "fading"
<1>1. ev \in EventRecs /\ ev.n \in Nat
  BY HeardOf
<1>2. S \in SUBSET Nat /\ off \in BOOLEAN /\ fading \in BOOLEAN /\ ~off
      /\ "scrolling" \in Reasons \cup Deliberate
  BY <1>1 DEF Deliberate
<1>3. HandleWheel(raw, ev) =
        CASE Answer(c, ev) = "missing" -> DropUnresolved(e, ev)
          [] Answer(c, ev) # "missing" /\ ChangesValue(c, ev) -> BeginValue(c, ev, S, off, fading)
          [] OTHER -> Drop(e, ev, "scrolling")
  BY DEF HandleWheel, BeginWheelOrDrag
<1> HIDE DEF c, S, off, fading
<1>4. Addressed(c) /\ (Answer(c, ev) # "missing" => Named(Target(ev)))
  BY ResolveAddressed DEF c
<1>5. Addressed(e)
  BY <1>4, InputAddressed
<1> HIDE DEF e
<1>6. Addressed(DropUnresolved(e, ev)) /\ Addressed(Drop(e, ev, "scrolling"))
  BY <1>1, <1>2, <1>5, UnresolvedAddressed, DropAddressed
<1>7. Answer(c, ev) # "missing" => Addressed(BeginValue(c, ev, S, off, fading))
  BY <1>1, <1>2, <1>4, BeginValueAddressed
<1> QED
  BY <1>3, <1>6, <1>7

LEMMA EveryAddressed ==
  ASSUME NEW c, Addressed(c), NEW ev, Heard(ev)
  PROVE  Addressed(Handle(c, ev))
<1>1. ev.kind \in EventKinds
  BY DEF Heard, EventRecs
<1>2. ev.kind \in MouseKinds => Addressed(HandleMouse(c, ev))
  BY MenuAddressed
<1>3. /\ Addressed(HandleClose(c, ev)) /\ Addressed(HandleShortcut(c, ev))
      /\ Addressed(HandleKey(c, ev)) /\ Addressed(HandleWheel(c, ev))
  BY CloseAddressed, ShortcutAddressed, KeyAddressed, WheelAddressed
<1>4. "close_window" \notin MouseKinds
  BY DEF MouseKinds
<1> QED
  BY <1>1, <1>2, <1>3, <1>4 DEF Handle, EventKinds, MouseKinds

-----------------------------------------------------------------------------
(* What every session names.                                                *)

Asked(L) == \A n \in 1..Len(L) : L[n].answer \in Known[L[n].on]

LEMMA GroupAddressed ==
  ASSUME NEW c, Addressed(c), NEW g \in Seq(EventRecs)
  PROVE  LET d == [c EXCEPT !.group = g]
         IN  Addressed(d) /\ d.group = g
<1> DEFINE d == [c EXCEPT !.group = g]
<1>1. c \in Captures
  BY DEF Addressed
<1>2. d \in Captures /\ SameLedger(c, d) /\ d.cache = c.cache /\ d.group = g
  BY <1>1 DEF Captures, SameLedger, SameRuns
<1> HIDE DEF d
<1>3. Addressed(d)
  BY <1>2, MomentsAddressed
<1> QED
  BY <1>2, <1>3 DEF d

LEMMA FlushGroupAddressed ==
  ASSUME NEW c, NEW L, Lived(L), Asked(L), Going(c, L), Addressed(c)
  PROVE  Addressed(FlushGroup(c))
<1> DEFINE g == c.group
           none == <<>>
           b == [c EXCEPT !.group = none]
<1>1. CASE g = <<>>
  BY <1>1 DEF FlushGroup
<1>2. CASE g # <<>>
  <2>1. Grouped(g, L)
    BY <1>2 DEF Going
  <2>2. g \in Seq(EventRecs) /\ none \in Seq(EventRecs)
    BY DEF Addressed, Captures
  <2>3. g[1].n \in 1..Len(L) /\ \A n \in g[1].n..Len(L) : n \in 1..Len(L)
    BY <1>2, <2>1, <2>2, GroupFacts
  <2>4. PICK m \in g[1].n..Len(L) : MostSpecific(g) = L[m]
    BY <1>2, <2>1, <2>2, MostSpecificIsReal
  <2>5. FlushGroup(c) = Handle(b, L[m])
    BY <1>2, <2>4 DEF FlushGroup
  <2>6. Heard(L[m])
    <3>1. m \in 1..Len(L) /\ L \in Seq(EventRecs)
      BY <2>3 DEF Lived
    <3>2. L[m] \in EventRecs
      BY <3>1
    <3> QED
      BY <3>1, <3>2 DEF Heard, Lived, Asked
  <2> HIDE DEF none
  <2>7. Addressed(b)
    BY <2>2, GroupAddressed
  <2> HIDE DEF b
  <2> QED
    BY <2>5, <2>6, <2>7, EveryAddressed
<1> QED
  BY <1>1, <1>2

LEMMA FeedAddressed ==
  ASSUME NEW c, NEW L, Lived(L), Asked(L), Going(c, L), Addressed(c), NEW ev \in EventRecs
  PROVE  Addressed(Feed(c, ev))
<1> DEFINE b == IF c.group # <<>> /\ ~SameInteraction(c.group[1], ev) THEN FlushGroup(c) ELSE c
           f == Append(b.group, ev)
<1>1. Feed(c, ev) = [b EXCEPT !.group = f]
  BY DEF Feed
<1>2. Addressed(b)
  BY FlushGroupAddressed
<1> HIDE DEF b
<1>3. b.group \in Seq(EventRecs)
  BY <1>2 DEF Addressed, Captures
<1>4. f \in Seq(EventRecs)
  BY <1>3
<1> HIDE DEF f
<1> QED
  BY <1>1, <1>2, <1>4, GroupAddressed

LEMMA FedAddressed ==
  ASSUME NEW c, NEW L, Lived(L), Asked(L), Going(c, L), Ordered(c, L), Addressed(c), NEW ev \in EventRecs
  PROVE  Addressed(FedTo(c, ev))
<1> DEFINE copy == [ev EXCEPT !.on = Window]
           e == Feed(c, copy)
<1>1. CASE ~(ev.kind \in MouseKinds /\ Window # NoControl)
  BY <1>1, FeedAddressed DEF FedTo
<1>2. CASE ev.kind \in MouseKinds /\ Window # NoControl
  <2>1. copy \in EventRecs /\ copy.kind = ev.kind /\ copy.t = ev.t
    <3>1. Window \in Controls
      BY <1>2, CaptureAssumption
    <3> QED
      BY <3>1 DEF EventRecs
  <2>2. FedTo(c, ev) = Feed(e, ev)
    BY <1>2 DEF FedTo
  <2> HIDE DEF copy
  <2>3. Addressed(e) /\ e.group # <<>> /\ SameInteraction(e.group[1], copy)
    BY <2>1, FeedAddressed, FeedOrdered
  <2> HIDE DEF e
  <2> DEFINE f == Append(e.group, ev)
  <2>4. SameInteraction(e.group[1], ev)
    BY <2>1, <2>3 DEF SameInteraction
  <2>5. Feed(e, ev) = [e EXCEPT !.group = f]
    BY <2>3, <2>4 DEF Feed
  <2>6. e.group \in Seq(EventRecs)
    BY <2>3 DEF Addressed, Captures
  <2>7. f \in Seq(EventRecs)
    BY <2>6
  <2> HIDE DEF f
  <2> QED
    BY <2>2, <2>3, <2>5, <2>7, GroupAddressed
<1> QED
  BY <1>1, <1>2

LEMMA FinishAddressed ==
  ASSUME NEW c, NEW L, Lived(L), Asked(L), Going(c, L), Addressed(c)
  PROVE  Addressed(Finish(c))
<1>1. Addressed(FlushGroup(c))
  BY FlushGroupAddressed
<1>2. Finish(c) = Conclude(FlushGroup(c))
  BY DEF Finish
<1> QED
  BY <1>1, <1>2, ConcludeAddressed

LEMMA InitAddressed == Init => Asked(log) /\ Addressed(cap)
<1> SUFFICES ASSUME Init
             PROVE  Asked(log) /\ Addressed(cap)
  OBVIOUS
<1> DEFINE launch == Step("launch", NoControl, {})
           a == cap.rec.actions
<1>1. /\ a = <<launch>> /\ cap.pending = <<>> /\ cap.typing = <<>> /\ cap.value = <<>>
      /\ cap.cache = [c \in Controls |-> "unknown"] /\ log = <<>>
  BY DEF Init, NewCapture, NewRecording
<1>2. a # <<>> /\ a[1] = launch /\ 2..Len(a) = {} /\ launch.kind = "launch"
  BY <1>1 DEF Step
<1>3. cap \in Captures
  <2>1. \E h : Core(cap, log, h)
    BY InitIInv DEF IInv, Going, Init
  <2> QED
    BY <2>1 DEF Core
<1>4. \A x \in Controls : cap.cache[x] = "unknown"
  BY <1>1
<1>5. Addressed(cap)
  BY <1>1, <1>2, <1>3, <1>4 DEF Addressed
<1>6. Asked(log)
  BY <1>1 DEF Asked
<1> QED
  BY <1>5, <1>6

LEMMA HappensAddressed ==
  ASSUME IInv, IInv', Ordered(cap, log), Asked(log), Addressed(cap),
         NEW kind, NEW on, NEW key, NEW interval, Happens(kind, on, key, interval)
  PROVE  Asked(log') /\ Addressed(cap')
<1>1. ~done /\ Lived(log) /\ Going(cap, log) /\ Lived(log')
  BY DEF Happens, IInv
<1>2. PICK answer \in Known[on] :
        LET ev == [n |-> Len(log) + 1, kind |-> kind, on |-> on, t |-> now', key |-> key,
                   answer |-> answer]
        IN  log' = Append(log, ev) /\ cap' = Fed(ev)
  BY DEF Happens
<1> DEFINE ev == [n |-> Len(log) + 1, kind |-> kind, on |-> on, t |-> now', key |-> key,
                  answer |-> answer]
           old == log
           new == log'
<1>3. ev.on = on /\ ev.answer \in Known[on] /\ new = Append(old, ev) /\ cap' = Fed(ev)
  BY <1>2
<1> HIDE DEF ev
<1>4. old \in Seq(EventRecs) /\ new \in Seq(EventRecs)
  BY <1>1 DEF Lived
<1>5. /\ Len(new) = Len(old) + 1 /\ new[Len(old) + 1] = ev /\ Len(old) \in Nat
      /\ \A n \in 1..Len(old) : new[n] = old[n]
  <2> HIDE DEF old, new
  <2> QED
    BY <1>3, <1>4
<1>6. \A n \in 1..Len(new) : n = Len(old) + 1 \/ n \in 1..Len(old)
  BY <1>5
<1>7. ev \in EventRecs
  <2>1. Len(old) + 1 \in 1..Len(new)
    BY <1>5
  <2> QED
    BY <1>4, <1>5, <2>1
<1>8. \A n \in 1..Len(old) : old[n].answer \in Known[old[n].on]
  BY DEF Asked
<1> HIDE DEF old, new
<1>9. Asked(new)
  BY <1>3, <1>5, <1>6, <1>8 DEF Asked
<1>10. Addressed(FedTo(cap, ev))
  BY <1>1, <1>7, FedAddressed
<1>11. cap' = FedTo(cap, ev)
  BY <1>3 DEF Fed, FedTo
<1> QED
  BY <1>9, <1>10, <1>11 DEF new

LEMMA NextAddressed ==
  IInv /\ Ordered(cap, log) /\ Asked(log) /\ Addressed(cap) /\ IInv' /\ [Next]_vars
  => Asked(log') /\ Addressed(cap')
<1> SUFFICES ASSUME IInv, Ordered(cap, log), Asked(log), Addressed(cap), IInv', [Next]_vars
             PROVE  Asked(log') /\ Addressed(cap')
  OBVIOUS
<1>1. CASE Press
  BY <1>1, HappensAddressed DEF Press
<1>2. CASE ReleaseButton
  BY <1>2, HappensAddressed DEF ReleaseButton
<1>3. CASE Double
  BY <1>3, HappensAddressed DEF Double
<1>4. CASE PressKey
  BY <1>4, HappensAddressed DEF PressKey
<1>5. CASE Shortcut
  BY <1>5, HappensAddressed DEF Shortcut
<1>6. CASE TurnWheel
  BY <1>6, HappensAddressed DEF TurnWheel
<1>7. CASE CloseWindow
  BY <1>7, HappensAddressed DEF CloseWindow
<1>8. CASE FlushStale
  <2>1. ~done
    BY <1>8 DEF FlushStale
  <2>2. Addressed(FlushGroup(cap))
    BY <2>1, FlushGroupAddressed DEF IInv
  <2> QED
    BY <1>8, <2>2 DEF FlushStale
<1>9. CASE FinishSession
  <2>1. ~done
    BY <1>9 DEF FinishSession
  <2>2. Addressed(Finish(cap))
    BY <2>1, FinishAddressed DEF IInv
  <2> QED
    BY <1>9, <2>2 DEF FinishSession
<1>10. CASE UNCHANGED vars
  BY <1>10 DEF vars
<1> QED
  BY <1>1, <1>2, <1>3, <1>4, <1>5, <1>6, <1>7, <1>8, <1>9, <1>10 DEF Next

\* StepsAreAddressable: a step is on something the application could be asked
\* about, whichever control the answer was kept for (_resolve) and however long
\* the run or the press waited before it became a step
\* (capture.py:594-601, 669-671, 1035-1042).
THEOREM AllAddressable == Spec => []StepsAreAddressable
<1> DEFINE Inv == IInv /\ Ordered(cap, log) /\ Asked(log) /\ Addressed(cap)
<1>1. Init => Inv
  BY InitIInv, InitOrdered, InitAddressed
<1>2. Inv /\ [Next]_vars => Inv'
  BY NextIInv, NextOrdered, NextAddressed
<1>3. Inv => StepsAreAddressable
  BY DEF Addressed, Right, Named, StepsAreAddressable, Steps
<1> HIDE DEF Inv
<1> QED
  BY <1>1, <1>2, <1>3, PTL DEF Spec

-----------------------------------------------------------------------------
(* What every session is like: TypeOK.                                      *)

\* What the session remembers of the time is past, and what is typed is typed
\* into a field.
Formed(c, u) ==
  /\ c \in Captures
  /\ c.rec.actions # <<>> /\ c.rec.actions[1].kind = "launch"
  /\ c.menuAt # <<>> => c.menuAt[1] <= u
  /\ c.itemAt # <<>> => c.itemAt[1] <= u
  /\ c.typing # <<>> => Kind[c.typing[1].on] = "field"

\* Nothing that matters here is added.
LEMMA FewerFormed ==
  ASSUME NEW u, NEW c, Formed(c, u), NEW d \in Captures, d.rec = c.rec,
         d.menuAt \in {c.menuAt, <<>>}, d.itemAt \in {c.itemAt, <<>>}, d.typing \in {c.typing, <<>>}
  PROVE  Formed(d, u)
BY DEF Formed

LEMMA LaterFormed ==
  ASSUME NEW u \in Nat, NEW v \in Nat, u <= v, NEW c, Formed(c, u)
  PROVE  Formed(c, v)
<1>1. c \in Captures
  BY DEF Formed
<1>2. /\ c.menuAt # <<>> => c.menuAt[1] \in Nat
      /\ c.itemAt # <<>> => c.itemAt[1] \in Nat
  BY <1>1, One DEF Captures
<1>3. /\ c.menuAt # <<>> => c.menuAt[1] <= v
      /\ c.itemAt # <<>> => c.itemAt[1] <= v
  BY <1>2 DEF Formed
<1> QED
  BY <1>3 DEF Formed

LEMMA RecordFormed ==
  ASSUME NEW u, NEW c, Formed(c, u), NEW s \in StepRecs
  PROVE  Formed(Record(c, s), u)
<1> DEFINE d == Record(c, s)
           N == Len(c.rec.actions)
<1>1. c \in Captures
  BY DEF Formed
<1>2. /\ d \in Captures /\ d.rec.actions = Append(c.rec.actions, s)
      /\ SameRuns(c, d) /\ SameClocks(c, d)
  BY <1>1, RecordShape
<1> HIDE DEF d
<1>3. /\ DOMAIN d.rec.actions = 1..(N + 1) /\ N \in Nat
      /\ \A i \in 1..N : d.rec.actions[i] = c.rec.actions[i]
  BY <1>1, <1>2, OneMoreTold
<1>4. c.rec.actions \in Seq(StepRecs)
  BY <1>1 DEF Captures
<1>5. N # 0
  BY <1>4, EmptySeq DEF Formed
<1>6. 1 \in 1..N /\ 1 \in 1..(N + 1)
  BY <1>3, <1>5
<1>7. d.rec.actions # <<>>
  <2>1. 1 \in DOMAIN d.rec.actions
    BY <1>3, <1>6
  <2> QED
    BY <2>1, DOMAIN <<>> = {}
<1>8. d.rec.actions[1].kind = "launch"
  BY <1>3, <1>6 DEF Formed
<1>9. Formed(d, u)
  BY <1>2, <1>7, <1>8 DEF Formed, SameRuns, SameClocks
<1> QED
  BY <1>9 DEF d

LEMMA NewStepFormed ==
  ASSUME NEW u, NEW c, Formed(c, u), NEW kind \in StepKinds, NEW on \in Controls, NEW S \in SUBSET Nat
  PROVE  Formed(Record(c, Step(kind, on, S)), u)
<1> DEFINE s == Step(kind, on, S)
<1>1. s \in StepRecs
  BY DEF Step, StepRecs
<1> HIDE DEF s
<1>2. Formed(Record(c, s), u)
  BY <1>1, RecordFormed
<1> QED
  BY <1>2 DEF s

LEMMA DropFormed ==
  ASSUME NEW u, NEW c, Formed(c, u), NEW ev \in EventRecs, NEW reason \in Reasons \cup Deliberate
  PROVE  Formed(Drop(c, ev, reason), u)
<1> DEFINE d == Drop(c, ev, reason)
<1>1. c \in Captures
  BY DEF Formed
<1>2. d \in Captures /\ d.rec.actions = c.rec.actions /\ SameRuns(c, d) /\ SameClocks(c, d)
  BY <1>1, DropShape
<1> HIDE DEF d
<1>3. Formed(d, u)
  BY <1>2 DEF Formed, SameRuns, SameClocks
<1> QED
  BY <1>3 DEF d

LEMMA UnresolvedFormed ==
  ASSUME NEW u, NEW c, Formed(c, u), NEW ev \in EventRecs
  PROVE  Formed(DropUnresolved(c, ev), u)
<1>1. "chrome" \in Reasons \cup Deliberate /\ "not_found" \in Reasons \cup Deliberate
  BY DEF Reasons, Deliberate
<1> QED
  BY <1>1, DropFormed DEF DropUnresolved

LEMMA FlushTypingFormed ==
  ASSUME NEW u, NEW c, Formed(c, u)
  PROVE  Formed(FlushTyping(c), u)
<1>1. CASE c.typing = <<>>
  BY <1>1 DEF FlushTyping
<1>2. CASE c.typing # <<>>
  <2> DEFINE e == [c EXCEPT !.typing = <<>>]
             run == c.typing[1]
  <2>1. c \in Captures /\ run \in TypingRuns
    BY <1>2, One DEF Formed, Captures
  <2>2. /\ e \in Captures /\ e.typing = <<>> /\ e.rec = c.rec
        /\ e.menuAt = c.menuAt /\ e.itemAt = c.itemAt
    BY <2>1, One DEF Captures
  <2>3. FlushTyping(c) = Record(e, Step("type", run.on, run.of))
    BY <1>2 DEF FlushTyping
  <2> HIDE DEF e
  <2>4. Formed(e, u)
    BY <2>2, FewerFormed
  <2>5. run.on \in Controls /\ run.of \in SUBSET Nat /\ "type" \in StepKinds
    BY <2>1 DEF TypingRuns, StepKinds
  <2> HIDE DEF run
  <2> QED
    BY <2>3, <2>4, <2>5, NewStepFormed
<1> QED
  BY <1>1, <1>2

LEMMA FlushValueFormed ==
  ASSUME NEW u, NEW c, Formed(c, u)
  PROVE  Formed(FlushValue(c), u)
<1>1. CASE c.value = <<>>
  BY <1>1 DEF FlushValue
<1>2. CASE c.value # <<>>
  <2> DEFINE e == [c EXCEPT !.value = <<>>]
             run == c.value[1]
             s == ValueStep(run)
             f == [e EXCEPT !.failed = @ \cup run.of]
  <2>1. c \in Captures /\ run \in ValueRuns
    BY <1>2, One DEF Formed, Captures
  <2>2. run.on \in Controls /\ run.of \in SUBSET Nat
    BY <2>1 DEF ValueRuns
  <2>3. s \in StepRecs
    BY <2>2 DEF ValueStep, Step, StepRecs, StepKinds
  <2>4. FlushValue(c) = IF run.fading THEN f ELSE Record(e, s)
    BY <1>2 DEF FlushValue
  <2>5. /\ e \in Captures /\ e.typing = c.typing /\ e.rec = c.rec
        /\ e.menuAt = c.menuAt /\ e.itemAt = c.itemAt
    BY <2>1, One DEF Captures
  <2> HIDE DEF e, s
  <2>6. /\ f \in Captures /\ f.typing = e.typing /\ f.rec = e.rec
        /\ f.menuAt = e.menuAt /\ f.itemAt = e.itemAt
    BY <2>2, <2>5 DEF Captures
  <2> HIDE DEF f
  <2>7. Formed(e, u)
    BY <2>5, FewerFormed
  <2>8. Formed(f, u)
    BY <2>6, <2>7, FewerFormed
  <2>9. Formed(Record(e, s), u)
    BY <2>3, <2>7, RecordFormed
  <2> QED
    BY <2>4, <2>8, <2>9
<1> QED
  BY <1>1, <1>2

LEMMA ConcludeFormed ==
  ASSUME NEW u, NEW c, Formed(c, u)
  PROVE  Formed(FlushInput(c), u) /\ Formed(Conclude(c), u)
<1> DEFINE b == FlushTyping(c)
           e == FlushInput(c)
           d == [e EXCEPT !.pending = <<>>]
<1>1. Formed(b, u)
  BY FlushTypingFormed
<1>2. e = FlushValue(b)
  BY DEF FlushInput
<1>3. d = Conclude(c)
  BY DEF Conclude
<1> HIDE DEF b, e
<1>4. Formed(e, u)
  BY <1>1, <1>2, FlushValueFormed
<1>5. e \in Captures
  BY <1>4 DEF Formed
<1>6. /\ d \in Captures /\ d.rec = e.rec /\ d.typing = e.typing
      /\ d.menuAt = e.menuAt /\ d.itemAt = e.itemAt
  BY <1>5, One DEF Captures
<1> HIDE DEF d
<1>7. Formed(d, u)
  BY <1>4, <1>6, FewerFormed
<1> QED
  BY <1>3, <1>4, <1>7 DEF e

\* A moment is noted or forgotten.
LEMMA MomentsFormed ==
  ASSUME NEW u, NEW c, Formed(c, u), NEW at \in Maybe(Nat), at # <<>> => at[1] <= u,
         NEW on \in Controls \cup {NoControl}
  PROVE  /\ Formed([c EXCEPT !.itemAt = at], u) /\ Formed([c EXCEPT !.menuAt = at], u)
         /\ Formed([c EXCEPT !.menuAt = at, !.menuOn = on], u)
<1>1. c \in Captures
  BY DEF Formed
<1> DEFINE d == [c EXCEPT !.itemAt = at]
           e == [c EXCEPT !.menuAt = at]
           f == [c EXCEPT !.menuAt = at, !.menuOn = on]
<1>2. /\ d \in Captures /\ d.rec = c.rec /\ d.typing = c.typing
      /\ d.menuAt = c.menuAt /\ d.itemAt = at
  BY <1>1 DEF Captures
<1>3. /\ e \in Captures /\ e.rec = c.rec /\ e.typing = c.typing
      /\ e.menuAt = at /\ e.itemAt = c.itemAt
  BY <1>1 DEF Captures
<1>4. /\ f \in Captures /\ f.rec = c.rec /\ f.typing = c.typing
      /\ f.menuAt = at /\ f.itemAt = c.itemAt
  BY <1>1 DEF Captures
<1> HIDE DEF d, e, f
<1>5. Formed(d, u) /\ Formed(e, u) /\ Formed(f, u)
  BY <1>2, <1>3, <1>4 DEF Formed
<1> QED
  BY <1>5 DEF d, e, f

LEMMA ResolveFormed ==
  ASSUME NEW u, NEW c, Formed(c, u), NEW ev \in EventRecs
  PROVE  Formed(Resolve(c, ev), u)
<1> DEFINE d == Resolve(c, ev)
<1>1. c \in Captures
  BY DEF Formed
<1>2. d \in Captures /\ SameLedger(c, d) /\ SameMoments(c, d)
  BY <1>1, ResolveSame
<1> HIDE DEF d
<1>3. Formed(d, u)
  BY <1>2, FewerFormed DEF SameLedger, SameRuns, SameMoments
<1> QED
  BY <1>3 DEF d

LEMMA BeginValueFormed ==
  ASSUME NEW u, NEW c, Formed(c, u), NEW ev \in EventRecs, NEW S \in SUBSET Nat,
         NEW selection \in BOOLEAN, NEW fading \in BOOLEAN
  PROVE  Formed(BeginValue(c, ev, S, selection, fading), u)
<1> DEFINE other == c.value # <<>> /\ c.value[1].on # Target(ev)
           e == IF other THEN FlushValue(c) ELSE c
           d == BeginValue(c, ev, S, selection, fading)
           run == [on |-> Target(ev), of |-> S, selection |-> selection, fading |-> fading]
           longer == [e.value[1] EXCEPT !.of = @ \cup S, !.selection = @ \/ selection]
           next == IF e.value = <<>> THEN run ELSE longer
<1>1. Formed(e, u)
  BY FlushValueFormed
<1>2. d = [e EXCEPT !.value = <<next>>]
  BY DEF BeginValue
<1>3. Target(ev) \in Controls
  BY FoldingAssumption DEF Target, EventRecs
<1> HIDE DEF e
<1>4. e \in Captures
  BY <1>1 DEF Formed
<1>5. next \in ValueRuns
  <2>1. CASE e.value = <<>>
    BY <1>3, <2>1 DEF ValueRuns
  <2>2. CASE e.value # <<>>
    <3>1. e.value[1] \in ValueRuns
      BY <1>4, <2>2, One DEF Captures
    <3>2. longer \in ValueRuns
      BY <3>1 DEF ValueRuns
    <3> QED
      BY <2>2, <3>2
  <2> QED
    BY <2>1, <2>2
<1> HIDE DEF next
<1>6. /\ d \in Captures /\ d.rec = e.rec /\ d.typing = e.typing
      /\ d.menuAt = e.menuAt /\ d.itemAt = e.itemAt
  <2>1. <<next>> \in Maybe(ValueRuns)
    BY <1>5, One
  <2> QED
    BY <1>2, <1>4, <2>1 DEF Captures
<1> HIDE DEF d
<1>7. Formed(d, u)
  BY <1>1, <1>6, FewerFormed
<1> QED
  BY <1>7 DEF d

LEMMA ReleaseFormed ==
  ASSUME NEW u, NEW c, Formed(c, u), NEW press \in EventRecs, NEW ev \in EventRecs
  PROVE  Formed(Release(c, press, ev), u)
<1> DEFINE both == {press.n, ev.n}
           one == {press.n}
           two == {ev.n}
           fading == Answer(c, press) = "fading"
           off == FALSE
           first == Record(c, Step("click", Target(press), one))
           e == BeginValue(c, press, one, off, fading)
<1>1. /\ Target(ev) \in Controls /\ Target(press) \in Controls
      /\ ev.n \in Nat /\ press.n \in Nat
  BY FoldingAssumption DEF Target, EventRecs
<1>2. both \in SUBSET Nat /\ one \in SUBSET Nat /\ two \in SUBSET Nat
  BY <1>1
<1>3. fading \in BOOLEAN /\ off \in BOOLEAN
  OBVIOUS
<1>4. "click" \in StepKinds /\ "dragging" \in Reasons \cup Deliberate
  BY DEF StepKinds, Deliberate
<1>5. Release(c, press, ev) \in {Record(c, Step("click", Target(ev), both)),
                                 Record(first, Step("click", Target(ev), two)),
                                 FlushValue(e), Drop(c, press, "dragging")}
  BY DEF Release, BeginWheelOrDrag
<1> HIDE DEF both, one, two, fading, off
<1>6. Formed(first, u) /\ Formed(Record(c, Step("click", Target(ev), both)), u)
  BY <1>1, <1>2, <1>4, NewStepFormed
<1> HIDE DEF first
<1>7. Formed(Record(first, Step("click", Target(ev), two)), u)
  BY <1>1, <1>2, <1>4, <1>6, NewStepFormed
<1>8. Formed(e, u)
  BY <1>2, <1>3, BeginValueFormed
<1> HIDE DEF e
<1>9. Formed(FlushValue(e), u)
  BY <1>8, FlushValueFormed
<1>10. Formed(Drop(c, press, "dragging"), u)
  BY <1>4, DropFormed
<1> QED
  BY <1>5, <1>6, <1>7, <1>9, <1>10

LEMMA OrdinaryFormed ==
  ASSUME NEW u, NEW raw, Formed(raw, u), NEW ev \in EventRecs, ev.kind \in MouseKinds
  PROVE  Formed(HandleOrdinary(raw, ev), u)
<1> DEFINE c == Resolve(raw, ev)
           e == Conclude(c)
           S == {ev.n}
           held == [e EXCEPT !.pending = <<ev>>]
           b == [c EXCEPT !.pending = <<>>]
<1>1. Formed(c, u)
  BY ResolveFormed
<1>2. ev.n \in Nat /\ Target(ev) \in Controls
  BY FoldingAssumption DEF Target, EventRecs
<1>3. HandleOrdinary(raw, ev) =
        CASE Answer(c, ev) = "missing" -> DropUnresolved(c, ev)
          [] Answer(c, ev) # "missing" /\ ev.kind = "mouse_double" ->
               Record(e, Step("double_click", Target(ev), S))
          [] Answer(c, ev) # "missing" /\ ev.kind = "mouse_press" -> held
          [] Answer(c, ev) # "missing" /\ ev.kind = "mouse_release" ->
               IF c.pending = <<>> THEN c ELSE Release(b, c.pending[1], ev)
  BY DEF HandleOrdinary
<1>4. S \in SUBSET Nat /\ "double_click" \in StepKinds
  BY <1>2 DEF StepKinds
<1> HIDE DEF c, S
<1>5. Formed(e, u) /\ e \in Captures /\ c \in Captures
  BY <1>1, ConcludeFormed DEF Formed
<1> HIDE DEF e
<1>6. <<ev>> \in Maybe(EventRecs) /\ <<>> \in Maybe(EventRecs)
  BY One
<1>7. /\ held \in Captures /\ held.rec = e.rec /\ held.typing = e.typing
      /\ held.menuAt = e.menuAt /\ held.itemAt = e.itemAt
  BY <1>5, <1>6 DEF Captures
<1>8. /\ b \in Captures /\ b.rec = c.rec /\ b.typing = c.typing
      /\ b.menuAt = c.menuAt /\ b.itemAt = c.itemAt
  BY <1>5, <1>6 DEF Captures
<1> HIDE DEF held, b
<1>9. Formed(held, u) /\ Formed(b, u)
  BY <1>1, <1>5, <1>7, <1>8, FewerFormed
<1>10. Formed(DropUnresolved(c, ev), u)
  BY <1>1, UnresolvedFormed
<1>11. Formed(Record(e, Step("double_click", Target(ev), S)), u)
  BY <1>2, <1>4, <1>5, NewStepFormed
<1>12. c.pending # <<>> => Formed(Release(b, c.pending[1], ev), u)
  <2>1. c.pending # <<>> => c.pending[1] \in EventRecs
    BY <1>5, One DEF Captures
  <2> QED
    BY <1>9, <2>1, ReleaseFormed
<1> QED
  BY <1>1, <1>3, <1>9, <1>10, <1>11, <1>12 DEF MouseKinds

LEMMA DropClickFormed ==
  ASSUME NEW u, NEW c, Formed(c, u), NEW control
  PROVE  Formed(DropClickOn(c, control), u) /\ ClickToDrop(c, control) \in SUBSET Nat
<1> DEFINE a == c.rec.actions
           N == Len(a)
           d == [c EXCEPT !.rec = WithoutLast(@)]
<1>1. c \in Captures /\ a # <<>> /\ a \in Seq(StepRecs)
  BY DEF Formed, Captures
<1>2. N \in Nat \ {0} /\ DOMAIN a = 1..N /\ a[N] \in StepRecs
  <2>1. N \in Nat \ {0} /\ DOMAIN a = 1..N
    BY <1>1, EmptySeq
  <2>2. N \in DOMAIN a
    BY <2>1
  <2> QED
    BY <1>1, <2>1, <2>2
<1>3. ClickToDrop(c, control) \in SUBSET Nat
  BY <1>2 DEF ClickToDrop, StepRecs
<1>4. CASE ClickToDrop(c, control) = {}
  BY <1>3, <1>4 DEF DropClickOn
<1>5. CASE ClickToDrop(c, control) # {}
  <2>1. DropClickOn(c, control) = d
    BY <1>5 DEF DropClickOn
  <2>2. /\ d \in Captures /\ SameRuns(c, d) /\ SameClocks(c, d)
        /\ DOMAIN d.rec.actions = 1..(N - 1)
        /\ \A i \in 1..(N - 1) : d.rec.actions[i] = a[i]
    BY <1>1, ShorterShape
  <2> HIDE DEF d
  <2>3. N # 1
    <3>1. a[N].kind = "click" /\ a[1].kind = "launch"
      BY <1>5 DEF ClickToDrop, Formed
    <3> QED
      BY <3>1
  <2> HIDE DEF N
  <2>4. 1 \in 1..(N - 1)
    BY <1>2, <2>3
  <2>5. d.rec.actions # <<>> /\ d.rec.actions[1].kind = "launch"
    <3>1. 1 \in DOMAIN d.rec.actions /\ d.rec.actions[1] = a[1]
      BY <2>2, <2>4
    <3>2. d.rec.actions # <<>>
      BY <3>1, DOMAIN <<>> = {}
    <3>3. a[1].kind = "launch"
      BY DEF Formed
    <3> QED
      BY <3>1, <3>2, <3>3
  <2>6. Formed(d, u)
    BY <2>2, <2>5 DEF Formed, SameRuns, SameClocks
  <2> QED
    BY <1>3, <2>1, <2>6
<1> QED
  BY <1>4, <1>5

LEMMA ComboFormed ==
  ASSUME NEW u, NEW raw, Formed(raw, u), NEW ev \in EventRecs, ev.t <= u
  PROVE  Formed(HandleCombo(raw, ev), u)
<1> DEFINE none == <<>>
           now1 == <<ev.t>>
           off == FALSE
           fading == ev.answer = "fading"
           c == [raw EXCEPT !.itemAt = none]
           ended == [Conclude(c) EXCEPT !.itemAt = now1]
           X == ClickToDrop(ended, Target(ev))
           S == {ev.n} \cup X
           chosen == DropClickOn(ended, Target(ev))
<1>1. ev.n \in Nat /\ ev.t \in Nat /\ Target(ev) \in Controls
  BY FoldingAssumption DEF Target, EventRecs
<1>2. /\ none \in Maybe(Nat) /\ now1 \in Maybe(Nat) /\ none = <<>> /\ now1[1] <= u
      /\ off \in BOOLEAN /\ fading \in BOOLEAN
      /\ "no_combo" \in Reasons \cup Deliberate /\ "select" \in StepKinds
  BY <1>1, One DEF Reasons, StepKinds
<1>3. HandleCombo(raw, ev) \in {Drop(c, ev, "no_combo"), Record(chosen, Step("select", Target(ev), S)),
                                BeginValue(chosen, ev, S, off, fading)}
  BY DEF HandleCombo
<1>4. raw.menuOn \in Controls \cup {NoControl}
  BY DEF Formed, Captures
<1> HIDE DEF none, now1, off, fading
<1>5. Formed(c, u)
  BY <1>2, <1>4, MomentsFormed
<1> HIDE DEF c
<1>6. Formed(Conclude(c), u)
  BY <1>5, ConcludeFormed
<1>7. Formed(ended, u)
  BY <1>2, <1>4, <1>6, MomentsFormed
<1> HIDE DEF ended
<1>8. Formed(chosen, u) /\ X \in SUBSET Nat
  BY <1>7, DropClickFormed
<1> HIDE DEF chosen
<1>9. S \in SUBSET Nat
  BY <1>1, <1>8
<1> HIDE DEF S, X
<1>10. Formed(Drop(c, ev, "no_combo"), u)
  BY <1>2, <1>5, DropFormed
<1>11. Formed(Record(chosen, Step("select", Target(ev), S)), u)
  BY <1>1, <1>2, <1>8, <1>9, NewStepFormed
<1>12. Formed(BeginValue(chosen, ev, S, off, fading), u)
  BY <1>2, <1>8, <1>9, BeginValueFormed
<1> QED
  BY <1>3, <1>10, <1>11, <1>12

LEMMA RowFormed ==
  ASSUME NEW u, NEW raw, Formed(raw, u), NEW ev \in EventRecs, ev.t <= u, ev.kind \in MouseKinds
  PROVE  Formed(HandleRow(raw, ev), u)
<1> DEFINE c == Resolve(raw, ev)
           kind == IF ev.kind = "mouse_double" THEN "double_click" ELSE "click"
           none == <<>>
           now1 == <<ev.t>>
           pressed == [Conclude(c) EXCEPT !.itemAt = now1]
           cleared == [c EXCEPT !.itemAt = none]
           S == {ev.n}
           on == TRUE
           fading == Answer(pressed, ev) = "fading"
<1>1. Formed(c, u)
  BY ResolveFormed
<1>2. ev.n \in Nat /\ ev.t \in Nat /\ ev.on \in Controls
  BY DEF EventRecs
<1>3. HandleRow(raw, ev) \in {HandleOrdinary(c, ev), Record(pressed, Step(kind, ev.on, S)),
                              Drop(cleared, ev, "no_item"), BeginValue(pressed, ev, S, on, fading),
                              Drop(c, ev, "no_item")}
  BY DEF HandleRow, RecordSelection
<1>4. /\ none \in Maybe(Nat) /\ now1 \in Maybe(Nat) /\ none = <<>> /\ now1[1] <= u
      /\ on \in BOOLEAN /\ fading \in BOOLEAN /\ S \in SUBSET Nat
      /\ kind \in StepKinds /\ "no_item" \in Reasons \cup Deliberate
  BY <1>2, One DEF Reasons, StepKinds
<1>5. ev.on \in Controls \cup {NoControl}
  BY <1>2
<1> HIDE DEF c, none, now1, kind, S, on, fading
<1>6. Formed(Conclude(c), u)
  BY <1>1, ConcludeFormed
<1>7. Formed(pressed, u) /\ Formed(cleared, u)
  BY <1>1, <1>4, <1>5, <1>6, MomentsFormed
<1> HIDE DEF pressed, cleared
<1>8. Formed(HandleOrdinary(c, ev), u)
  BY <1>1, OrdinaryFormed
<1>9. Formed(Record(pressed, Step(kind, ev.on, S)), u)
  BY <1>2, <1>4, <1>7, NewStepFormed
<1>10. Formed(Drop(cleared, ev, "no_item"), u) /\ Formed(Drop(c, ev, "no_item"), u)
  BY <1>1, <1>4, <1>7, DropFormed
<1>11. Formed(BeginValue(pressed, ev, S, on, fading), u)
  BY <1>4, <1>7, BeginValueFormed
<1> QED
  BY <1>3, <1>8, <1>9, <1>10, <1>11

LEMMA MouseFormed ==
  ASSUME NEW u, NEW raw, Formed(raw, u), NEW ev \in EventRecs, ev.t <= u, ev.kind \in MouseKinds
  PROVE  Formed(HandleMouse(raw, ev), u)
<1> DEFINE none == <<>>
           now1 == <<ev.t>>
           c == [raw EXCEPT !.menuAt = none]
           e == [Conclude(c) EXCEPT !.menuAt = now1, !.menuOn = ev.on]
           again == [c EXCEPT !.menuAt = now1]
           S == {ev.n}
<1>1. ev.n \in Nat /\ ev.t \in Nat /\ ev.on \in Controls /\ ev.on \in Controls \cup {NoControl}
  BY DEF EventRecs
<1>2. /\ none \in Maybe(Nat) /\ now1 \in Maybe(Nat) /\ none = <<>> /\ now1[1] <= u
      /\ S \in SUBSET Nat /\ "click" \in StepKinds /\ "not_found" \in Reasons \cup Deliberate
  BY <1>1, One DEF Reasons, StepKinds
<1>3. HandleMouse(raw, ev) \in {HandleMenuRelease(c, ev), HandleMenuPress(c, ev), HandleItem(c, ev)}
  BY DEF HandleMouse
<1>4. HandleMenuRelease(c, ev) \in {c, Record(c, Step("click", ev.on, S))}
  BY DEF HandleMenuRelease
<1>5. HandleMenuPress(c, ev) \in {Drop(c, ev, "not_found"), again, Record(e, Step("click", ev.on, S))}
  BY DEF HandleMenuPress
<1>6. HandleItem(c, ev) \in {FlushValue(c), HandleCombo(c, ev), HandleRow(c, ev), HandleOrdinary(c, ev)}
  BY DEF HandleItem
<1> HIDE DEF none, now1, S
<1>7. Formed(c, u)
  BY <1>1, <1>2, MomentsFormed
<1> HIDE DEF c
<1>8. Formed(Conclude(c), u)
  BY <1>7, ConcludeFormed
<1>9. Formed(e, u) /\ Formed(again, u)
  BY <1>1, <1>2, <1>7, <1>8, MomentsFormed
<1> HIDE DEF e, again
<1>10. Formed(HandleMenuRelease(c, ev), u)
  BY <1>1, <1>2, <1>4, <1>7, NewStepFormed
<1>11. Formed(HandleMenuPress(c, ev), u)
  BY <1>1, <1>2, <1>5, <1>7, <1>9, NewStepFormed, DropFormed
<1>12. Formed(HandleItem(c, ev), u)
  BY <1>6, <1>7, FlushValueFormed, ComboFormed, RowFormed, OrdinaryFormed
<1> QED
  BY <1>3, <1>10, <1>11, <1>12

LEMMA CharacterFormed ==
  ASSUME NEW u, NEW c, Formed(c, u), NEW ev \in EventRecs, Kind[ev.on] = "field"
  PROVE  Formed(HandleCharacter(c, ev), u)
<1> DEFINE other == c.typing # <<>> /\ c.typing[1].on # ev.on
           e == IF other THEN FlushInput(c) ELSE c
           run == [on |-> ev.on, of |-> {ev.n}]
           longer == [e.typing[1] EXCEPT !.of = @ \cup {ev.n}]
           next == IF e.typing = <<>> THEN run ELSE longer
           d == [e EXCEPT !.typing = <<next>>]
<1>1. Formed(e, u)
  BY ConcludeFormed
<1>2. HandleCharacter(c, ev) = d
  BY DEF HandleCharacter
<1>3. ev.on \in Controls /\ ev.n \in Nat
  BY DEF EventRecs
<1> HIDE DEF e
<1>4. e \in Captures
  BY <1>1 DEF Formed
<1>5. next \in TypingRuns /\ Kind[next.on] = "field"
  <2>1. CASE e.typing = <<>>
    BY <1>3, <2>1 DEF TypingRuns
  <2>2. CASE e.typing # <<>>
    <3>1. e.typing[1] \in TypingRuns /\ Kind[e.typing[1].on] = "field"
      BY <1>1, <1>4, <2>2, One DEF Captures, Formed
    <3>2. longer \in TypingRuns /\ longer.on = e.typing[1].on
      BY <1>3, <3>1 DEF TypingRuns
    <3> QED
      BY <2>2, <3>1, <3>2
  <2> QED
    BY <2>1, <2>2
<1> HIDE DEF next
<1>6. /\ d \in Captures /\ d.rec = e.rec /\ d.menuAt = e.menuAt /\ d.itemAt = e.itemAt
      /\ d.typing = <<next>>
  <2>1. <<next>> \in Maybe(TypingRuns)
    BY <1>5, One
  <2> QED
    BY <1>4, <2>1 DEF Captures
<1>7. d.typing[1] = next
  BY <1>6
<1> HIDE DEF d
<1>8. Formed(d, u)
  BY <1>1, <1>5, <1>6, <1>7 DEF Formed
<1> QED
  BY <1>2, <1>8

LEMMA EveryFormed ==
  ASSUME NEW u, NEW raw, Formed(raw, u), NEW ev \in EventRecs, ev.t <= u
  PROVE  Formed(Handle(raw, ev), u)
<1> DEFINE S == {ev.n}
<1>1. /\ ev.n \in Nat /\ ev.on \in Controls /\ Target(ev) \in Controls /\ ev.kind \in EventKinds
      /\ S \in SUBSET Nat
  BY FoldingAssumption DEF Target, EventRecs
<1>2. /\ "close_window" \in StepKinds /\ "shortcut" \in StepKinds /\ "key" \in StepKinds
      /\ "scrolling" \in Reasons \cup Deliberate
  BY DEF StepKinds, Deliberate
<1>3. Formed(FlushInput(raw), u) /\ Formed(Conclude(raw), u)
  BY ConcludeFormed
<1>4. Formed(HandleClose(raw, ev), u)
  <2> DEFINE b == Conclude(raw)
             c == Resolve(b, ev)
  <2>1. HandleClose(raw, ev) \in {raw, DropUnresolved(c, ev), Record(c, Step("close_window", ev.on, S))}
    BY DEF HandleClose
  <2> HIDE DEF b, S
  <2>2. Formed(c, u)
    BY <1>3, ResolveFormed DEF b
  <2> HIDE DEF c
  <2>3. Formed(DropUnresolved(c, ev), u) /\ Formed(Record(c, Step("close_window", ev.on, S)), u)
    BY <1>1, <1>2, <2>2, UnresolvedFormed, NewStepFormed
  <2> QED
    BY <2>1, <2>3
<1>5. Formed(HandleShortcut(raw, ev), u)
  <2> DEFINE b == FlushInput(raw)
             c == Resolve(b, ev)
  <2>1. HandleShortcut(raw, ev) \in {DropUnresolved(c, ev), Record(c, Step("shortcut", Target(ev), S))}
    BY DEF HandleShortcut
  <2> HIDE DEF b, S
  <2>2. Formed(c, u)
    BY <1>3, ResolveFormed DEF b
  <2> HIDE DEF c
  <2>3. Formed(DropUnresolved(c, ev), u) /\ Formed(Record(c, Step("shortcut", Target(ev), S)), u)
    BY <1>1, <1>2, <2>2, UnresolvedFormed, NewStepFormed
  <2> QED
    BY <2>1, <2>3
<1> DEFINE c == Resolve(raw, ev)
           e == FlushInput(c)
<1>6. Formed(c, u)
  BY ResolveFormed
<1>7. Formed(e, u)
  BY <1>6, ConcludeFormed
<1>8. Formed(HandleKey(raw, ev), u)
  <2>1. \/ HandleKey(raw, ev) \in {DropUnresolved(c, ev), Record(e, Step("shortcut", Target(ev), S)),
                                   Record(e, Step("key", Target(ev), S))}
        \/ HandleKey(raw, ev) = HandleCharacter(c, ev) /\ Kind[ev.on] = "field"
    BY DEF HandleKey
  <2> HIDE DEF c, e, S
  <2>2. /\ Formed(Record(e, Step("shortcut", Target(ev), S)), u)
        /\ Formed(Record(e, Step("key", Target(ev), S)), u)
    BY <1>1, <1>2, <1>7, NewStepFormed
  <2>3. Formed(DropUnresolved(c, ev), u)
    BY <1>6, UnresolvedFormed
  <2>4. Kind[ev.on] = "field" => Formed(HandleCharacter(c, ev), u)
    BY <1>6, CharacterFormed
  <2> QED
    BY <2>1, <2>2, <2>3, <2>4
<1>9. Formed(HandleWheel(raw, ev), u)
  <2> DEFINE off == FALSE
             fading == Answer(c, ev) = "fading"
  <2>1. HandleWheel(raw, ev) \in {DropUnresolved(e, ev), BeginValue(c, ev, S, off, fading),
                                  Drop(e, ev, "scrolling")}
    BY DEF HandleWheel, BeginWheelOrDrag
  <2>2. off \in BOOLEAN /\ fading \in BOOLEAN
    OBVIOUS
  <2> HIDE DEF c, e, S, off, fading
  <2>3. Formed(DropUnresolved(e, ev), u) /\ Formed(Drop(e, ev, "scrolling"), u)
    BY <1>2, <1>7, UnresolvedFormed, DropFormed
  <2>4. Formed(BeginValue(c, ev, S, off, fading), u)
    BY <1>1, <1>6, <2>2, BeginValueFormed
  <2> QED
    BY <2>1, <2>3, <2>4
<1>10. ev.kind \in MouseKinds => Formed(HandleMouse(raw, ev), u)
  BY MouseFormed
<1> QED
  BY <1>1, <1>4, <1>5, <1>8, <1>9, <1>10 DEF Handle, EventKinds, MouseKinds

LEMMA GroupFormed ==
  ASSUME NEW u, NEW c, Formed(c, u), NEW g \in Seq(EventRecs)
  PROVE  Formed([c EXCEPT !.group = g], u)
<1> DEFINE d == [c EXCEPT !.group = g]
<1>1. c \in Captures
  BY DEF Formed
<1>2. /\ d \in Captures /\ d.rec = c.rec /\ d.typing = c.typing
      /\ d.menuAt = c.menuAt /\ d.itemAt = c.itemAt
  BY <1>1 DEF Captures
<1> HIDE DEF d
<1>3. Formed(d, u)
  BY <1>2, FewerFormed
<1> QED
  BY <1>3 DEF d

LEMMA FlushGroupFormed ==
  ASSUME NEW u, NEW c, NEW L, Lived(L), Going(c, L), Formed(c, u), \A n \in 1..Len(L) : L[n].t <= u
  PROVE  Formed(FlushGroup(c), u)
<1> DEFINE g == c.group
           none == <<>>
           b == [c EXCEPT !.group = none]
<1>1. CASE g = <<>>
  BY <1>1 DEF FlushGroup
<1>2. CASE g # <<>>
  <2>1. Grouped(g, L)
    BY <1>2 DEF Going
  <2>2. g \in Seq(EventRecs) /\ none \in Seq(EventRecs)
    BY DEF Formed, Captures
  <2>3. \A n \in g[1].n..Len(L) : n \in 1..Len(L)
    BY <1>2, <2>1, <2>2, GroupFacts
  <2>4. PICK m \in g[1].n..Len(L) : MostSpecific(g) = L[m]
    BY <1>2, <2>1, <2>2, MostSpecificIsReal
  <2>5. FlushGroup(c) = Handle(b, L[m])
    BY <1>2, <2>4 DEF FlushGroup
  <2>6. L[m] \in EventRecs /\ L[m].t <= u
    <3>1. m \in 1..Len(L) /\ L \in Seq(EventRecs)
      BY <2>3 DEF Lived
    <3> QED
      BY <3>1
  <2> HIDE DEF none
  <2>7. Formed(b, u)
    BY <2>2, GroupFormed
  <2> HIDE DEF b
  <2> QED
    BY <2>5, <2>6, <2>7, EveryFormed
<1> QED
  BY <1>1, <1>2

LEMMA FeedFormed ==
  ASSUME NEW u, NEW c, NEW L, Lived(L), Going(c, L), Formed(c, u), \A n \in 1..Len(L) : L[n].t <= u,
         NEW ev \in EventRecs
  PROVE  Formed(Feed(c, ev), u)
<1> DEFINE b == IF c.group # <<>> /\ ~SameInteraction(c.group[1], ev) THEN FlushGroup(c) ELSE c
           f == Append(b.group, ev)
<1>1. Feed(c, ev) = [b EXCEPT !.group = f]
  BY DEF Feed
<1>2. Formed(b, u)
  BY FlushGroupFormed
<1> HIDE DEF b
<1>3. b.group \in Seq(EventRecs)
  BY <1>2 DEF Formed, Captures
<1>4. f \in Seq(EventRecs)
  BY <1>3
<1> HIDE DEF f
<1> QED
  BY <1>1, <1>2, <1>4, GroupFormed

LEMMA FedFormed ==
  ASSUME NEW u, NEW c, NEW L, Lived(L), Going(c, L), Ordered(c, L), Formed(c, u),
         \A n \in 1..Len(L) : L[n].t <= u, NEW ev \in EventRecs
  PROVE  Formed(FedTo(c, ev), u)
<1> DEFINE copy == [ev EXCEPT !.on = Window]
           e == Feed(c, copy)
<1>1. CASE ~(ev.kind \in MouseKinds /\ Window # NoControl)
  BY <1>1, FeedFormed DEF FedTo
<1>2. CASE ev.kind \in MouseKinds /\ Window # NoControl
  <2>1. copy \in EventRecs /\ copy.kind = ev.kind /\ copy.t = ev.t
    <3>1. Window \in Controls
      BY <1>2, CaptureAssumption
    <3> QED
      BY <3>1 DEF EventRecs
  <2>2. FedTo(c, ev) = Feed(e, ev)
    BY <1>2 DEF FedTo
  <2> HIDE DEF copy
  <2>3. Formed(e, u) /\ e.group # <<>> /\ SameInteraction(e.group[1], copy)
    BY <2>1, FeedFormed, FeedOrdered
  <2> HIDE DEF e
  <2> DEFINE f == Append(e.group, ev)
  <2>4. SameInteraction(e.group[1], ev)
    BY <2>1, <2>3 DEF SameInteraction
  <2>5. Feed(e, ev) = [e EXCEPT !.group = f]
    BY <2>3, <2>4 DEF Feed
  <2>6. e.group \in Seq(EventRecs)
    BY <2>3 DEF Formed, Captures
  <2>7. f \in Seq(EventRecs)
    BY <2>6
  <2> HIDE DEF f
  <2> QED
    BY <2>2, <2>3, <2>5, <2>7, GroupFormed
<1> QED
  BY <1>1, <1>2

\* What has happened is past.
LEMMA Past ==
  ASSUME IInv
  PROVE  now \in Nat /\ \A n \in 1..Len(log) : log[n].t <= now
<1>1. log \in Seq(EventRecs) /\ now \in Nat
  BY DEF IInv, Lived, Held
<1>2. SUFFICES ASSUME NEW n \in 1..Len(log)
               PROVE  log[n].t <= now
  BY <1>1
<1>3. Len(log) \in 1..Len(log) /\ n <= Len(log) /\ log # <<>>
  BY <1>1, <1>2, EmptySeq
<1>4. log[n] \in EventRecs /\ log[Len(log)] \in EventRecs
  BY <1>1, <1>2, <1>3
<1>5. log[n].t \in Nat /\ log[Len(log)].t \in Nat
  BY <1>4 DEF EventRecs
<1>6. log[n].t <= log[Len(log)].t /\ log[Len(log)].t <= now
  BY <1>2, <1>3 DEF IInv, Lived, Held
<1> QED
  BY <1>1, <1>5, <1>6

LEMMA InitFormed == Init => Formed(cap, now)
<1> SUFFICES ASSUME Init
             PROVE  Formed(cap, now)
  OBVIOUS
<1>1. /\ cap.rec.actions = <<Step("launch", NoControl, {})>>
      /\ cap.menuAt = <<>> /\ cap.itemAt = <<>> /\ cap.typing = <<>>
  BY DEF Init, NewCapture, NewRecording
<1>2. cap \in Captures /\ cap.rec.actions # <<>> /\ cap.rec.actions[1].kind = "launch"
  <2>1. \E h : Core(cap, log, h)
    BY InitIInv DEF IInv, Going, Init
  <2> QED
    BY <2>1 DEF Core
<1> QED
  BY <1>1, <1>2 DEF Formed

LEMMA HappensFormed ==
  ASSUME IInv, IInv', Ordered(cap, log), Formed(cap, now),
         NEW kind, NEW on, NEW key, NEW interval \in Intervals, Happens(kind, on, key, interval)
  PROVE  Formed(cap', now')
<1>1. ~done /\ Lived(log) /\ Going(cap, log) /\ Lived(log')
  BY DEF Happens, IInv
<1>2. now \in Nat /\ now' \in Nat /\ now <= now'
  <2>1. interval \in Nat /\ now' = now + interval
    BY CaptureAssumption DEF Happens
  <2> QED
    BY <2>1, Past
<1>3. PICK answer \in Known[on] :
        LET ev == [n |-> Len(log) + 1, kind |-> kind, on |-> on, t |-> now', key |-> key,
                   answer |-> answer]
        IN  log' = Append(log, ev) /\ cap' = Fed(ev)
  BY DEF Happens
<1> DEFINE ev == [n |-> Len(log) + 1, kind |-> kind, on |-> on, t |-> now', key |-> key,
                  answer |-> answer]
           old == log
           new == log'
<1>4. new = Append(old, ev) /\ cap' = Fed(ev)
  BY <1>3
<1> HIDE DEF ev
<1>5. ev \in EventRecs
  <2>1. old \in Seq(EventRecs) /\ new \in Seq(EventRecs)
    BY <1>1 DEF Lived
  <2> HIDE DEF old, new
  <2>2. new[Len(old) + 1] = ev /\ Len(old) + 1 \in 1..Len(new)
    BY <1>4, <2>1
  <2> QED
    BY <2>1, <2>2
<1>6. Formed(cap, now')
  BY <1>2, LaterFormed
<1>7. \A n \in 1..Len(log) : log[n].t <= now'
  <2>1. \A n \in 1..Len(log) : log[n].t \in Nat /\ log[n].t <= now
    <3>1. log \in Seq(EventRecs)
      BY <1>1 DEF Lived
    <3>2. \A n \in 1..Len(log) : log[n] \in EventRecs
      BY <3>1
    <3> QED
      BY <3>2, Past DEF EventRecs
  <2> QED
    BY <1>2, <2>1
<1> DEFINE u == now'
           c == cap
           d == cap'
<1>8. Formed(c, u) /\ Lived(log) /\ Going(c, log) /\ Ordered(c, log) /\ \A n \in 1..Len(log) : log[n].t <= u
  BY <1>1, <1>6, <1>7
<1>9. d = FedTo(c, ev)
  BY <1>4 DEF Fed, FedTo
<1> HIDE DEF c, d, u
<1>10. Formed(FedTo(c, ev), u)
  BY <1>5, <1>8, FedFormed
<1> QED
  BY <1>9, <1>10 DEF d, u

LEMMA NextFormed ==
  IInv /\ Ordered(cap, log) /\ Formed(cap, now) /\ IInv' /\ [Next]_vars => Formed(cap', now')
<1> SUFFICES ASSUME IInv, Ordered(cap, log), Formed(cap, now), IInv', [Next]_vars
             PROVE  Formed(cap', now')
  OBVIOUS
<1>1. CASE Press
  BY <1>1, HappensFormed DEF Press
<1>2. CASE ReleaseButton
  BY <1>2, HappensFormed DEF ReleaseButton
<1>3. CASE Double
  BY <1>3, HappensFormed DEF Double
<1>4. CASE PressKey
  BY <1>4, HappensFormed DEF PressKey
<1>5. CASE Shortcut
  BY <1>5, HappensFormed DEF Shortcut
<1>6. CASE TurnWheel
  BY <1>6, HappensFormed DEF TurnWheel
<1>7. CASE CloseWindow
  BY <1>7, HappensFormed DEF CloseWindow
<1>8. CASE FlushStale
  <2>1. ~done /\ cap' = FlushGroup(cap) /\ (now' = now \/ now' = now + StaleMs)
    BY <1>8 DEF FlushStale
  <2>2. Formed(FlushGroup(cap), now)
    BY <2>1, Past, FlushGroupFormed DEF IInv
  <2>3. now \in Nat /\ now' \in Nat /\ now <= now'
    BY <2>1, Past, CaptureAssumption
  <2> DEFINE d == FlushGroup(cap)
             u == now
             v == now'
  <2>4. Formed(d, u) /\ u \in Nat /\ v \in Nat /\ u <= v
    BY <2>2, <2>3
  <2> HIDE DEF d, u, v
  <2>5. Formed(d, v)
    BY <2>4, LaterFormed
  <2> QED
    BY <2>1, <2>5 DEF d, v
<1>9. CASE FinishSession
  <2>1. ~done /\ cap' = Conclude(FlushGroup(cap)) /\ now' = now
    BY <1>9 DEF FinishSession, Finish
  <2>2. Formed(FlushGroup(cap), now)
    BY <2>1, Past, FlushGroupFormed DEF IInv
  <2>3. Formed(Conclude(FlushGroup(cap)), now)
    BY <2>2, ConcludeFormed
  <2> QED
    BY <2>1, <2>3
<1>10. CASE UNCHANGED vars
  BY <1>10 DEF vars
<1> QED
  BY <1>1, <1>2, <1>3, <1>4, <1>5, <1>6, <1>7, <1>8, <1>9, <1>10 DEF Next

LEMMA OptionalOf ==
  ASSUME NEW S, NEW T, NEW s \in Maybe(S), s # <<>> => s[1] \in T
  PROVE  Optional(s, T)
<1>1. CASE s = <<>>
  BY <1>1 DEF Optional
<1>2. CASE s # <<>>
  <2> DEFINE x == s[1]
  <2>1. s = <<x>>
    BY <1>2, One
  <2> HIDE DEF x
  <2>2. Len(s) = 1
    BY <2>1
  <2> QED
    BY <1>2, <2>2 DEF Optional
<1> QED
  BY <1>1, <1>2

\* TypeOK: every step, gap and line is about events that happened, the press
\* that waits is one of them, no moment that a release is measured from lies
\* ahead, and a session that has been finished holds nothing back
\* (CaptureSession.finish).
THEOREM CaptureTypes == Spec => []TypeOK
<1> DEFINE Inv == IInv /\ Ordered(cap, log) /\ Formed(cap, now)
<1>1. Init => Inv
  BY InitIInv, InitOrdered, InitFormed
<1>2. Inv /\ [Next]_vars => Inv'
  BY NextIInv, NextOrdered, NextFormed
<1>3. Inv => TypeOK
  <2> SUFFICES ASSUME Inv
               PROVE  TypeOK
    OBVIOUS
  <2> DEFINE a == Steps
             drops == Gaps
             g == cap.group
  <2>1. PICK h \in 0..Len(log) : Core(cap, log, h)
    BY SessionCore
  <2>2. /\ cap \in Captures /\ log \in Seq(EventRecs) /\ Len(log) \in Nat /\ DOMAIN log = 1..Len(log)
        /\ 1..h \subseteq Events
    <3>1. cap \in Captures /\ log \in Seq(EventRecs)
      BY DEF IInv, Lived, Formed
    <3>2. Len(log) \in Nat /\ DOMAIN log = 1..Len(log)
      BY <3>1
    <3> QED
      BY <2>1, <3>1, <3>2 DEF Events
  <2>3. \A i \in DOMAIN Steps :
          /\ Steps[i].kind \in StepKinds /\ Steps[i].on \in Controls \cup {NoControl}
          /\ Steps[i].of \subseteq Events
    <3>1. a \in Seq(StepRecs) /\ Told(cap) \subseteq Events
      BY <2>1, <2>2 DEF Captures, Steps, Core, Claimed
    <3>2. \A i \in DOMAIN a : a[i] \in StepRecs /\ a[i].of \subseteq Told(cap)
      BY <3>1 DEF Told, Steps
    <3> QED
      BY <3>1, <3>2 DEF StepRecs
  <2>4. \A d \in DOMAIN Gaps : Gaps[d].reason \in Reasons /\ Gaps[d].of \in Events /\ ~Gaps[d].repaired
    <3>1. drops \in Seq(GapRecs) /\ cap.failed \subseteq Events
      BY <2>1, <2>2 DEF Captures, Gaps, Core
    <3>2. \A d \in DOMAIN drops : drops[d] \in GapRecs
      BY <3>1
    <3>3. \A d \in DOMAIN drops : drops[d].of \in cap.failed
      BY <2>1 DEF Core, Gapped, Gaps
    <3> QED
      BY <3>1, <3>2, <3>3 DEF GapRecs
  <2>5. cap.failed \subseteq Events
    BY <2>1, <2>2 DEF Core
  <2>6. \A i \in DOMAIN cap.group : cap.group[i].n \in Events
    <3>1. CASE done
      BY <3>1 DEF IInv, Over
    <3>2. CASE ~done
      <4>1. Grouped(cap.group, log)
        BY <3>2 DEF IInv, Going
      <4>2. CASE g = <<>>
        BY <4>2, DOMAIN <<>> = {}
      <4>3. CASE g # <<>>
        BY <4>1, <4>3 DEF Grouped, Reports, Events
      <4> QED
        BY <4>2, <4>3
    <3> QED
      BY <3>1, <3>2
  <2>7. Optional(cap.pending, {log[n] : n \in Events} \cup {[log[n] EXCEPT !.on = Window] : n \in Events})
    <3>1. cap.pending # <<>> =>
            cap.pending[1] \in {log[n] : n \in Events} \cup {[log[n] EXCEPT !.on = Window] : n \in Events}
      BY <2>1, <2>2 DEF Core, Waits, Events
    <3> QED
      BY <2>2, <3>1, OptionalOf DEF Captures
  <2>8. Optional(cap.menuAt, 0..now) /\ Optional(cap.itemAt, 0..now)
    <3>1. cap.menuAt \in Maybe(Nat) /\ cap.itemAt \in Maybe(Nat) /\ now \in Nat
      BY <2>2, Past DEF Captures
    <3>2. /\ cap.menuAt # <<>> => cap.menuAt[1] \in Nat /\ cap.menuAt[1] <= now
          /\ cap.itemAt # <<>> => cap.itemAt[1] \in Nat /\ cap.itemAt[1] <= now
      BY <3>1, One DEF Formed
    <3>3. /\ cap.menuAt # <<>> => cap.menuAt[1] \in 0..now
          /\ cap.itemAt # <<>> => cap.itemAt[1] \in 0..now
      BY <3>1, <3>2
    <3> QED
      BY <3>1, <3>3, OptionalOf
  <2>9. cap.menuOn \in Controls \cup {NoControl} /\ cap.cache \in [Controls -> Answers \cup {"unknown"}]
    BY <2>2 DEF Captures
  <2>10. /\ cap.typing # <<>> => Kind[cap.typing[1].on] = "field" /\ cap.typing[1].of \subseteq Events
         /\ cap.value # <<>> => cap.value[1].of \subseteq Events
    BY <2>1, <2>2 DEF Formed, Core, Claimed, Typing, Value
  <2>11. done => cap.group = <<>> /\ cap.pending = <<>> /\ cap.typing = <<>> /\ cap.value = <<>>
    BY DEF IInv, Over
  <2> QED
    BY <2>3, <2>4, <2>5, <2>6, <2>7, <2>8, <2>9, <2>10, <2>11 DEF TypeOK
<1> HIDE DEF Inv
<1> QED
  BY <1>1, <1>2, <1>3, PTL DEF Spec
=============================================================================
