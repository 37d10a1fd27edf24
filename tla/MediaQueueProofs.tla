-------------------------- MODULE MediaQueueProofs --------------------------
(****************************************************************************)
(* The handshake between the recorder and its camera, proved for every      *)
(* depth of the queue, every limit on the stills and every number of        *)
(* requests.                                                                *)
(****************************************************************************)
EXTENDS MediaQueue, SequenceTheorems, TLAPS

\* What the pieces need of each other: a name is a request already made, a
\* request in progress exists, the counter of stills never overtakes the
\* requests, and nothing is left once settle has seen an empty queue.
Requested == /\ shots <= asks
             /\ caller = "allowed" => asks \in Requests /\ shots < asks
             /\ caller = "settled" => pending = <<>> /\ hand = <<>>

IInv == TypeOK /\ Handshake /\ Requested

-----------------------------------------------------------------------------
\* A sequence is its head and its tail.
LEMMA HeadThenTail ==
  ASSUME NEW S, NEW t \in Seq(S), t # <<>>
  PROVE  <<Head(t)>> \o Tail(t) = t
<1>1. Head(t) \in S /\ Tail(t) \in Seq(S) /\ Len(Tail(t)) = Len(t) - 1 /\ Head(t) = t[1]
  BY HeadTailProperties
<1>2. <<Head(t)>> \in Seq(S) /\ Len(<<Head(t)>>) = 1 /\ <<Head(t)>>[1] = t[1]
  BY <1>1
<1>3. Len(t) \in Nat \ {0}
  BY EmptySeq
<1>4. \A i \in 1..Len(Tail(t)) : Tail(t)[i] = t[i + 1]
  BY HeadTailProperties
<1>5. /\ <<Head(t)>> \o Tail(t) \in Seq(S)
      /\ Len(<<Head(t)>> \o Tail(t)) = Len(t)
  BY <1>1, <1>2, <1>3, ConcatProperties
<1>6. \A i \in 1..Len(t) : (<<Head(t)>> \o Tail(t))[i] =
          IF i <= 1 THEN <<Head(t)>>[i] ELSE Tail(t)[i - 1]
  BY <1>1, <1>2, <1>3, ConcatProperties
<1>7. \A i \in 1..Len(t) : (<<Head(t)>> \o Tail(t))[i] = t[i]
  <2> TAKE i \in 1..Len(t)
  <2>1. CASE i = 1
    BY <2>1, <1>2, <1>6
  <2>2. CASE i # 1
    <3>1. i - 1 \in 1..Len(Tail(t)) /\ i - 1 + 1 = i /\ ~(i <= 1)
      BY <2>2, <1>1, <1>3
    <3> QED  BY <3>1, <1>4, <1>6
  <2> QED  BY <2>1, <2>2
<1> QED  BY <1>5, <1>7, SeqEqual

\* Taking the front of the queue in hand leaves the whole line as it was.
LEMMA TakeInHand ==
  ASSUME NEW S, NEW s \in Seq(S), NEW t \in Seq(S), t # <<>>
  PROVE  s \o <<>> \o t = s \o <<Head(t)>> \o Tail(t)
<1>1. Head(t) \in S /\ Tail(t) \in Seq(S) /\ <<Head(t)>> \in Seq(S)
  BY HeadTailProperties
<1>2. s \o <<>> = s
  BY ConcatEmptySeq
<1> QED  BY <1>1, <1>2, HeadThenTail, ConcatAssociative

\* What a worker can have in hand is one name.
LEMMA OneElement ==
  ASSUME NEW S, NEW h \in Seq(S), h # <<>>, Len(h) <= 1
  PROVE  Len(h) = 1 /\ h[1] \in S /\ h = <<h[1]>>
<1>1. Len(h) \in Nat \ {0}
  BY EmptySeq
<1>2. Len(h) \in Nat /\ Len(h) # 0
  BY <1>1
<1>3. Len(h) = 1
  BY <1>2
<1>4. h[1] \in S
  BY <1>3
<1> QED  BY <1>3, <1>4

\* Counting off what is in hand leaves the whole line as it was.
LEMMA CountInHand ==
  ASSUME NEW S, NEW s \in Seq(S), NEW h \in Seq(S), Len(h) <= 1, h # <<>>,
         NEW t \in Seq(S)
  PROVE  /\ h[1] \in S
         /\ s \o h \o t = Append(s, h[1]) \o <<>> \o t
<1>1. Len(h) = 1 /\ h[1] \in S /\ h = <<h[1]>>
  BY OneElement
<1>3. Append(s, h[1]) = s \o h
  BY <1>1, AppendIsConcat
<1>4. s \o h \in Seq(S)
  BY ConcatProperties
<1> QED  BY <1>1, <1>3, <1>4, ConcatEmptySeq

-----------------------------------------------------------------------------
LEMMA InitIInv == Init => IInv
<1> SUFFICES ASSUME Init PROVE IInv
  OBVIOUS
<1> USE MediaAssumption DEF Init
<1>1. TypeOK
  <2>1. <<>> \in Seq(Requests) /\ Len(<<>>) = 0
    BY EmptySeq
  <2>2. /\ pending \in Seq(Requests) /\ hand \in Seq(Requests) /\ Len(hand) <= 1
        /\ accepted \in Seq(Requests) /\ served \in Seq(Requests)
    BY <2>1
  <2>3. asks \in 0..MaxAsks /\ shots \in 0..MaxAsks /\ queued \in 0..QueueDepth
    OBVIOUS
  <2> QED  BY <2>2, <2>3 DEF TypeOK
<1>2. Handshake
  <2>1. <<>> \o <<>> \o <<>> = <<>>
    BY ConcatEmptySeq, EmptySeq
  <2> QED  BY <2>1, EmptySeq DEF Handshake, NobodyLeftBehind, QueueCounts, LineInOrder
<1>3. Requested
  BY DEF Requested
<1> QED  BY <1>1, <1>2, <1>3 DEF IInv

\* Handing out a name keeps the invariant: the name is new at the end of the
\* line, it counts, and a worker runs.
LEMMA EnqueueIInv == IInv /\ Enqueue => IInv'
<1> SUFFICES ASSUME IInv, Enqueue PROVE IInv'
  OBVIOUS
<1> USE MediaAssumption DEF IInv, Enqueue, QueueName, workerVars
<1>1. asks \in Requests /\ shots < asks /\ asks \in 0..MaxAsks
  BY DEF Requested, TypeOK
<1>2. pending \in Seq(Requests) /\ served \in Seq(Requests) /\ hand \in Seq(Requests)
  BY DEF TypeOK
<1>3. Len(Append(pending, asks)) = Len(pending) + 1 /\ Append(pending, asks) # <<>>
  BY <1>1, <1>2, AppendProperties, EmptySeq
<1>4. TypeOK'
  <2>1. pending' \in Seq(Requests) /\ accepted' \in Seq(Requests)
    BY <1>1 DEF TypeOK
  <2>2. shots' \in 0..MaxAsks /\ queued' \in 0..QueueDepth
    BY <1>1 DEF TypeOK
  <2> QED  BY <1>1, <2>1, <2>2 DEF TypeOK
<1>5. Handshake'
  <2>1. NobodyLeftBehind'
    BY DEF NobodyLeftBehind
  <2>2. QueueCounts'
    <3>1. queued = Len(pending) + Len(hand) /\ Len(hand) \in Nat /\ Len(pending) \in Nat
      BY <1>2, LenProperties DEF Handshake, QueueCounts
    <3> QED  BY <3>1, <1>3 DEF QueueCounts
  <2>3. LineInOrder'
    <3>1. Append(served \o hand \o pending, asks) = served \o hand \o Append(pending, asks)
      <4>1. <<asks>> \in Seq(Requests)
        BY <1>1
      <4>2. served \o hand \in Seq(Requests) /\ served \o hand \o pending \in Seq(Requests)
        BY ONLY <1>2, ConcatProperties
      <4>3. (served \o hand \o pending) \o <<asks>> = (served \o hand) \o (pending \o <<asks>>)
        BY ONLY <1>2, <4>1, <4>2, ConcatAssociative
      <4> QED  BY ONLY <1>1, <1>2, <4>2, <4>3, AppendIsConcat
    <3> QED  BY <3>1 DEF Handshake, LineInOrder
  <2> QED  BY <2>1, <2>2, <2>3 DEF Handshake
<1>6. Requested'
  BY <1>1 DEF Requested, TypeOK
<1> QED  BY <1>4, <1>5, <1>6

\* The worker's steps move names along the line and never leave it with names
\* and nobody running.
LEMMA WorkerIInv == IInv /\ Worker => IInv'
<1> SUFFICES ASSUME IInv, Worker PROVE IInv'
  OBVIOUS
<1> USE MediaAssumption DEF IInv, callerVars, workerVars
<1>1. /\ pending \in Seq(Requests) /\ served \in Seq(Requests) /\ hand \in Seq(Requests)
      /\ Len(pending) \in Nat /\ Len(hand) \in Nat
      /\ queued = Len(pending) + Len(hand) /\ queued \in 0..QueueDepth
      /\ accepted = served \o hand \o pending
  BY LenProperties DEF TypeOK, Handshake, QueueCounts, LineInOrder
<1>2. CASE Leave
  BY <1>2 DEF Leave, TypeOK, Handshake, NobodyLeftBehind, QueueCounts, LineInOrder, Requested
<1>3. CASE PopLeft
  <2> USE <1>3 DEF PopLeft, TakeOut
  <2>1. /\ Head(pending) \in Requests /\ Tail(pending) \in Seq(Requests)
        /\ Len(Tail(pending)) = Len(pending) - 1 /\ Len(hand') = 1 /\ Len(hand) = 0
        /\ hand' \in Seq(Requests) /\ hand' # <<>>
    BY <1>1, HeadTailProperties, EmptySeq
  <2>2. TypeOK'
    <3>1. Len(hand') <= 1
      BY <2>1
    <3> QED  BY <2>1, <3>1 DEF TypeOK
  <2>3. NobodyLeftBehind' /\ QueueCounts'
    BY <1>1, <2>1 DEF NobodyLeftBehind, QueueCounts
  <2>4. LineInOrder'
    BY <1>1, <2>1, TakeInHand DEF LineInOrder
  <2>5. Requested'
    BY DEF Requested
  <2> QED  BY <2>2, <2>3, <2>4, <2>5 DEF Handshake
<1>4. ASSUME NEW worked \in BOOLEAN, Grab(worked) PROVE IInv'
  <2> USE <1>4 DEF Grab
  <2>1. hand # <<>> /\ Len(hand) <= 1
    BY DEF TypeOK
  <2>2. hand[1] \in Requests
    BY ONLY <1>1, <2>1, CountInHand
  <2>3. TypeOK'
    BY <2>2 DEF TypeOK
  <2> QED
    BY <2>3 DEF Handshake, NobodyLeftBehind, QueueCounts, LineInOrder, Requested
<1>5. CASE CountOff
  <2> USE <1>5 DEF CountOff
  <2>0. hand # <<>> /\ Len(hand) <= 1 /\ hand \in Seq(Requests) /\ served \in Seq(Requests)
        /\ pending \in Seq(Requests)
    BY DEF TypeOK
  <2>1. hand[1] \in Requests /\ served \o hand \o pending = Append(served, hand[1]) \o <<>> \o pending
    BY ONLY <2>0, CountInHand
  <2>2. Len(hand) = 1 /\ Len(hand') = 0 /\ hand' \in Seq(Requests)
    <3>1. Len(hand) = 1
      BY ONLY <2>0, OneElement
    <3> QED  BY <3>1, EmptySeq
  <2>3. TypeOK'
    BY <1>1, <2>1, <2>2 DEF TypeOK
  <2>4. NobodyLeftBehind' /\ QueueCounts'
    BY <1>1, <2>2 DEF Handshake, NobodyLeftBehind, QueueCounts
  <2>5. LineInOrder'
    BY <1>1, <2>1 DEF LineInOrder
  <2>6. Requested'
    BY DEF Requested
  <2> QED  BY <2>3, <2>4, <2>5, <2>6 DEF Handshake
<1> QED  BY <1>2, <1>3, <1>4, <1>5 DEF Worker

\* No other step of the caller touches the line.
LEMMA CallerIInv == IInv /\ Caller => IInv'
<1> SUFFICES ASSUME IInv, Caller PROVE IInv'
  OBVIOUS
<1> USE MediaAssumption DEF IInv, workerVars
<1> DEFINE Aside == UNCHANGED <<pending, queued, worker, accepted, workerVars>>
<1>1. Aside => Handshake'
  BY DEF Handshake, NobodyLeftBehind, QueueCounts, LineInOrder
<1>2. CASE Ask
  BY <1>1, <1>2 DEF Ask, TypeOK, Requested, Requests
<1>3. CASE Skip
  BY <1>1, <1>3 DEF Skip, TypeOK, Requested
<1>4. CASE Enqueue
  BY <1>4, EnqueueIInv
<1>5. CASE TakeNow
  BY <1>1, <1>5 DEF TakeNow, TypeOK, Requested
<1>6. CASE BeginSettle
  BY <1>1, <1>6 DEF BeginSettle, TypeOK, Requested
<1>7. CASE Settled
  <2>1. pending = <<>> /\ hand = <<>>
    BY <1>7, LenProperties, EmptySeq DEF Settled, TypeOK, Handshake, QueueCounts
  <2> QED  BY <1>1, <1>7, <2>1 DEF Settled, TypeOK, Requested
<1>8. CASE GiveUp
  BY <1>1, <1>8 DEF GiveUp, TypeOK, Requested
<1>9. CASE ForgetMissing
  BY <1>1, <1>9 DEF ForgetMissing, TypeOK, Requested
<1> QED
  BY <1>2, <1>3, <1>4, <1>5, <1>6, <1>7, <1>8, <1>9 DEF Caller

LEMMA NextIInv == IInv /\ [Next]_vars => IInv'
<1> SUFFICES ASSUME IInv, [Next]_vars PROVE IInv'
  OBVIOUS
<1>1. CASE UNCHANGED vars
  BY <1>1 DEF IInv, vars, TypeOK, Handshake, NobodyLeftBehind, QueueCounts,
     LineInOrder, Requested
<1> QED  BY <1>1, CallerIInv, WorkerIInv DEF Next

-----------------------------------------------------------------------------
\* Every variable keeps its range; above all the count of queued names never
\* passes the depth of the queue (media.py:332) and never goes below zero.
THEOREM TypeCorrect == Spec => []TypeOK
<1>1. IInv => TypeOK
  BY DEF IInv
<1> QED  BY <1>1, InitIInv, NextIInv, PTL DEF Spec

\* The handshake: a name that waits has a running worker, the count is exact,
\* and the names handed out are those served, in hand and waiting, in order
\* (media.py:318-366).
THEOREM HandshakeHolds == Spec => []Handshake
<1>1. IInv => Handshake
  BY DEF IInv
<1> QED  BY <1>1, InitIInv, NextIInv, PTL DEF Spec

\* After settle has seen an empty queue no picture arrives any more
\* (media.py:368-375).
THEOREM SettledMeansDone == Spec => NoLateStill
<1>1. IInv /\ [Next]_vars => [caller = "settled" => files' = files]_vars
  <2> SUFFICES ASSUME IInv, Next, caller = "settled" PROVE files' = files
    BY DEF vars
  <2>1. hand = <<>>
    BY DEF IInv, Requested
  <2>2. CASE Caller
    BY <2>2 DEF Caller, Ask, Skip, Enqueue, QueueName, TakeNow, BeginSettle, Settled,
       GiveUp, ForgetMissing, workerVars
  <2>3. CASE Worker
    BY <2>1, <2>3 DEF Worker, Leave, PopLeft, TakeOut, Grab, CountOff, workerVars
  <2> QED  BY <2>2, <2>3 DEF Next
<1> QED  BY <1>1, InitIInv, NextIInv, PTL DEF Spec, NoLateStill

-----------------------------------------------------------------------------
\* The two threads keep the promise of StillLine, whatever they interleave:
\* each of their steps hands out a name with room for it, serves the one that
\* has waited longest, or leaves the line alone.  (That every name is served in
\* the end is liveness and stays with TLC.)
THEOREM KeepsTheLineSafely == Spec => Line!Init /\ [][Line!Next]_(Line!vars)
<1>1. Init => Line!Init
  BY DEF Init, Line!Init
<1>2. IInv /\ [Next]_vars => [Line!Next]_(Line!vars)
  <2> SUFFICES ASSUME IInv, [Next]_vars PROVE [Line!Next]_(Line!vars)
    OBVIOUS
  <2> USE DEF Line!vars
  <2>1. /\ pending \in Seq(Requests) /\ served \in Seq(Requests) /\ hand \in Seq(Requests)
        /\ served \o hand \in Seq(Requests)
        /\ accepted = served \o hand \o pending
    BY ConcatProperties DEF IInv, TypeOK, Handshake, LineInOrder
  <2>2. /\ Len(accepted) = Len(served) + Len(hand) + Len(pending)
        /\ Len(served) \in Nat /\ Len(hand) \in Nat /\ Len(pending) \in Nat
    BY <2>1, ConcatProperties, LenProperties
  <2>3. CASE Enqueue
    <3>1. asks \in Requests /\ accepted' = Append(accepted, asks) /\ UNCHANGED served
      BY <2>3 DEF IInv, Requested, Enqueue, QueueName, workerVars
    <3>2. Len(accepted) < Len(served) + QueueDepth
      BY <2>2, <2>3, MediaAssumption DEF IInv, Handshake, QueueCounts, Enqueue, TypeOK
    <3> QED  BY <3>1, <3>2 DEF Line!Next, Line!Accept
  <2>4. CASE CountOff
    <3> USE <2>4 DEF CountOff, callerVars
    <3>1. hand # <<>> /\ Len(hand) <= 1
      BY DEF IInv, TypeOK
    <3>2. Len(hand) = 1
      BY ONLY <2>1, <3>1, OneElement
    <3>3. (served \o hand)[Len(served) + 1] = hand[1]
      BY <2>1, <2>2, <3>2, ConcatProperties
    <3>4. accepted[Len(served) + 1] = hand[1]
      <4>1. Len(served) + 1 <= Len(served \o hand)
            /\ Len(served) + 1 \in 1..(Len(served \o hand) + Len(pending))
        BY <2>1, <2>2, <3>2, ConcatProperties
      <4> QED  BY <2>1, <3>3, <4>1, ConcatProperties
    <3>5. Len(served) < Len(accepted)
      BY <2>2, <3>2
    <3> QED  BY <3>4, <3>5 DEF Line!Next, Line!Serve
  <2>5. CASE ~Enqueue /\ ~CountOff
    BY <2>5 DEF Next, Caller, Ask, Skip, TakeNow, BeginSettle, Settled, GiveUp,
       ForgetMissing, Worker, Leave, PopLeft, TakeOut, Grab, vars, callerVars, workerVars
  <2> QED  BY <2>3, <2>4, <2>5
<1> QED  BY <1>1, <1>2, InitIInv, NextIInv, PTL DEF Spec
=============================================================================
