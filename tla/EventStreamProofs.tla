-------------------------- MODULE EventStreamProofs --------------------------
(****************************************************************************)
(* Proofs about EventStream: for any number of events, any size of the      *)
(* queue and any number of attempts to connect, what the person did is      *)
(* reported in order, and the application, its writer, the wire and the     *)
(* receiver together are one line feed.                                     *)
(****************************************************************************)
EXTENDS EventStream, ListLemmas

InOrder(s) ==
  \A i, j \in 1..Len(s) :
    i < j /\ s[i].by = "person" /\ s[j].by = "person" => s[i].act < s[j].act

\* All that a person did among these lines was done before the n-th thing.
Below(s, n) == \A i \in 1..Len(s) : s[i].by = "person" => s[i].act < n

Reported == said \o toSay

\* What is held, and what a QML window is handing on, comes after all that is
\* reported already; nothing is held while a key waits for its item.
Order == /\ InOrder(Reported)
         /\ Below(Reported, acts + 1)
         /\ held.by = "person" => held.act <= acts /\ Below(Reported, held.act)
         /\ dispatching => acts # 0
         /\ dispatching /\ pending # "none" => Below(Reported, acts)
         /\ pending = "key" => held = Nothing

\* Nothing is sent or accepted before the writer is connected, and what waits in
\* the receiver's buffer is no end of a line.
Carriage == /\ writer.at = "connecting" => wire = <<>> /\ buffer = <<>> /\ server # "serving"
            /\ buffer # <<>> => ~ buffer[1].last

IInv == TypeOK /\ Order /\ Carriage

-----------------------------------------------------------------------------
(* Lines put in order.                                                      *)

LEMMA OneMoreInOrder ==
  ASSUME NEW s \in Seq(Lines), NEW l \in Lines, InOrder(s),
         l.by = "person" => Below(s, l.act)
  PROVE  InOrder(Append(s, l))
<1> DEFINE t == Append(s, l)
<1>1. /\ Len(s) \in Nat /\ Len(t) = Len(s) + 1 /\ t[Len(s) + 1] = l
      /\ \A i \in 1..Len(s) : t[i] = s[i]
  BY AppendProperties
<1> HIDE DEF t
<1>2. ASSUME NEW i \in 1..Len(t), NEW j \in 1..Len(t), i < j,
             t[i].by = "person", t[j].by = "person"
      PROVE  t[i].act < t[j].act
  <2>1. i \in 1..Len(s) /\ t[i] = s[i]
    BY <1>1, <1>2
  <2>2. CASE j \in 1..Len(s)
    BY <1>1, <1>2, <2>1, <2>2 DEF InOrder
  <2>3. CASE j = Len(s) + 1
    BY <1>1, <1>2, <2>1, <2>3 DEF Below
  <2> QED
    BY <1>1, <2>2, <2>3
<1> QED
  BY <1>2 DEF InOrder, t

LEMMA OneMoreBelow ==
  ASSUME NEW s \in Seq(Lines), NEW l \in Lines, NEW n, Below(s, n),
         l.by = "person" => l.act < n
  PROVE  Below(Append(s, l), n)
<1> DEFINE t == Append(s, l)
<1>1. /\ Len(s) \in Nat /\ Len(t) = Len(s) + 1 /\ t[Len(s) + 1] = l
      /\ \A i \in 1..Len(s) : t[i] = s[i]
  BY AppendProperties
<1> HIDE DEF t
<1>2. ASSUME NEW i \in 1..Len(t), t[i].by = "person"
      PROVE  t[i].act < n
  <2>1. CASE i \in 1..Len(s)
    BY <1>1, <1>2, <2>1 DEF Below
  <2>2. CASE i = Len(s) + 1
    BY <1>1, <1>2, <2>2
  <2> QED
    BY <1>1, <2>1, <2>2
<1> QED
  BY <1>2 DEF Below, t

LEMMA PersonHasActed ==
  ASSUME NEW l \in Lines, l.by = "person"
  PROVE  l.act \in Nat
BY DEF Lines, Hello

LEMMA StillBelow ==
  ASSUME NEW s \in Seq(Lines), NEW m \in Nat, NEW n \in Nat, m <= n, Below(s, m)
  PROVE  Below(s, n)
<1>1. ASSUME NEW i \in 1..Len(s), s[i].by = "person"
      PROVE  s[i].act < n
  <2>1. s[i] \in Lines /\ s[i].act < m
    BY <1>1 DEF Below
  <2>2. s[i].act \in Nat
    BY <1>1, <2>1, PersonHasActed
  <2> QED
    BY <2>1, <2>2
<1> QED
  BY <1>1 DEF Below

\* What is held goes behind what is reported.
Told == IF held = Nothing THEN said ELSE Append(said, held)

LEMMA HeldComesFirst ==
  ASSUME TypeOK, Order, toSay = <<>>
  PROVE  /\ Reported = said /\ said \o Flushed = Told /\ Flushed \in Seq(Lines)
         /\ Told \in Seq(Lines) /\ InOrder(Told) /\ Below(Told, acts + 1)
<1>1. said \in Seq(Lines) /\ acts \in Nat /\ held \in Lines \cup {Nothing}
  <2>1. said \in Seq(Lines) /\ acts \in 0..MaxActs /\ held \in Lines \cup {Nothing}
    BY DEF TypeOK, FilterTypes
  <2> QED
    BY <2>1
<1>2. said \o <<>> = said
  BY <1>1, ConcatEmptySeq
<1>3. Reported = said
  BY <1>2 DEF Reported
<1>4. CASE held = Nothing
  BY <1>1, <1>2, <1>3, <1>4 DEF Order, Told, Flushed
<1>5. CASE held # Nothing
  <2>1. held \in Lines /\ Told = Append(said, held) /\ Told \in Seq(Lines)
        /\ Flushed = <<held>> /\ said \o <<held>> = Append(said, held) /\ <<held>> \in Seq(Lines)
    BY <1>1, <1>5, AppendProperties, AppendIsConcat DEF Told, Flushed
  <2>2. /\ held.by = "person" => Below(said, held.act) /\ held.act <= acts
        /\ InOrder(said) /\ Below(said, acts + 1)
    BY <1>3 DEF Order
  <2>3. InOrder(Append(said, held))
    BY <1>1, <2>1, <2>2, OneMoreInOrder
  <2>4. held.by = "person" => held.act < acts + 1
    BY <1>1, <2>1, <2>2, PersonHasActed
  <2>5. Below(Append(said, held), acts + 1)
    BY <1>1, <2>1, <2>2, <2>4, OneMoreBelow
  <2> QED
    BY <1>3, <2>1, <2>3, <2>5
<1> QED
  BY <1>4, <1>5

-----------------------------------------------------------------------------
(* The filter.                                                              *)

LEMMA LineTypes ==
  ASSUME TypeOK, acts + codes < MaxActs
  PROVE  /\ acts + 1 \in 0..MaxActs /\ codes + 1 \in 0..MaxActs
         /\ Line("person") \in Lines /\ Line("shortcut") \in Lines /\ Line("code") \in Lines
<1>1. acts \in 0..MaxActs /\ codes \in 0..MaxActs /\ MaxActs \in Nat
  BY StreamAssumption DEF TypeOK, FilterTypes
<1>2. acts + 1 \in 1..MaxActs /\ codes + 1 \in 1..MaxActs
  BY <1>1
<1>3. /\ Line("person") = [act |-> acts + 1, by |-> "person"]
      /\ Line("shortcut") = [act |-> acts + 1, by |-> "shortcut"]
      /\ Line("code") = [act |-> codes + 1, by |-> "code"]
  BY DEF Line
<1> QED
  BY <1>2, <1>3 DEF Lines

\* Whatever the filter handles keeps its ranges.
LEMMA FilterTypesStep ==
  ASSUME TypeOK, Order, Handles
  PROVE  FilterTypes'
<1>1. /\ acts \in 0..MaxActs /\ codes \in 0..MaxActs
      /\ pending \in {"none"} \cup Kinds /\ held \in Lines \cup {Nothing}
  BY DEF TypeOK, FilterTypes
<1>2. recent \in BOOLEAN /\ timer \in BOOLEAN /\ dispatching \in BOOLEAN
  BY DEF TypeOK, FilterTypes
<1>3. /\ Flushed \in Seq(Lines) /\ <<>> \in Seq(Lines)
      /\ \A l \in Lines : <<l>> \in Seq(Lines) /\ Append(Flushed, l) \in Seq(Lines)
  <2>1. Flushed \in Seq(Lines)
    <3>1. CASE held = Nothing
      BY <3>1, EmptySeq DEF Flushed
    <3>2. CASE held # Nothing
      BY <3>2, <1>1 DEF Flushed
    <3> QED
      BY <3>1, <3>2
  <2> QED
    BY <2>1, AppendProperties
<1>4. dispatching => [act |-> acts, by |-> "person"] \in Lines
  <2>1. dispatching => acts \in 1..MaxActs
    BY <1>1, StreamAssumption DEF Order
  <2> QED
    BY <2>1 DEF Lines
<1> DEFINE Sized == /\ acts' \in 0..MaxActs /\ codes' \in 0..MaxActs
                    /\ pending' \in {"none"} \cup Kinds /\ held' \in Lines \cup {Nothing}
           Marked == recent' \in BOOLEAN /\ timer' \in BOOLEAN /\ dispatching' \in BOOLEAN
<1>5. CASE ToWidget
  <2>0. /\ acts + 1 \in 0..MaxActs /\ codes + 1 \in 0..MaxActs
        /\ Line("person") \in Lines /\ Line("shortcut") \in Lines /\ Line("code") \in Lines
    BY <1>5, LineTypes DEF ToWidget, Acts
  <2>1. Sized
    BY <1>1, <2>0, <1>5 DEF ToWidget, Acts
  <2>2. Marked
    BY <1>2, <1>5 DEF ToWidget, Acts
  <2>3. toSay' \in Seq(Lines)
    BY <1>3, <2>0, <1>5 DEF ToWidget, Acts
  <2> QED
    BY <2>1, <2>2, <2>3 DEF FilterTypes
<1>6. CASE Close
  <2>0. /\ acts + 1 \in 0..MaxActs /\ codes + 1 \in 0..MaxActs
        /\ Line("person") \in Lines /\ Line("shortcut") \in Lines /\ Line("code") \in Lines
    BY <1>6, LineTypes DEF Close, Acts
  <2>1. Sized
    BY <1>1, <2>0, <1>6 DEF Close, Acts
  <2>2. Marked
    BY <1>2, <1>6 DEF Close, Acts
  <2>3. toSay' \in Seq(Lines)
    BY <1>3, <2>0, <1>6 DEF Close, Acts
  <2> QED
    BY <2>1, <2>2, <2>3 DEF FilterTypes
<1>7. ASSUME NEW kind \in Kinds, ToQuickWindow(kind)
      PROVE  FilterTypes'
  <2>0. /\ acts + 1 \in 0..MaxActs /\ codes + 1 \in 0..MaxActs
        /\ Line("person") \in Lines /\ Line("shortcut") \in Lines /\ Line("code") \in Lines
    BY <1>7, LineTypes DEF ToQuickWindow, Acts
  <2>1. Sized
    BY <1>1, <2>0, <1>7 DEF ToQuickWindow, Acts
  <2>2. Marked
    BY <1>2, <1>7 DEF ToQuickWindow, Acts
  <2>3. toSay' \in Seq(Lines)
    BY <1>3, <2>0, <1>7 DEF ToQuickWindow, Acts
  <2> QED
    BY <2>1, <2>2, <2>3 DEF FilterTypes
<1>8. CASE ToItem
  <2>1. Sized
    BY <1>1, <1>4, <1>8 DEF ToItem, Item, ItemKey, ItemMouse
  <2>2. Marked
    BY <1>2, <1>8 DEF ToItem, Item, ItemKey, ItemMouse
  <2>3. toSay' \in Seq(Lines)
    BY <1>3, <1>4, <1>8 DEF ToItem, Item, ItemKey, ItemMouse
  <2> QED
    BY <2>1, <2>2, <2>3 DEF FilterTypes
<1>9. CASE Delivered
  <2>1. Sized
    BY <1>1, <1>9 DEF Delivered
  <2>2. Marked
    BY <1>2, <1>9 DEF Delivered
  <2>3. toSay' \in Seq(Lines)
    BY <1>3, <1>9 DEF Delivered
  <2> QED
    BY <2>1, <2>2, <2>3 DEF FilterTypes
<1>10. CASE FromCode
  <2>0. /\ acts + 1 \in 0..MaxActs /\ codes + 1 \in 0..MaxActs
        /\ Line("person") \in Lines /\ Line("shortcut") \in Lines /\ Line("code") \in Lines
    BY <1>10, LineTypes DEF FromCode, Sends
  <2>1. Sized
    BY <1>1, <2>0, <1>10 DEF FromCode, Sends, Item, ItemKey, ItemMouse
  <2>2. Marked
    BY <1>2, <1>10 DEF FromCode, Sends, Item, ItemKey, ItemMouse
  <2>3. toSay' \in Seq(Lines)
    BY <1>3, <2>0, <1>10 DEF FromCode, Sends, Item, ItemKey, ItemMouse
  <2> QED
    BY <2>1, <2>2, <2>3 DEF FilterTypes
<1>11. CASE Shortcut
  <2>0. /\ acts + 1 \in 0..MaxActs /\ codes + 1 \in 0..MaxActs
        /\ Line("person") \in Lines /\ Line("shortcut") \in Lines /\ Line("code") \in Lines
    BY <1>11, LineTypes DEF Shortcut, Acts
  <2>1. Sized
    BY <1>1, <2>0, <1>11 DEF Shortcut, Acts
  <2>2. Marked
    BY <1>2, <1>11 DEF Shortcut, Acts
  <2>3. toSay' \in Seq(Lines)
    BY <1>3, <2>0, <1>11 DEF Shortcut, Acts
  <2> QED
    BY <2>1, <2>2, <2>3 DEF FilterTypes
<1>12. CASE ShortcutFromCode
  <2>0. /\ acts + 1 \in 0..MaxActs /\ codes + 1 \in 0..MaxActs
        /\ Line("person") \in Lines /\ Line("shortcut") \in Lines /\ Line("code") \in Lines
    BY <1>12, LineTypes DEF ShortcutFromCode, Sends
  <2>1. Sized
    BY <1>1, <2>0, <1>12 DEF ShortcutFromCode, Sends
  <2>2. Marked
    BY <1>2, <1>12 DEF ShortcutFromCode, Sends
  <2>3. toSay' \in Seq(Lines)
    BY <1>3, <2>0, <1>12 DEF ShortcutFromCode, Sends
  <2> QED
    BY <2>1, <2>2, <2>3 DEF FilterTypes
<1>13. CASE ZeroTimer
  <2>1. Sized
    BY <1>1, <1>13 DEF ZeroTimer
  <2>2. Marked
    BY <1>2, <1>13 DEF ZeroTimer
  <2>3. toSay' \in Seq(Lines)
    BY <1>3, <1>13 DEF ZeroTimer
  <2> QED
    BY <2>1, <2>2, <2>3 DEF FilterTypes
<1>14. CASE Lapse
  <2>1. Sized
    BY <1>1, <1>14 DEF Lapse
  <2>2. Marked
    BY <1>2, <1>14 DEF Lapse
  <2>3. toSay' \in Seq(Lines)
    BY <1>3, <1>14 DEF Lapse
  <2> QED
    BY <2>1, <2>2, <2>3 DEF FilterTypes
<1> QED
  BY <1>5, <1>6, <1>7, <1>8, <1>9, <1>10, <1>11, <1>12, <1>13, <1>14 DEF Handles

\* What the filter can give the queue, behind what it gave before.
LEMMA TellPerson ==
  ASSUME TypeOK, Order, toSay = <<>>, acts + codes < MaxActs
  PROVE  /\ InOrder(said \o Append(Flushed, Line("person")))
         /\ Below(said \o Append(Flushed, Line("person")), acts + 2)
         /\ Below(said \o Flushed, acts + 2)
<1> DEFINE P == Line("person")
<1>1. /\ said \in Seq(Lines) /\ Flushed \in Seq(Lines) /\ said \o Flushed = Told
      /\ Told \in Seq(Lines) /\ InOrder(Told) /\ Below(Told, acts + 1)
  <2>1. said \in Seq(Lines)
    BY DEF TypeOK
  <2> QED
    BY <2>1, HeldComesFirst
<1>2. P \in Lines /\ P.act = acts + 1 /\ acts + 1 \in Nat /\ acts + 2 \in Nat /\ acts + 1 < acts + 2
  <2>1. acts \in 0..MaxActs
    BY DEF TypeOK, FilterTypes
  <2> QED
    BY <2>1, LineTypes DEF Line
<1> HIDE DEF P
<1>3. said \o Append(Flushed, P) = Append(Told, P)
  BY <1>1, <1>2, ConcatAppend, SMTT(20)
<1>4. InOrder(Append(Told, P))
  BY <1>1, <1>2, OneMoreInOrder
<1>5. Below(Told, acts + 2)
  BY <1>1, <1>2, StillBelow
<1>6. Below(Append(Told, P), acts + 2)
  BY <1>2, <1>5, <1>1, OneMoreBelow
<1> QED
  BY <1>1, <1>3, <1>4, <1>5, <1>6 DEF P

LEMMA TellOne ==
  ASSUME TypeOK, Order, toSay = <<>>, NEW l \in Lines, l.by = "person" => Below(said, l.act)
  PROVE  /\ InOrder(said \o <<l>>)
         /\ \A n : Below(said, n) /\ (l.by = "person" => l.act < n) => Below(said \o <<l>>, n)
<1>1. said \in Seq(Lines) /\ said \o <<l>> = Append(said, l)
  <2>1. said \in Seq(Lines)
    BY DEF TypeOK
  <2> QED
    BY <2>1, AppendIsConcat
<1>2. InOrder(said)
  BY HeldComesFirst DEF Order
<1> QED
  BY <1>1, <1>2, OneMoreInOrder, OneMoreBelow

\* The order survives whatever the filter handles: a window's next event sends
\* what is held before it, and an item is reported for the window's last.
LEMMA OrderStep ==
  ASSUME TypeOK, Order, Handles, said' = said
  PROVE  Order'
<1>1. toSay = <<>>
  BY DEF Handles, Acts, Sends, Free, ToWidget, Close, ToQuickWindow, ToItem, Delivered, FromCode, Shortcut,
         ShortcutFromCode, ZeroTimer, Lapse
<1>2. /\ Reported = said /\ said \in Seq(Lines) /\ said \o <<>> = said
      /\ InOrder(said) /\ Below(said, acts + 1)
      /\ InOrder(said \o Flushed) /\ Below(said \o Flushed, acts + 1)
  <2>1. said \in Seq(Lines)
    BY DEF TypeOK
  <2>2. Reported = said /\ said \o Flushed = Told /\ InOrder(Told) /\ Below(Told, acts + 1)
    BY <1>1, HeldComesFirst
  <2> QED
    BY <2>1, <2>2, ConcatEmptySeq DEF Order
<1>3. /\ acts \in Nat /\ codes \in Nat /\ acts + 1 \in Nat /\ acts + 2 \in Nat /\ acts < acts + 1
      /\ acts + 1 < acts + 2 /\ (acts + 1) + 1 = acts + 2
  <2>1. acts \in 0..MaxActs /\ codes \in 0..MaxActs
    BY DEF TypeOK, FilterTypes
  <2> QED
    BY <2>1
<1>4. /\ held.by = "person" => held.act <= acts /\ Below(said, held.act)
      /\ dispatching => acts # 0
      /\ dispatching /\ pending # "none" => Below(said, acts)
      /\ pending = "key" => held = Nothing
  BY <1>2 DEF Order
<1>5. Below(said, acts + 2) /\ Nothing.by # "person"
  BY <1>2, <1>3, StillBelow DEF Nothing
<1>6. CASE ToWidget
  <2>1. acts + codes < MaxActs
    BY <1>6 DEF ToWidget, Acts
  <2>2. /\ Reported' = said \o Append(Flushed, Line("person"))
        /\ acts' = acts + 1 /\ held' = Nothing /\ ~dispatching'
    BY <1>6 DEF ToWidget, Acts, Reported
  <2> QED
    BY <2>1, <2>2, <1>1, <1>3, <1>5, TellPerson DEF Order
<1>7. CASE Close
  <2>1. acts + codes < MaxActs
    BY <1>7 DEF Close, Acts
  <2>2. /\ Reported' = said \o Append(Flushed, Line("person")) \/ Reported' = said \o Flushed
        /\ acts' = acts + 1 /\ held' = Nothing /\ ~dispatching'
    BY <1>7 DEF Close, Acts, Reported
  <2> QED
    BY <2>1, <2>2, <1>1, <1>2, <1>3, <1>5, TellPerson DEF Order
<1>8. ASSUME NEW kind \in Kinds, ToQuickWindow(kind)
      PROVE  Order'
  <2>1. acts + codes < MaxActs
    BY <1>8 DEF ToQuickWindow, Acts
  <2>2. Reported' = said \o Flushed /\ acts' = acts + 1 /\ held' = Nothing
    BY <1>8 DEF ToQuickWindow, Acts, Reported
  <2> QED
    BY <2>1, <2>2, <1>1, <1>2, <1>3, <1>5, TellPerson DEF Order
<1>9. CASE ToItem
  <2> DEFINE l == [act |-> acts, by |-> "person"]
  <2>1. dispatching /\ acts' = acts /\ l.act = acts /\ l.by = "person" /\ (ItemKey(l) \/ ItemMouse(l))
    BY <1>9 DEF ToItem, Item
  <2>2. l \in Lines
    <3>1. acts \in 0..MaxActs /\ acts # 0
      BY <2>1, <1>4 DEF TypeOK, FilterTypes
    <3> QED
      BY <3>1, <1>3 DEF Lines
  <2> HIDE DEF l
  <2>3. CASE ItemKey(l)
    <3>1. /\ pending = "key" /\ pending' = "none" /\ Reported' = said \o <<l>>
          /\ held' = held /\ dispatching' = dispatching
      BY <2>3 DEF ItemKey, Reported
    <3>2. held = Nothing /\ Below(said, l.act)
      BY <3>1, <2>1, <1>4
    <3>3. InOrder(said \o <<l>>) /\ Below(said \o <<l>>, acts + 1)
      BY <3>2, <2>1, <2>2, <1>1, <1>2, <1>3, TellOne
    <3> QED
      BY <3>1, <3>2, <3>3, <2>1, <1>4, <1>5 DEF Order
  <2>4. CASE ItemMouse(l)
    <3>1. /\ pending = "mouse" /\ pending' = pending /\ Reported' = said
          /\ held' = l /\ dispatching' = dispatching
      BY <2>4, <1>2 DEF ItemMouse, Reported
    <3> QED
      BY <3>1, <2>1, <1>2, <1>3, <1>4 DEF Order
  <2> QED
    BY <2>1, <2>3, <2>4
<1>10. CASE Delivered
  <2>1. Reported' = said /\ UNCHANGED <<acts, pending, held>> /\ ~dispatching'
    BY <1>10, <1>2 DEF Delivered, Reported
  <2> QED
    BY <2>1, <1>2, <1>4 DEF Order
<1>11. CASE FromCode
  <2> DEFINE l == Line("code")
  <2>1. l \in Lines /\ l.by = "code" /\ acts' = acts
    BY <1>11, LineTypes DEF FromCode, Sends, Line
  <2>2. ItemKey(l) \/ ItemMouse(l) \/ (toSay' = <<>> /\ UNCHANGED <<pending, held, dispatching>>)
    BY <1>11 DEF FromCode, Item
  <2> HIDE DEF l
  <2>3. CASE ItemKey(l)
    <3>1. /\ pending = "key" /\ pending' = "none" /\ Reported' = said \o <<l>>
          /\ held' = held /\ dispatching' = dispatching
      BY <2>3 DEF ItemKey, Reported
    <3>2. InOrder(said \o <<l>>) /\ Below(said \o <<l>>, acts + 1)
      BY <2>1, <1>1, <1>2, TellOne
    <3> QED
      BY <3>1, <3>2, <2>1, <1>4, <1>5 DEF Order
  <2>4. CASE ItemMouse(l)
    <3>1. /\ pending = "mouse" /\ pending' = pending /\ Reported' = said
          /\ held' = l /\ dispatching' = dispatching
      BY <2>4, <1>2 DEF ItemMouse, Reported
    <3> QED
      BY <3>1, <2>1, <1>2, <1>4 DEF Order
  <2>5. CASE toSay' = <<>> /\ UNCHANGED <<pending, held, dispatching>>
    <3>1. Reported' = said
      BY <2>5, <1>2 DEF Reported
    <3> QED
      BY <3>1, <2>1, <2>5, <1>2, <1>4 DEF Order
  <2> QED
    BY <2>2, <2>3, <2>4, <2>5
<1>12. CASE Shortcut
  <2> DEFINE l == Line("shortcut")
  <2>1. l \in Lines /\ l.by = "shortcut"
    BY <1>12, LineTypes DEF Shortcut, Acts, Line
  <2>2. /\ acts' = acts + 1 /\ pending' = pending /\ held' = held /\ ~dispatching'
        /\ Reported' = said \o <<l>>
    BY <1>12 DEF Shortcut, Acts, Reported
  <2> HIDE DEF l
  <2>3. /\ InOrder(said \o <<l>>) /\ Below(said \o <<l>>, acts + 2)
        /\ held.by = "person" => Below(said \o <<l>>, held.act)
    BY <2>1, <1>1, <1>2, <1>4, <1>5, TellOne
  <2>4. held.by = "person" => held.act <= acts + 1
    <3>1. held \in Lines \cup {Nothing}
      BY DEF TypeOK, FilterTypes
    <3>2. held.by = "person" => held.act \in Nat
      BY <3>1, <1>5, PersonHasActed
    <3> QED
      BY <3>2, <1>3, <1>4
  <2> QED
    BY <2>2, <2>3, <2>4, <1>3, <1>4 DEF Order
<1>13. CASE ShortcutFromCode
  <2> DEFINE l == Line("code")
  <2>1. l \in Lines /\ l.by = "code"
    BY <1>13, LineTypes DEF ShortcutFromCode, Sends, Line
  <2>2. /\ UNCHANGED <<acts, pending, held, dispatching>>
        /\ Reported' = said \o <<l>> \/ Reported' = said
    BY <1>13, <1>2 DEF ShortcutFromCode, Sends, Reported
  <2> HIDE DEF l
  <2>3. /\ InOrder(said \o <<l>>) /\ Below(said \o <<l>>, acts + 1)
        /\ held.by = "person" => Below(said \o <<l>>, held.act)
        /\ dispatching /\ pending # "none" => Below(said \o <<l>>, acts)
    BY <2>1, <1>1, <1>2, <1>4, TellOne
  <2> QED
    BY <2>2, <2>3, <1>2, <1>4 DEF Order
<1>14. CASE ZeroTimer
  <2>1. Reported' = said \o Flushed /\ UNCHANGED <<acts, pending>> /\ held' = Nothing /\ ~dispatching'
    BY <1>14 DEF ZeroTimer, Reported
  <2> QED
    BY <2>1, <1>2, <1>5 DEF Order
<1>15. CASE Lapse
  <2>1. Reported' = said /\ UNCHANGED <<acts, held, dispatching>> /\ pending' = "none"
    BY <1>15, <1>2 DEF Lapse, Reported
  <2> QED
    BY <2>1, <1>2, <1>4 DEF Order
<1> QED
  BY <1>6, <1>7, <1>8, <1>9, <1>10, <1>11, <1>12, <1>13, <1>14, <1>15 DEF Handles

-----------------------------------------------------------------------------
(* Parts and lines.                                                         *)

Ended(parts) == [i \in 1..Len(parts) |-> IF parts[i].last THEN <<parts[i].line>> ELSE <<>>]

LEMMA EndedType ==
  ASSUME NEW parts \in Seq(Part)
  PROVE  Ended(parts) \in Seq(Seq(Lines))
<1> DEFINE T == Seq(Lines)
<1>1. ASSUME NEW i \in 1..Len(parts)
      PROVE  (IF parts[i].last THEN <<parts[i].line>> ELSE <<>>) \in T
  <2>1. parts[i] \in Part
    BY ElementOfSeq
  <2>2. parts[i].line \in Lines
    BY <2>1 DEF Part
  <2> QED
    BY <2>2
<1>2. Len(parts) \in Nat
  OBVIOUS
<1> HIDE DEF T
<1>3. Ended(parts) \in [1..Len(parts) -> T]
  BY <1>1 DEF Ended
<1>4. Ended(parts) \in Seq(T)
  BY <1>2, <1>3, SeqDef
<1> QED
  BY <1>4 DEF T

LEMMA CompleteType ==
  ASSUME NEW parts \in Seq(Part)
  PROVE  Complete(parts) \in Seq(Lines)
BY EndedType, FlattenType DEF Complete, Ended

LEMMA CompleteEmpty == Complete(<<>>) = <<>>
<1>1. Ended(<<>>) = <<>>
  BY DEF Ended
<1> QED
  BY <1>1, FlattenEmpty DEF Complete, Ended

\* The lines that two stretches of the wire complete.
LEMMA CompleteConcat ==
  ASSUME NEW a \in Seq(Part), NEW b \in Seq(Part)
  PROVE  Complete(a \o b) = Complete(a) \o Complete(b)
<1> DEFINE T == Seq(Lines)
<1>1. /\ a \o b \in Seq(Part) /\ Len(a \o b) = Len(a) + Len(b) /\ Len(a) \in Nat /\ Len(b) \in Nat
      /\ \A i \in 1..Len(a) + Len(b) : (a \o b)[i] = IF i <= Len(a) THEN a[i] ELSE b[i - Len(a)]
  BY ConcatProperties
<1>2. Ended(a) \in Seq(T) /\ Ended(b) \in Seq(T) /\ Ended(a \o b) \in Seq(T)
  BY <1>1, EndedType
<1>3. Len(Ended(a)) = Len(a) /\ Len(Ended(b)) = Len(b) /\ Len(Ended(a \o b)) = Len(a) + Len(b)
  BY <1>1 DEF Ended
<1>4. /\ \A i \in 1..Len(a) : Ended(a)[i] = IF a[i].last THEN <<a[i].line>> ELSE <<>>
      /\ \A i \in 1..Len(b) : Ended(b)[i] = IF b[i].last THEN <<b[i].line>> ELSE <<>>
      /\ \A i \in 1..Len(a) + Len(b) :
           Ended(a \o b)[i] = IF (a \o b)[i].last THEN <<(a \o b)[i].line>> ELSE <<>>
  BY <1>1 DEF Ended
<1> HIDE DEF T
<1>5. /\ Ended(a) \o Ended(b) \in Seq(T) /\ Len(Ended(a) \o Ended(b)) = Len(a) + Len(b)
      /\ \A i \in 1..Len(a) + Len(b) :
           (Ended(a) \o Ended(b))[i] = IF i <= Len(a) THEN Ended(a)[i] ELSE Ended(b)[i - Len(a)]
  BY <1>2, <1>3, ConcatProperties
<1>6. ASSUME NEW i \in 1..Len(a) + Len(b)
      PROVE  Ended(a \o b)[i] = (Ended(a) \o Ended(b))[i]
  <2>1. CASE i <= Len(a)
    <3>1. i \in 1..Len(a)
      BY <2>1, <1>1
    <3> QED
      BY <3>1, <2>1, <1>1, <1>4, <1>5
  <2>2. CASE ~ (i <= Len(a))
    <3>1. i - Len(a) \in 1..Len(b)
      BY <2>2, <1>1
    <3> QED
      BY <3>1, <2>2, <1>1, <1>4, <1>5
  <2> QED
    BY <2>1, <2>2
<1>7. Ended(a \o b) = Ended(a) \o Ended(b)
  BY <1>2, <1>3, <1>5, <1>6, SeqEqual
<1> QED
  BY <1>2, <1>7, FlattenConcat DEF Complete, Ended, T

LEMMA CompleteOne ==
  ASSUME NEW p \in Part
  PROVE  /\ <<p>> \in Seq(Part)
         /\ Complete(<<p>>) = IF p.last THEN <<p.line>> ELSE <<>>
<1> DEFINE x == IF p.last THEN <<p.line>> ELSE <<>>
           T == Seq(Lines)
<1>1. x \in T
  BY DEF Part
<1>2. Ended(<<p>>) = <<x>>
  BY DEF Ended
<1> HIDE DEF x, T
<1>3. <<>> \in Seq(T) /\ <<x>> = Append(<<>>, x)
  BY <1>1
<1>4. FlattenSeq(Append(<<>>, x)) = FlattenSeq(<<>>) \o x
  BY <1>1, <1>3, FlattenAppend DEF T
<1>5. FlattenSeq(<<x>>) = x
  BY <1>1, <1>3, <1>4, FlattenEmpty, ConcatEmptySeq DEF T
<1>6. Complete(<<p>>) = x
  BY <1>2, <1>5 DEF Complete, Ended
<1> QED
  BY <1>6 DEF x

\* One part more on the wire.
LEMMA WireGrows ==
  ASSUME NEW b \in Seq(Part), NEW w \in Seq(Part), NEW p \in Part
  PROVE  /\ Append(w, p) \in Seq(Part) /\ b \o w \in Seq(Part)
         /\ Complete(b \o Append(w, p))
              = Complete(b \o w) \o IF p.last THEN <<p.line>> ELSE <<>>
<1>1. b \o w \in Seq(Part) /\ b \o Append(w, p) = Append(b \o w, p)
  BY ConcatAppend
<1>2. Append(b \o w, p) = (b \o w) \o <<p>> /\ Append(w, p) \in Seq(Part)
  BY <1>1, AppendIsConcat, AppendProperties
<1>3. Complete((b \o w) \o <<p>>) = Complete(b \o w) \o Complete(<<p>>)
  BY <1>1, CompleteOne, CompleteConcat
<1>4. Complete(<<p>>) = IF p.last THEN <<p.line>> ELSE <<>>
  BY CompleteOne
<1> QED
  BY <1>1, <1>2, <1>3, <1>4

-----------------------------------------------------------------------------
(* The parts of the invariant, action by action.                            *)

LEMMA InitIInv == Init => IInv
<1> SUFFICES ASSUME Init
             PROVE  IInv
  OBVIOUS
<1>1. FilterTypes
  <2>1. toSay \in Seq(Lines)
    BY DEF Init, FilterInit, Lines
  <2>2. acts \in 0..MaxActs /\ codes \in 0..MaxActs
    BY StreamAssumption DEF Init, FilterInit
  <2> QED
    BY <2>1, <2>2 DEF Init, FilterInit, FilterTypes
<1>2. TypeOK
  <2>1. /\ queue \in Seq(Lines) /\ Len(queue) <= MaxQueue /\ wire \in Seq(Part) /\ buffer \in Seq(Part)
        /\ Len(buffer) <= 1 /\ inbox \in Seq(Lines) /\ got \in Seq(Lines) /\ said \in Seq(Lines)
    BY StreamAssumption, EmptySeq DEF Init
  <2>2. writer \in [at : {"connecting", "waiting", "sending", "sending on", "ended", "dead"},
                    attempts : 0..MaxAttempts, line : Lines]
    BY StreamAssumption DEF Init, Lines
  <2>3. running \in BOOLEAN
    BY DEF Init
  <2> QED
    BY <1>1, <2>1, <2>2, <2>3 DEF Init, TypeOK
<1>3. Order
  <2>1. Reported = <<Hello>>
    BY DEF Init, FilterInit, Reported
  <2> QED
    BY <2>1 DEF Init, FilterInit, Order, InOrder, Below, Hello, Nothing
<1>4. Carriage
  BY DEF Init, Carriage
<1> QED
  BY <1>2, <1>3, <1>4 DEF IInv

\* What a read takes from the wire.
LEMMA ReadsParts ==
  ASSUME NEW b \in Seq(Part), NEW w \in Seq(Part), NEW n \in 1..Len(w)
  PROVE  /\ SubSeq(w, 1, n) \in Seq(Part) /\ SubSeq(w, n + 1, Len(w)) \in Seq(Part)
         /\ w = SubSeq(w, 1, n) \o SubSeq(w, n + 1, Len(w))
         /\ (b \o SubSeq(w, 1, n)) \o SubSeq(w, n + 1, Len(w)) = b \o w
         /\ b \o SubSeq(w, 1, n) \in Seq(Part) /\ Last(b \o SubSeq(w, 1, n)) \in Part
<1>1. Len(w) \in Nat /\ n \in Nat /\ \A i \in 1..Len(w) : w[i] \in Part
  OBVIOUS
<1>2. SubSeq(w, 1, n) \in Seq(Part) /\ Len(SubSeq(w, 1, n)) = n
  BY <1>1, SubSeqProperties
<1>3. SubSeq(w, n + 1, Len(w)) \in Seq(Part)
  BY <1>1, SubSeqProperties
<1>4. SubSeq(w, 1, n) \o SubSeq(w, n + 1, Len(w)) = SubSeq(w, 1, Len(w))
  BY <1>1, ConcatAdjacentSubSeq
<1>5. SubSeq(w, 1, Len(w)) = w
  BY SubSeqFull
<1> DEFINE read == b \o SubSeq(w, 1, n)
<1>6. read \in Seq(Part) /\ Len(read) = Len(b) + n /\ Len(b) \in Nat
  BY <1>2, ConcatProperties
<1> HIDE DEF read
<1>7. Last(read) \in Part
  <2>1. Len(read) \in 1..Len(read)
    BY <1>1, <1>6
  <2> QED
    BY <1>6, <2>1, ElementOfSeq DEF Last
<1>8. (b \o SubSeq(w, 1, n)) \o SubSeq(w, n + 1, Len(w)) = b \o w
  <2>1. Regroups(b, SubSeq(w, 1, n), SubSeq(w, n + 1, Len(w)))
    BY <1>2, <1>3, Regroup
  <2> QED
    BY <2>1, <1>4, <1>5 DEF Regroups
<1> QED
  BY <1>2, <1>3, <1>4, <1>5, <1>6, <1>7, <1>8 DEF read

\* Every variable keeps its range.
LEMMA TypeStep ==
  ASSUME IInv, [Next]_vars
  PROVE  TypeOK'
<1>0. /\ queue \in Seq(Lines) /\ Len(queue) <= MaxQueue /\ wire \in Seq(Part) /\ buffer \in Seq(Part)
      /\ Len(buffer) <= 1 /\ inbox \in Seq(Lines) /\ got \in Seq(Lines) /\ said \in Seq(Lines)
      /\ toSay \in Seq(Lines) /\ writer.line \in Lines /\ MaxQueue \in Nat /\ MaxAttempts \in Nat
      /\ writer \in [at : {"connecting", "waiting", "sending", "sending on", "ended", "dead"},
                     attempts : 0..MaxAttempts, line : Lines]
      /\ server \in {"listening", "serving", "elsewhere", "ended"}
      /\ recorder \in {"recording", "polled", "stopped"}
  BY StreamAssumption DEF IInv, TypeOK, FilterTypes
<1>q. queue \in Seq(Lines) /\ Len(queue) \in Nat /\ Len(queue) <= MaxQueue /\ MaxQueue \in Nat
  <2>1. queue \in Seq(Lines) /\ Len(queue) <= MaxQueue /\ MaxQueue \in Nat
    BY <1>0
  <2> QED
    BY <2>1, LenProperties
<1>w. wire \in Seq(Part)
  BY <1>0
<1>m. writer.attempts \in 0..MaxAttempts /\ MaxAttempts \in Nat
  BY <1>0
<1> DEFINE Sequences == /\ queue' \in Seq(Lines) /\ Len(queue') <= MaxQueue
                        /\ wire' \in Seq(Part) /\ buffer' \in Seq(Part) /\ Len(buffer') <= 1
                        /\ inbox' \in Seq(Lines) /\ got' \in Seq(Lines) /\ said' \in Seq(Lines)
           Threads == /\ writer' \in [at : {"connecting", "waiting", "sending", "sending on", "ended", "dead"},
                                      attempts : 0..MaxAttempts, line : Lines]
                      /\ server' \in {"listening", "serving", "elsewhere", "ended"}
                      /\ recorder' \in {"recording", "polled", "stopped"}
<1>1. CASE Handle
  <2>1. FilterTypes'
    BY <1>1, FilterTypesStep DEF Handle, IInv
  <2>2. running' \in BOOLEAN
    BY <1>1 DEF Handle, stream, IInv, TypeOK
  <2>3. Sequences
    BY <1>0, <1>1 DEF Handle, stream
  <2>4. Threads
    BY <1>0, <1>1 DEF Handle, stream
  <2> QED
    BY <2>1, <2>2, <2>3, <2>4 DEF TypeOK
<1>2. CASE Enqueue
  <2>0. Head(toSay) \in Lines /\ Tail(toSay) \in Seq(Lines)
    BY <1>0, <1>2, HeadThenTail DEF Enqueue
  <2>1. FilterTypes'
    BY <2>0, <1>2 DEF Enqueue, FilterTypes, IInv, TypeOK
  <2>2. running' \in BOOLEAN
    BY <1>2 DEF Enqueue, IInv, TypeOK
  <2>5. queue' \in Seq(Lines) /\ Len(queue') <= MaxQueue
    <3>1. CASE Len(queue) >= MaxQueue
      BY <3>1, <1>q, <1>2 DEF Enqueue
    <3>2. CASE ~ (Len(queue) >= MaxQueue)
      <4>1. queue' = Append(queue, Head(toSay)) /\ Len(queue) \in Nat
        BY <3>2, <1>q, <1>2 DEF Enqueue
      <4>2. queue' \in Seq(Lines) /\ Len(queue') = Len(queue) + 1
        BY <4>1, <2>0, <1>q, AppendProperties
      <4> QED
        BY <4>1, <4>2, <3>2, <1>q
    <3> QED
      BY <3>1, <3>2
  <2>6. said' \in Seq(Lines)
    BY <2>0, <1>0, <1>2, AppendProperties DEF Enqueue
  <2>3. Sequences
    BY <2>5, <2>6, <1>0, <1>2 DEF Enqueue
  <2>4. Threads
    BY <1>0, <1>2 DEF Enqueue
  <2> QED
    BY <2>1, <2>2, <2>3, <2>4 DEF TypeOK
<1>3. CASE Quit
  <2>1. FilterTypes'
    BY <1>3 DEF Quit, stream, filter, FilterTypes, IInv, TypeOK
  <2>2. running' \in BOOLEAN
    BY <1>3 DEF Quit, stream, IInv, TypeOK
  <2>3. Sequences
    BY <1>0, <1>3 DEF Quit, stream
  <2>4. Threads
    BY <1>0, <1>3 DEF Quit, stream
  <2> QED
    BY <2>1, <2>2, <2>3, <2>4 DEF TypeOK
<1>4. CASE Die
  <2>1. FilterTypes'
    BY <1>4 DEF Die, filter, FilterTypes, IInv, TypeOK
  <2>2. running' \in BOOLEAN
    BY <1>4 DEF Die, IInv, TypeOK
  <2>3. Sequences
    BY <1>0, <1>4 DEF Die
  <2>4. Threads
    BY <1>0, <1>4 DEF Die
  <2> QED
    BY <2>1, <2>2, <2>3, <2>4 DEF TypeOK
<1>5. CASE Connect
  <2>1. FilterTypes'
    BY <1>5 DEF Connect, Written, filter, FilterTypes, IInv, TypeOK
  <2>2. running' \in BOOLEAN
    BY <1>5 DEF Connect, Written, IInv, TypeOK
  <2>3. Sequences
    BY <1>0, <1>5 DEF Connect, Written
  <2>4. Threads
    BY <1>0, <1>5 DEF Connect, Written
  <2> QED
    BY <2>1, <2>2, <2>3, <2>4 DEF TypeOK
<1>6. CASE ConnectFails
  <2>1. FilterTypes'
    BY <1>6 DEF ConnectFails, Written, filter, FilterTypes, IInv, TypeOK
  <2>2. running' \in BOOLEAN
    BY <1>6 DEF ConnectFails, Written, IInv, TypeOK
  <2>3. Sequences
    BY <1>0, <1>6 DEF ConnectFails, Written
  <2>0. writer.attempts + 1 \in 0..MaxAttempts
    <3>1. writer.attempts \in 0..MaxAttempts /\ writer.attempts < MaxAttempts
      BY <1>m, <1>6 DEF ConnectFails
    <3> QED
      BY <3>1, <1>m
  <2>4. Threads
    BY <2>0, <1>0, <1>6 DEF ConnectFails, Written
  <2> QED
    BY <2>1, <2>2, <2>3, <2>4 DEF TypeOK
<1>7. CASE GiveUp
  <2>1. FilterTypes'
    BY <1>7 DEF GiveUp, Written, filter, FilterTypes, IInv, TypeOK
  <2>2. running' \in BOOLEAN
    BY <1>7 DEF GiveUp, Written, IInv, TypeOK
  <2>3. Sequences
    BY <1>0, <1>7 DEF GiveUp, Written
  <2>4. Threads
    BY <1>0, <1>7 DEF GiveUp, Written
  <2> QED
    BY <2>1, <2>2, <2>3, <2>4 DEF TypeOK
<1>8. CASE Take
  <2>1. FilterTypes'
    BY <1>8 DEF Take, Written, filter, FilterTypes, IInv, TypeOK
  <2>2. running' \in BOOLEAN
    BY <1>8 DEF Take, Written, IInv, TypeOK
  <2>0. Head(queue) \in Lines /\ Tail(queue) \in Seq(Lines) /\ Len(Tail(queue)) <= MaxQueue
    <3>1. queue # <<>> /\ Len(queue) \in Nat
      BY <1>q, <1>8 DEF Take
    <3>2. Head(queue) \in Lines /\ Tail(queue) \in Seq(Lines) /\ Len(Tail(queue)) = Len(queue) - 1
      BY <3>1, <1>q, HeadTailProperties
    <3> QED
      BY <3>1, <3>2, <1>q
  <2>3. Sequences
    BY <2>0, <1>0, <1>8 DEF Take, Written
  <2>4. Threads
    BY <2>0, <1>0, <1>8 DEF Take, Written
  <2> QED
    BY <2>1, <2>2, <2>3, <2>4 DEF TypeOK
<1>9. CASE Send
  <2>1. FilterTypes'
    BY <1>9 DEF Send, Written, filter, FilterTypes, IInv, TypeOK
  <2>2. running' \in BOOLEAN
    BY <1>9 DEF Send, Written, IInv, TypeOK
  <2>0. \A last \in BOOLEAN : [line |-> writer.line, last |-> last] \in Part
    BY <1>0 DEF Part
  <2>5. PICK p \in Part, q \in Part :
          wire' \in {Append(wire, p), wire \o <<q>>, Append(wire, p) \o <<q>>}
    <3>1. PICK p \in Part, q \in Part :
            p = [line |-> writer.line, last |-> FALSE] /\ q = [line |-> writer.line, last |-> TRUE]
      BY <2>0
    <3> QED
      BY <3>1, <1>9 DEF Send
  <2>6. wire' \in Seq(Part)
    <3>1. Append(wire, p) \in Seq(Part) /\ <<q>> \in Seq(Part)
      BY <1>w, AppendProperties
    <3> QED
      BY <3>1, <2>5, <1>w, ConcatProperties
  <2>3. Sequences
    BY <2>6, <1>0, <1>9 DEF Send, Written
  <2>4. Threads
    BY <1>0, <1>9 DEF Send, Written
  <2> QED
    BY <2>1, <2>2, <2>3, <2>4 DEF TypeOK
<1>10. CASE SendFails
  <2>1. FilterTypes'
    BY <1>10 DEF SendFails, Written, filter, FilterTypes, IInv, TypeOK
  <2>2. running' \in BOOLEAN
    BY <1>10 DEF SendFails, Written, IInv, TypeOK
  <2>3. Sequences
    BY <1>0, <1>10 DEF SendFails, Written
  <2>4. Threads
    BY <1>0, <1>10 DEF SendFails, Written
  <2> QED
    BY <2>1, <2>2, <2>3, <2>4 DEF TypeOK
<1>11. CASE Leave
  <2>1. FilterTypes'
    BY <1>11 DEF Leave, Written, filter, FilterTypes, IInv, TypeOK
  <2>2. running' \in BOOLEAN
    BY <1>11 DEF Leave, Written, IInv, TypeOK
  <2>3. Sequences
    BY <1>0, <1>11 DEF Leave, Written
  <2>4. Threads
    BY <1>0, <1>11 DEF Leave, Written
  <2> QED
    BY <2>1, <2>2, <2>3, <2>4 DEF TypeOK
<1>12. CASE Accept
  <2>1. FilterTypes'
    BY <1>12 DEF Accept, Receives, filter, FilterTypes, IInv, TypeOK
  <2>2. running' \in BOOLEAN
    BY <1>12 DEF Accept, Receives, IInv, TypeOK
  <2>3. Sequences
    BY <1>0, <1>12 DEF Accept, Receives
  <2>4. Threads
    BY <1>0, <1>12 DEF Accept, Receives
  <2> QED
    BY <2>1, <2>2, <2>3, <2>4 DEF TypeOK
<1>13. CASE Receive
  <2>1. FilterTypes'
    BY <1>13 DEF Receive, Receives, filter, FilterTypes, IInv, TypeOK
  <2>2. running' \in BOOLEAN
    BY <1>13 DEF Receive, Receives, IInv, TypeOK
  <2>3. Sequences
    <3>1. PICK n \in 1..Len(wire) :
            /\ inbox' = inbox \o Complete(buffer \o SubSeq(wire, 1, n))
            /\ buffer' = IF Last(buffer \o SubSeq(wire, 1, n)).last THEN <<>>
                         ELSE <<Last(buffer \o SubSeq(wire, 1, n))>>
            /\ wire' = SubSeq(wire, n + 1, Len(wire))
      BY <1>13 DEF Receive
    <3>2. PICK read : read = buffer \o SubSeq(wire, 1, n)
      OBVIOUS
    <3>3. read \in Seq(Part) /\ Last(read) \in Part /\ wire' \in Seq(Part)
      BY <1>0, <3>1, <3>2, ReadsParts
    <3>4. Complete(read) \in Seq(Lines) /\ <<Last(read)>> \in Seq(Part) /\ Len(<<Last(read)>>) = 1
      BY <3>3, CompleteType
    <3>5. inbox' = inbox \o Complete(read) /\ (buffer' = <<>> \/ buffer' = <<Last(read)>>)
      BY <3>1, <3>2
    <3>6. inbox' \in Seq(Lines)
      BY <3>4, <3>5, <1>0, ConcatProperties
    <3>7. buffer' \in Seq(Part) /\ Len(buffer') <= 1
      <4>1. CASE buffer' = <<>>
        BY <4>1, EmptySeq
      <4>2. CASE buffer' = <<Last(read)>>
        BY <4>2, <3>4
      <4> QED
        BY <4>1, <4>2, <3>5
    <3> QED
      BY <3>3, <3>6, <3>7, <1>0, <1>13 DEF Receive, Receives
  <2>4. Threads
    BY <1>0, <1>13 DEF Receive, Receives
  <2> QED
    BY <2>1, <2>2, <2>3, <2>4 DEF TypeOK
<1>14. CASE Finish
  <2>1. FilterTypes'
    BY <1>14 DEF Finish, Receives, filter, FilterTypes, IInv, TypeOK
  <2>2. running' \in BOOLEAN
    BY <1>14 DEF Finish, Receives, IInv, TypeOK
  <2>3. Sequences
    BY <1>0, <1>14 DEF Finish, Receives
  <2>4. Threads
    BY <1>0, <1>14 DEF Finish, Receives
  <2> QED
    BY <2>1, <2>2, <2>3, <2>4 DEF TypeOK
<1>15. CASE AcceptAnother
  <2>1. FilterTypes'
    BY <1>15 DEF AcceptAnother, Receives, filter, FilterTypes, IInv, TypeOK
  <2>2. running' \in BOOLEAN
    BY <1>15 DEF AcceptAnother, Receives, IInv, TypeOK
  <2>3. Sequences
    BY <1>0, <1>15 DEF AcceptAnother, Receives
  <2>4. Threads
    BY <1>0, <1>15 DEF AcceptAnother, Receives
  <2> QED
    BY <2>1, <2>2, <2>3, <2>4 DEF TypeOK
<1>16. CASE Drain
  <2>1. FilterTypes'
    BY <1>16 DEF Drain, filter, FilterTypes, IInv, TypeOK
  <2>2. running' \in BOOLEAN
    BY <1>16 DEF Drain, IInv, TypeOK
  <2>3. Sequences
    BY <1>0, <1>16, ConcatProperties, EmptySeq DEF Drain
  <2>4. Threads
    BY <1>0, <1>16 DEF Drain
  <2> QED
    BY <2>1, <2>2, <2>3, <2>4 DEF TypeOK
<1>17. CASE LastPoll
  <2>1. FilterTypes'
    BY <1>17 DEF LastPoll, filter, FilterTypes, IInv, TypeOK
  <2>2. running' \in BOOLEAN
    BY <1>17 DEF LastPoll, IInv, TypeOK
  <2>3. Sequences
    BY <1>0, <1>17, ConcatProperties, EmptySeq DEF LastPoll
  <2>4. Threads
    BY <1>0, <1>17 DEF LastPoll
  <2> QED
    BY <2>1, <2>2, <2>3, <2>4 DEF TypeOK
<1>18. CASE StopReceiver
  <2>1. FilterTypes'
    BY <1>18 DEF StopReceiver, stream, filter, FilterTypes, IInv, TypeOK
  <2>2. running' \in BOOLEAN
    BY <1>18 DEF StopReceiver, stream, IInv, TypeOK
  <2>3. Sequences
    BY <1>0, <1>18 DEF StopReceiver, stream
  <2>4. Threads
    BY <1>0, <1>18 DEF StopReceiver, stream
  <2> QED
    BY <2>1, <2>2, <2>3, <2>4 DEF TypeOK
<1>19. CASE UNCHANGED vars
  <2>1. FilterTypes'
    BY <1>19 DEF vars, stream, filter, FilterTypes, IInv, TypeOK
  <2>2. running' \in BOOLEAN
    BY <1>19 DEF vars, stream, IInv, TypeOK
  <2>3. Sequences
    BY <1>0, <1>19 DEF vars, stream
  <2>4. Threads
    BY <1>0, <1>19 DEF vars, stream
  <2> QED
    BY <2>1, <2>2, <2>3, <2>4 DEF TypeOK
<1> QED
BY <1>1, <1>2, <1>3, <1>4, <1>5, <1>6, <1>7, <1>8, <1>9, <1>10, <1>11, <1>12, <1>13, <1>14, <1>15,
     <1>16, <1>17, <1>18, <1>19 DEF Next, WriterNext, ReceiverNext

\* What was reported and what is held change with the filter only.
LEMMA ReportsStep ==
  ASSUME IInv, [Next]_vars
  PROVE  Order'
<1>0. TypeOK /\ Order
  BY DEF IInv
<1>1. CASE Handle
  BY <1>0, <1>1, OrderStep DEF Handle
<1>2. CASE Enqueue
  <2>1. said \in Seq(Lines) /\ toSay \in Seq(Lines) /\ toSay # <<>>
    BY <1>0, <1>2 DEF TypeOK, FilterTypes, Enqueue
  <2>2. /\ Head(toSay) \in Lines /\ Tail(toSay) \in Seq(Lines) /\ <<Head(toSay)>> \in Seq(Lines)
        /\ <<Head(toSay)>> \o Tail(toSay) = toSay
    BY <2>1, HeadThenTail
  <2>3. Append(said, Head(toSay)) = said \o <<Head(toSay)>>
    BY <2>1, <2>2, AppendIsConcat
  <2>4. Regroups(said, <<Head(toSay)>>, Tail(toSay))
    BY <2>1, <2>2, Regroup
  <2>5. Reported' = Reported
    BY <2>2, <2>3, <2>4, <1>2 DEF Regroups, Enqueue, Reported
  <2>6. UNCHANGED <<acts, held, dispatching, pending>>
    BY <1>2 DEF Enqueue
  <2> QED
    BY <1>0, <2>5, <2>6 DEF Order
<1>3. CASE Quit
  <2>1. UNCHANGED <<acts, held, dispatching, pending, toSay, said>>
    BY <1>3 DEF Quit, stream, filter
  <2> QED
    BY <1>0, <2>1 DEF Order, Reported
<1>4. CASE Die
  <2>1. UNCHANGED <<acts, held, dispatching, pending, toSay, said>>
    BY <1>4 DEF Die, filter
  <2> QED
    BY <1>0, <2>1 DEF Order, Reported
<1>5. CASE Connect
  <2>1. UNCHANGED <<acts, held, dispatching, pending, toSay, said>>
    BY <1>5 DEF Connect, Written, filter
  <2> QED
    BY <1>0, <2>1 DEF Order, Reported
<1>6. CASE ConnectFails
  <2>1. UNCHANGED <<acts, held, dispatching, pending, toSay, said>>
    BY <1>6 DEF ConnectFails, Written, filter
  <2> QED
    BY <1>0, <2>1 DEF Order, Reported
<1>7. CASE GiveUp
  <2>1. UNCHANGED <<acts, held, dispatching, pending, toSay, said>>
    BY <1>7 DEF GiveUp, Written, filter
  <2> QED
    BY <1>0, <2>1 DEF Order, Reported
<1>8. CASE Take
  <2>1. UNCHANGED <<acts, held, dispatching, pending, toSay, said>>
    BY <1>8 DEF Take, Written, filter
  <2> QED
    BY <1>0, <2>1 DEF Order, Reported
<1>9. CASE Send
  <2>1. UNCHANGED <<acts, held, dispatching, pending, toSay, said>>
    BY <1>9 DEF Send, Written, filter
  <2> QED
    BY <1>0, <2>1 DEF Order, Reported
<1>10. CASE SendFails
  <2>1. UNCHANGED <<acts, held, dispatching, pending, toSay, said>>
    BY <1>10 DEF SendFails, Written, filter
  <2> QED
    BY <1>0, <2>1 DEF Order, Reported
<1>11. CASE Leave
  <2>1. UNCHANGED <<acts, held, dispatching, pending, toSay, said>>
    BY <1>11 DEF Leave, Written, filter
  <2> QED
    BY <1>0, <2>1 DEF Order, Reported
<1>12. CASE Accept
  <2>1. UNCHANGED <<acts, held, dispatching, pending, toSay, said>>
    BY <1>12 DEF Accept, Receives, filter
  <2> QED
    BY <1>0, <2>1 DEF Order, Reported
<1>13. CASE Receive
  <2>1. UNCHANGED <<acts, held, dispatching, pending, toSay, said>>
    BY <1>13 DEF Receive, Receives, filter
  <2> QED
    BY <1>0, <2>1 DEF Order, Reported
<1>14. CASE Finish
  <2>1. UNCHANGED <<acts, held, dispatching, pending, toSay, said>>
    BY <1>14 DEF Finish, Receives, filter
  <2> QED
    BY <1>0, <2>1 DEF Order, Reported
<1>15. CASE AcceptAnother
  <2>1. UNCHANGED <<acts, held, dispatching, pending, toSay, said>>
    BY <1>15 DEF AcceptAnother, Receives, filter
  <2> QED
    BY <1>0, <2>1 DEF Order, Reported
<1>16. CASE Drain
  <2>1. UNCHANGED <<acts, held, dispatching, pending, toSay, said>>
    BY <1>16 DEF Drain, filter
  <2> QED
    BY <1>0, <2>1 DEF Order, Reported
<1>17. CASE LastPoll
  <2>1. UNCHANGED <<acts, held, dispatching, pending, toSay, said>>
    BY <1>17 DEF LastPoll, filter
  <2> QED
    BY <1>0, <2>1 DEF Order, Reported
<1>18. CASE StopReceiver
  <2>1. UNCHANGED <<acts, held, dispatching, pending, toSay, said>>
    BY <1>18 DEF StopReceiver, stream, filter
  <2> QED
    BY <1>0, <2>1 DEF Order, Reported
<1>19. CASE UNCHANGED vars
  <2>1. UNCHANGED <<acts, held, dispatching, pending, toSay, said>>
    BY <1>19 DEF vars, stream, filter
  <2> QED
    BY <1>0, <2>1 DEF Order, Reported
<1> QED
BY <1>1, <1>2, <1>3, <1>4, <1>5, <1>6, <1>7, <1>8, <1>9, <1>10, <1>11, <1>12, <1>13, <1>14, <1>15,
     <1>16, <1>17, <1>18, <1>19 DEF Next, WriterNext, ReceiverNext

LEMMA CarriageStep ==
  ASSUME IInv, [Next]_vars
  PROVE  Carriage'
<1>0. /\ writer.at = "connecting" => wire = <<>> /\ buffer = <<>> /\ server # "serving"
      /\ buffer # <<>> => ~ buffer[1].last
      /\ writer \in [at : {"connecting", "waiting", "sending", "sending on", "ended", "dead"},
                     attempts : 0..MaxAttempts, line : Lines]
  BY DEF IInv, Carriage, TypeOK
<1>1. CASE Handle
  BY <1>0, <1>1 DEF Handle, stream, Carriage
<1>2. CASE Enqueue
  BY <1>0, <1>2 DEF Enqueue, Carriage
<1>3. CASE Quit
  BY <1>0, <1>3 DEF Quit, stream, Carriage
<1>4. CASE Die
  BY <1>0, <1>4 DEF Die, Carriage
<1>5. CASE Connect
  BY <1>0, <1>5 DEF Connect, Written, Carriage
<1>6. CASE ConnectFails
  BY <1>0, <1>6 DEF ConnectFails, Written, Carriage
<1>7. CASE GiveUp
  BY <1>0, <1>7 DEF GiveUp, Written, Carriage
<1>8. CASE Take
  BY <1>0, <1>8 DEF Take, Written, Carriage
<1>9. CASE Send
  BY <1>0, <1>9 DEF Send, Written, Carriage
<1>10. CASE SendFails
  BY <1>0, <1>10 DEF SendFails, Written, Carriage
<1>11. CASE Leave
  BY <1>0, <1>11 DEF Leave, Written, Carriage
<1>12. CASE Accept
  BY <1>0, <1>12 DEF Accept, Receives, Connected, Carriage
<1>13. CASE Receive
  <2>1. buffer' # <<>> => ~ buffer'[1].last
    BY <1>13 DEF Receive
  <2>2. writer' = writer /\ writer.at # "connecting"
    BY <1>0, <1>13 DEF Receive, Receives
  <2> QED
    BY <2>1, <2>2 DEF Carriage
<1>14. CASE Finish
  BY <1>0, <1>14 DEF Finish, Receives, Carriage
<1>15. CASE AcceptAnother
  BY <1>0, <1>15 DEF AcceptAnother, Receives, Carriage
<1>16. CASE Drain
  BY <1>0, <1>16 DEF Drain, Carriage
<1>17. CASE LastPoll
  BY <1>0, <1>17 DEF LastPoll, Carriage
<1>18. CASE StopReceiver
  BY <1>0, <1>18 DEF StopReceiver, stream, Carriage
<1>19. CASE UNCHANGED vars
  BY <1>0, <1>19 DEF vars, stream, Carriage
<1> QED
BY <1>1, <1>2, <1>3, <1>4, <1>5, <1>6, <1>7, <1>8, <1>9, <1>10, <1>11, <1>12, <1>13, <1>14, <1>15,
     <1>16, <1>17, <1>18, <1>19 DEF Next, WriterNext, ReceiverNext

LEMMA NextIInv == IInv /\ [Next]_vars => IInv'
BY TypeStep, ReportsStep, CarriageStep DEF IInv

-----------------------------------------------------------------------------
\* Every variable keeps its range: above all the queue never holds more than
\* kMaxQueue lines (qatrec.cpp:73-84), and the receiver never keeps more than the
\* one part that has no end yet.
THEOREM TypeCorrect == Spec => []TypeOK
<1>1. IInv => TypeOK
  BY DEF IInv
<1> QED
  BY <1>1, InitIInv, NextIInv, PTL DEF Spec

\* What the person did is reported in the order it was done and once each, for
\* any number of events that a person and the code send (qatrec.cpp:551).
THEOREM ReportsInOrder == Spec => []ReportedInOrder
<1>1. IInv => ReportedInOrder
  <2> SUFFICES ASSUME IInv
               PROVE  ReportedInOrder
    OBVIOUS
  <2>1. said \in Seq(Lines) /\ toSay \in Seq(Lines) /\ InOrder(Reported)
    BY DEF IInv, TypeOK, FilterTypes, Order
  <2>2. /\ Len(Reported) = Len(said) + Len(toSay) /\ Len(said) \in Nat /\ Len(toSay) \in Nat
        /\ \A i \in 1..Len(said) : i \in 1..Len(Reported) /\ Reported[i] = said[i]
    BY <2>1, ConcatProperties DEF Reported
  <2> QED
    BY <2>1, <2>2 DEF ReportedInOrder, InOrder
<1> QED
  BY <1>1, InitIInv, NextIInv, PTL DEF Spec

-----------------------------------------------------------------------------
(* The line feed.                                                           *)

LEMMA FirstOfTwo ==
  ASSUME NEW S, NEW s \in Seq(S), NEW t \in Seq(S)
  PROVE  /\ s \o t \in Seq(S) /\ Len(s \o t) = Len(s) + Len(t) /\ Len(s) \in 0..Len(s \o t)
         /\ SubSeq(s \o t, 1, Len(s)) = s
         /\ SubSeq(s \o t, Len(s) + 1, Len(s \o t)) = t
<1> DEFINE u == s \o t
<1>1. /\ u \in Seq(S) /\ Len(u) = Len(s) + Len(t) /\ Len(s) \in Nat /\ Len(t) \in Nat
      /\ \A i \in 1..Len(s) + Len(t) : u[i] = IF i <= Len(s) THEN s[i] ELSE t[i - Len(s)]
  BY ConcatProperties
<1> HIDE DEF u
<1>2. /\ \A i \in 1..Len(s) : u[i] = s[i]
      /\ \A i \in 1..Len(t) : u[Len(s) + i] = t[i]
  <2>1. ASSUME NEW i \in 1..Len(t)
        PROVE  u[Len(s) + i] = t[i]
    <3>1. Len(s) + i \in 1..Len(s) + Len(t) /\ ~ (Len(s) + i <= Len(s)) /\ (Len(s) + i) - Len(s) = i
      BY <1>1
    <3> QED
      BY <3>1, <1>1
  <2>2. \A i \in 1..Len(s) : i \in 1..Len(s) + Len(t) /\ i <= Len(s)
    BY <1>1
  <2> QED
    BY <2>1, <2>2, <1>1
<1>3. SubSeq(u, 1, Len(s)) = s
  <2>1. /\ SubSeq(u, 1, Len(s)) \in Seq(S) /\ Len(SubSeq(u, 1, Len(s))) = Len(s)
        /\ \A i \in 1..Len(s) : SubSeq(u, 1, Len(s))[i] = u[i]
    <3>1. \A i \in 1..Len(s) : u[i] \in S
      BY <1>2
    <3> QED
      BY <3>1, <1>1, SubSeqProperties
  <2> QED
    BY <2>1, <1>2, SeqEqual
<1>4. SubSeq(u, Len(s) + 1, Len(u)) = t
  <2> DEFINE v == SubSeq(u, Len(s) + 1, Len(u))
  <2>1. /\ v \in Seq(S) /\ Len(v) = Len(t)
        /\ \A i \in 1..Len(t) : v[i] = u[Len(s) + i]
    <3>1. \A i \in (Len(s) + 1)..Len(u) : u[i] \in S
      BY <1>1
    <3>2. /\ v \in Seq(S)
          /\ Len(v) = IF Len(s) + 1 <= Len(u) THEN Len(u) - (Len(s) + 1) + 1 ELSE 0
          /\ \A i \in 1..Len(u) - (Len(s) + 1) + 1 : v[i] = u[(Len(s) + 1) + i - 1]
      BY <3>1, <1>1, SubSeqProperties
    <3> HIDE DEF v
    <3>3. Len(u) - (Len(s) + 1) + 1 = Len(t) /\ \A i \in 1..Len(t) : (Len(s) + 1) + i - 1 = Len(s) + i
      BY <1>1
    <3> QED
      BY <3>2, <3>3, <1>1
  <2> HIDE DEF v
  <2>2. v = t
    BY <2>1, <1>2, SeqEqual
  <2> QED
    BY <2>2 DEF v
<1> QED
  BY <1>1, <1>3, <1>4 DEF u

\* The feed is heard from its beginning and cut at its end.
LEMMA HearFirst ==
  ASSUME NEW x \in Seq(Lines), NEW y \in Seq(Lines), x # <<>>,
         Waiting = x \o y, Waiting' = y, got' = got \o x, said' = said, Open' = Open
  PROVE  Feed!Hear
<1>1. /\ Len(x) \in 0..Len(x \o y) /\ SubSeq(x \o y, 1, Len(x)) = x
      /\ SubSeq(x \o y, Len(x) + 1, Len(x \o y)) = y
  BY FirstOfTwo
<1>2. Len(x) \in Nat \ {0}
  BY EmptySeq
<1>3. Len(x) \in 1..Len(Waiting)
  BY <1>1, <1>2
<1> QED
  BY <1>1, <1>3 DEF Feed!Hear

LEMMA CutAfter ==
  ASSUME NEW x \in Seq(Lines), NEW y \in Seq(Lines),
         Waiting = x \o y, Waiting' = x, said' = said, got' = got, Open' = FALSE
  PROVE  Feed!Cut
<1>1. Len(x) \in 0..Len(x \o y) /\ SubSeq(x \o y, 1, Len(x)) = x
  BY FirstOfTwo
<1> QED
  BY <1>1 DEF Feed!Cut

\* What is waiting are lines.
LEMMA WaitingTypes ==
  ASSUME TypeOK
  PROVE  /\ inbox \in Seq(Lines) /\ queue \in Seq(Lines) /\ writer.line \in Lines
         /\ wire \in Seq(Part) /\ buffer \in Seq(Part) /\ buffer \o wire \in Seq(Part)
         /\ Complete(buffer \o wire) \in Seq(Lines) /\ InHand \in Seq(Lines)
         /\ OnTheWay \in Seq(Lines) /\ Queued \in Seq(Lines)
         /\ inbox \o OnTheWay \in Seq(Lines) /\ Waiting \in Seq(Lines)
<1>1. inbox \in Seq(Lines) /\ queue \in Seq(Lines) /\ wire \in Seq(Part) /\ buffer \in Seq(Part)
  BY DEF TypeOK
<1>2. writer.line \in Lines
  BY DEF TypeOK
<1>3. InHand \in Seq(Lines) /\ Queued \in Seq(Lines)
  <2>1. <<writer.line>> \in Seq(Lines) /\ <<>> \in Seq(Lines)
    BY <1>2
  <2> QED
    BY <2>1, <1>1 DEF InHand, Queued
<1>4. buffer \o wire \in Seq(Part) /\ Complete(buffer \o wire) \in Seq(Lines)
  BY <1>1, ConcatProperties, CompleteType
<1>5. Complete(buffer \o wire) \o InHand \in Seq(Lines)
  BY <1>3, <1>4, ConcatProperties
<1>6. OnTheWay \in Seq(Lines)
  BY <1>5, EmptySeq DEF OnTheWay
<1>7. inbox \o OnTheWay \in Seq(Lines) /\ (inbox \o OnTheWay) \o Queued \in Seq(Lines)
  BY <1>1, <1>3, <1>6, ConcatProperties
<1>8. Waiting \in Seq(Lines)
  BY <1>7, EmptySeq DEF Waiting
<1> QED
  BY <1>1, <1>2, <1>3, <1>4, <1>6, <1>7, <1>8

\* Whatever closes the feed drops what is queued, and perhaps the end of what is
\* on the way.
LEMMA Shuts ==
  ASSUME TypeOK, NEW y \in Seq(Lines), NEW x \in Seq(Lines), OnTheWay = x \o y, OnTheWay' = x,
         UNCHANGED <<said, got, inbox, recorder>>, Open' = FALSE
  PROVE  Feed!Cut
<1>1. /\ inbox \in Seq(Lines) /\ Queued \in Seq(Lines) /\ inbox \o x \in Seq(Lines)
      /\ y \o Queued \in Seq(Lines)
  BY WaitingTypes, ConcatProperties
<1>2. Queued' = <<>>
  BY DEF Queued
<1>3. CASE recorder = "stopped"
  <2>1. Waiting = <<>> /\ Waiting' = <<>>
    BY <1>3 DEF Waiting
  <2>2. <<>> \in Seq(Lines) /\ <<>> \o <<>> = <<>>
    BY EmptySeq, ConcatEmptySeq
  <2> QED
    BY <2>1, <2>2, CutAfter
<1>4. CASE recorder # "stopped"
  <2>1. Waiting = (inbox \o (x \o y)) \o Queued
    BY <1>4 DEF Waiting
  <2>2. (inbox \o (x \o y)) \o Queued = (inbox \o x) \o (y \o Queued)
    <3>1. Regroups(inbox, x, y) /\ Regroups(inbox \o x, y, Queued)
      BY <1>1, Regroup
    <3> QED
      BY <3>1 DEF Regroups
  <2>3. Waiting' = (inbox \o x) \o <<>>
    BY <1>2, <1>4 DEF Waiting
  <2>4. Waiting' = inbox \o x
    BY <2>3, <1>1, ConcatEmptySeq
  <2> QED
    BY <2>1, <2>2, <2>4, <1>1, CutAfter
<1> QED
  BY <1>3, <1>4

\* It is enough to shut the feed that nothing on the way is lost or gained.
LEMMA ShutsOnly ==
  ASSUME TypeOK, OnTheWay' = OnTheWay, UNCHANGED <<said, got, inbox, recorder>>, Open' = FALSE
  PROVE  Feed!Cut
<1>1. OnTheWay \in Seq(Lines) /\ <<>> \in Seq(Lines) /\ OnTheWay = OnTheWay \o <<>>
  BY WaitingTypes, EmptySeq, ConcatEmptySeq
<1> QED
  BY <1>1, Shuts

LEMMA Stays ==
  ASSUME UNCHANGED <<said, got, inbox, recorder, queue>>, Open' = Open, OnTheWay' = OnTheWay
  PROVE  UNCHANGED Feed!vars
<1>1. Queued' = Queued
  BY DEF Queued
<1> QED
  BY <1>1 DEF Feed!vars, Waiting

\* A line given to the queue is said; a full queue refuses it, and then as many
\* are waiting.
LEMMA EnqueueSays ==
  ASSUME TypeOK, Enqueue
  PROVE  Feed!Say
<1> DEFINE l == Head(toSay)
<1>1. /\ l \in Lines /\ said' = Append(said, l)
      /\ UNCHANGED <<got, inbox, recorder>> /\ Open' = Open /\ OnTheWay' = OnTheWay
  <2>1. toSay \in Seq(Lines) /\ toSay # <<>>
    BY DEF TypeOK, FilterTypes, Enqueue
  <2>2. l \in Lines
    BY <2>1, HeadThenTail
  <2>3. UNCHANGED <<got, inbox, recorder, writer, wire, server, buffer, running>> /\ said' = Append(said, l)
    BY DEF Enqueue
  <2> QED
    BY <2>2, <2>3 DEF Open, OnTheWay, InHand
<1>2. queue' = IF Len(queue) >= MaxQueue THEN queue ELSE Append(queue, l)
  BY DEF Enqueue
<1> HIDE DEF l
<1>3. inbox \o OnTheWay \in Seq(Lines) /\ queue \in Seq(Lines)
  BY WaitingTypes
<1>4. CASE ~ Open
  <2>1. Queued = <<>> /\ Queued' = <<>>
    BY <1>1, <1>4 DEF Queued
  <2>2. Waiting' = Waiting
    BY <2>1, <1>1 DEF Waiting
  <2> QED
    BY <2>2, <1>1, <1>4 DEF Feed!Say
<1>5. CASE Open
  <2>1. /\ Waiting = (inbox \o OnTheWay) \o queue
        /\ Waiting' = (inbox \o OnTheWay) \o queue'
    <3>1. recorder # "stopped" /\ Queued = queue /\ Queued' = queue'
      BY <1>1, <1>5 DEF Open, Queued
    <3> QED
      BY <3>1, <1>1 DEF Waiting
  <2>2. CASE Len(queue) >= MaxQueue
    <3>1. Len((inbox \o OnTheWay) \o queue) = Len(inbox \o OnTheWay) + Len(queue)
          /\ Len(inbox \o OnTheWay) \in Nat /\ Len(queue) \in Nat
      BY <1>3, ConcatProperties, LenProperties
    <3>2. Len(Waiting) >= MaxQueue
      BY <3>1, <2>1, <2>2, StreamAssumption
    <3>3. Waiting' = Waiting
      BY <2>1, <2>2, <1>2
    <3> QED
      BY <3>2, <3>3, <1>1 DEF Feed!Say
  <2>3. CASE ~ (Len(queue) >= MaxQueue)
    <3>1. (inbox \o OnTheWay) \o Append(queue, l) = Append((inbox \o OnTheWay) \o queue, l)
      BY <1>1, <1>3, ConcatAppend
    <3>2. Waiting' = Append(Waiting, l)
      BY <3>1, <2>1, <2>3, <1>2
    <3> QED
      BY <3>2, <1>1, <1>5 DEF Feed!Say
  <2> QED
    BY <2>2, <2>3
<1> QED
  BY <1>4, <1>5

\* The writer takes a line from the queue: it waits in the writer's hand.
LEMMA TakeStays ==
  ASSUME TypeOK, Take
  PROVE  UNCHANGED Feed!vars
<1>1. /\ writer.at = "waiting" /\ running /\ queue # <<>> /\ queue' = Tail(queue)
      /\ UNCHANGED <<said, got, inbox, recorder, running, server, buffer, wire>>
  BY DEF Take, Written
<1>2. writer'.at = "sending" /\ writer'.line = Head(queue)
  BY DEF Take, Written, TypeOK
<1>3. Open' = Open /\ InHand = <<>> /\ InHand' = <<Head(queue)>>
  BY <1>1, <1>2 DEF Open, InHand
<1>4. CASE recorder = "stopped"
  BY <1>1, <1>3, <1>4 DEF Feed!vars, Waiting
<1>5. CASE recorder # "stopped" /\ server \in {"ended", "elsewhere"}
  <2>1. ~ Open /\ OnTheWay = <<>> /\ OnTheWay' = <<>>
    BY <1>1, <1>5 DEF Open, OnTheWay
  <2>2. Queued = <<>> /\ Queued' = <<>>
    BY <2>1, <1>3 DEF Queued
  <2> QED
    BY <2>1, <2>2, <1>1, <1>3 DEF Feed!vars, Waiting
<1>6. CASE recorder # "stopped" /\ server \notin {"ended", "elsewhere"}
  <2>1. Open
    BY <1>1, <1>6 DEF Open, TypeOK
  <2>2. PICK i \in Seq(Lines), c \in Seq(Lines), h \in Seq(Lines), t \in Seq(Lines) :
          i = inbox /\ c = Complete(buffer \o wire) /\ h = <<Head(queue)>> /\ t = Tail(queue)
    BY <1>1, WaitingTypes, HeadThenTail
  <2>3. h \o t = queue
    BY <2>2, <1>1, WaitingTypes, HeadThenTail
  <2>4. Waiting = (i \o (c \o <<>>)) \o (h \o t)
    BY <1>3, <1>6, <2>1, <2>2, <2>3 DEF Waiting, OnTheWay, Queued
  <2>5. Waiting' = (i \o (c \o h)) \o t
    <3>1. OnTheWay' = c \o h /\ Queued' = t
      BY <1>1, <1>3, <1>6, <2>1, <2>2 DEF OnTheWay, Queued
    <3> QED
      BY <3>1, <1>1, <1>6, <2>2 DEF Waiting
  <2>6. (i \o (c \o <<>>)) \o (h \o t) = (i \o (c \o h)) \o t
    <3>1. c \o <<>> = c
      BY ConcatEmptySeq
    <3>2. i \o c \in Seq(Lines)
      BY ConcatProperties
    <3>3. Regroups(i, c, h) /\ Regroups(i \o c, h, t)
      BY <3>2, Regroup
    <3> QED
      BY <3>1, <3>3 DEF Regroups
  <2>7. Waiting' = Waiting
    BY <2>4, <2>5, <2>6
  <2> QED
    BY <2>7, <1>1, <1>3 DEF Feed!vars
<1> QED
  BY <1>4, <1>5, <1>6

\* The parts of a line that are on the wire, and the rest in the writer's hand,
\* are the same line.
LEMMA SendStays ==
  ASSUME TypeOK, Send
  PROVE  UNCHANGED Feed!vars
<1> DEFINE p == [line |-> writer.line, last |-> FALSE]
           q == [line |-> writer.line, last |-> TRUE]
           c == Complete(buffer \o wire)
<1>1. /\ wire \in Seq(Part) /\ buffer \in Seq(Part) /\ c \in Seq(Lines) /\ writer.line \in Lines
      /\ p \in Part /\ q \in Part /\ p.last = FALSE /\ q.last = TRUE /\ q.line = writer.line
      /\ <<writer.line>> \in Seq(Lines)
  <2>1. writer.line \in Lines /\ wire \in Seq(Part) /\ buffer \in Seq(Part) /\ c \in Seq(Lines)
    BY WaitingTypes
  <2> QED
    BY <2>1 DEF Part
<1>2. /\ UNCHANGED <<said, got, inbox, recorder, queue, running, server, buffer>>
      /\ writer.at \in {"sending", "sending on"} /\ InHand = <<writer.line>>
  BY DEF Send, Written, InHand
<1>3. /\ writer'.line = writer.line
      /\ \/ writer'.at = "sending on" /\ wire' = Append(wire, p)
         \/ writer'.at = "waiting" /\ writer.at = "sending on" /\ wire' = wire \o <<q>>
         \/ writer'.at = "waiting" /\ writer.at = "sending" /\ wire' = Append(wire, p) \o <<q>>
  BY DEF Send, Written, TypeOK
<1> HIDE DEF p, q, c
<1>4. /\ Append(wire, p) \in Seq(Part)
      /\ Complete(buffer \o Append(wire, p)) = c
  <2>1. /\ Append(wire, p) \in Seq(Part)
        /\ Complete(buffer \o Append(wire, p)) = c \o <<>>
    BY <1>1, WireGrows DEF c
  <2> QED
    BY <2>1, <1>1, ConcatEmptySeq
<1>5. ASSUME NEW w \in Seq(Part), Complete(buffer \o w) = c
      PROVE  Complete(buffer \o (w \o <<q>>)) = c \o <<writer.line>>
  <2>1. w \o <<q>> = Append(w, q)
    BY <1>1, AppendIsConcat
  <2>2. Complete(buffer \o Append(w, q)) = Complete(buffer \o w) \o <<q.line>>
    BY <1>1, WireGrows
  <2> QED
    BY <2>1, <2>2, <1>1, <1>5
<1>6. Complete(buffer \o wire') \o InHand' = c \o <<writer.line>>
  <2>1. CASE writer'.at = "sending on" /\ wire' = Append(wire, p)
    BY <2>1, <1>2, <1>3, <1>4 DEF InHand
  <2>2. CASE writer'.at = "waiting" /\ (wire' = wire \o <<q>> \/ wire' = Append(wire, p) \o <<q>>)
    <3>1. Complete(buffer \o wire') = c \o <<writer.line>>
      BY <2>2, <1>1, <1>4, <1>5 DEF c
    <3>2. InHand' = <<>>
      BY <2>2 DEF InHand
    <3>3. c \o <<writer.line>> \in Seq(Lines)
      BY <1>1, ConcatProperties
    <3> QED
      BY <3>1, <3>2, <3>3, ConcatEmptySeq
  <2> QED
    BY <2>1, <2>2, <1>3
<1>7. OnTheWay' = OnTheWay
  BY <1>2, <1>6 DEF OnTheWay, c
<1>8. Open' = Open
  BY <1>2, <1>3 DEF Open
<1> QED
  BY <1>2, <1>7, <1>8, Stays

\* Lines that are read were on their way, before all that still are.
LEMMA ReadStays ==
  ASSUME NEW read \in Seq(Part), NEW rest \in Seq(Part), TypeOK,
         buffer \o wire = read \o rest, server = "serving",
         inbox' = inbox \o Complete(read), Complete(buffer' \o wire') = Complete(rest),
         UNCHANGED <<writer, server>>
  PROVE  inbox' \o OnTheWay' = inbox \o OnTheWay
<1>1. /\ inbox \in Seq(Lines) /\ Complete(read) \in Seq(Lines) /\ Complete(rest) \in Seq(Lines)
      /\ InHand \in Seq(Lines)
  BY WaitingTypes, CompleteType
<1>2. OnTheWay = (Complete(read) \o Complete(rest)) \o InHand
  <2>1. Complete(buffer \o wire) = Complete(read) \o Complete(rest)
    BY CompleteConcat
  <2> QED
    BY <2>1 DEF OnTheWay
<1>3. OnTheWay' = Complete(rest) \o InHand
  BY DEF OnTheWay, InHand
<1>4. CarriesOver(inbox, Complete(read), Complete(rest), InHand)
  BY ONLY <1>1, MovesAcross
<1> QED
  BY <1>2, <1>3, <1>4 DEF CarriesOver

\* What the receiver reads goes from the wire to its lines, and what has no end
\* yet stays in its buffer.
LEMMA ReceiveStays ==
  ASSUME TypeOK, Carriage, Receive
  PROVE  UNCHANGED Feed!vars
<1>1. /\ UNCHANGED <<queue, running, writer, recorder, got, said, server>>
      /\ server = "serving" /\ recorder # "stopped"
  BY DEF Receive, Receives
<1>2. /\ wire \in Seq(Part) /\ buffer \in Seq(Part) /\ inbox \in Seq(Lines) /\ InHand \in Seq(Lines)
      /\ Queued \in Seq(Lines)
  BY WaitingTypes
<1>3. PICK n \in 1..Len(wire) :
        /\ inbox' = inbox \o Complete(buffer \o SubSeq(wire, 1, n))
        /\ buffer' = IF Last(buffer \o SubSeq(wire, 1, n)).last THEN <<>>
                     ELSE <<Last(buffer \o SubSeq(wire, 1, n))>>
        /\ wire' = SubSeq(wire, n + 1, Len(wire))
  BY DEF Receive
<1>4. PICK first \in Seq(Part), rest \in Seq(Part) :
        /\ first = SubSeq(wire, 1, n) /\ rest = SubSeq(wire, n + 1, Len(wire)) /\ wire = first \o rest
        /\ Last(buffer \o first) \in Part /\ (buffer \o first) \o rest = buffer \o wire
  <2>1. /\ SubSeq(wire, 1, n) \in Seq(Part) /\ SubSeq(wire, n + 1, Len(wire)) \in Seq(Part)
        /\ wire = SubSeq(wire, 1, n) \o SubSeq(wire, n + 1, Len(wire))
        /\ buffer \o SubSeq(wire, 1, n) \in Seq(Part) /\ Last(buffer \o SubSeq(wire, 1, n)) \in Part
        /\ (buffer \o SubSeq(wire, 1, n)) \o SubSeq(wire, n + 1, Len(wire)) = buffer \o wire
    BY <1>2, ReadsParts
  <2> QED
    BY <2>1
<1>5. PICK b \in Seq(Part) : b = buffer
  BY <1>2
<1>6. PICK read \in Seq(Part) : read = b \o first
  BY ConcatProperties
<1>7. read \o rest = buffer \o wire
  BY <1>4, <1>5, <1>6
<1>8. Complete(buffer \o wire) = Complete(read) \o Complete(rest)
  BY <1>4, <1>6, <1>7, CompleteConcat
<1>9. Complete(buffer' \o wire') = Complete(rest)
  <2>1. buffer' = (IF Last(read).last THEN <<>> ELSE <<Last(read)>>) /\ wire' = rest
    BY <1>3, <1>4, <1>5, <1>6
  <2>2. CASE Last(read).last
    <3>1. <<>> \o rest = rest
      BY <1>4, ConcatEmptySeq
    <3> QED
      BY <2>1, <2>2, <3>1
  <2>3. CASE ~ Last(read).last
    <3>1. PICK p \in Part : p = Last(read)
      BY <1>4, <1>5, <1>6
    <3>2. <<p>> \in Seq(Part) /\ Complete(<<p>>) = <<>>
      BY <2>3, <3>1, CompleteOne
    <3>3. Complete(<<p>> \o rest) = <<>> \o Complete(rest)
      BY <3>2, <1>4, CompleteConcat
    <3>4. Complete(rest) \in Seq(Lines)
      BY <1>4, CompleteType
    <3>5. <<>> \o Complete(rest) = Complete(rest)
      BY <3>4, ConcatEmptySeq
    <3> QED
      BY <2>1, <2>3, <3>1, <3>3, <3>5
  <2> QED
    BY <2>2, <2>3
<1>10. inbox' \o OnTheWay' = inbox \o OnTheWay
  <2>1. inbox' = inbox \o Complete(read)
    BY <1>3, <1>4, <1>5, <1>6
  <2> QED
    BY <2>1, <1>1, <1>7, <1>9, ReadStays
<1>11. Open' = Open /\ Queued' = Queued
  BY <1>1 DEF Open, Queued
<1>12. Waiting' = Waiting
  BY <1>1, <1>10, <1>11 DEF Waiting
<1> QED
  BY <1>1, <1>11, <1>12 DEF Feed!vars

\* The recorder takes what has come.
LEMMA PollHears ==
  ASSUME TypeOK, recorder # "stopped", recorder' # "stopped", got' = got \o inbox, inbox' = <<>>,
         UNCHANGED <<queue, running, writer, wire, server, buffer, said>>
  PROVE  Feed!Hear \/ UNCHANGED Feed!vars
<1>1. PICK i \in Seq(Lines), o \in Seq(Lines), d \in Seq(Lines) :
        i = inbox /\ o = OnTheWay /\ d = Queued
  BY WaitingTypes
<1>2. Open' = Open /\ OnTheWay' = o /\ Queued' = d
  <2>1. Open' = Open
    BY DEF Open
  <2>2. OnTheWay' = OnTheWay
    BY DEF OnTheWay, InHand
  <2> QED
    BY <1>1, <2>1, <2>2 DEF Queued
<1>3. Waiting = i \o (o \o d) /\ Waiting' = o \o d /\ o \o d \in Seq(Lines)
  <2>1. Waiting = (i \o o) \o d /\ Waiting' = (<<>> \o o) \o d
    BY <1>1, <1>2 DEF Waiting
  <2>2. Regroups(i, o, d)
    BY Regroup
  <2>3. <<>> \o o = o /\ o \o d \in Seq(Lines)
    BY ConcatEmptySeq, ConcatProperties
  <2> QED
    BY <2>1, <2>2, <2>3 DEF Regroups
<1>4. CASE i = <<>>
  <2>1. <<>> \o (o \o d) = o \o d
    BY <1>3, ConcatEmptySeq
  <2>2. got' = got
    <3>1. got \in Seq(Lines)
      BY DEF TypeOK
    <3> QED
      BY <3>1, <1>1, <1>4, ConcatEmptySeq
  <2> QED
    BY <1>2, <1>3, <1>4, <2>1, <2>2 DEF Feed!vars
<1>5. CASE i # <<>>
  <2>1. got' = got \o i
    BY <1>1
  <2> QED
    BY <2>1, <1>2, <1>3, <1>5, HearFirst
<1> QED
  BY <1>4, <1>5

\* The end of what is on the way may be lost with the receiver's thread.
LEMMA ShutsAll ==
  ASSUME TypeOK, server' \in {"ended", "elsewhere"}, UNCHANGED <<said, got, inbox, recorder>>
  PROVE  Feed!Cut
<1>1. Open' = FALSE /\ OnTheWay' = <<>>
  BY DEF Open, OnTheWay
<1>2. OnTheWay \in Seq(Lines) /\ <<>> \in Seq(Lines) /\ OnTheWay = <<>> \o OnTheWay
  BY WaitingTypes, EmptySeq, ConcatEmptySeq
<1> QED
  BY <1>1, <1>2, Shuts

\* The writer's steps that send nothing.
LEMMA WriterStays ==
  ASSUME TypeOK, Carriage, Connect \/ ConnectFails \/ GiveUp \/ SendFails \/ Leave
  PROVE  Feed!Cut \/ UNCHANGED Feed!vars
<1>1. UNCHANGED <<queue, wire, running, server, buffer, inbox, recorder, got, said>>
  BY DEF Connect, ConnectFails, GiveUp, SendFails, Leave, Written
<1>2. writer.attempts \in 0..MaxAttempts /\ MaxAttempts \in Nat
  BY StreamAssumption DEF TypeOK
<1>3. CASE Connect
  <2>1. /\ writer.at = "connecting" /\ running /\ writer.attempts < MaxAttempts /\ server # "ended"
        /\ server # "serving"
    BY <1>3 DEF Connect, Reachable, Carriage
  <2>2. writer'.at = "waiting"
    BY <1>3 DEF Connect, Written, TypeOK
  <2>3. OnTheWay' = OnTheWay
    BY <1>1, <2>1, <2>2 DEF OnTheWay, InHand
  <2>4. Open' = Open
    BY <1>1, <2>1, <2>2 DEF Open
  <2> QED
    BY <1>1, <2>3, <2>4, Stays
<1>4. CASE ConnectFails
  <2>1. writer.at = "connecting" /\ running /\ writer.attempts < MaxAttempts
    BY <1>4 DEF ConnectFails
  <2>2. writer'.at = "connecting" /\ writer'.attempts = writer.attempts + 1
    BY <1>4, <2>1 DEF ConnectFails, Written, TypeOK
  <2>3. OnTheWay' = OnTheWay
    BY <1>1, <2>1, <2>2 DEF OnTheWay, InHand
  <2>4. CASE writer.attempts + 1 < MaxAttempts
    <3>1. Open' = Open
      BY <1>1, <2>1, <2>2, <2>4 DEF Open
    <3> QED
      BY <1>1, <2>3, <3>1, Stays
  <2>5. CASE ~ (writer.attempts + 1 < MaxAttempts)
    <3>1. Open' = FALSE
      BY <2>2, <2>5 DEF Open
    <3> QED
      BY <1>1, <2>3, <3>1, ShutsOnly
  <2> QED
    BY <2>4, <2>5
<1>5. CASE GiveUp \/ SendFails \/ Leave
  <2>1. writer'.at = "ended"
    BY <1>5 DEF GiveUp, SendFails, Leave, Written, TypeOK
  <2>2. Open' = FALSE
    BY <2>1 DEF Open
  <2>3. OnTheWay' = OnTheWay
    <3>1. CASE GiveUp \/ Leave
      <4>1. writer.at \in {"connecting", "waiting"}
        BY <3>1 DEF GiveUp, Leave
      <4> QED
        BY <4>1, <2>1, <1>1 DEF OnTheWay, InHand
    <3>2. CASE SendFails
      <4>1. server = "ended"
        BY <3>2 DEF SendFails, Reachable
      <4> QED
        BY <4>1, <1>1 DEF OnTheWay
    <3> QED
      BY <1>5, <3>1, <3>2
  <2> QED
    BY <1>1, <2>2, <2>3, ShutsOnly
<1> QED
  BY <1>3, <1>4, <1>5

\* With the application dies what its writer held.
LEMMA DieCuts ==
  ASSUME TypeOK, Die
  PROVE  Feed!Cut
<1>1. /\ UNCHANGED <<queue, wire, running, server, buffer, inbox, recorder, got, said>>
      /\ writer'.at = "dead"
  BY DEF Die, TypeOK
<1>2. Open' = FALSE /\ InHand' = <<>>
  BY <1>1 DEF Open, InHand
<1>3. CASE server \in {"ended", "elsewhere"}
  <2>1. OnTheWay' = OnTheWay
    BY <1>1, <1>3 DEF OnTheWay
  <2> QED
    BY <1>1, <1>2, <2>1, ShutsOnly
<1>4. CASE server \notin {"ended", "elsewhere"}
  <2>1. Complete(buffer \o wire) \in Seq(Lines) /\ InHand \in Seq(Lines)
    BY WaitingTypes
  <2>2. OnTheWay = Complete(buffer \o wire) \o InHand
    BY <1>4 DEF OnTheWay
  <2>3. OnTheWay' = Complete(buffer \o wire)
    <3>1. OnTheWay' = Complete(buffer \o wire) \o <<>>
      BY <1>1, <1>2, <1>4 DEF OnTheWay
    <3> QED
      BY <3>1, <2>1, ConcatEmptySeq
  <2> QED
    BY <1>1, <1>2, <2>1, <2>2, <2>3, Shuts
<1> QED
  BY <1>3, <1>4

\* Each step of the stream is a step of the feed, or none.
LEMMA FeedStep ==
  ASSUME IInv, [Next]_vars
  PROVE  [Feed!Next]_(Feed!vars)
<1>1. TypeOK /\ Carriage
  BY DEF IInv
<1>2. CASE Handle \/ UNCHANGED vars
  <2>1. UNCHANGED <<queue, writer, wire, server, buffer, inbox, running, recorder, got, said>>
    BY <1>2 DEF Handle, vars, stream
  <2>2. Open' = Open /\ OnTheWay' = OnTheWay
    BY <2>1 DEF Open, OnTheWay, InHand
  <2> QED
    BY <2>1, <2>2, Stays
<1>3. CASE Enqueue
  BY <1>1, <1>3, EnqueueSays DEF Feed!Next
<1>4. CASE Quit
  <2>1. UNCHANGED <<queue, writer, wire, server, buffer, inbox, recorder, got, said>> /\ running' = FALSE
    BY <1>4 DEF Quit, stream
  <2>2. Open' = FALSE /\ OnTheWay' = OnTheWay
    BY <2>1 DEF Open, OnTheWay, InHand
  <2> QED
    BY <1>1, <2>1, <2>2, ShutsOnly DEF Feed!Next
<1>5. CASE Die
  BY <1>1, <1>5, DieCuts DEF Feed!Next
<1>6. CASE WriterNext
  <2>1. CASE Take
    BY <1>1, <2>1, TakeStays
  <2>2. CASE Send
    BY <1>1, <2>2, SendStays
  <2>3. CASE Connect \/ ConnectFails \/ GiveUp \/ SendFails \/ Leave
    BY <1>1, <2>3, WriterStays DEF Feed!Next
  <2> QED
    BY <1>6, <2>1, <2>2, <2>3 DEF WriterNext
<1>7. CASE Accept
  <2>1. /\ server = "listening" /\ server' = "serving" /\ (Connected \/ wire # <<>>)
        /\ UNCHANGED <<queue, writer, wire, running, buffer, inbox, recorder, got, said>>
    BY <1>7 DEF Accept, Receives
  <2>2. writer.at # "connecting"
    BY <1>1, <2>1 DEF Carriage, Connected
  <2>3. OnTheWay' = OnTheWay
    BY <2>1 DEF OnTheWay, InHand
  <2>4. Open' = Open
    BY <2>1, <2>2 DEF Open
  <2> QED
    BY <2>1, <2>3, <2>4, Stays
<1>8. CASE Receive
  BY <1>1, <1>8, ReceiveStays
<1>9. CASE Finish \/ AcceptAnother
  <2>1. UNCHANGED <<said, got, inbox, recorder>> /\ server' \in {"ended", "elsewhere"}
    BY <1>9 DEF Finish, AcceptAnother, Receives
  <2> QED
    BY <1>1, <2>1, ShutsAll DEF Feed!Next
<1>10. CASE Drain \/ LastPoll
  <2>1. /\ recorder # "stopped" /\ recorder' # "stopped" /\ got' = got \o inbox /\ inbox' = <<>>
        /\ UNCHANGED <<queue, running, writer, wire, server, buffer, said>>
    BY <1>10 DEF Drain, LastPoll
  <2> QED
    BY <1>1, <2>1, PollHears DEF Feed!Next
<1>11. CASE StopReceiver
  <2>1. recorder' = "stopped" /\ said' = said /\ got' = got
    BY <1>11 DEF StopReceiver
  <2>2. Waiting' = <<>> /\ Open' = FALSE
    BY <2>1 DEF Waiting, Open
  <2>3. Waiting \in Seq(Lines) /\ <<>> \in Seq(Lines) /\ Waiting = <<>> \o Waiting
    BY <1>1, WaitingTypes, EmptySeq, ConcatEmptySeq
  <2> QED
    BY <2>1, <2>2, <2>3, CutAfter DEF Feed!Next
<1> QED
  BY <1>2, <1>3, <1>4, <1>5, <1>6, <1>7, <1>8, <1>9, <1>10, <1>11 DEF Next, ReceiverNext

LEMMA FeedInit == Init => Feed!Init
<1> SUFFICES ASSUME Init
             PROVE  Feed!Init
  OBVIOUS
<1>1. /\ said = <<>> /\ queue = <<>> /\ running = TRUE /\ wire = <<>> /\ buffer = <<>> /\ inbox = <<>>
      /\ server = "listening" /\ recorder = "recording" /\ got = <<>>
      /\ writer.at = "connecting" /\ writer.attempts = 0
  BY DEF Init
<1>2. Open = TRUE
  BY <1>1, StreamAssumption DEF Open
<1>3. Complete(buffer \o wire) = <<>>
  BY <1>1, CompleteEmpty, EmptySeq, ConcatEmptySeq
<1>4. OnTheWay = <<>>
  BY <1>1, <1>3, EmptySeq, ConcatEmptySeq DEF OnTheWay, InHand
<1>5. Waiting = <<>>
  BY <1>1, <1>4, EmptySeq, ConcatEmptySeq DEF Waiting, Queued
<1> QED
  BY <1>1, <1>2, <1>5 DEF Feed!Init

\* The safety part of ImplementsLineFeed: the recorder hears the lines in order,
\* none twice and none it was not told; only a full queue or the end of the feed
\* loses any, the end the last ones (qatrec.cpp:73-84 and 652-689,
\* events.py:218-262).
THEOREM KeepsTheLineFeedSafely == Spec => Feed!Init /\ [][Feed!Next]_(Feed!vars)
<1>1. Spec => []IInv
  BY InitIInv, NextIInv, PTL DEF Spec
<1> QED
  BY <1>1, FeedInit, FeedStep, PTL DEF Spec
=============================================================================
