------------------------------ MODULE ListLemmas ------------------------------
(****************************************************************************)
(* Facts about sequences that need an induction, for the proofs about the   *)
(* components.  The induction is over the natural numbers and is carried by *)
(* the least number for which a statement fails.                            *)
(****************************************************************************)
EXTENDS Naturals, Sequences, SequencesExt, SequenceTheorems, WellFoundedInduction, TLAPS

\* Every set of natural numbers that is not empty has a least member.
LEMMA Least ==
  ASSUME NEW T \in SUBSET Nat, T # {}
  PROVE  \E x \in T : \A y \in T : x <= y
<1>1. \E R : IsWellFoundedOn(R, Nat) /\ \A x, y \in Nat : <<y, x>> \in R <=> y < x
  <2>1. IsWellFoundedOn(OpToRel(<, Nat), Nat)
    BY NatLessThanWellFounded
  <2>2. \A x, y \in Nat : <<y, x>> \in OpToRel(<, Nat) <=> y < x
    BY DEF OpToRel
  <2> QED
    BY <2>1, <2>2, Zenon
<1>2. PICK R : IsWellFoundedOn(R, Nat) /\ \A x, y \in Nat : <<y, x>> \in R <=> y < x
  BY <1>1
<1>3. \E x \in T : \A y \in T : ~ (<<y, x>> \in R)
  BY <1>2, WFMin
<1>4. PICK x \in T : \A y \in T : ~ (<<y, x>> \in R)
  BY <1>3
<1>5. ASSUME NEW y \in T
      PROVE  x <= y
  <2>1. x \in Nat /\ y \in Nat
    OBVIOUS
  <2>2. ~ (y < x)
    BY <1>2, <1>4, <2>1
  <2> QED
    BY <2>1, <2>2
<1> QED
  BY <1>5

-----------------------------------------------------------------------------
(* FlattenSeq.                                                              *)

\* The sequences put together one after the other, up to each place.
Sums(f, seqs, n) == \A i \in 1..n : f[i] = IF i = 1 THEN seqs[i] ELSE f[i - 1] \o seqs[i]

Agree(f, g, n) == \A i \in 1..n : f[i] = g[i]

\* There are such sums for every list of sequences.
LEMMA SumsExist ==
  ASSUME NEW S, NEW seqs \in Seq(Seq(S)), NEW k \in 0..Len(seqs)
  PROVE  \E f \in [1..k -> Seq(S)] : Sums(f, seqs, k)
<1> DEFINE Has(n) == \E f \in [1..n -> Seq(S)] : Sums(f, seqs, n)
           Bad == {n \in 0..Len(seqs) : ~Has(n)}
<1>1. Has(0)
  <2> DEFINE e == [i \in 1..0 |-> <<>>]
  <2>1. e \in [1..0 -> Seq(S)]
    OBVIOUS
  <2>2. Sums(e, seqs, 0)
    BY DEF Sums
  <2> QED
    BY <2>1, <2>2
<1>2. ASSUME NEW n \in 0..Len(seqs), n < Len(seqs), Has(n)
      PROVE  Has(n + 1)
  <2>1. PICK f \in [1..n -> Seq(S)] : Sums(f, seqs, n)
    BY <1>2
  <2>2. \A i \in 1..Len(seqs) : seqs[i] \in Seq(S)
    OBVIOUS
  <2> DEFINE last == IF n = 0 THEN seqs[1] ELSE f[n] \o seqs[n + 1]
             g == [i \in 1..(n + 1) |-> IF i = n + 1 THEN last ELSE f[i]]
  <2>3. g \in [1..(n + 1) -> Seq(S)]
    BY <2>2, <1>2
  <2>4. ASSUME NEW i \in 1..(n + 1)
        PROVE  g[i] = IF i = 1 THEN seqs[i] ELSE g[i - 1] \o seqs[i]
    <3>1. CASE i = n + 1 /\ n = 0
      BY <3>1
    <3>2. CASE i = n + 1 /\ n # 0
      <4>1. i # 1 /\ i - 1 = n /\ n \in 1..(n + 1) /\ n # n + 1
        BY <3>2, <1>2
      <4>2. g[i - 1] = f[n] /\ g[i] = f[n] \o seqs[n + 1]
        BY <4>1, <3>2
      <4> QED
        BY <4>1, <4>2, <3>2
    <3>3. CASE i # n + 1
      <4>1. i \in 1..n
        BY <3>3, <1>2
      <4>2. i # 1 => i - 1 \in 1..(n + 1) /\ i - 1 # n + 1
        BY <4>1, <1>2
      <4>3. g[i] = f[i] /\ (i # 1 => g[i - 1] = f[i - 1])
        BY <4>1, <4>2, <3>3
      <4> QED
        BY <4>1, <4>3, <2>1 DEF Sums
    <3> QED
      BY <3>1, <3>2, <3>3
  <2> QED
    BY <2>3, <2>4 DEF Sums
<1> HIDE DEF Has
<1>3. ASSUME Bad # {}
      PROVE  FALSE
  <2> HIDE DEF Bad
  <2>0. Bad \in SUBSET Nat
    BY DEF Bad
  <2>1. PICK n \in Bad : \A m \in Bad : n <= m
    BY <1>3, <2>0, Least
  <2> USE DEF Bad
  <2>2. n \in 0..Len(seqs) /\ n # 0 /\ ~Has(n)
    BY <2>1, <1>1
  <2>3. n - 1 \in 0..Len(seqs) /\ n - 1 < Len(seqs) /\ n - 1 \notin Bad
    BY <2>1, <2>2
  <2>4. Has((n - 1) + 1)
    BY <2>3, <1>2
  <2>5. (n - 1) + 1 = n
    BY <2>2
  <2> QED
    BY <2>2, <2>4, <2>5
<1> QED
  BY <1>3 DEF Has

\* The sums of one list are one function, whatever follows in the list.
LEMMA SumsAgree ==
  ASSUME NEW n \in Nat, NEW f, NEW g, NEW s, NEW t,
         Agree(s, t, n), Sums(f, s, n), Sums(g, t, n)
  PROVE  Agree(f, g, n)
<1> DEFINE Bad == {i \in 1..n : f[i] # g[i]}
<1>1. ASSUME Bad # {}
      PROVE  FALSE
  <2> HIDE DEF Bad
  <2>0. Bad \in SUBSET Nat
    BY DEF Bad
  <2>1. PICK i \in Bad : \A j \in Bad : i <= j
    BY <1>1, <2>0, Least
  <2> USE DEF Bad
  <2>2. i = 1 \/ (i - 1 \in 1..n /\ i - 1 \notin Bad)
    BY <2>1
  <2> QED
    BY <2>1, <2>2 DEF Sums, Agree
<1> QED
  BY <1>1 DEF Agree

\* FlattenSeq returns the last of the sums.
LEMMA FlattenIsASum ==
  ASSUME NEW S, NEW seqs \in Seq(Seq(S)), seqs # <<>>
  PROVE  \E f \in [1..Len(seqs) -> Seq(S)] :
            Sums(f, seqs, Len(seqs)) /\ FlattenSeq(seqs) = f[Len(seqs)]
<1> DEFINE n == Len(seqs)
           Step(f) == [i \in 1..n |-> IF i = 1 THEN seqs[i] ELSE f[i - 1] \o seqs[i]]
           F == CHOOSE f : f = Step(f)
<1>1. n \in Nat /\ n # 0
  OBVIOUS
<1>2. FlattenSeq(seqs) = F[n]
  BY <1>1 DEF FlattenSeq
<1>3. PICK f \in [1..n -> Seq(S)] : Sums(f, seqs, n)
  BY <1>1, SumsExist, SMTT(20)
<1>4. f = Step(f)
  BY <1>3 DEF Sums
<1>5. F = Step(F)
  BY <1>4
<1>6. Sums(F, seqs, n)
  BY <1>5 DEF Sums
<1>7. \A i \in 1..n : F[i] = f[i]
  <2>1. Agree(seqs, seqs, n)
    BY DEF Agree
  <2> HIDE DEF F
  <2>2. Agree(F, f, n)
    BY <2>1, <1>1, <1>3, <1>6, SumsAgree
  <2> QED
    BY <2>2 DEF Agree
<1>8. F = f
  <2>1. Step(F) = Step(f)
    <3>1. \A i \in 1..n : i # 1 => i - 1 \in 1..n
      BY <1>1
    <3> HIDE DEF F, n
    <3>2. \A i \in 1..n : (IF i = 1 THEN seqs[i] ELSE F[i - 1] \o seqs[i])
                          = (IF i = 1 THEN seqs[i] ELSE f[i - 1] \o seqs[i])
      BY <3>1, <1>7
    <3> QED
      BY <3>2
  <2> QED
    BY <1>4, <1>5, <2>1
<1> QED
  BY <1>2, <1>3, <1>8

LEMMA FlattenEmpty == FlattenSeq(<<>>) = <<>>
BY DEF FlattenSeq

\* Flattening puts together sequences of one type.
LEMMA FlattenType ==
  ASSUME NEW S, NEW seqs \in Seq(Seq(S))
  PROVE  FlattenSeq(seqs) \in Seq(S)
<1>1. CASE seqs = <<>>
  <2>1. FlattenSeq(seqs) = <<>>
    BY <1>1, FlattenEmpty
  <2> QED
    BY <2>1
<1>2. CASE seqs # <<>>
  <2>1. PICK f \in [1..Len(seqs) -> Seq(S)] : FlattenSeq(seqs) = f[Len(seqs)]
    BY <1>2, FlattenIsASum
  <2>2. Len(seqs) \in 1..Len(seqs)
    BY <1>2
  <2> QED
    BY <2>1, <2>2
<1> QED
  BY <1>1, <1>2

\* One sequence more at the end of the list goes to the end of what is flattened.
LEMMA FlattenAppend ==
  ASSUME NEW S, NEW seqs \in Seq(Seq(S)), NEW x \in Seq(S)
  PROVE  FlattenSeq(Append(seqs, x)) = FlattenSeq(seqs) \o x
<1> DEFINE n == Len(seqs)
           t == Append(seqs, x)
<1>1. /\ n \in Nat /\ t \in Seq(Seq(S)) /\ t # <<>>
      /\ Len(t) = n + 1 /\ t[n + 1] = x /\ \A i \in 1..n : seqs[i] = t[i]
  <2> DEFINE T == Seq(S)
  <2> HIDE DEF T
  <2>1. seqs \in Seq(T) /\ x \in T
    BY DEF T
  <2>2. n \in Nat /\ t \in Seq(T) /\ Len(t) = n + 1 /\ t[n + 1] = x
    BY <2>1, AppendProperties
  <2>3. \A i \in 1..n : seqs[i] = t[i]
    BY <2>1, AppendProperties
  <2> QED
    BY <2>2, <2>3, EmptySeq DEF T
<1> HIDE DEF t
<1>2. PICK g \in [1..(n + 1) -> Seq(S)] : Sums(g, t, n + 1) /\ FlattenSeq(t) = g[n + 1]
  BY <1>1, FlattenIsASum
<1>3. CASE n = 0
  <2>1. seqs = <<>> /\ g[1] = t[1]
    BY <1>1, <1>2, <1>3 DEF Sums
  <2> QED
    BY <2>1, <1>1, <1>2, <1>3, FlattenEmpty DEF t
<1>4. CASE n # 0
  <2>1. PICK f \in [1..n -> Seq(S)] : Sums(f, seqs, n) /\ FlattenSeq(seqs) = f[n]
    BY <1>1, <1>4, FlattenIsASum
  <2> HIDE DEF n
  <2>2. Sums(g, t, n)
    <3>1. \A i \in 1..n : i \in 1..(n + 1)
      BY <1>1
    <3>2. \A i \in 1..(n + 1) : g[i] = IF i = 1 THEN t[i] ELSE g[i - 1] \o t[i]
      BY <1>2 DEF Sums
    <3> QED
      BY <3>1, <3>2 DEF Sums
  <2>3. \A i \in 1..n : f[i] = g[i]
    <3>1. n \in Nat /\ Agree(seqs, t, n)
      BY <1>1 DEF Agree
    <3>2. Agree(f, g, n)
      BY <3>1, <2>1, <2>2, SumsAgree
    <3> QED
      BY <3>2 DEF Agree
  <2>5. n \in 1..n
    BY <1>1, <1>4
  <2>4. g[n + 1] = g[n] \o t[n + 1]
    <3>1. n + 1 \in 1..(n + 1) /\ n + 1 # 1 /\ (n + 1) - 1 = n
      BY <1>1, <1>4
    <3>2. g[n + 1] = g[(n + 1) - 1] \o t[n + 1]
      BY <3>1, <1>2 DEF Sums
    <3> QED
      BY <3>1, <3>2
  <2> QED
    BY <1>1, <1>2, <2>1, <2>3, <2>4, <2>5 DEF t
<1> QED
  BY <1>1, <1>3, <1>4

LEMMA ConcatAppend ==
  ASSUME NEW S, NEW s \in Seq(S), NEW t \in Seq(S), NEW e \in S
  PROVE  s \o t \in Seq(S) /\ s \o Append(t, e) = Append(s \o t, e)
<1>1. s \o t \in Seq(S) /\ <<e>> \in Seq(S)
  BY ConcatProperties
<1>2. (s \o t) \o <<e>> = s \o (t \o <<e>>)
  BY <1>1, ConcatAssociative
<1> QED
  BY <1>1, <1>2, AppendIsConcat

LEMMA FlattenOneMore ==
  ASSUME NEW S, NEW a \in Seq(Seq(S)), NEW c \in Seq(Seq(S)), NEW x \in Seq(S),
         FlattenSeq(a \o c) = FlattenSeq(a) \o FlattenSeq(c)
  PROVE  FlattenSeq(a \o Append(c, x)) = FlattenSeq(a) \o FlattenSeq(Append(c, x))
<1> DEFINE T == Seq(S)
<1>1. a \o c \in Seq(T) /\ a \o Append(c, x) = Append(a \o c, x)
  <2> HIDE DEF T
  <2>1. a \in Seq(T) /\ c \in Seq(T) /\ x \in T
    BY DEF T
  <2> QED
    BY <2>1, ConcatAppend, SMTT(20)
<1>2. /\ FlattenSeq(a \o Append(c, x)) = FlattenSeq(a \o c) \o x
      /\ FlattenSeq(Append(c, x)) = FlattenSeq(c) \o x
      /\ FlattenSeq(a) \in Seq(S) /\ FlattenSeq(c) \in Seq(S)
  BY <1>1, FlattenAppend, FlattenType
<1>3. PICK u \in Seq(S), v \in Seq(S) : u = FlattenSeq(a) /\ v = FlattenSeq(c)
  BY <1>2
<1>4. (u \o v) \o x = u \o (v \o x)
  BY ONLY ConcatAssociative, SMTT(20)
<1> QED
  BY <1>2, <1>3, <1>4

\* Two lists flattened together are the one flattened, then the other.
LEMMA FlattenConcat ==
  ASSUME NEW S, NEW a \in Seq(Seq(S)), NEW b \in Seq(Seq(S))
  PROVE  FlattenSeq(a \o b) = FlattenSeq(a) \o FlattenSeq(b)
<1> DEFINE T == Seq(S)
           First(n) == SubSeq(b, 1, n)
           Holds(n) == FlattenSeq(a \o First(n)) = FlattenSeq(a) \o FlattenSeq(First(n))
           Bad == {n \in 0..Len(b) : ~Holds(n)}
<1>0. Len(b) \in Nat /\ FlattenSeq(a) \in Seq(S)
  BY FlattenType
<1>1. Holds(0)
  <2>1. First(0) = <<>>
    BY SubSeqEmpty
  <2>2. a \o <<>> = a
    BY ConcatEmptySeq
  <2>3. FlattenSeq(a) \o <<>> = FlattenSeq(a)
    BY <1>0, ConcatEmptySeq
  <2> QED
    BY <2>1, <2>2, <2>3, FlattenEmpty
<1>2. ASSUME NEW n \in 1..Len(b), Holds(n - 1)
      PROVE  Holds(n)
  <2> DEFINE c == First(n - 1)
  <2> HIDE DEF T
  <2>0. a \in Seq(T) /\ b \in Seq(T)
    BY DEF T
  <2>1. c \in Seq(T) /\ b[n] \in T
    <3>1. \A i \in 1..(n - 1) : b[i] \in T
      BY <2>0, <1>0
    <3> QED
      BY <3>1, <2>0, <1>0, SubSeqProperties
  <2> HIDE DEF c
  <2>2. First(n) = Append(c, b[n])
    <3>1. First(n) = c \o <<b[n]>>
      BY <2>0, <1>0, SubSeqRecursiveSecond DEF c
    <3> QED
      BY <3>1, <2>1, AppendIsConcat
  <2> USE DEF T
  <2>4. FlattenSeq(a \o c) = FlattenSeq(a) \o FlattenSeq(c)
    BY <1>2 DEF c
  <2>5. FlattenSeq(a \o Append(c, b[n])) = FlattenSeq(a) \o FlattenSeq(Append(c, b[n]))
    BY <2>1, <2>4, FlattenOneMore
  <2> QED
    BY <2>2, <2>5
<1> HIDE DEF Holds
<1>3. Holds(Len(b))
  <2> SUFFICES ASSUME ~Holds(Len(b))
               PROVE  FALSE
    OBVIOUS
  <2>1. Bad \in SUBSET Nat /\ Len(b) \in Bad
    BY <1>0
  <2> HIDE DEF Bad
  <2>2. PICK n \in Bad : \A m \in Bad : n <= m
    BY <2>1, Least
  <2> USE DEF Bad
  <2>3. n \in 0..Len(b) /\ n # 0 /\ ~Holds(n)
    BY <2>2, <1>1
  <2>4. n \in 1..Len(b) /\ n - 1 \in 0..Len(b) /\ n - 1 \notin Bad
    BY <2>2, <2>3, <1>0
  <2> QED
    BY <2>3, <2>4, <1>2
<1> QED
  BY <1>3, SubSeqFull DEF Holds

-----------------------------------------------------------------------------
(* Heads and tails.                                                         *)

\* A sequence is its head and its tail.
LEMMA HeadThenTail ==
  ASSUME NEW S, NEW t \in Seq(S), t # <<>>
  PROVE  /\ Head(t) \in S /\ Tail(t) \in Seq(S) /\ <<Head(t)>> \in Seq(S)
         /\ <<Head(t)>> \o Tail(t) = t
<1>1. Head(t) = t[1] /\ Len(t) \in Nat /\ 1 \in 1..Len(t) /\ Head(t) \in S /\ Tail(t) \in Seq(S)
  BY HeadTailProperties, EmptySeq
<1>2. SubSeq(t, 1, Len(t)) = <<t[1]>> \o SubSeq(t, 1 + 1, Len(t))
  BY <1>1, SubSeqRecursiveFirst
<1>3. <<Head(t)>> \o Tail(t) = t
  BY <1>1, <1>2, SubSeqFull, TailIsSubSeq
<1> QED
  BY <1>1, <1>3

\* The two ways to put the brackets, as facts that can be cited by name.
CarriesOver(i, c, d, h) == (i \o c) \o (d \o h) = i \o ((c \o d) \o h)

\* What is put at the end of one sequence and taken from the beginning of the
\* next leaves the two together as they were.
LEMMA MovesAcross ==
  ASSUME NEW S, NEW i, NEW c, NEW d, NEW h,
         i \in Seq(S), c \in Seq(S), d \in Seq(S), h \in Seq(S)
  PROVE  CarriesOver(i, c, d, h)
<1>1. c \in Seq(S) /\ d \in Seq(S) /\ h \in Seq(S)
  OBVIOUS
<1>2. (c \o d) \o h = c \o (d \o h)
  BY ONLY <1>1, ConcatAssociative
<1>3. PICK e : e \in Seq(S) /\ e = d \o h
  BY ONLY <1>1, ConcatProperties
<1>4. i \in Seq(S) /\ c \in Seq(S) /\ e \in Seq(S)
  BY <1>3
<1>5. (i \o c) \o e = i \o (c \o e)
  BY ONLY <1>4, ConcatAssociative
<1> QED
  BY ONLY <1>2, <1>3, <1>5 DEF CarriesOver

\* Concatenation is associative.
Regroups(a, b, c) == (a \o b) \o c = a \o (b \o c)

LEMMA Regroup ==
  ASSUME NEW S, NEW a \in Seq(S), NEW b \in Seq(S), NEW c \in Seq(S)
  PROVE  Regroups(a, b, c)
<1>1. (a \o b) \o c = a \o (b \o c)
  BY ONLY ConcatAssociative
<1> QED
  BY <1>1 DEF Regroups
=============================================================================
