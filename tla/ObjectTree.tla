----------------------------- MODULE ObjectTree -----------------------------
(****************************************************************************)
(* What Qat finds for a definition (qat_recorder/backend.py).  Qat itself is *)
(* not in the repository; FakeBackend is its matching as the tests pin it.  *)
(*                                                                          *)
(* A definition asks for values of some properties, and may ask the same of *)
(* the object's parent or of some ancestor, its container.  A world is what *)
(* of the application an operation looks at: the properties of each object, *)
(* which objects there are, and which are visible and enabled.              *)
(****************************************************************************)
EXTENDS Naturals, Sequences, FiniteSets, SequencesExt

CONSTANTS
  Nodes,      \* the objects, numbered in document order
  ParentOf,   \* the parent of each, 0 at the top
  ClassOf,    \* the class of each
  Inherits    \* pairs: a class and one it derives from

None == ""    \* no value

ASSUME ObjectTreeAssumption ==
  /\ Nodes \subseteq Nat \ {0}
  /\ ParentOf \in [Nodes -> Nodes \cup {0}]
  /\ \A n \in Nodes : ParentOf[n] < n

\* The ancestors of an object, the nearest first.
Ancestors == [n \in Nodes |-> LET up[m \in Nodes \cup {0}] == IF m = 0 THEN <<>>
                                                             ELSE <<m>> \o up[ParentOf[m]]
                              IN  up[ParentOf[n]]]

Value(w, n, key) == IF key = "type" THEN ClassOf[n] ELSE w.props[n][key]

\* A definition of the properties in `keys` as the object has them.
As(w, n, keys) == [k \in keys |-> Value(w, n, k)]

Plain(asked) == [of |-> asked, scope |-> "none", anchor |-> <<>>]
Within(d, scope, anchor) == [d EXCEPT !.scope = scope, !.anchor = anchor]

\* The type may be one the object's class derives from; the rest is exact.
Has(w, n, asked) == \A k \in DOMAIN asked :
  \/ Value(w, n, k) = asked[k]
  \/ k = "type" /\ <<ClassOf[n], asked[k]>> \in Inherits

\* `container` searches descendants at any depth, `parent` direct children;
\* either is one of `scopes`.
Matches(w, n, d, scopes) ==
  /\ Has(w, n, d.of)
  /\ d.scope = "parent" => ParentOf[n] \in scopes /\ Has(w, ParentOf[n], d.anchor)
  /\ d.scope = "container" => \E m \in Range(Ancestors[n]) \cap scopes : Has(w, m, d.anchor)

\* find_all_objects, in document order.
FindAll(w, d) == SetToSortSeq({n \in w.there : Matches(w, n, d, w.there)}, <)

\* The same with visible and enabled asked of the object.
FindUsable(w, d) == SetToSortSeq({n \in w.usable : Matches(w, n, d, w.there)}, <)

\* wait_for_object: asked of the containers as well.
WaitFor(w, d) == SetToSortSeq({n \in w.usable : Matches(w, n, d, w.usable)}, <)

\* Mutant: the first usable one, of however many.
FirstUsable(w, d) ==
  LET found == FindAll(w, d)
      usable == FindUsable(w, d)
  IN  CASE Len(found) = 1                       -> found[1]
        [] Len(found) > 1 /\ usable # <<>>   -> usable[1]
        [] OTHER                                -> 0

\* the_one: the object a replay would act on, or 0.
TheOne(w, d) ==
  LET found == FindAll(w, d)
      usable == FindUsable(w, d)
  IN  CASE Len(found) = 1                       -> found[1]
        [] Len(found) > 1 /\ Len(usable) = 1 -> usable[1]
        [] OTHER                                -> 0
=============================================================================
