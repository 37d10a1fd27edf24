------------------------------- MODULE Naming -------------------------------
(****************************************************************************)
(* Naming an object: the resolver's ladder (qat_recorder/naming.py), a menu *)
(* item's label (menus.py), and from an event's locator to the object it    *)
(* is about (capture.py).                                                   *)
(*                                                                          *)
(* Each definition is proposed and looked up in the application as it is at *)
(* the time of asking, which need not be as it was when the event happened. *)
(****************************************************************************)
EXTENDS ObjectTree

CONSTANTS
  Editable,         \* classes whose text is what the user types
  Anonymous,        \* classes too generic to scope by
  MaxScopeDepth, MaxAlternatives

ASSUME NamingAssumption == MaxScopeDepth \in Nat /\ MaxAlternatives \in Nat

----------------------------------------------------------------------------
(* The ladder.                                                              *)

\* The properties asked for, the most durable first.
Ladder == << {"objectName"}, {"objectName", "type"}, {"id"},
             {"type", "accessibleName"}, {"type", "text"}, {"type"} >>

\* Mutant: the content of an input identifies it.
HasRungWithContent(w, n, keys) == \A k \in keys : Value(w, n, k) # None

\* On an editable input text is content, and no identity.
HasRung(w, n, keys) == /\ \A k \in keys : Value(w, n, k) # None
                       /\ ~("text" \in keys /\ ClassOf[n] \in Editable)

Grade(keys) == CASE keys \cap {"objectName", "id"} # {} -> "strong"
                 [] "text" \in keys                     -> "weak"
                 [] OTHER                               -> "moderate"

Weakened(grade) == IF grade = "strong" THEN "moderate" ELSE grade

Rung(w, n, keys) == [definition |-> Plain(As(w, n, keys)), grade |-> Grade(keys)]

Bases(w, n) == LET rungs == SelectSeq(Ladder, LAMBDA keys : HasRung(w, n, keys))
               IN  [i \in DOMAIN rungs |-> Rung(w, n, rungs[i])]

\* An ancestor by a name of its own, if that names some one object at all.
Anchor(w, m) ==
  LET named == {keys \in {{"objectName"}, {"id"}} :
                  HasRung(w, m, keys) /\ TheOne(w, Plain(As(w, m, keys))) # 0}
  IN  IF {"objectName"} \in named THEN As(w, m, {"objectName"})
      ELSE IF named # {} THEN As(w, m, {"id"})
      ELSE <<>>

\* The parent, then the ancestors as containers, the nearest first.
Scopes(w, n) ==
  LET Nearest(k) == SubSeq(Ancestors[n], 1, IF Len(Ancestors[n]) < k THEN Len(Ancestors[n]) ELSE k)
      up == Nearest(MaxScopeDepth)
      above == Nearest(1)
      all == [i \in DOMAIN above |-> <<"parent", Anchor(w, above[i])>>]
             \o [i \in DOMAIN up |-> <<"container", Anchor(w, up[i])>>]
  IN  SelectSeq(all, LAMBDA s : s[2] # <<>>)

Scoped(bases, s) == [i \in DOMAIN bases |->
                       [definition |-> Within(bases[i].definition, s[1], s[2]),
                        grade |-> Weakened(bases[i].grade)]]

\* _candidates: the shortest first, then the same narrowed by each scope.
Candidates(w, n) == LET bases == Bases(w, n)
                        scopes == Scopes(w, n)
                    IN  bases \o FlattenSeq([s \in DOMAIN scopes |-> Scoped(bases, scopes[s])])

Size(d) == Cardinality(DOMAIN d.of) + IF d.scope = "none" THEN 0 ELSE 1

\* _positional: of the candidates the one with the fewest matches, then the
\* most constrained, then the first; and the object's place among the matches.
Positional(w, n, candidates) ==
  LET found == [i \in DOMAIN candidates |-> FindAll(w, candidates[i].definition)]
      able == {i \in DOMAIN candidates : Contains(found[i], n)}
      Before(i, j) == LET a == Len(found[i])
                          b == Len(found[j])
                          s == Size(candidates[i].definition)
                          t == Size(candidates[j].definition)
                      IN  a < b \/ (a = b /\ s > t) \/ (a = b /\ s = t /\ i <= j)
  IN  IF able = {} THEN <<>>
      ELSE LET best == CHOOSE i \in able : \A j \in able : Before(i, j)
           IN  <<candidates[best].definition, CHOOSE k \in DOMAIN found[best] : found[best][k] = n>>

Target(definition, alternatives, grade, index) ==
  [definition |-> definition, alternatives |-> alternatives, grade |-> grade, index |-> index]

Unresolved(w, n) == Target(Plain(As(w, n, {"type"})), <<>>, "unresolved", 0)

\* Everything that identifies the object, the best first, the runners-up kept; an
\* index when nothing does.
BestOf(w, n, candidates) ==
  LET good == SelectSeq(candidates, LAMBDA c : TheOne(w, c.definition) = n)
      others == SelectSeq([i \in DOMAIN good |-> good[i].definition],
                          LAMBDA d : d # good[1].definition)
      Add(seen, d) == IF Contains(seen, d) THEN seen ELSE Append(seen, d)
      place == Positional(w, n, candidates)
  IN  IF good # <<>>
      THEN LET kept == FoldLeft(Add, <<>>, others)
           IN  Target(good[1].definition,
                      SubSeq(kept, 1, IF Len(kept) < MaxAlternatives THEN Len(kept) ELSE MaxAlternatives),
                      good[1].grade, 0)
      ELSE IF place # <<>> THEN Target(place[1], <<>>, "fragile", place[2])
      ELSE Unresolved(w, n)

\* resolve: of what the ladder proposes for the object as it is.
Resolve(w, n) == BestOf(w, n, Candidates(w, n))

Verified == {"strong", "moderate", "weak"}

----------------------------------------------------------------------------
(* From a locator to the object.                                            *)

\* What the filter says of the object an event is delivered to: its name, its
\* text, its place among its siblings of the same class, its ancestors.
LocatorOf(w, n) ==
  [class |-> ClassOf[n], name |-> w.props[n]["objectName"], text |-> w.props[n]["text"],
   index |-> Cardinality({m \in w.there : /\ m < n /\ ParentOf[m] = ParentOf[n]
                                          /\ ClassOf[m] = ClassOf[n]}) + 1,
   path |-> [i \in DOMAIN Ancestors[n] |->
               <<ClassOf[Ancestors[n][i]], w.props[Ancestors[n][i]]["objectName"]>>]]

NearestNamed(path) == LET named == SelectSeq(path, LAMBDA p : p[2] # None)
                      IN  IF named = <<>> THEN <<>> ELSE [objectName |-> named[1][2]]

In(asked, anchor) == IF anchor = <<>> THEN Plain(asked) ELSE Within(Plain(asked), "container", anchor)

\* find_by_locator: by name, by name and class, by class and text, the same in
\* the nearest named ancestor, by class there; each time the place among the
\* siblings is taken for a place among what was found.
Located(w, loc) ==
  LET anchor == NearestNamed(loc.path)
      typed == [type |-> loc.class]
      texted == [type |-> loc.class, text |-> loc.text]
      named == IF loc.name = None THEN <<>>
               ELSE << <<Plain([objectName |-> loc.name]), FALSE>>,
                       <<Plain([objectName |-> loc.name, type |-> loc.class]), FALSE>> >>
      labelled == IF loc.text = None THEN <<>>
                  ELSE <<<<Plain(texted), FALSE>>>>
                       \o IF anchor = <<>> THEN <<>> ELSE <<<<In(texted, anchor), TRUE>>>>
      steps == named \o labelled \o <<<<In(typed, anchor), TRUE>>>>
      Answer(d, counted) == LET one == TheOne(w, d)
                                found == FindAll(w, d)
                            IN  IF one # 0 THEN <<one, "found">>
                                ELSE IF counted /\ loc.index \in DOMAIN found
                                THEN <<found[loc.index], "counted">>
                                ELSE <<0, "missing">>
      answers == [i \in DOMAIN steps |-> Answer(steps[i][1], steps[i][2])]
      some == SelectSeq(answers, LAMBDA a : a[1] # 0)
  IN  IF some = <<>> THEN <<0, "missing">> ELSE some[1]

\* reported_target: what the application said the object was, best first.
ReportedAs(loc) ==
  LET telling == SelectSeq(loc.path, LAMBDA p : p[2] # None \/ p[1] \notin Anonymous)
      container == IF telling = <<>> THEN <<>>
                   ELSE IF telling[1][2] # None THEN [objectName |-> telling[1][2]]
                   ELSE [type |-> telling[1][1]]
      named == [objectName |-> loc.name]
      texted == [type |-> loc.class, text |-> loc.text]
      byName == IF loc.name = None THEN <<>>
                ELSE <<Plain([objectName |-> loc.name, type |-> loc.class]), Plain(named)>>
      byText == CASE loc.text = None    -> <<>>
                  [] container = <<>> -> <<Plain(texted)>>
                  [] OTHER              -> <<In(texted, container), Plain(texted)>>
      scoped == IF loc.name = None \/ container = <<>> THEN <<>> ELSE <<In(named, container)>>
  IN  byName \o byText \o scoped

Reported(definitions) == Target(definitions[1], Tail(definitions), "reported", 0)

Gap(how) == [node |-> 0, target |-> <<>>, how |-> how]
Step(node, target, how) == [node |-> node, target |-> target, how |-> how]
StepIfNamed(n, target, how, otherwise) ==
  IF target.grade = "unresolved" THEN otherwise ELSE Step(n, target, how)

\* _on_screen: the reported definition that names one usable object comes first.
OnScreen(w, definitions) ==
  LET counts == [i \in DOMAIN definitions |-> Len(FindUsable(w, definitions[i]))]
      ones == {i \in DOMAIN counts : counts[i] = 1}
  IN  IF ones # {}
      THEN LET i == CHOOSE i \in ones : \A j \in ones : i <= j
           IN  Step(0, Reported(<<definitions[i]>> \o RemoveAt(definitions, i)), "reported")
      ELSE IF \A i \in DOMAIN counts : counts[i] = 0 THEN Step(0, Reported(definitions), "reported")
      ELSE Gap("not unique")

\* _resolve_uncached: the object found and named, or what was reported of it.
Answer(w, loc) ==
  LET located == Located(w, loc)
      definitions == ReportedAs(loc)
      found == FindAll(w, definitions[1])
      reported == Step(0, Reported(definitions), "reported")
  IN  CASE located[1] # 0 ->
             StepIfNamed(located[1], Resolve(w, located[1]), located[2], Gap("not unique"))
        [] located[1] = 0 /\ definitions = <<>> -> Gap("not findable")
        [] OTHER ->
             CASE Len(found) = 0 -> reported
               [] Len(found) > 1 -> OnScreen(w, definitions)
               [] OTHER -> StepIfNamed(found[1], Resolve(w, found[1]), "found", reported)
=============================================================================
