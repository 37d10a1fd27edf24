------------------------------- MODULE Replay -------------------------------
(****************************************************************************)
(* From a person's clicks to a replay that repeats them.                    *)
(*                                                                          *)
(* An application keeps two pages, one of them shown, a dialog that is made *)
(* when it is opened and destroyed when it is used, inputs and lists, which *)
(* may have other rows the next time.  The recorder names what was clicked  *)
(* (capture.py, naming.py, items.py) while the application reacts; what it  *)
(* cannot name is a gap.  The recording is emitted as a test                *)
(* (emit/python.py) or as a feature (emit/gherkin.py), or played directly   *)
(* (player.py), from the application's start.                               *)
(*                                                                          *)
(* The application reacts to a replayed click before the click returns.     *)
(****************************************************************************)
EXTENDS Rows

CONSTANTS
  Controls,      \* what can be clicked, typed into or chosen from
  PageOf,        \* the page or dialog each object belongs to, 0: always there
  FirstPage, SecondPage, DialogOf,    \* pages, and the dialog
  Scenes,        \* applications: the properties of each object, what each control
                 \* does, the rows and the kind of the lists, rows new at the replay
  NewRow,        \* the row that using a control may put on top of a list
  Content,       \* what is typed
  Players,       \* the ways of replaying
  MaxClicks,     \* bound: clicks and entries
  MaxUnnamed     \* bound: how far naming falls behind

ASSUME ReplayAssumption ==
  /\ Controls \subseteq Nodes /\ Views \subseteq Controls
  /\ PageOf \in [Nodes -> {0, FirstPage, SecondPage, DialogOf}]
  /\ MaxClicks \in Nat /\ MaxUnnamed \in Nat

VARIABLES scene,     \* the application: [props, does, rows, list, later]
          ui,        \* its state: [page, open, typed, rows, chosen]
          phase,     \* "recording", "replaying", "passed", "failed"
          reacting,  \* the control the application has still to react to, or 0
          unnamed,   \* events the recorder has still to name: locator and press
          cache,     \* names given: locator -> answer
          actions,   \* the recording's steps: the target and the row; as history
                     \* the event, the object and row named, whether that was
                     \* before the application reacted, and whether by counting
          drops,     \* its gaps, by the number of steps before them
          done,      \* history: what was clicked, in order, [on, row]
          player,    \* how it is replayed
          script,    \* what is left of it
          played     \* what the replay acted on, in order

vars == <<scene, ui, phase, reacting, unnamed, cache, actions, drops, done, player, script, played>>
recorder == <<unnamed, cache, actions, drops, done>>
replay == <<player, script, played>>

\* The application as it starts.
Fresh(later) == [page |-> FirstPage, open |-> FALSE, typed |-> {},
                 rows |-> [v \in Views |-> later \o scene.rows[v]],
                 chosen |-> [v \in Views |-> 0]]

Init == /\ scene \in Scenes
        /\ ui = Fresh(<<>>) /\ phase = "recording" /\ reacting = 0
        /\ unnamed = <<>> /\ cache = <<>> /\ actions = <<>> /\ drops = <<>> /\ done = <<>>
        /\ player = "none" /\ script = <<>> /\ played = <<>>

----------------------------------------------------------------------------
(* The application.                                                         *)

World(u) ==
  LET there == {n \in Nodes : PageOf[n] = DialogOf => u.open}
  IN  [props |-> [n \in Nodes |-> IF n \in u.typed THEN [scene.props[n] EXCEPT !["text"] = Content]
                                  ELSE scene.props[n]],
       there |-> there,
       usable |-> {n \in there : PageOf[n] \in {0, u.page, DialogOf}},
       rows |-> u.rows, chosen |-> u.chosen, list |-> scene.list]

\* A dialog is modal.
Reachable(u) == Controls \cap {n \in Nodes : PageOf[n] = IF u.open THEN DialogOf ELSE u.page}

\* The rows of one control, 0 where there are none.
RowsOf(u, n) == IF n \in Views THEN DOMAIN u.rows[n] ELSE {0}

\* What is there to be used, and which row of it.
Thing(u, n, r) == [on |-> n, row |-> IF r = 0 THEN 0 ELSE u.rows[n][r]]

Chosen(u, n, r) == IF r = 0 THEN u ELSE [u EXCEPT !.chosen[n] = r]

\* A row on top of every list, once; what was chosen stays chosen.
Filled(u) ==
  IF \E v \in Views : NewRow \in Range(u.rows[v]) THEN u
  ELSE [u EXCEPT !.rows = [v \in Views |-> <<NewRow>> \o @[v]],
                 !.chosen = [v \in Views |-> IF @[v] = 0 THEN 0 ELSE @[v] + 1]]

\* What using a control does.  Using the dialog's closes it, its lists apart.
Used(u, n) ==
  CASE n \in Views               -> u
    [] PageOf[n] = DialogOf     -> [u EXCEPT !.open = FALSE]
    [] ClassOf[n] \in Editable  -> [u EXCEPT !.typed = @ \cup {n}]
    [] scene.does[n] = "switch" -> [u EXCEPT !.page = IF @ = FirstPage THEN SecondPage ELSE FirstPage]
    [] scene.does[n] = "open"   -> [u EXCEPT !.open = TRUE]
    [] scene.does[n] = "fill"   -> Filled(u)
    [] OTHER                    -> u

----------------------------------------------------------------------------
(* Recording.                                                               *)

\* A click or an entry: the filter reports it before the application has it.  Of a
\* list it is a row that is clicked, and it is chosen by the press.
Click(n) == /\ phase = "recording" /\ reacting = 0
            /\ n \in Reachable(ui)
            /\ Len(done) < MaxClicks /\ Len(unnamed) < MaxUnnamed
            /\ \E r \in RowsOf(ui, n) :
                 /\ ui' = Chosen(ui, n, r)
                 /\ unnamed' = Append(unnamed,
                      [loc |-> LocatorOf(World(ui), n),
                       press |-> IF r = 0 THEN NoPress ELSE Pressed(World(ui), n, r)])
                 /\ done' = Append(done, Thing(ui, n, r))
            /\ reacting' = n
            /\ UNCHANGED <<scene, phase, cache, actions, drops, replay>>

React == /\ reacting # 0
         /\ ui' = Used(ui, reacting)
         /\ reacting' = 0
         /\ UNCHANGED <<scene, phase, recorder, replay>>

Known(loc) == loc \in DOMAIN cache

\* _resolve: an answer once given is given again for the same locator.  A list is
\* asked for by its name first, and a row of it that cannot be told is a gap.
Name ==
  /\ unnamed # <<>>
  /\ LET loc == Head(unnamed).loc
         press == Head(unnamed).press
         w == World(ui)
     IN  \E byName \in {ViewByName(w, press)} :
         \E answer \in {IF byName.target # <<>> THEN byName
                        ELSE IF Known(loc) THEN cache[loc]
                        ELSE Answer(w, loc)} :
         \E row \in {IF press.on = 0 \/ answer.target = <<>> THEN NoRow ELSE RowOf(w, press, answer)} :
           /\ cache' = IF byName.target # <<>> THEN cache
                       ELSE [l \in DOMAIN cache \cup {loc} |-> IF l = loc THEN answer ELSE cache[l]]
           /\ IF answer.target = <<>> \/ (press.on # 0 /\ row = NoRow)
              THEN drops' = Append(drops, Len(actions)) /\ UNCHANGED actions
              ELSE /\ actions' = Append(actions,
                        [target |-> answer.target, row |-> row, node |-> answer.node,
                         named |-> IF row.at = 0 \/ row.set THEN 0
                                   ELSE RowAt(w, answer.target.definition, row.at),
                         event |-> Len(done) - Len(unnamed) + 1,
                         intime |-> /\ byName.target # <<>> \/ ~Known(loc)
                                    /\ Len(unnamed) = 1 /\ reacting # 0,
                         counted |-> answer.how = "counted"])
                   /\ UNCHANGED drops
  /\ unnamed' = Tail(unnamed)
  /\ UNCHANGED <<scene, ui, phase, reacting, done, replay>>

----------------------------------------------------------------------------
(* The script.                                                              *)

\* Target.candidates: the definition and the others.
CandidatesOf(target) == <<target.definition>> \o target.alternatives

OfARow(i) == actions[i].row.at # 0 /\ ~actions[i].row.set

FirstWith(d) == CHOOSE i \in DOMAIN actions :
                  /\ actions[i].target.definition = d
                  /\ \A j \in 1..(i - 1) : actions[j].target.definition # d

\* _constant_names: one constant for each definition, holding the candidates of
\* the first step that has it, or the definition alone if that is about a row.
Constant(d) == IF OfARow(FirstWith(d)) THEN <<d>> ELSE CandidatesOf(actions[FirstWith(d)].target)

\* Mutant: the gaps at the end.
LinesAtTheEnd == [i \in DOMAIN actions |-> i] \o [d \in DOMAIN drops |-> 0]

GapsAt(place) == [i \in 1..Len(SelectSeq(drops, LAMBDA after : after = place)) |-> 0]

\* emit_python: each step by its place, 0 for a gap's marker, which stands where
\* the gap was.
Lines == FlattenSeq([i \in DOMAIN actions |-> GapsAt(i - 1) \o <<i>>]) \o GapsAt(Len(actions))

----------------------------------------------------------------------------
(* Replaying.                                                               *)

\* preconditions(): every row with a text is there before anything is touched.  It
\* takes the constant as it is, which must be one definition.
Preconditions(w) == \A i \in DOMAIN actions :
  OfARow(i) /\ actions[i].row.text # None =>
    LET d == actions[i].target.definition
    IN  OfARow(FirstWith(d)) /\ IsThere(w, d, actions[i].row)

Begin(how) == /\ phase = "recording" /\ reacting = 0 /\ unnamed = <<>> /\ actions # <<>>
              /\ ui' = Fresh(scene.later)
              /\ phase' = IF how = "test" /\ ~Preconditions(World(Fresh(scene.later))) THEN "failed"
                          ELSE "replaying"
              /\ player' = how
              /\ script' = Lines
              /\ UNCHANGED <<scene, reacting, recorder, played>>

\* Mutant: the first of several.
FoundFirst(w, candidates) ==
  LET good == SelectSeq(candidates, LAMBDA d : WaitFor(w, d) # <<>>)
  IN  IF good = <<>> THEN <<>> ELSE <<WaitFor(w, good[1])[1]>>

\* find, in the emitted test: the first candidate that names a usable object, then
\* asked for with visible and enabled.
Found(w, candidates) ==
  LET good == SelectSeq(candidates, LAMBDA d : Len(WaitFor(w, d)) = 1)
  IN  IF good = <<>> THEN <<>> ELSE FindUsable(w, good[1])

The(found) == IF Len(found) = 1 THEN found[1] ELSE 0

At(found, index) == IF index \in DOMAIN found THEN found[index] ELSE 0

Nothing == [on |-> 0, at |-> 0]

\* What a step of the test acts on, an object or a row by its number, or Nothing: it
\* fails.  A number to set is set on the view.
ByTest(w, i) ==
  LET target == actions[i].target
      row == actions[i].row
      found == Found(w, Constant(target.definition))
      one == IF target.index = 0 \/ OfARow(i) THEN The(found) ELSE At(found, target.index)
      at == IF row.set THEN row.at ELSE IF one \in Views THEN RowByText(w, one, row) ELSE 0
  IN  CASE one = 0    -> Nothing
        [] row = NoRow -> [on |-> one, at |-> 0]
        [] OTHER       -> IF at \in RowsOf(ui, one) \ {0} /\ (row.set \/ CanChoose(w, row))
                          THEN [on |-> one, at |-> at] ELSE Nothing

\* Qat waits for a usable object and then counts every object that has the
\* definition.
ByDefinition(w, d, index) ==
  LET found == FindAll(w, d)
      one == IF index = 0 THEN IF WaitFor(w, d) = <<>> THEN 0 ELSE The(found)
             ELSE At(found, index)
  IN  IF one \in w.usable THEN one ELSE 0

\* Player.target_of: the definition as it is, a row by its number, or the object
\* at the index.
ByPlayer(w, i, index) ==
  LET d == actions[i].target.definition
      row == actions[i].row
      views == ViewsWith(w, d, row.at)
      one == CASE ~OfARow(i)       -> ByDefinition(w, d, index)
               [] IsOne(w, d, row.at) -> CHOOSE v \in views : TRUE
               [] OTHER               -> 0
  IN  CASE one = 0 \/ one \notin w.usable -> Nothing
        [] OfARow(i) /\ ~w.list.places  -> Nothing
        [] row.set /\ (one \notin Views \/ row.at \notin RowsOf(ui, one)) -> Nothing
        [] OTHER -> [on |-> one, at |-> row.at]

\* _label_for: one label for each definition, with the index of the first step
\* that has it.
Labelled(i) == LET same == {j \in DOMAIN actions : /\ actions[j].target.definition = actions[i].target.definition
                                                  /\ OfARow(j) = OfARow(i)}
               IN  actions[CHOOSE j \in same : \A k \in same : j <= k].target.index

ActedOn(w, i) == CASE player = "test"   -> ByTest(w, i)
                   [] player = "player" -> ByPlayer(w, i, actions[i].target.index)
                   [] OTHER             -> ByPlayer(w, i, Labelled(i))

\* _step_for: the feature has no sentence for a number to set.
Unsupported(i) == player = "feature" /\ actions[i].row.set

\* A marker, or what is not supported, is a comment.
PassComment == /\ phase = "replaying" /\ script # <<>>
               /\ Head(script) # 0 => Unsupported(Head(script))
               /\ script' = Tail(script)
               /\ played' = IF Head(script) = 0 THEN played ELSE Append(played, [on |-> 0, row |-> 0])
               /\ UNCHANGED <<scene, ui, phase, reacting, recorder, player>>

Play == /\ phase = "replaying" /\ script # <<>> /\ Head(script) # 0
        /\ ~Unsupported(Head(script))
        /\ \E it \in {ActedOn(World(ui), Head(script))} :
             IF it = Nothing
             THEN phase' = "failed" /\ UNCHANGED <<ui, script, played>>
             ELSE /\ ui' = Used(Chosen(ui, it.on, it.at), it.on)
                  /\ played' = Append(played, Thing(ui, it.on, it.at))
                  /\ script' = Tail(script)
                  /\ UNCHANGED phase
        /\ UNCHANGED <<scene, reacting, recorder, player>>

Finish == /\ phase = "replaying" /\ script = <<>>
          /\ phase' = "passed"
          /\ UNCHANGED <<scene, ui, reacting, recorder, replay>>

Next == \/ \E n \in Controls : Click(n)
        \/ React \/ Name
        \/ \E how \in Players : Begin(how)
        \/ PassComment \/ Play \/ Finish

Spec == Init /\ [][Next]_vars
----------------------------------------------------------------------------
(* What naming and replaying promise.                                       *)

Phases == {"recording", "replaying", "passed", "failed"}

\* Every variable keeps its type: a step is one of the person's, no more is
\* named than was clicked and no more replayed than named, runners-up are few,
\* and a verified step carries no index.
TypeOK ==
  /\ scene \in Scenes /\ phase \in Phases /\ reacting \in Controls \cup {0}
  /\ ui.page \in {FirstPage, SecondPage} /\ ui.open \in BOOLEAN /\ ui.typed \subseteq Nodes
  /\ \A v \in Views : ui.chosen[v] \in 0..Len(ui.rows[v])
  /\ \A i \in DOMAIN done : done[i].on \in Controls /\ (done[i].row = 0 <=> done[i].on \notin Views)
  /\ Len(unnamed) <= MaxUnnamed /\ Len(actions) + Len(drops) + Len(unnamed) = Len(done)
  /\ \A i \in DOMAIN actions :
       /\ actions[i].event \in DOMAIN done /\ actions[i].node \in Nodes \cup {0}
       /\ Len(actions[i].target.alternatives) <= MaxAlternatives \/ actions[i].node = 0
       /\ actions[i].target.grade \in Verified => actions[i].target.index = 0
  /\ drops \in Seq(0..Len(actions)) /\ player \in Players \cup {"none"}
  /\ Len(played) <= Len(actions)

\* The object the i-th step is about, and its row.
Clicked(i) == done[actions[i].event]

\* A control named before the application reacts is named as itself, or as what
\* was reported of it, unless its place was counted (find_by_locator,
\* capture.py:383, and the check of every candidate, naming.py:304); and so is a
\* row, whichever of the three ways tells it (_handle_item, capture.py:752).
NamedAsItself == \A i \in DOMAIN actions :
  actions[i].intime /\ ~actions[i].counted =>
    /\ actions[i].node \in {Clicked(i).on, 0}
    /\ OfARow(i) => actions[i].named = Clicked(i).row

\* The rows there may be; a text only one of them shows tells it.
RowsThere == UNION {Range(scene.rows[v]) : v \in Views} \cup Range(scene.later) \cup {NewRow}
Tells(text) == text # None /\ Cardinality({r \in RowsThere : RowText[r] = text}) = 1

\* The i-th step is named as what was clicked, a row by a text that tells it.
Named(i) == /\ actions[i].node \in {Clicked(i).on, 0}
            /\ OfARow(i) => actions[i].named = Clicked(i).row /\ Tells(actions[i].row.text)
            /\ ~actions[i].row.set

\* Nothing is missing before the k-th step and the steps up to it are named as
\* what was clicked: only then can a replay be where the person was.
Faithful(k) == /\ \A d \in DOMAIN drops : drops[d] >= k
               /\ \A i \in 1..k : Named(i)

\* As far as the recording is faithful and without an index, a replay acts on
\* what the person used and on nothing else, in that order, although the names
\* were made after the application had moved on (find, emit/python.py:87), and the
\* rows have moved since (row, emit/python.py:246), which only the test follows.
ReplaysTheSame == \A k \in DOMAIN played :
  /\ Faithful(k)
  /\ \A i \in 1..k : actions[i].target.index = 0 /\ (OfARow(i) => player = "test")
  => played[k] = Clicked(k)

\* The test does not fail at a step as long as the steps up to it were verified
\* as what was clicked: a name accepted by the_one (naming.py:370) when it was
\* recorded finds the object from the application's start again, and a row that is
\* there at the start (_preconditions, emit/python.py:645) and can be chosen is.
ReplayGetsThrough ==
  phase = "failed" /\ player = "test" =>
    LET k == Len(played) + 1
    IN  \/ ~Preconditions(World(Fresh(scene.later)))
        \/ ~Faithful(k)
        \/ \E i \in 1..k : \/ actions[i].target.grade \notin Verified
                           \/ OfARow(i) /\ ~CanChoose(World(ui), actions[i].row)

\* The script has every event in its place, a step or the marker of a gap
\* (emit_python, emit/python.py:855).
ScriptInOrder ==
  unnamed = <<>> => /\ Len(Lines) = Len(done)
                    /\ \A i \in DOMAIN Lines : Lines[i] # 0 => actions[Lines[i]].event = i
=============================================================================
