\* Three clicks, entries and choices of a row, each named before or after the
\* application reacts, and replayed in three ways.
SPECIFICATION Spec
CONSTANTS
  Nodes <- MCNodes
  ParentOf <- MCParentOf
  ClassOf <- MCClassOf
  Inherits <- MCInherits
  Editable = {"LineEdit"}
  Anonymous = {"Page"}
  MaxScopeDepth = 2
  MaxAlternatives = 2
  Controls <- MCControls
  Views <- MCViews
  RowText <- MCRowText
  NewRow = 5
  PageOf <- MCPageOf
  FirstPage = 3
  SecondPage = 8
  DialogOf = 10
  Scenes <- MCScenes
  Content = "t"
  Players = {"test", "player", "feature"}
  MaxClicks = 3
  MaxUnnamed = 1
INVARIANTS
  NamedAsItself
  ReplaysTheSame
  ReplayGetsThrough
  ScriptInOrder
\* A replay that has ended does nothing more.
CHECK_DEADLOCK FALSE
