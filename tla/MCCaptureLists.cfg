\* Five mouse events: the click that opens the combo box and the choice from it,
\* with a click on a row before, between or behind them.
SPECIFICATION Spec
CONSTANTS
  combo = combo
  choice = choice
  row = row
  twin = twin
  list = list
  frame = frame
  NoControl = NoControl
  Controls <- MCControls
  Kind <- MCKind
  Owner <- MCOwner
  Known <- MCKnown
  Pressable <- MCPressable
  Elsewhere = {}
  Typed = {}
  Hot = {}
  Turned = {}
  Closed = {}
  Window = NoControl
  GroupMs = 0
  ClickMs = 2
  FoldMs = 1
  StaleMs = 1
  Intervals = {1, 3}
  MaxEvents = 5
INVARIANTS
  NoSilentLoss
  StepsInOrder
\* A finished session does nothing more.
CHECK_DEADLOCK FALSE
