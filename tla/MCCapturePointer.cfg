\* Five mouse events: two clicks and the press of a third, or a choice from a
\* combo box and what follows it. An interval of 1 is quick (two of them are
\* still one click), an interval of 3 is longer than any click.
SPECIFICATION Spec
CONSTANTS
  button = button
  unknown = unknown
  file = file
  open = open
  combo = combo
  choice = choice
  window = window
  NoControl = NoControl
  Controls <- MCControls
  Kind <- MCKind
  Owner <- MCOwner
  Known <- MCKnown
  Pressable <- MCPointed
  Elsewhere <- MCElsewhere
  Typed = {}
  Hot = {}
  Turned = {}
  Closed = {}
  Window = window
  GroupMs = 0
  ClickMs = 2
  FoldMs = 1
  StaleMs = 1
  Intervals = {1, 3}
  MaxEvents = 5
INVARIANTS
  NoSilentLoss
  ClicksAreReal
  OneStepPerGesture
  OneGapPerClick
  StepsAreAddressable
\* A finished session does nothing more.
CHECK_DEADLOCK FALSE
