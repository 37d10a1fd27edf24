\* Four events of any sort; the timing of clicks is MCCapturePointer's. An
\* interval of 0 is within one interaction's deliveries: only keys and turns of
\* the wheel can be that close.
SPECIFICATION Spec
CONSTANTS
  field = field
  spin = spin
  slider = slider
  row = row
  list = list
  unknown = unknown
  dialog = dialog
  NoControl = NoControl
  Controls <- MCControls
  Kind <- MCKind
  Owner <- MCOwner
  Known <- MCKnown
  Pressable <- MCPointed
  Elsewhere = {field}
  Typed <- MCTyped
  Hot <- MCHot
  Turned <- MCTurned
  Closed <- MCClosed
  Window = NoControl
  GroupMs = 0
  ClickMs = 2
  FoldMs = 1
  StaleMs = 1
  Intervals = {0, 1}
  MaxEvents = 4
INVARIANTS
  StepsInOrder
  GapsInPlace
\* A finished session does nothing more.
CHECK_DEADLOCK FALSE
