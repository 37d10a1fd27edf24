\* Two recordings one after another, three events and an edit in each, with
\* pictures: enough for a click that leaves a gap and the press that points at
\* what fills it, or for a pick with its release and a press behind it.
SPECIFICATION Spec
CONSTANTS
  button = button
  item = item
  unknown = unknown
  window = window
  NoControl = NoControl
  Controls <- MCControls
  Kind <- MCKind
  Owner <- MCOwner
  Known <- MCKnown
  Pressable <- MCPressable
  Through <- MCThrough
  GroupMs = 0
  ClickMs = 1
  FoldMs = 1
  HasMedia = TRUE
  MaxEvents = 3
  MaxEdits = 1
  MaxSessions = 2
INVARIANTS
  RecordedAsMeant
  OneStepPerEvent
PROPERTIES
  PictureTakenOnce
\* The operator may stop, and the bounds run out.
CHECK_DEADLOCK FALSE
