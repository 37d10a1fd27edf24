\* Three steps and one note; two commands and faults when one reader watches.
CONSTANTS
  MaxSteps = 3
  MaxNotes = 1
  MaxTroubles = 2
  QueueBound = 1
SPECIFICATION MCSpec
INVARIANTS CopiesFollow NotesAreHeard
PROPERTIES StepsArrive StateIsShown
CHECK_DEADLOCK FALSE
