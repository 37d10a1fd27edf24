SPECIFICATION Spec
CONSTANTS
  MaxPids = 3
  Generations = 2
INVARIANTS
  ConnectsToItsOwn
  NothingIsLeft
PROPERTIES
  StartEnds
CHECK_DEADLOCK FALSE
