\* Five things happen, so that gaps fall before, between and behind steps and
\* beside each other; three edits, so that two gaps are filled and a step taken
\* back in every order.
SPECIFICATION Spec
CONSTANTS
  MaxHappened = 5
  MaxEdits = 3
INVARIANTS
  PlacedUnlessCut
  GapsKeepTheirPlace
  FillsStayWithTheirGaps
  OneStepForEach
\* The bounds run out.
CHECK_DEADLOCK FALSE
