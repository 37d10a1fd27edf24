\* Two things done, by a person or by code; room for one line; two attempts.
CONSTANTS
  MaxActs = 2
  MaxQueue = 1
  MaxAttempts = 2
SPECIFICATION Spec
INVARIANTS ReportedInOrder
PROPERTIES HeldIsReported ImplementsLineFeed
CHECK_DEADLOCK FALSE
