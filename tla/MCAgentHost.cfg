\* Two testers whose requests cross, three sessions one after another, two tests
\* of one name.
SPECIFICATION Spec
CONSTANTS
  Callers = {alice, bob}
  Nobody = Nobody
  MaxSessions = 3
  MaxChanges = 1
  MaxRequests = 5
  MaxTests = 2
  MaxFaults = 1
INVARIANTS
  TypeOK
  OnlyTheHostRecords
  ReplaysWhatWasRepaired
PROPERTIES
  KeptTestsStay
  RequestsAreAnswered
  PumpsEnd
\* The testers may stop asking, and the bounds run out.
CHECK_DEADLOCK FALSE
