\* The same, and what deploy/README.md says of it.
SPECIFICATION Spec
CONSTANTS
  Callers = {alice, bob}
  Nobody = Nobody
  MaxSessions = 3
  MaxChanges = 1
  MaxRequests = 5
  MaxTests = 2
  MaxFaults = 0
INVARIANTS
  RecordingIsExclusive
CHECK_DEADLOCK FALSE
