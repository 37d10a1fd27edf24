\* Five requests against a queue of two and a session of four stills, so that
\* shots are skipped, refused and served in every order the threads allow.
SPECIFICATION Spec
CONSTANTS
  QueueDepth = 2
  MaxStills = 4
  MaxAsks = 5
INVARIANTS
  TypeOK
  Handshake
PROPERTIES
  NoLateStill
  KeepsTheLine
\* A stopped session whose worker has left does nothing more.
CHECK_DEADLOCK FALSE
