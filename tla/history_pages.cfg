CONSTANTS
  Segments = {"command", "signal", "heartbeat", "update", "failed", "timedout"}
  MaxSegs = 2
  MaxMoved = 2
  MaxPage = 3
  MaxEmpty = 1
SPECIFICATION FairSpec
INVARIANTS
    SequencesAsWhole
PROPERTIES
    TaskEnds
CHECK_DEADLOCK FALSE
