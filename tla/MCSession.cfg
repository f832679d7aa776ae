SPECIFICATION FairSpec
CONSTANTS
  MaxConn = 2
  MaxSeq = 2
  MaxFlight = 2
  MaxRuns = 2
  Hostile = TRUE
INVARIANTS
  AtMostOnce
  NotBricked
  BelievedTrue
PROPERTIES
  AnsweredOrCut
CHECK_DEADLOCK FALSE
