SPECIFICATION FairSpec
CONSTANTS
  p1 = p1
  p2 = p2
  Pid = {p1, p2}
  Image = {"nc", "sleep"}
  SuspImage = {"nc"}
  SuspComm = {"nc"}
  Unknown = Unknown
  None = None
  Execs <- MCExecs
  Events <- MCEvents
  Grace = 1
  ChainWindow = 2
  MaxTracked = 1
  MaxExited = 1
  MaxPending = 1
  MaxChain = 1
INVARIANTS
  CorrInv
  JoinNotMissed
PROPERTIES
  HalfKept
  NoDuplicates
  OverdueFlushed
CHECK_DEADLOCK FALSE
