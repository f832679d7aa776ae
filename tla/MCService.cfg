SPECIFICATION ReadingPeersSpec
CONSTANTS
  Peer = {p1, p2}
  NoPeer = NoPeer
  FrameLen = 2
  Window = 1
  MaxSent = 5
INVARIANTS
  ServiceSafe
PROPERTIES
  FrameIsServed
  ShutdownReturns
CHECK_DEADLOCK FALSE
