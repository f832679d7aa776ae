SPECIFICATION FairSpec
CONSTANTS
  Peer = {p1}
  NoPeer = NoPeer
  FrameLen = 2
  Window = 1
  MaxSent = 4
PROPERTIES
  ShutdownReturns
CHECK_DEADLOCK FALSE
