SPECIFICATION ReadingPeersSpec
CONSTANTS
  Peer = {p1}
  NoPeer = NoPeer
  FrameLen = 2
  Window = 1
  MaxSent = 2
PROPERTIES
  HeldIsReleased
CHECK_DEADLOCK FALSE
