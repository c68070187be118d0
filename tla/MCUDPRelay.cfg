SPECIFICATION UDPFairSpec
CONSTANTS
  Hosts <- MCHosts
  QuadOf <- MCQuadOf
  CanonOf <- MCCanonOf
  MaxSock = 2
  MaxReplies = 2
  None = None
INVARIANTS EntryServed FramesWhole
PROPERTIES SocketsEnd
CHECK_DEADLOCK FALSE
