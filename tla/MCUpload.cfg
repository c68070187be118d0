SPECIFICATION UpFairSpec
CONSTANTS
  Byte <- MCByte
  Stream <- MCStream
  N = 4
  Bound <- MCBound
  RdSize = 2
  MaxInFlight = 2
INVARIANTS EndIsReal NoStoreAfterClose WaitIsJustified GapIsLast
PROPERTIES ChunksConsumed CloseReleases ImplementsStream
CHECK_DEADLOCK FALSE
