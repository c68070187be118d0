SPECIFICATION FairSpec
CONSTANTS
  Byte <- MCByte
  Chunk <- MCChunk
  MaxRetain = 2
  MaxLog = 3
  Gets = {g1, g2}
  NoGet = NoGet
  BufSize = 2
  Cap = 2
INVARIANTS WindowExact ZeroLossZeroDup Resumable
PROPERTIES ImplementsStream NextGetResumesAlone CloseEndsResponseAlone
CHECK_DEADLOCK FALSE
