SPECIFICATION TunFairSpec
CONSTANTS
  Modes = {"packet", "stream"}
  MaxSess = 3
  HsChunks = 2
  MaxUp = 4
  MaxDown = 3
  Restarts = 1
  Sweeps = TRUE
  Expires = TRUE
INVARIANTS OneTunnel
PROPERTIES EndReachesReaderUnswept
CHECK_DEADLOCK FALSE
