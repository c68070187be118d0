SPECIFICATION TunFairSpec
CONSTANTS
  Modes = {"stream"}
  MaxSess = 2
  HsChunks = 2
  MaxUp = 3
  MaxDown = 2
  Restarts = 0
  Sweeps = TRUE
  Expires = FALSE
PROPERTIES EndReachesReader
CHECK_DEADLOCK FALSE
