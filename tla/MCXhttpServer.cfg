SPECIFICATION SrvFairSpec
CONSTANTS
  Sids = {s1, s2}
  Posts = {p1}
  Gets = {g1, g2}
  MaxSess = 2
  AcceptCap = 1
  None = None
INVARIANTS NoSplitBrain EmittedOnce
PROPERTIES ConnectedIsServed ClosedIsForgotten
CHECK_DEADLOCK FALSE
