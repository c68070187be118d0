SPECIFICATION QuicPoolFairSpec
CONSTANTS
  Callers = {d1, d2}
  Size = 2
  Backlog = 1
  MaxConns = 2
  Nil = Nil
INVARIANTS NothingLeaks
PROPERTIES CloseReturns StreamsServed
CHECK_DEADLOCK FALSE
