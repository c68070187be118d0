SPECIFICATION ThrottleFairSpec
CONSTANTS
  ConfirmCount = 2
  BaseParallelConns = 1
  MaxParallelConns = 3
  Endpoints = 2
  FailThreshold = 2
  SignalsRotation = TRUE
  MaxCalls = 2
  MaxParams = 2
INVARIANTS ParallelismFits
PROPERTIES RotationTakesEffect
CHECK_DEADLOCK FALSE
