SPECIFICATION ProxyFairSpec
CONSTANTS
  Host <- MCHost
  Quad <- MCQuad
  QuadOf <- MCQuadOf
  None = "none"
  AppStream <- MCAppStream
  TargetStream <- MCTargetStream
INVARIANTS SuccessIsReal LastByteDelivered
PROPERTIES RelayIsStream EndEndsAll
CHECK_DEADLOCK FALSE
