SPECIFICATION CamFairSpec
CONSTANTS
  Client = client
  Probes = {p1}
  PeekLen = 2
  Data <- MCData
  Width = 3
  MaxPad = 1
  BufSize = 1
  MaxProbe = 2
INVARIANTS DestSeesProbe
PROPERTIES ImplementsStream ClientAccepted ForwardEnds
CHECK_DEADLOCK FALSE
