SPECIFICATION FailoverFairSpec
CONSTANTS
  NSlots = 3
  Dialers = {d1}
  Promoter = hc
  MaxRetries = 2
  MaxMade = 4
PROPERTIES PrimaryRegained DialReturns
CHECK_DEADLOCK FALSE
