\* The code's capacity of 20 ticks at one constant spread.
CONSTANTS
  s1 = s1
  s2 = s2
  Missing = Missing
  NoStamp = Missing
  Symbols <- FullSymbols
  Labels <- FullLabels
  Bids <- FullBids
  Asks <- FullAsks
  TickStamps <- FullStamps
  Faults <- NoFaults
  StampsPerSecond = 10
  CAPTURE_COUNT = 20
  TIMEOUT = 1
  READ_TIMEOUT = 1
  MaxMessages = 20
SPECIFICATION Spec
INVARIANT ConstantSpreadFlagged
