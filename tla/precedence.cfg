\* A SIMULATED tick dropped after its buffer filled is never analysed.
CONSTANTS
  s1 = s1
  s2 = s2
  Missing = Missing
  NoStamp = Missing
  Symbols <- CtlSymbols
  Labels <- CtlLabels
  Bids <- CtlBids
  Asks <- CtlAsks
  TickStamps <- FullStamps
  Faults <- NoFaults
  StampsPerSecond = 10
  CAPTURE_COUNT = 2
  TIMEOUT = 3
  READ_TIMEOUT = 2
  MaxMessages = 5
SPECIFICATION Spec
INVARIANT SimulatedPrecedence
