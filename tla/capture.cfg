\* Capture control: read faults, deadline, drop policy, termination, and the refinement of the abstract classifier.
CONSTANTS
  s1 = s1
  s2 = s2
  Missing = Missing
  NoStamp = Missing
  Symbols <- CtlSymbols
  Labels <- CtlLabels
  Bids <- CtlBids
  Asks <- CtlAsks
  TickStamps <- CtlStamps
  Faults <- CtlFaults
  StampsPerSecond = 10
  CAPTURE_COUNT = 2
  TIMEOUT = 3
  READ_TIMEOUT = 2
  MaxMessages = 6
SPECIFICATION Spec
INVARIANT TypeOK
INVARIANT BufferKeepsFirstTicks
INVARIANT DeadlineOverrunBounded
PROPERTY Termination
PROPERTY ClassifierSpec
