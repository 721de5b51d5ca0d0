\* Analysis: one symbol, five ticks, every analyzer voting both ways; the verdict refines the abstract classifier.
CONSTANTS
  s1 = s1
  s2 = s2
  Missing = Missing
  NoStamp = Missing
  Symbols <- AnaSymbols
  Labels <- AnaLabels
  Bids <- AnaBids
  Asks <- AnaAsks
  TickStamps <- AnaStamps
  Faults <- NoFaults
  StampsPerSecond = 10
  CAPTURE_COUNT = 5
  TIMEOUT = 1
  READ_TIMEOUT = 1
  MaxMessages = 5
SPECIFICATION Spec
INVARIANT LikelySimulatedNeedsTimestampFlag
PROPERTY ClassifierSpec
