\* Every whole-millisecond cadence below one second, captures of 2 to 20 ticks
\* (the code's per-symbol cap) as epoch-second doubles.
CONSTANTS
  s1 = s1
  Symbols = {s1}
  Labels = {}
  NoStamp = NoStamp
  StampsPerSecond = 4194304
  CadencesMs <- AllCadences
  MaxTicks = 20
SPECIFICATION Spec
INVARIANT UniformCadenceFlaggedFromEight
