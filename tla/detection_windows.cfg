SPECIFICATION Spec
CONSTANTS
  s1 = s1
  s2 = s2
  Sources = {s1, s2}
  Kinds <- MCKinds
  Window = 1
  Lag = 1
  Freeze = 2
  Warmup = 2
  MinQueries = 1
  MinOthers = 1
  Ratio = 2
  Recompute = 2
  PopCap = 2
  DomCap = 2
  DomMin = 2
  Burst = 1
  Horizon = 2
  MaxPackets = 3
  MaxCrashes = 1
SYMMETRY SourceSymmetry
INVARIANTS
  WindowsSound
  AttackTeachesNothing
  IndependentReference
