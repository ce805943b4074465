SPECIFICATION Spec
CONSTANTS
  Sessions <- MCSessions
  Builtin = {"search"}
  Sunk = {"tun"}
  Mutable = {"tun"}
  BatchSize = 3
  Silence = 2
  CaseWindow = 1
  CaseMin = 2
  CaseCap = 1
  MaxTime = 2
PROPERTY EveryQueryProcessed
CHECK_DEADLOCK FALSE
