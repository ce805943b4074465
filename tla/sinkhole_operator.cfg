SPECIFICATION Spec
CONSTANTS
  evil = evil
  l1 = l1
  l2 = l2
  goo = goo
  g1 = g1
  inj = inj
  a1 = a1
  reaper = reaper
  Names <- Lean
  BaseOf <- MCBaseOf
  Popular = {}
  Malformed = {}
  TTL = 2
  StrikesNeeded = 2
  Lag = 1
  ApiThreads = {a1}
  Maint = reaper
  Interleave = TRUE
  Horizon = 4
  MaxCrashes = 0
  MaxFaults = 0
INVARIANT
  OperatorLinesSurvive
