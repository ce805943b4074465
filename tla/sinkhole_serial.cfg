SPECIFICATION FairSpec
CONSTANTS
  evil = evil
  l1 = l1
  l2 = l2
  goo = goo
  g1 = g1
  inj = inj
  a1 = a1
  reaper = reaper
  Names <- Lean
  BaseOf <- MCBaseOf
  Popular = {}
  Malformed = {}
  TTL = 1
  StrikesNeeded = 3
  Lag = 1
  ApiThreads = {a1}
  Maint = reaper
  Interleave = FALSE
  Horizon = 4
  MaxCrashes = 1
  MaxFaults = 0
INVARIANTS
  IndexMatchesFile
  EvidenceSound
PROPERTIES
  EverySinkEnds
  EveryLineEnds
