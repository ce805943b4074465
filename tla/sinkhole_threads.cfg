SPECIFICATION Spec
CONSTANTS
  evil = evil
  l1 = l1
  l2 = l2
  goo = goo
  g1 = g1
  inj = inj
  a1 = a1
  reaper = reaper
  Names <- OneLabel
  BaseOf <- MCBaseOf
  Popular = {goo}
  Malformed = {inj}
  TTL = 2
  StrikesNeeded = 2
  Lag = 0
  ApiThreads = {a1}
  Maint = reaper
  Interleave = TRUE
  Horizon = 3
  MaxCrashes = 1
  MaxFaults = 1
INVARIANTS
  RefusedNeverSunk
  IndexSound
