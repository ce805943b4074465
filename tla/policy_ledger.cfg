SPECIFICATION Spec
CONSTANTS
  me = me
  r1 = r1
  r2 = r2
  evil = evil
  a1 = a1
  reaper = reaper
  none = none
  Loopback = {}
  Found <- NoRoute
  LinkLocal = {r2}
  Remote = {r1}
  Domains = {evil}
  V6 = {}
  Kind = "log"
  Host <- Lab
  Execute = TRUE
  Override = FALSE
  Armed = TRUE
  TTL = 1
  ApiThreads = {a1}
  Interleave = FALSE
  Horizon = 3
  MaxCrashes = 0
  MaxFaults = 0
  Maint = reaper
  None = none
INVARIANT
  LedgerIsCurrent
