SPECIFICATION Spec
CONSTANTS
  Names = {n1}
  n1 = n1
  Domains = {d1}
  d1 = d1
  Seeds = {d1}
  Consoles = {c1}
  c1 = c1
  Finalizers = {f1}
  f1 = f1
  Maint = reaper
  reaper = reaper
  AtBoot = TRUE
  Hosts <- MCHosts
  Patience = 2
  MaxRequests = 1
  MaxObjects = 2
  MaxStarts = 1
INVARIANT GuardAlwaysKnows
CHECK_DEADLOCK FALSE
