SPECIFICATION Spec
CONSTANTS
  Names = {n1}
  n1 = n1
  Domains = {}
  Seeds = {}
  Consoles = {c1, c2}
  c1 = c1
  c2 = c2
  Finalizers = {f1}
  f1 = f1
  Maint = reaper
  reaper = reaper
  AtBoot = TRUE
  Hosts <- MCHosts
  Patience = 2
  MaxRequests = 2
  MaxObjects = 2
  MaxStarts = 1
INVARIANT SlotAgrees
CHECK_DEADLOCK FALSE
