SPECIFICATION Spec
CONSTANTS
  Names = {n1, n2}
  n1 = n1
  n2 = n2
  Domains = {}
  Seeds = {}
  Consoles = {c1}
  c1 = c1
  Finalizers = {f1}
  f1 = f1
  Maint = reaper
  reaper = reaper
  AtBoot = TRUE
  Hosts <- MCHosts
  Patience = 2
  MaxRequests = 2
  MaxObjects = 2
  MaxStarts = 1
INVARIANTS
  GuardKnowsFile
  SlotAgrees
  TablesSurvive
CHECK_DEADLOCK FALSE
