SPECIFICATION FairSpec
CONSTANTS
  s1 = s1
  p1 = p1
  w1 = w1
  Streams = {s1}
  Pollers = {p1}
  Purgers = {w1}
  Limit <- MCLimit
  Fresh = 1
  MaxRows <- MCMaxRows
  MaxFaults = 1
INVARIANTS
  FeedSound
  PurgeSettles
PROPERTIES
  FeedImplemented
  RowsArrive
