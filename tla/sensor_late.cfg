SPECIFICATION Spec
CONSTANTS
  Ids <- MCIds
  Packet <- MCPacket
  Ifaces = {uplink, lo}
  uplink = uplink
  lo = lo
  Ports = {1}
  MaxSockets = 2
  Copies <- MCCopies
  Jitter = 1
  Lag = 2
  Retry = 3
  Window = 1
  MaxKeys = 1
  ResultTtl = 1
  MissTtl = 0
  PortTtl = 1
  MaxTime = 3
INVARIANT
  CopiesCollide
CHECK_DEADLOCK FALSE
SYMMETRY Alike
