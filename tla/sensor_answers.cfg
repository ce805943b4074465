SPECIFICATION Spec
CONSTANTS
  Ids <- MCAnswers
  Packet <- MCPacket
  Ifaces = {uplink, lo}
  uplink = uplink
  lo = lo
  Ports = {1}
  MaxSockets = 2
  Copies <- MCCopies
  Jitter = 0
  Lag = 1
  Retry = 2
  Window = 1
  MaxKeys = 1
  ResultTtl = 1
  MissTtl = 0
  PortTtl = 1
  MaxTime = 3
INVARIANT AnswersAreKept
CHECK_DEADLOCK FALSE
