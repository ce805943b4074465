SPECIFICATION FairSpec
CONSTANTS
  Ifaces <- MCIfaces
  Sites <- MCSites
  Stall = 2
  Poll = 5
  WatchdogSec = 4
INVARIANTS
  TypeOK
  StatusIsHonest
PROPERTIES
  NoNeedlessRestart
  UnhealthyIsRestarted
  CaptureHeals
