SPECIFICATION FairSpec
CONSTANTS
  ncpu = 4
  Bsp = 1
  NBOOT = 2
INVARIANTS OwnStack NoMonitor
PROPERTIES AllStart
CHECK_DEADLOCK FALSE
