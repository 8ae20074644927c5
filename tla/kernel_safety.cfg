SPECIFICATION FairSpec
CONSTANTS
  NENV = 3
  NCPU = 2
  NGEN = 1
  NBOOT = 1
  Prios = {0, 1}
INVARIANTS OneCpuPerEnv NeverFreedWhileRunning SlotsAccounted
PROPERTIES ZombieFreedOrMonitor
CHECK_DEADLOCK FALSE
