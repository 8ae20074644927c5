SPECIFICATION StableSpec
CONSTANTS
  NENV = 4
  NCPU = 2
  NGEN = 1
  NBOOT = 2
  Prios = {0, 1}
PROPERTIES NoStarvation
CHECK_DEADLOCK FALSE
