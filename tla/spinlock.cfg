SPECIFICATION FairSpec
CONSTANTS
  Cpus = {c1, c2, c3}
  NoCpu = NoCpu
INVARIANTS NoFalsePanic
PROPERTIES Progress ImplementsBigLock
