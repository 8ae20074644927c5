SPECIFICATION FairSpec
CONSTANTS
  Envs = {e1, e2, e3}
  NoEnv = NoEnv
  NoValue = NoValue
  NMSG = 1
  Pages <- PagePairs
INVARIANTS PageComesAlong
PROPERTIES ImplementsRendezvous MessagesArrive
CHECK_DEADLOCK FALSE
