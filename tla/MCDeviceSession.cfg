SPECIFICATION FairSpec
CONSTANTS
  MaxConnect = 2
  MaxRestart = 1
INVARIANTS
  SlotHasItsServer
  StartUpIsOver
  TunnelReleased
PROPERTIES
  KeepsPromise
  ConnectEnds
CHECK_DEADLOCK FALSE
