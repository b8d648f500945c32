CONSTANTS
  MaxSlots = 1
  TouchXMax = 0
  TouchYMax = 0
  Frames <- MCFrames
  Coords <- MCCoords
  Polled <- MCOnePolled
  WireCap = 1
  MaxSessions = 2
  MouseSlot = 0
SPECIFICATION FairInjectionSpec
INVARIANTS
  TouchMappedInItsFrame
  PanelFollowsCalls
PROPERTIES
  LiftReaches
  SessionEndLifts
