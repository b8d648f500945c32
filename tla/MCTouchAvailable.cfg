CONSTANTS
  MaxSlots = 1
  TouchXMax = 0
  TouchYMax = 0
  Frames <- MCFrames
  Coords <- MCCoords
  Polled <- MCPolled
  WireCap = 2
  MaxSessions = 2
  MouseSlot = 0
SPECIFICATION InjectionSpec
INVARIANTS
  AvailableIsUsable
