CONSTANTS
  MaxSlots = 2
  TouchXMax = 5
  TouchYMax = 7
  Frames <- MCFrames
  Coords <- MCCoords
  Polled <- MCPolled
SPECIFICATION DaemonSpec
INVARIANTS
  ContactsAgree
  NothingStuckWithoutClient
  NearestPanelPoint
PROPERTIES
  ImplementsMultiTouch
