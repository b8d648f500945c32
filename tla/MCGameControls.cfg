\* Two apps, two names of schemes; three changes of controls or of the store.
CONSTANTS
  Keyboard = {"K", "K2", "grave", "F1"}
  Mouse = {"Left", "Right"}
  LeftButton = "Left"
  DefaultSwitch = "grave"
  DefaultLock = "F1"
  FireSpot = "fire"
  Apps = {p, q}
  NumSchemes = 2
  Stored <- MCStored
  Controls <- MCControls
  ModeChoices <- MCModes
  Speeds = {2}
  MaxControls = 3
  MaxChanges = 3
SYMMETRY AppSymmetry
SPECIFICATION Spec
CHECK_DEADLOCK FALSE
INVARIANTS
  DeviceFollowsPanel
  PanelShowsStored
  SchemesUnambiguous
  ReopeningKeepsMeaning
