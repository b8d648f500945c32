CONSTANTS
  MaxTouch = 2
  WheelKeys = {}
  ClickKeys = {}
  SwitchKeys = {tab}
  TwiceKeys = {t}
  MultiKeys = {}
  DragKeys = {}
  EyesKeys = {e}
  ShootButtons = {shoot}
  TapButtons = {}
  HasPan = TRUE
  NoKey = nokey
  PanKey = pan
  UnknownKey = unknown
  PathLens = {1}
  Clicks = 1
  MaxBursts = 0
  MaxReplants = 2
  Habits = {TRUE, FALSE}
SPECIFICATION KeymapSpec
INVARIANTS
  ShootModeKeepsFinger
  NothingLeftDown
PROPERTIES
  EveryTouchHasASlot
