CONSTANTS
  MaxTouch = 3
  WheelKeys = {}
  ClickKeys = {}
  SwitchKeys = {}
  TwiceKeys = {}
  MultiKeys = {}
  DragKeys = {}
  EyesKeys = {}
  ShootButtons = {}
  TapButtons = {}
  HasPan = TRUE
  NoKey = nokey
  PanKey = pan
  UnknownKey = unknown
  PathLens = {1}
  Clicks = 1
  MaxBursts = 0
  MaxReplants = 1
  Habits = {FALSE}
SPECIFICATION KeymapSpec
INVARIANTS
  PanFingerIsShootMode
