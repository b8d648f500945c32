CONSTANTS
  MaxTouch = 3
  WheelKeys = {w, s}
  ClickKeys = {}
  SwitchKeys = {}
  TwiceKeys = {}
  MultiKeys = {m}
  DragKeys = {d}
  EyesKeys = {}
  ShootButtons = {}
  TapButtons = {}
  HasPan = FALSE
  NoKey = nokey
  PanKey = pan
  UnknownKey = unknown
  PathLens = {0, 2}
  Clicks = 2
  MaxBursts = 1
  MaxReplants = 0
  Habits = {TRUE}
SPECIFICATION FairKeymapSpec
INVARIANTS
  WheelFingerWhilePressed
  OneFingerPerKey
PROPERTIES
  GesturesEnd
