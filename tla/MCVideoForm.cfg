\* Two phones of every kind, side by side: the window of one is sized and turned,
\* that of the other has the mouse; each can be a host, end and come back.
CONSTANTS
  Serials = {d1, d2}
  Sized = {d1}
  Clicked = {d2}
  MaxResizes = 2
SPECIFICATION FairSpec
CHECK_DEADLOCK FALSE
INVARIANTS GroupIsReachable ObserversAreLive ReachesOnce RatioFollowsVideo NoOtherReleaseIsLost
PROPERTY SizeReachesPhone
