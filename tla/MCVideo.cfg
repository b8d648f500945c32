SPECIFICATION FairSpec
CONSTANT MaxPackets = 4
INVARIANTS
  NoTornFrame
  PictureAfterItsSession
  FramesInFile
PROPERTIES
  FramesInOrder
  NoFrameStranded
  DropsThenCloses
CHECK_DEADLOCK FALSE
