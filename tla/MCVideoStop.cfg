SPECIFICATION FairSpec
CONSTANT MaxPackets = 4
PROPERTY InterruptUnblocks
CHECK_DEADLOCK FALSE
