SPECIFICATION FairSpec
CONSTANTS
  Writers = {"w1"}
  HasDeadline = TRUE
  MaxMsg = 2
  SockBuf = 1
  MaxIn = 2
INVARIANTS
  TypeOK OneReader Reassembled NothingLeftRunning
PROPERTIES
  FramesWhole CutShort RunEnds
