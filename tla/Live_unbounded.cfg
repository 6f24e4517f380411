SPECIFICATION FairSpec
CONSTANTS
  Writers = {"w1"}
  HasDeadline = FALSE
  MaxMsg = 2
  SockBuf = 1
  MaxIn = 1
PROPERTIES
  RunEnds
