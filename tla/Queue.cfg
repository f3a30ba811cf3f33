SPECIFICATION FairSpec
CONSTANTS
  Parts = 2
  MaxResponses = 3
  MaxConnections = 3
INVARIANTS
  FramesInOrder
  WrittenBufferIsKept
PROPERTIES
  FirstPostedAreWritten
CHECK_DEADLOCK FALSE
