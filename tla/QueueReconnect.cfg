SPECIFICATION FairSpec
CONSTANTS
  Parts = 2
  MaxResponses = 3
  MaxConnections = 2
PROPERTIES
  PostedIsWritten
CHECK_DEADLOCK FALSE
