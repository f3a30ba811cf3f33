SPECIFICATION FairSpec
CONSTANTS
  Users = {u1}
  MaxThreads = 9
  MaxCalls = 3
  MaxBreaks = 1
  MaxFailures = 1
  MaxRetries = 2
  AttemptCap = 2
  None = None
CONSTRAINT NotRaced
INVARIANTS
  ClosesNoNewConnection
  OneDisconnect
  OneReader
PROPERTIES
  LostIsReconnected
CHECK_DEADLOCK FALSE
