SPECIFICATION Spec
CONSTANTS
  Users = {u1}
  MaxThreads = 9
  MaxCalls = 2
  MaxBreaks = 1
  MaxFailures = 0
  MaxRetries = 0
  AttemptCap = 1
  None = None
PROPERTIES
  DisconnectIsFinal
CHECK_DEADLOCK FALSE
