SPECIFICATION FairSpec
CONSTANTS
  Client = {c1, c2}
  MaximumAllowedConnections = 1
  MaxCalls = 3
  NoClient = NoClient
PROPERTIES
  StartedServes
CHECK_DEADLOCK FALSE
