SPECIFICATION FairSpec
CONSTANTS
  Client = {c1, c2}
  MaximumAllowedConnections = 1
  MaxCalls = 3
  NoClient = NoClient
INVARIANTS
  DispatchedIsAlive
  AcceptedWithinLimit
  AnnouncedEndIsKnown
  StoppedIsQuiet
PROPERTIES
  StoppedIsRemoved
  ShutDownCompletes
CHECK_DEADLOCK FALSE
