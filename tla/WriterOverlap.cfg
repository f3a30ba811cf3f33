SPECIFICATION Spec
CONSTANTS
  Parts = 2
  Senders = {s1, s2}
  MaxCommands = 4
  MaxConnections = 1
INVARIANTS
  CommandsIntact
CHECK_DEADLOCK FALSE
