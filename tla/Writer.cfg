SPECIFICATION Spec
CONSTANTS
  Parts = 2
  Senders = {s1, s2}
  MaxCommands = 4
  MaxConnections = 2
SYMMETRY SenderSymmetry
INVARIANTS
  UnhurriedCommandsIntact
  ModesFirst
CHECK_DEADLOCK FALSE
