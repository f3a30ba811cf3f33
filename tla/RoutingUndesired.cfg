SPECIFICATION Spec
CONSTANTS
  Connection = {c1, c2}
  SignalID = {s1, s2}
  MaxOperations = 2
  MaxClears = 0
INVARIANTS
  UndesiredAreNotRouted
CHECK_DEADLOCK FALSE
