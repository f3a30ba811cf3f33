SPECIFICATION FairSpec
CONSTANTS
  Connection = {c1, c2}
  SignalID = {s1, s2}
  MaxOperations = 4
  MaxClears = 1
INVARIANTS
  TypeOK
  DesiredAreRouted
  RoutedAreRequested
PROPERTIES
  OthersUndisturbed
  OperationsComplete
CHECK_DEADLOCK FALSE
