SPECIFICATION Spec
CONSTANTS
  Program = {p1}
  MaxSubscribes = 1
  MaxPublications = 1
  MaxRotations = 1
  MaxThrottles = 1
  Interval = 1
  Step = 2
  Span = 4
PROPERTIES
  UnsubscribedGetsNoData
CHECK_DEADLOCK FALSE
