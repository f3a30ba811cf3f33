SPECIFICATION FairSpec
CONSTANTS
  Program = {p1}
  MaxSubscribes = 2
  MaxPublications = 2
  MaxRotations = 2
  MaxThrottles = 1
  Interval = 1
  Step = 2
  Span = 4
INVARIANTS
  UndisturbedTimestampsExact
  StoppedTimersEnd
PROPERTIES
  ActiveBaseIsKnown
CHECK_DEADLOCK FALSE
