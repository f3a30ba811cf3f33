SPECIFICATION Spec
CONSTANTS
  Version = 1
  Publishers = {p1, p2}
  MaxSequence = 2
  MaxRequests = 3
  MaxConnections = 2
  MaxPackets = 4
  MaxInFlight = 2
SYMMETRY PublisherSymmetry
INVARIANTS
  CacheFollows
