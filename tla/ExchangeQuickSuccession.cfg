SPECIFICATION Spec
CONSTANTS
  Version = 2
  Publishers = {p1}
  MaxSequence = 2
  MaxRequests = 3
  MaxConnections = 1
  MaxPackets = 2
  MaxInFlight = 2
INVARIANTS
  NewestSubscriptionInEffect
