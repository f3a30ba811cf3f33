SPECIFICATION FairSpec
CONSTANTS
  Version = 2
  Publishers = {p1}
  MaxSequence = 2
  MaxRequests = 3
  MaxConnections = 2
  MaxPackets = 4
  MaxInFlight = 2
INVARIANTS
  TypeOK
  ActiveCacheHeld
  OneOfferOutstanding
  PendingHasTask
  TsscInStep
PROPERTIES
  ImplementsHandover
  OffersAreAnswered
  NewestIsOffered
