SPECIFICATION TsscSpec
CONSTANTS
  ID <- MCID
  AdaptAfter <- MCAdaptAfter
  TimeBytes = 2
  QualityBytes = 2
  ReservedBytes = 17
  BufferSize = 23
  Measurements <- MCMeasurements
  MaxSequence = 2
  MaxMeasurements = 4
  MaxResets = 1
INVARIANTS
  DecodedAsSent
  CodecsInStep
  NoBufferOverrun
CHECK_DEADLOCK FALSE
