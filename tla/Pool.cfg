SPECIFICATION FairSpec
CONSTANTS
  Task = {t1, t2, d1}
  Delayed = {d1}
INVARIANTS
  NoActionAfterShutDown
  RemovedWhenEnded
PROPERTIES
  NoLateTimer
  QueuedIsExecuted
  ExecutedIsRemoved
CHECK_DEADLOCK FALSE
