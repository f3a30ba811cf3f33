SPECIFICATION FairSpec
CONSTANTS
  Task = {t1, t2, d1}
  Delayed = {d1}
PROPERTIES
  ShutDownCompletes
CHECK_DEADLOCK FALSE
