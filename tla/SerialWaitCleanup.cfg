CONSTANTS
  None = None
  SetMasks = {s1}
  Waits = {v1}
  Workers = {w1, w2}
  Closers = {w1}
  Events = {e1}
SPECIFICATION FairSpec
CHECK_DEADLOCK FALSE
PROPERTIES CleanupEndsWait
