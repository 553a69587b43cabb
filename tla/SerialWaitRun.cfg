CONSTANTS
  None = None
  SetMasks = {s1, s2}
  Waits = {v1, v2}
  Workers = {w1, w2}
  Closers = {w1}
  Events = {e1}
SPECIFICATION FairSpec
CHECK_DEADLOCK FALSE
INVARIANTS ReferenceProtocol EventsArrive
PROPERTIES QueueSpec WaitsEnd
