CONSTANTS
  None = None
  Pnp = pnp
  Files = {f1}
  PerFile = {a}
SPECIFICATION FairSpec
CHECK_DEADLOCK FALSE
INVARIANTS QueueProtocol CountProtects StopEventTruth
PROPERTIES PnpEnds RequestsEnd
