CONSTANTS
  None = None
  Files = {f1}
  Reads = {r1}
  Controls = {}
  Minors <- AllMinors
SPECIFICATION FairSpec
CHECK_DEADLOCK FALSE
INVARIANTS QueriedIsUnopened
PROPERTIES PnpEnds
