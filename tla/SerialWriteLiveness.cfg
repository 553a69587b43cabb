CONSTANTS
  None = None
  Writes = {a1}
  Flushes = {f1}
  Xoffs = {x1}
  Immediates = {}
  Workers = {w1}
  Lengths = {1, 2}
  Counters = {1}
  TxFifoAmount = 1
  MaxChars = 0
SPECIFICATION FairSpec
CHECK_DEADLOCK FALSE
INVARIANTS NoneLost
PROPERTIES FlushWaitsForWrites RequestsEnd
