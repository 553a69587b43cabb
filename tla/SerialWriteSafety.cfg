CONSTANTS
  None = None
  Writes = {a1}
  Flushes = {}
  Xoffs = {x1}
  Immediates = {m1}
  Workers = {w1, w2}
  Lengths = {3}
  Counters = {1}
  TxFifoAmount = 2
  MaxChars = 1
SPECIFICATION Spec
CHECK_DEADLOCK FALSE
SYMMETRY Symmetry
INVARIANTS ReferenceProtocol CharactersAccounted CounterEndsAtWrite
PROPERTIES QueueSpec
