CONSTANTS
  None = None
  Stale = 0
  Irps = {i1, i2}
  Workers = {w1, w2}
  Lengths = {0, 1, 3}
  Sizes = {3}
  InitialSize = 2
  MaxChars = 3
  MaxPolls = 1
  Modes = {"both", "one", "immediate"}
SPECIFICATION Spec
SYMMETRY Symmetry
CHECK_DEADLOCK FALSE
INVARIANTS TypeOK ReferenceProtocol ResourcesAccounted StreamIntact InfoIsExact
PROPERTIES NoWriteAfterCompletion QueueSpec
