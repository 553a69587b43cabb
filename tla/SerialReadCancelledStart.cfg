CONSTANTS
  None = None
  Stale = 0
  Irps = {i1, i2}
  Workers = {w1}
  Lengths = {2}
  Sizes = {}
  InitialSize = 2
  MaxChars = 2
  MaxPolls = 1
  Modes = {"none"}
SPECIFICATION Spec
CHECK_DEADLOCK FALSE
INVARIANTS CopiedCharsAreReleased
