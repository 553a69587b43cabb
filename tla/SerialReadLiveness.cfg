CONSTANTS
  None = None
  Stale = 0
  Irps = {i1, i2}
  Workers = {w1, w2}
  Lengths = {2}
  Sizes = {}
  InitialSize = 1
  MaxChars = 2
  MaxPolls = 1
  Modes = {"both"}
SPECIFICATION FairSpec
CHECK_DEADLOCK FALSE
PROPERTIES EndedFromOutside
