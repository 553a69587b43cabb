CONSTANTS
  None = None
  Files = {f1, f2}
  Reads = {r1}
  Controls = {c1}
  Minors <- RemoveMinors
SPECIFICATION Spec
CHECK_DEADLOCK FALSE
INVARIANTS GateIsKept RemovedIsQuiet OpensExclude
