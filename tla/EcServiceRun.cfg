CONSTANTS
  None = None
  Irps = {i1, i2}
  Lengths = {2, 3}
  MaxAddress = 2
  MaxBurstStall = 1
  MaxNonBurstStall = 1
  MaxEvents = 1
SPECIFICATION FairSpec
CHECK_DEADLOCK FALSE
INVARIANTS InStep NoLostWakeup
PROPERTIES WholeTransfers QueueIsFifo AllAreServed
