CONSTANTS
  Events = {e1, e2, e3}
  Flushes = {f1, f2}
  Shutdowns = {s1}
  Sentinel = Sentinel
  MaxQueueSize = 2
  BatchSize = 2
  Threshold = 2
SPECIFICATION Spec
SYMMETRY CallSymmetry
INVARIANTS
  OnlyItemAndStrandedGoUnexported
  CircuitOpensOnConsecutiveFailures
PROPERTIES
  FlushIsReleasedBehindItsEvents
  ImplementsLossyFifo
CHECK_DEADLOCK FALSE
