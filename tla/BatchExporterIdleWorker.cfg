CONSTANTS
  Events = {e1, e2}
  Flushes = {f1, f2}
  Shutdowns = {s1}
  Sentinel = Sentinel
  MaxQueueSize = 3
  BatchSize = 2
  Threshold = 2
SPECIFICATION Spec
INVARIANT WorkerEndsOnlyOnShutdown
CHECK_DEADLOCK FALSE
