CONSTANTS
  Threads = {t1, t2}
  Children = {1}
  MaxRetries = 1
  MaxEvents = 3
  MaxResets = 0
SPECIFICATION Spec
INVARIANT ExportedChainVerifies
CHECK_DEADLOCK FALSE
