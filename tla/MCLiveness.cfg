CONSTANTS
  Threads = {t1, t2}
  Children = {1, 2}
  MaxRetries = 1
  MaxEvents = 2
  MaxResets = 1
SPECIFICATION LiveSpec
INVARIANTS
  TypeOK
  EveryEventIsAccountedFor
  ChainIsLinear
  OneLiveExporter
PROPERTIES
  EveryCallReturns
  StopEndsTheWorker
CHECK_DEADLOCK FALSE
