SPECIFICATION Spec
CONSTANTS
  ScThreads = {"a", "b"}
  THRESHOLD = 3
  max_retries = 1
  local_fallback_enabled = TRUE
  ScDepth = 2
  RlLimit = 2
  RlWindow = 3
  RlEnd = 6
  SrThreads = {"a", "b"}
  SrServices = 1
  SrCheckerCap = 2
  AdTopics = {"t", "u"}
  AdDedup = 2
  AdMinute = 3
  AdRateLimit = 2
  AdThreshold = 2
  AdEnd = 4
  ExCallers = {"a", "b"}
  ExBatchSize = 2
  ExQueueSize = 2
  ExRetries = 2
  ExCalls = 3
  CbThreads = {"a", "b", "c"}
  CbThreshold = 2
  CbCap = 4
  CbResets = 1
CHECK_DEADLOCK FALSE
INVARIANTS
  ComponentsTypesOK
  TracesAddUp
  GovernanceIsDecidedOnce
  CallsAreRationed
  EvidenceIsHonest
  DataIsGuarded
  AnswersAddUp
  PlatformHolds
  ShipmentsAddUp
