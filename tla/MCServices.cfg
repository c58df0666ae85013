CONSTANTS
  MaxBytes = 2
  MaxBatch = 2
  MaxEvents = 4
  MaxIndex = 2
  MaxLines = 1
  MaxCrashes = 2
  Runners = {r1, r2}
  Groups = {gate}
  MaxQueue = 1
  MaxAlerts = 3
  HitlIds = {d1}
  HitlThreads = {a, b}
  HitlItemCap = 2
  HitlTierCap = 1
  ConsentPairs = {pair}
  ConsentThreads = {a, b}
  ConsentEventCap = 3
  ModelIds = {m1, m2}
  PromptVersions = {v1, v2, v3}
  ConsumerTools = {x, y}
  ConsumerVersions <- SchemaVersions
  ConsumerCap = 3
  IkThreads = {a, b}
  IkKeyCap = 3
  IfCodes = {c1, c2}
  MAX_FAILURES = 2
  IfEnrolCap = 2
  IfExpiryCap = 1
  DirNames = {n, m}
  DirUserCap = 2
  DirGroupCap = 1
  SsoIdps = {i}
  SsoCap = 2
  OidcStates = {s}
SYMMETRY ServiceSymmetry
SPECIFICATION Spec
CHECK_DEADLOCK FALSE
INVARIANTS
  ServicesTypeOK
  AcknowledgedEventsAreStored
  FilesKeepTheOrderOfAProcess
  RotatedFilesAreMarked
  StoredCopiesAreSealed
  EveryAlertIsInOnePlace
  EscalatedOnceAfterSending
  AcknowledgedAlertsStayQuiet
  OnlyAFullQueueStopsAnEscalation
  PeopleAreHeard
  RegistriesResolve
  IdentitiesAreKept
