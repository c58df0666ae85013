CONSTANTS
  Secrets = {k0, k1}
  Initial = k0
  Subjects = {s1}
  NoSubject = NoSubject
  Orgs = {o1}
  NoOrg = NoOrg
  Resolver <- KeysOfTheirOwn
  Configs <- StreamsOfEachKind
  MaxEvents = 3
SPECIFICATION Spec
INVARIANTS
  LinkageNeverBreaks
  OnlyErasureBehindARotationBreaksSignatures
  TenantEventsVerifyByResolver
PROPERTIES
  ErasureIsComplete
  VerifyRejectsOnlyAcrossARotation
CHECK_DEADLOCK FALSE
