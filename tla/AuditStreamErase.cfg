CONSTANTS
  Secrets = {k0, k1}
  Initial = k0
  Subjects = {s1}
  NoSubject = NoSubject
  Orgs = {}
  NoOrg = NoOrg
  Resolver <- KeysOfTheirOwn
  Configs <- OnePlainStream
  MaxEvents = 3
SPECIFICATION Spec
INVARIANT ErasedChainVerifies
CHECK_DEADLOCK FALSE
