CONSTANTS
  system = system
  cto = cto
  security = security
  Users = {system, cto, security}
  System = system
  Allowed <- DefaultRoles
  RequiredApprovals = 2
  Threads = {t1, t2}
  LastThreshold = 2
  EscalateAt = 1
  MaxAudit = 4
SYMMETRY ThreadSymmetry
SPECIFICATION Spec
INVARIANTS
  ApprovalIsEarned
  AuditReplaysTheState
  NotifiedOnce
PROPERTY DecisionsAreFinal
CHECK_DEADLOCK FALSE
