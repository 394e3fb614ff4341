SPECIFICATION BaselineSpec
CONSTANTS
  i1 = i1
  i2 = i2
  to = to
  ta = ta
  pm = pm
  fl = fl
  io = io
  Initiatives = {i1}
  NumGates = 2
  Actors = {to}
  RoleOf <- MCRoleOf
  Owned <- MCOwned
  ApproverRoles <- MCApprovers
  SettingsChoices <- MCChoices
  DefaultSettings <- MCDefault
  StageRequests <- MCChain
  MayFail = TRUE
  MaxSubmissions = 3
  MaxVersions = 2
  MaxEdits = 1
INVARIANTS
  PlansAndRequests
  PlanHasApproval
  StageHasApproval
  AuditedApprovalTookEffect
PROPERTIES
  LedgerSpec
  UnlockedByRevocationOnly
