SPECIFICATION BaselineSpec
CONSTANTS
  i1 = i1
  i2 = i2
  to = to
  ta = ta
  pm = pm
  fl = fl
  io = io
  Initiatives = {i1}
  NumGates = 2
  Actors = {to, fl}
  RoleOf <- MCRoleOf
  Owned <- MCOwned
  ApproverRoles <- MCFinanceApprovers
  SettingsChoices <- MCOnlyDefault
  DefaultSettings <- MCDefault
  StageRequests <- MCChain
  MayFail = FALSE
  MaxSubmissions = 1
  MaxVersions = 1
  MaxEdits = 0
INVARIANTS
  PlanHasApproval
