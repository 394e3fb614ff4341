SPECIFICATION MCSpec
CONSTANTS
  i1 = i1
  i2 = i2
  s1 = s1
  n1 = n1
  n2 = n2
  n3 = n3
  e1 = e1
  admin = admin
  acc1 = acc1
  acc2 = acc2
  adm1 = adm1
  p1 = p1
  p2 = p2
  Projects = {i1, i2}
  Measures = {s1}
  Months <- MCMonths
  Kinds <- MCKinds
  Quarters = {0, 2}
  Gains = {1}
  Budgeted = {2}
  Incurred = {3}
  MaxRows = 2
  Displayed = 3
  Stored = {0, 1}
  Initiatives = {n1, n2, n3}
  Plans = {5}
  Actuals = {0, 3}
  Drivers <- MCDrivers
  Percent = 2
  MaxExcluded = 1
  MaxRuns = 1
  Nodes = {n1, n2, n3}
  Emails = {e1, admin}
  Roles = {"initiative_owner", "viewer"}
  AdminEmail = admin
  MaxInvites = 2
  MaxLinks = 2
  Idle = Idle
  Accounts = {acc1, acc2}
  Admins = {adm1}
  Procs = {p1, p2}
  MaxRounds = 3
  MaxTokens = 4
  People = {1, 2, 3}
SYMMETRY Symmetry
INVARIANTS
  ReportsTally
  FormulasSolve
  RunsAreSound
  NoInitiativeWaitsForItself
  NoMilestoneWaitsForItself
  DirectDependentsCount
  AcceptedAreIn
  DisconnectSticks
PROPERTIES
  RevokedStayOut
  OkMeansInSync
  LateAnswersAreLost
