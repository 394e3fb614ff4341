SPECIFICATION MCSpec
CONSTANTS
  u1 = u1
  u2 = u2
  i1 = i1
  i2 = i2
  a1 = a1
  p1 = p1
  p2 = p2
  l1 = l1
  l2 = l2
  m1 = m1
  jan = jan
  feb = feb
  low = low
  high = high
  None = None
  Users = {u1, u2}
  Initiatives = {i1}
  Actions = {a1}
  MaxTries = 2
  Pages = {p1, p2}
  MaxUpdates = 3
  MaxSubmissions = 3
  Reported = {i1, i2}
  Day = 2
  OnTime = 0
  MaxTime = 4
  MaxNudges = 2
  Lines = {l1, l2}
  Metrics = {m1}
  NoMetric = NoMetric
  MaxMoves = 3
  Periods = {jan, feb}
  Actuals = {low, high}
  MaxEntries = 3
  MaxPlans = 2
  MaxDisturbances = 1
  MaxRisks = 9
INVARIANTS
  ReloadCanReset
