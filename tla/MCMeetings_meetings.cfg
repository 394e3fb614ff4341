SPECIFICATION MCSpec
CONSTANTS
  i1 = i1
  x = x
  y = y
  u1 = u1
  acc1 = acc1
  acc2 = acc2
  a1 = a1
  a2 = a2
  None = None
  Dates = {1, 2}
  Windows <- MCWindows
  Items = {i1}
  Texts = {x, y}
  Users = {u1}
  MayFail = TRUE
  MaxEdits = 2
  Series = Series
  SessionScopes = {1}
  Accounts = {acc1, acc2}
  NoId = NoId
  MaxInvites = 3
  Artifacts = {a1, a2}
  MaxDrafts = 2
  MaxRuns = 2
PROPERTIES
  SeriesHistoryStands
  InvitesAreWithdrawn
  
