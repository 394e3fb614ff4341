SPECIFICATION MCSpec
CONSTANTS
  i1 = i1
  Initiatives = {i1}
  Triggers = {1}
  Windows <- MCWindows
  Months = {1, 2, 3}
  Year <- MCYear
  Growth <- MCGrowth
  Asks = {"unset"}
  Amounts = {0, 1}
  MaxAmount = 2
  MaxLines = 2
  MaxPayload = 1
  MaxVersions = 1
  MayFail = TRUE
  Books = {"first", "copy"}
  Authors = {"u"}
  BookStarts <- MCBookStarts
  BookLines <- MCBookLines
  BookWindows <- MCBookWindows
  BookUpdates <- MCBookUpdates
  BookForms <- MCBookForms
  FiscalYears = 1
  MaxBookAmount = 30
  MaxEdits = 2
INVARIANTS
  LockKeepsPlan
  SaveTouchesItsMonthsOnly
  MovingKeepsCosts
  ReimportSettles
  RetryCompletes
PROPERTIES
  LockedPlanWriters
