SPECIFICATION FairSpec
CONSTANTS
  t1 = t1
  t2 = t2
  e1 = e1
  e2 = e2
  None = None
  Tenants = {t1, t2}
  Emails = {e1}
  MayFail = TRUE
  MaxIntents = 2
PROPERTIES
  PaidIsProvisioned
