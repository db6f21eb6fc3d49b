SPECIFICATION FairSpec
CONSTANTS
  t1 = t1
  t2 = t2
  w1 = w1
  w2 = w2
  c1 = c1
  c2 = c2
  None = None
  NilTenant = NilTenant
  Tenant = {t1, t2}
  Worker = {w1, w2}
  Conn = {c1, c2}
  Size = {1, 2}
  MaxEvents = 3
  MaxFailures = 1
  MaxCrashes = 1
INVARIANTS TypeOK HandedOutOnce BatchOfOneTenant
PROPERTIES LostOnlyByCrashOrFailedClaim EventsLeave
