SPECIFICATION MCSpec
CONSTANTS
  t1 = t1
  td = td
  i1 = i1
  i2 = i2
  d1 = d1
  k1 = k1
  h1 = h1
  h2 = h2
  None = None
  Err = Err
  Created = Created
  Updated = Updated
  Tenant = {t1, td}
  Id = {i1, i2}
  Key = {k1}
  Doc = {d1}
  KeyOf <- MCKeyOf
  Backend = "postgres"
  Rls = TRUE
  Registered = {t1, td}
  Faults = TRUE
  ClockSteps = {1}
  MaxTime = 3
  MaxHistory = 2
  Handler = {h1, h2}
  Call = {h1, h2}
  DefaultTenant = td
  MaxRequests = 3
  MaxProxied = 4
INVARIANTS TypeOK HistoryIsRecent CountersAddUp CreatedOnce StatusHonest CarriedOutOnce
SYMMETRY NamesAlike
