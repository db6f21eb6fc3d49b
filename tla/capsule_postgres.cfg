SPECIFICATION Spec
CONSTANTS
  a = a
  b = b
  k1 = k1
  k2 = k2
  x1 = x1
  x2 = x2
  ta = ta
  tb = tb
  td = td
  h1 = h1
  h2 = h2
  None = None
  Err = Err
  Created = Created
  Updated = Updated
  Empty = Empty
  KeyOf <- MCKeyOf
  Id <- AllIds
  DefaultTenant = td
  Handler = {h1, h2}
  Backend = "postgres"
  Rls = TRUE
  Registered = {ta, tb}
  Faults = TRUE
  ClockSteps = {0, 1}
  MaxTime = 3
  Capsule <- Plain
  Doc <- Plain
  Hint = {a, b, None}
  KeyList <- PurgeSome
  TenantSlugs <- BothMapped
  StableId <- Injective
  BusEnabled = FALSE
  BusFails = FALSE
  MaxRequests = 3
  MaxCrashes = 1
  Slug = {a, b}
  Key = {k1, k2}
  Hash = {x1, x2}
  Tenant = {ta, tb, td}
PROPERTIES OnlyPurgesEmptyKeys PurgeEmptiesKey
SYMMETRY HandlersAlike
CHECK_DEADLOCK FALSE
