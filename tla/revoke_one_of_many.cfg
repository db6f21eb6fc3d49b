SPECIFICATION Spec
CONSTANTS
  a = a
  b = b
  k1 = k1
  k2 = k2
  x1 = x1
  x2 = x2
  ta = ta
  tb = tb
  td = td
  h1 = h1
  h2 = h2
  None = None
  Err = Err
  Created = Created
  Updated = Updated
  Empty = Empty
  KeyOf <- MCKeyOf
  Id <- AllIds
  DefaultTenant = td
  Handler = {h1}
  Backend = "postgres"
  Rls = TRUE
  Registered = {ta, td}
  Faults = FALSE
  ClockSteps = {1}
  MaxTime = 9
  Capsule <- OneKey
  Doc <- OneKey
  Hint = {a}
  KeyList <- PurgeOne
  TenantSlugs <- OnlyA
  StableId <- Injective
  BusEnabled = TRUE
  BusFails = FALSE
  MaxRequests = 3
  MaxCrashes = 0
  Slug = {a}
  Key = {k1, k2}
  Hash = {x1, x2}
  Tenant = {ta, td}
PROPERTIES DeletionsAnnounced
CHECK_DEADLOCK FALSE
