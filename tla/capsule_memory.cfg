SPECIFICATION Spec
CONSTANTS
  a = a
  b = b
  k1 = k1
  k2 = k2
  x1 = x1
  x2 = x2
  ta = ta
  tb = tb
  td = td
  h1 = h1
  h2 = h2
  None = None
  Err = Err
  Created = Created
  Updated = Updated
  Empty = Empty
  KeyOf <- MCKeyOf
  Id <- AllIds
  DefaultTenant = td
  Handler = {h1, h2}
  Backend = "memory"
  Rls = FALSE
  Registered = {}
  Faults = FALSE
  ClockSteps = {0, 1}
  MaxTime = 3
  Capsule <- AnyBody
  Doc <- Plain
  Hint = {a, b, None}
  KeyList <- PurgeSome
  TenantSlugs <- OnlyA
  StableId <- Injective
  BusEnabled = TRUE
  BusFails = TRUE
  MaxRequests = 3
  MaxCrashes = 1
  Slug = {a, b}
  Key = {k1, k2}
  Hash = {x1, x2}
  Tenant = {ta, td}
INVARIANTS TypeOK TenantHoldsItsPolicy NoFalseMiss
PROPERTIES DeletionsAnnounced
SYMMETRY HandlersAlike
CHECK_DEADLOCK FALSE
