SPECIFICATION Spec
CONSTANTS
  t1 = t1
  t2 = t2
  i1 = i1
  i2 = i2
  k1 = k1
  k2 = k2
  None = None
  Err = Err
  Created = Created
  Updated = Updated
  Tenant = {t1, t2}
  Id = {i1, i2}
  Key = {k1, k2}
  Doc <- MCDoc
  KeyOf <- MCKeyOf
  Backend = "memory"
  Rls = FALSE
  Registered = {}
  Faults = FALSE
  ClockSteps = {1}
  MaxTime = 4
INVARIANTS TypeOK PrimaryKey TimesOrdered
PROPERTIES TenantIsolation VersionsAge ImplementsContract
SYMMETRY Interchangeable
