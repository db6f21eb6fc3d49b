SPECIFICATION FairSpec
CONSTANTS
  Tenant = {t1, t2}
  Registered = {t1, t2}
  NilTenant = nil
  Id = {1, 2}
  k1 = k1
  Second = 3
  Dates <- MCDates
  Ttls <- MCTtls
  Key = {k1}
  Doc <- MCDoc
  KeyOf <- MCKeyOf
  Conn = {c1, c2}
  Task = {w1, w2, w3}
  Backend = "postgres"
  Rls = TRUE
  Faults = FALSE
  None = None
  Err = Err
  Created = Created
  Updated = Updated
  ClockSteps = {1}
  MaxTime = 3
  MaxCalls = 3
  MaxFaults = 2
INVARIANTS TypeOK StatementTenant LifetimesExact
PROPERTIES WritesInOrder PurgeSparesOnlyNew CallsEnd
CHECK_DEADLOCK FALSE
