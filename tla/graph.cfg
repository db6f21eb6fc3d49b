SPECIFICATION MCSpec
CONSTANTS
  t1 = t1
  k1 = k1
  k2 = k2
  note = note
  task = task
  None = None
  Err = Err
  Created = Created
  Updated = Updated
  Tenant = {t1, t2}
  Registered = {t1, t2}
  Id = {1, 2, 3}
  Key = {k1, k2}
  Doc <- MCDoc
  KeyOf <- MCKeyOf
  KindOf <- MCKindOf
  Kind = {note, task}
  Rel = {related}
  Limit = {1, 2}
  Backend = "postgres"
  Rls = TRUE
  Faults = TRUE
  ClockSteps = {0, 1}
  MaxTime = 2
  MaxLinks = 1
  MaxPages = 4
INVARIANTS TypeOK NoInheritedEdges NeighborsAreOwn ListingComplete
CHECK_DEADLOCK FALSE
