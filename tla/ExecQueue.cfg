SPECIFICATION FairSpec
CONSTANTS
  w1 = w1
  w2 = w2
  t1 = t1
  t2 = t2
  AnyTenant = AnyTenant
  Key = {1}
  Worker = {w1, w2}
  Tenant = {t1, t2}
  TenantOf <- MCTenantOf
  ScopeOf <- MCScopeOf
  OwnerOf <- MCOwnerOf
  MaxAttempts = 2
  MaxExpiries = 1
  MaxCrashes = 1
  MaxViews = 2
CHECK_DEADLOCK FALSE
INVARIANTS
  Fencing
  ResultsAreVerdicts
PROPERTIES
  LeaseHandover
  TasksFinish
  CloseReturns
