SPECIFICATION PlatformSpec
CONSTANTS
  Nothing = Nothing
  TenantConfigs <- MCTenantConfigs
  RevRow <- MCRevRow
  Drafts <- MCDrafts
  ModelSpecs <- MCModelSpecs
  ModelConfigs <- MCModelConfigs
  BackendSpecs <- MCBackendSpecs
  BackendConfigs <- MCBackendConfigs
  BindingRow <- MCBindingRow
  BindingConfigs <- MCBindingConfigs
  MaxCandidates = 3
  Admins = {a1, a2}
  Scenes <- MCScenes
  Hooks = {h1, h2}
  Senders <- MCSenders
  MaxExpiries = 1
  Requests = {r1, r2}
  r1 = r1
  r2 = r2
  RequestIds = {i1, i2}
  i1 = i1
  i2 = i2
  Keys = {k1, k2}
  k1 = k1
  k2 = k2
  NoId = NoId
  ChannelSize = 1
  MaxRequests = 1
  Situations <- MCSituations
  NoScene <- MCNoScene
  NoSituation <- MCNoSituation
  Clients = {c1, c2, c3}
  Operators = {o1, o2}
  Records = {x, y}
  x = x
  y = y
  Fresh = Fresh
  Migrations <- MCMigrations
  NoMigration <- MCNoMigration
SYMMETRY MCSymmetry
CHECK_DEADLOCK FALSE
INVARIANTS
  HistoryIsComplete
  RetriesApplyOnce
  StoredIsCanonical
  RowsFitTogether
  WaitCycles
  StaleNeedsMishap
  CandidatesAreSound
  KeyTellsPlan
  SuccessIsRecorded
  LedgersAgree
  RequestIdRunsOnce
  OverlapNeedsLapse
  StoredIsWhole
  NothingLeaks
  LockIsSound
  OnlyRacesLose
PROPERTIES
  AppRegistryHolds
  TenantGatesRelease
