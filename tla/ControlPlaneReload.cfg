SPECIFICATION ControlSpec
CONSTANTS
  Nothing = Nothing
  TenantConfigs <- MCTenantConfigs
  RevRow <- MCRevRow
  Drafts <- MCDrafts
  ModelSpecs <- MCModelSpecs
  ModelConfigs <- MCModelConfigs
  BackendSpecs <- MCBackendSpecs
  BackendConfigs <- MCBackendConfigs
  BindingRow <- MCBindingRow
  BindingConfigs <- MCBindingConfigs
  MaxCandidates = 3
  Admins = {a1, a2}
  Scenes <- MCScenes
  Hooks = {h1, h2}
  Senders <- MCSenders
  MaxExpiries = 1
SYMMETRY MCSymmetry
CHECK_DEADLOCK FALSE
INVARIANT
  AcceptedIsStorable
