SPECIFICATION MCCoreSpec
CONSTANTS
  MaxGroupDepth = 2
  LimitMax = 4
  Proposals <- MCProposals
  FirstCatalog <- MCFirst
  ResolveInputs <- MCResolveInputs
  Registries <- MCRegistries
  Scopes <- MCScopes
  Devices <- MCDevices
  Tolerances = {0, 70}
  Weights <- MCWeights
  Signals <- MCSignals
  Refreshes = {0, 1, 7, 8, 30, 60, 91, 92}
  Graces = {0, 1, 30}
  CoreDevice = {1, 2}
  CoreWeights <- MCCoreWeights
  MaxDrift = 2
  MaxRow = 2
  CoreTime = 4
  PENDING_TTL = 1
  HeartbeatSecs = 1
  CorePolicy <- MCCorePolicy
  CoreRegistry <- MCCoreRegistry
  SimPolicies <- MCSimPolicies
  SimRegistry <- MCSimRegistry
  MaxStep = 7
  MonthDays = 30
  l1 = l1  m1 = m1  e1 = e1  r1 = r1  r2 = r2
  Request = {r1, r2}
  NoReq = NoReq
  License = {l1}  Machine = {m1}  Epoch = {e1}
  TargetOf <- MCMachineEpoch
  LicenseOf <- MCLicenseOf
  Drifting = {m1}
  Purgeable = {m1}
  Client = {c1, c2}
  Cron = {}
  MaxFail = 1
  MaxForeign = 1
CHECK_DEADLOCK FALSE
SYMMETRY HandlerSymmetry
INVARIANTS FeedIsComplete RulesMatchReference RecordSound PreviewFaithful
