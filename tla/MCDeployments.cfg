SPECIFICATION AllSpec
CONSTANTS
  t1 = t1  t2 = t2  u1 = u1  h1 = h1  h2 = h2  c1 = c1  c2 = c2  r1 = r1  r2 = r2
  k1 = k1  k2 = k2  p1 = p1  p2 = p2
  Targets <- MCTargets
  Owner <- MCOwner
  Hosts <- MCHosts
  MaxVms <- MCMaxVms
  Addresses = {1, 2}
  Calls = {c1, c2}
  Removers = {r1, r2}
  MaxMachines = 3
  MaxStarts = 3
  MaxFaults = 1
  Commits = {k1, k2}
  HasCaddyfile = {k2}
  Bodies = {c1, c2}
  MaxRuns = 2
  MaxRunFaults = 1
  Deployments = {c1, c2}
  MaxComposeLosses = 2
  MaxComposeBreaks = 1
  Sites = {p1, p2}
  Deployers = {c1, c2}
  Validates = TRUE
  MaxCaddyStarts = 3
  MaxCaddyFaults = 1
  GithubCalls = {c1, c2}
  Threshold = 2
  Cooldown = 2
  MaxRetries = 1
  MaxGithubCalls = 7
  MaxClock = 5
  Workflows = {t1, t2}
SYMMETRY MCSymmetry
INVARIANTS TypesOK AccountedFor NoDuplicateVm NoSharedAddress WithinQuota RowsPointHome
  InProgressEnds ChecksSettle  IssueTellsOutcome
  SuccessRuns FailureFinal RollbackRestores 
PROPERTIES RowsOutliveMachines SkipsEarned
CHECK_DEADLOCK FALSE
