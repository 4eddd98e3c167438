SPECIFICATION FairSpec
CONSTANTS
  p1 = p1
  p2 = p2
  k1 = k1
  k2 = k2
  r1 = r1
  r2 = r2
  o1 = o1
  Procs = {p1, p2}
  TimerProcs = {p1}
  Polls = {k1, k2}
  Runs = {r1, r2}
  Operators = {o1}
  Home <- MCHome
  Jobs <- MCJobs
  Timeout <- MCTimeout
  Concurrency = 1
  MaxAttempts = 2
  Lease = 2
  SettleTicks = 1
  MaxWorkflowChecks = 1
  AmbiguousWrites = FALSE
  MaxFaults = 1
  MaxRequeues = 1
  MaxWakes = 0
INVARIANTS
  TypeOK
  SingleOwner
  NoEarlyFailure
PROPERTIES
  ReclaimsOnlyAbandoned
  ImplementsJobLease
  EveryJobSettles
