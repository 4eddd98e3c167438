SPECIFICATION Spec
CONSTANTS
  p1 = p1
  k1 = k1
  k2 = k2
  r1 = r1
  r2 = r2
  o1 = o1
  Procs = {p1}
  TimerProcs = {p1}
  Polls = {k1, k2}
  Runs = {r1, r2}
  Operators = {o1}
  Home <- MCHome
  Jobs <- MCJobs
  Timeout <- MCTimeout
  Concurrency = 1
  MaxAttempts = 1
  Lease = 2
  SettleTicks = 1
  MaxWorkflowChecks = 0
  AmbiguousWrites = TRUE
  MaxFaults = 1
  MaxRequeues = 0
  MaxWakes = 1
INVARIANTS
  SlotsCounted
  OvershootBound
