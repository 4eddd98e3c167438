SPECIFICATION FairSpec
CONSTANTS
  p1 = p1
  p2 = p2
  g1 = g1
  q1 = q1
  q2 = q2
  i1 = i1
  i2 = i2
  i3 = i3
  b1 = b1
  Guids = {g1}
  Procs = {p1, p2}
  Requests = {q1, q2}
  Items = {i1, i2, i3}
  Replays = {b1}
  Home <- MCHome
  Concurrency = 1
  Lease = 1
  HandleTicks = 1
  MaxSends <- MCMaxSends
  MaxFaults = 1
PROPERTIES
  StaleReclaimed
CHECK_DEADLOCK FALSE
