SPECIFICATION AllSpec
CONSTANTS
  main = main  p1 = p1  p2 = p2  k1 = k1  k2 = k2  k3 = k3  k4 = k4
  u1 = u1  u2 = u2  s1 = s1  s2 = s2
  Environments = {dev}
  Handlers <- MCHandlers
  Job = timer
  MaxStarts = 3
  MaxFaults = 1
  Commits <- MCCommits
  Pulls = {p1, p2}
  Main = main
  Branch <- MCBranch
  Rule <- MCRule
  EventHandlers <- MCHandlers
  MaxEvents = 3
  MaxEventFaults = 1
  Users = {u1, u2}
  Lists <- MCLists
  Syncs = {s1, s2}
  MaxSyncStarts = 3
  MaxSyncFaults = 1
  MaxMoves = 1
INVARIANTS TypesOK SecretMatches  AdminsSynced  OneLabelled
PROPERTIES TokenArrives
CHECK_DEADLOCK FALSE
