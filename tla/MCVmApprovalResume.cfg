SPECIFICATION FairSpec
CONSTANTS
  t1 = t1
  t2 = t2
  ra = ra
  rb = rb
  j1 = j1
  j2 = j2
  j3 = j3
  h1 = h1
  h2 = h2
  d1 = d1
  Targets = {t1, t2}
  Repo <- MCRepo
  Jobs = {j2}
  Target <- MCTarget
  Numbers <- MCNumbers
  Handlers = {h1, h2}
  Deleters = {d1}
  Patient = {}
  MaxDeploys <- MCMaxDeploys
  MaxFaults = 0
  MaxCrashes = 0
PROPERTIES
  DeploymentResumes
CHECK_DEADLOCK FALSE
