SPECIFICATION FairSpec
CONSTANTS
  t1 = t1
  t2 = t2
  ra = ra
  rb = rb
  j1 = j1
  j2 = j2
  j3 = j3
  h1 = h1
  h2 = h2
  d1 = d1
  Targets = {t1, t2}
  Repo <- MCRepo
  Jobs = {j1, j2, j3}
  Target <- MCTarget
  Numbers <- MCNumbers
  Handlers = {h1}
  Deleters = {d1}
  Patient = {t1}
  MaxDeploys <- MCMaxDeploys
  MaxFaults = 1
  MaxCrashes = 1
INVARIANTS
  TypeOK
  NoVmBeforeApproval
PROPERTIES
  PatientDeploymentResumes
CHECK_DEADLOCK FALSE
