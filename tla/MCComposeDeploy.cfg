CONSTANTS
  d1 = d1
  d2 = d2
  Deployments <- MCDeployments
  MaxLosses = 0
  MaxBreaks = 1

SPECIFICATION Spec
INVARIANT BootsAfterSuccess
CHECK_DEADLOCK FALSE
