------------------------ MODULE MCDeploymentQueueSlots ------------------------
EXTENDS DeploymentQueue, TLC
CONSTANTS p1, k1, k2, r1, r2, o1
MCHome == k1 :> p1 @@ k2 :> p1 @@ r1 :> p1 @@ r2 :> p1 @@ o1 :> p1
MCJobs == {1, 2}
MCTimeout == [j \in MCJobs |-> 1]
=============================================================================
