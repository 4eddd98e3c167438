------------------------ MODULE MCDeploymentQueueLease ------------------------
EXTENDS DeploymentQueue, TLC
CONSTANTS p1, p2, k1, k2, r1, r2, o1
MCHome == k1 :> p1 @@ k2 :> p2 @@ r1 :> p1 @@ r2 :> p2 @@ o1 :> p2
MCJobs == {1}
MCTimeout == [j \in MCJobs |-> 1]
=============================================================================
