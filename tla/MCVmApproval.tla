---------------------------- MODULE MCVmApproval ----------------------------
EXTENDS VmApproval, TLC
CONSTANTS t1, t2, ra, rb, j1, j2, j3, h1, h2, d1
MCRepo == t1 :> ra @@ t2 :> rb
MCTarget == j1 :> t1 @@ j2 :> t2 @@ j3 :> t2
MCMaxDeploys == j1 :> 2 @@ j2 :> 1 @@ j3 :> 1
\* Issue 12 of one repository mentions issue 1 of the other.
MCNumbers == ra :> {1, 2} @@ rb :> {12, 13}
=============================================================================
