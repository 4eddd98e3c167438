-------------------------- MODULE MCComposeDeploy --------------------------
(* An instance of ComposeDeploy: two deployments to one new VM, with no       *)
(* command lost.                                                              *)
EXTENDS ComposeDeploy

CONSTANTS d1, d2

MCDeployments == {d1, d2}
=============================================================================
