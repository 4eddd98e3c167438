--------------------------- MODULE MCDeployments ---------------------------
(***************************************************************************)
(* An instance of the parts of a deployment.  They share no state in the    *)
(* models, so each is explored by itself: the first state chooses the part  *)
(* that moves, and the rest stays at its initial state.                     *)
(*                                                                         *)
(* Two environments of one user whose limit is one machine, two addresses,  *)
(* two concurrent calls and deletions; two runs of two commits, one with a  *)
(* caddyfile; two deployments to one VM; two at once on two Caddy files;    *)
(* two concurrent calls to GitHub; two workflows.                           *)
(***************************************************************************)
EXTENDS DeploymentServices, TLC

CONSTANTS
  t1, t2, u1, h1, h2, c1, c2, r1, r2, k1, k2, p1, p2

VARIABLE part

MCTargets == {t1, t2}
MCOwner == [t \in MCTargets |-> u1]
MCHosts == [t \in MCTargets |-> IF t = t1 THEN {h1, h2} ELSE {h2}]
MCMaxVms == [u \in {u1} |-> 1]
MCSymmetry == Permutations({c1, c2}) \cup Permutations({r1, r2})

Parts == {"machines", "runner", "compose", "caddy", "github", "gate"}

AllInit ==
  /\ part \in Parts
  /\ Init /\ Runner!Init /\ Compose!Init /\ Caddy!Init /\ Github!Init /\ Gate!Init

\* A step of one part.
Moves(p) == part = p /\ UNCHANGED part

AllNext ==
  \/ /\ Moves("machines") /\ Next
     /\ UNCHANGED <<runnerVars, composeVars, caddyVars, githubVars, latest>>
  \/ /\ Moves("runner") /\ Runner!Next
     /\ UNCHANGED <<vars, composeVars, caddyVars, githubVars, latest>>
  \/ /\ Moves("compose") /\ Compose!Next
     /\ UNCHANGED <<vars, runnerVars, caddyVars, githubVars, latest>>
  \/ /\ Moves("caddy") /\ Caddy!Next
     /\ UNCHANGED <<vars, runnerVars, composeVars, githubVars, latest>>
  \/ /\ Moves("github") /\ Github!Next
     /\ UNCHANGED <<vars, runnerVars, composeVars, caddyVars, latest>>
  \/ /\ Moves("gate") /\ Gate!Next
     /\ UNCHANGED <<vars, runnerVars, composeVars, caddyVars, githubVars>>

AllVars == <<part, vars, runnerVars, composeVars, caddyVars, githubVars, latest>>
AllSpec == AllInit /\ [][AllNext]_AllVars

=============================================================================
