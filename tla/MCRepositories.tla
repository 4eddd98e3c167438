--------------------------- MODULE MCRepositories ---------------------------
(***************************************************************************)
(* An instance of the parts that follow a repository over time.  They share *)
(* no state in the models, so each is explored by itself: the first state   *)
(* chooses the part that moves, and the rest stays at its initial state.    *)
(*                                                                         *)
(* One environment; two handlers; four commits: two on the default branch,  *)
(* of which one asks for releases, and one on each of two pull requests, of *)
(* which one has no valid file; two users, of whom one may be named and     *)
(* both may be in the GitHub group.                                         *)
(***************************************************************************)
EXTENDS RepositoryEvents, TLC

CONSTANTS main, p1, p2, k1, k2, k3, k4, u1, u2, s1, s2

VARIABLE part

MCHandlers == 1..2
MCCommits == {k1, k2, k3, k4}
MCBranch == (k1 :> main) @@ (k2 :> main) @@ (k3 :> p1) @@ (k4 :> p2)
MCRule == (k1 :> "branch") @@ (k2 :> "release") @@ (k3 :> "label") @@ (k4 :> "none")
MCLists == {{}, {u1}}

AllInit ==
  /\ part \in {"life", "events", "admins"}
  /\ Init /\ Deploys!Init /\ Admins!Init
  /\ part # "events" => ~initialized
  /\ part # "admins" => team = {}

\* A step of one part.
Moves(p) == part = p /\ UNCHANGED part

\* Handlers are alike: of two at rest the first takes the work.
InTurn == Busy(1) \/ Busy(2) \/ worker'[2] = worker[2]
EventInTurn == Deploys!Busy(1) \/ Deploys!Busy(2) \/ handler'[2] = handler[2]

AllNext ==
  \/ /\ Moves("life") /\ Next /\ InTurn
     /\ UNCHANGED <<eventVars, adminVars>>
  \/ /\ Moves("events") /\ Deploys!Next /\ EventInTurn
     /\ UNCHANGED <<vars, adminVars>>
  \/ /\ Moves("admins") /\ Admins!Next
     /\ UNCHANGED <<vars, eventVars>>

AllVars == <<part, vars, eventVars, adminVars>>
JobStep ==
  Moves("life") /\ JobNext /\ UNCHANGED <<eventVars, adminVars>>
AllSpec == AllInit /\ [][AllNext]_AllVars /\ WF_AllVars(JobStep)

=============================================================================
