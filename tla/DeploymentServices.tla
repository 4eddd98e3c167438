------------------------- MODULE DeploymentServices -------------------------
(***************************************************************************)
(* The parts of a deployment side by side: the machine (VmProvisioning),    *)
(* the runner, the compose and Caddy hosts, the calls to GitHub and the     *)
(* verdict on a commit's workflows, each with parameters and state of its   *)
(* own.  In the models they share no state, so no step of one is a step of  *)
(* another.                                                                 *)
(***************************************************************************)
EXTENDS VmProvisioning

CONSTANTS
  \* the runner
  Commits, HasCaddyfile, Bodies, MaxRuns, MaxRunFaults,
  \* the compose host
  Deployments, MaxComposeLosses, MaxComposeBreaks,
  \* the Caddy host
  Sites, Deployers, Validates, MaxCaddyStarts, MaxCaddyFaults,
  \* the calls to GitHub
  GithubCalls, Threshold, Cooldown, MaxRetries, MaxGithubCalls, MaxClock,
  \* the workflows
  Workflows

\* What config.ts makes of the environment, and bounds that are numbers.
Configured == Threshold \in Nat \ {0} /\ Cooldown \in Nat /\ MaxRetries \in Nat
Bounds == {MaxRuns, MaxRunFaults, MaxComposeLosses, MaxComposeBreaks,
           MaxCaddyStarts, MaxCaddyFaults, MaxGithubCalls, MaxClock}
ASSUME ServicesAssumption ==
  Configured /\ Bounds \subseteq Nat /\ Commits # {} /\ Sites # {}

VARIABLES
  \* the runner
  deployment, hosted, checks, issues, vm, caddy, body, runs, runFaults,
  last, overlapped, doubled, missed,
  \* the compose host
  disk, containers, enabled, session, deploy, losses, breaks, crossed,
  \* the Caddy host
  file, served, deployer, caddyStarts, caddyFaults, shared, kept,
  \* the calls to GitHub
  failures, openedAt, clock, request, requests, streak, lastFailure,
  \* the workflows
  latest

Runner == INSTANCE DeploymentRunner WITH
  MaxStarts <- MaxRuns, MaxFaults <- MaxRunFaults,
  row <- deployment, starts <- runs, faults <- runFaults

Compose == INSTANCE ComposeDeploy WITH
  MaxLosses <- MaxComposeLosses, MaxBreaks <- MaxComposeBreaks

Caddy == INSTANCE CaddyDeploy WITH
  Targets <- Sites, MaxStarts <- MaxCaddyStarts, MaxFaults <- MaxCaddyFaults,
  starts <- caddyStarts, faults <- caddyFaults

Github == INSTANCE GithubApi WITH
  Calls <- GithubCalls, MaxCalls <- MaxGithubCalls,
  call <- request, calls <- requests

Gate == INSTANCE WorkflowGate

runnerVars == <<deployment, hosted, checks, issues, vm, caddy, body, runs,
  runFaults, last, overlapped, doubled, missed>>
composeVars == <<disk, containers, enabled, session, deploy, losses, breaks,
  crossed>>
caddyVars == <<file, served, deployer, caddyStarts, caddyFaults, shared, kept>>
githubVars == <<failures, openedAt, clock, request, requests, streak,
  lastFailure>>

-----------------------------------------------------------------------------
\* Every variable of every part has its type.
TypesOK ==
  /\ TypeOK /\ Runner!TypeOK /\ Compose!TypeOK /\ Caddy!TypeOK /\ Github!TypeOK
  /\ Gate!TypeOK

\* The properties of the parts, stated in their modules.
\* DeploymentRunner: a deployment GitHub shows in progress has a run at work.
InProgressEnds == Runner!InProgressEnds
\* DeploymentRunner: no check run stays open behind a newer one or an outcome.
ChecksSettle == Runner!ChecksSettle
\* DeploymentRunner: what an outcome says of the VM and Caddy is so.
VmAgreesWithRow == Runner!VmAgreesWithRow
\* DeploymentRunner: an error issue is open exactly after a failure.
IssueTellsOutcome == Runner!IssueTellsOutcome
\* ComposeDeploy: the containers of a success come from its own files.
SuccessRuns == Compose!SuccessRuns
\* ComposeDeploy: a failed deployment leaves no session at work.
FailureFinal == Compose!FailureFinal
\* CaddyDeploy: at rest each file is the last successful one, and served.
RollbackRestores == Caddy!RollbackRestores
\* GithubApi: a call is skipped only while enough failures are fresh.
SkipsEarned == Github!SkipsEarned
\* WorkflowGate: the two ways to judge a commit agree.
VerdictsAgree == Gate!VerdictsAgree
=============================================================================
