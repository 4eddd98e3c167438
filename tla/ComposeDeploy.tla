--------------------------- MODULE ComposeDeploy ---------------------------
(***************************************************************************)
(* The deployment of a compose file to a VM: deployComposeToVm and          *)
(* compensateComposeOnVm in src/src/services/ssh-deployer.ts, with the      *)
(* scripts of src/src/services/ssh-deploy-scripts.ts that run on the VM.    *)
(*                                                                         *)
(* A deployment copies its compose and environment files to one directory   *)
(* of the VM, starts a script in a detached screen session of its own, and  *)
(* polls for the exit file the script leaves.  The session reads the files  *)
(* when it gets to them and does not end with its deployment: a deployment  *)
(* that gave up waiting leaves its session at work.  Every command is tried *)
(* again when its answer is lost.                                           *)
(***************************************************************************)
EXTENDS Naturals

CONSTANTS
  Deployments, \* deployments of one VM; each brings files of its own
  MaxLosses,   \* bound on failed commands and lost answers
  MaxBreaks    \* bound on failures of the script's own commands

VARIABLES
  disk,        \* the files in remoteDir: whose they are
  containers,  \* whose files the running containers were started from
  enabled,     \* the service is enabled, so the containers outlive a reboot
  session,     \* each deployment's screen session and exit file
  deploy,      \* each deployment's step, and whether it found the VM empty
  losses, breaks,
  crossed      \* history: two deployments were under way at once

vars == <<disk, containers, enabled, session, deploy, losses, breaks, crossed>>

None == "none"
Files == [compose : Deployments \cup {None}, env : Deployments \cup {None}]
Empty == [compose |-> None, env |-> None]
Own(d) == [compose |-> d, env |-> d]

Session == [step : {"none", "pull", "up", "finish", "ended"}, ok : BOOLEAN,
            exit : {"none", "0", "1"}]
NoSession == [step |-> "none", ok |-> TRUE, exit |-> "none"]
Deploy == [step : {"new", "probe", "compose", "env", "start", "poll", "enable",
                   "ok", "done", "failed", "undone"},
           isNew : BOOLEAN]

Init ==
  /\ disk = Empty /\ containers = Empty /\ enabled = FALSE
  /\ session = [d \in Deployments |-> NoSession]
  /\ deploy = [d \in Deployments |-> [step |-> "new", isNew |-> FALSE]]
  /\ losses = 0 /\ breaks = 0 /\ crossed = FALSE

At(d, step) == deploy[d].step = step
Goes(d, step) == deploy' = [deploy EXCEPT ![d].step = step]
UnderWay(d) == deploy[d].step \notin {"new", "done", "failed", "undone"}

Lost == losses < MaxLosses /\ losses' = losses + 1 /\ UNCHANGED breaks
Broken == breaks < MaxBreaks /\ breaks' = breaks + 1 /\ UNCHANGED losses
Fine == UNCHANGED <<losses, breaks>>
vm == <<disk, containers, enabled>>

-----------------------------------------------------------------------------
(* deployComposeToVm.                                                       *)

\* The directory is made.
Begin(d) ==
  /\ At(d, "new")
  /\ crossed' = (crossed \/ \E e \in Deployments : UnderWay(e))
  /\ \/ Goes(d, "probe") /\ Fine
     \/ Goes(d, "failed") /\ Lost
  /\ UNCHANGED <<vm, session>>

\* "test -f docker-compose.yml": any failure of the command reads as "new".
Probe(d) ==
  /\ At(d, "probe")
  /\ \/ /\ deploy' = [deploy EXCEPT ![d] =
                        [step |-> "compose", isNew |-> disk.compose = None]]
        /\ Fine
     \/ /\ deploy' = [deploy EXCEPT ![d] = [step |-> "compose", isNew |-> TRUE]]
        /\ Lost
  /\ UNCHANGED <<vm, session, crossed>>

\* A copy that fails for good may have written its file.
CopyCompose(d) ==
  /\ At(d, "compose")
  /\ \/ disk' = [disk EXCEPT !.compose = d] /\ Goes(d, "env") /\ Fine
     \/ disk' \in {disk, [disk EXCEPT !.compose = d]} /\ Goes(d, "failed") /\ Lost
  /\ UNCHANGED <<containers, enabled, session, crossed>>

CopyEnv(d) ==
  /\ At(d, "env")
  /\ \/ disk' = [disk EXCEPT !.env = d] /\ Goes(d, "start") /\ Fine
     \/ disk' \in {disk, [disk EXCEPT !.env = d]} /\ Goes(d, "failed") /\ Lost
  /\ UNCHANGED <<containers, enabled, session, crossed>>

\* A session of the same name is ended first: so is the one that a lost
\* answer's own command started.
StartSession(d) ==
  /\ At(d, "start")
  /\ \/ /\ session' = [session EXCEPT ![d] = [NoSession EXCEPT !.step = "pull"]]
        /\ Goes(d, "poll") /\ Fine
     \/ /\ session' = [session EXCEPT ![d] = [NoSession EXCEPT !.step = "pull"]]
        /\ deploy' \in {deploy, [deploy EXCEPT ![d].step = "failed"]} /\ Lost
     \/ Goes(d, "failed") /\ Lost /\ UNCHANGED session
  /\ UNCHANGED <<vm, crossed>>

\* The poll removes the exit file and ends with its code; a code other than 0
\* is a failed command, whose next try waits for a file that is gone.
Poll(d) ==
  /\ At(d, "poll") /\ session[d].exit # "none"
  /\ \/ /\ Goes(d, IF session[d].exit = "0"
                   THEN IF deploy[d].isNew THEN "enable" ELSE "ok" ELSE "failed")
        /\ Fine
     \/ Lost /\ UNCHANGED deploy
  /\ session' = [session EXCEPT ![d].exit = "none"]
  /\ UNCHANGED <<vm, crossed>>

\* Mutant: a session at work does not prolong the wait.
PollTimesOutIdle(d) ==
  /\ At(d, "poll") /\ session[d].exit = "none"
  /\ Fine
  /\ Goes(d, "failed")
  /\ UNCHANGED <<vm, session, crossed>>
\* The wait is over: the session is gone without a file, or still at work after
\* SSH_DOCKER_DEPLOY_MAX_SECONDS.
PollTimesOut(d) ==
  /\ At(d, "poll") /\ session[d].exit = "none"
  /\ IF session[d].step = "ended" THEN Fine ELSE Lost
  /\ Goes(d, "failed")
  /\ UNCHANGED <<vm, session, crossed>>

\* systemctl enable; its failure is only logged.
Enable(d) ==
  /\ At(d, "enable")
  /\ \/ enabled' = TRUE /\ Fine
     \/ UNCHANGED enabled /\ Lost
  /\ Goes(d, "ok")
  /\ UNCHANGED <<disk, containers, session, crossed>>

\* compensateComposeOnVm, when a later step of the deployment failed.
ComposeDown(d) ==
  /\ At(d, "ok")
  /\ \/ containers' = Empty /\ Fine
     \/ UNCHANGED containers /\ Lost
  /\ Goes(d, "undone")
  /\ UNCHANGED <<disk, enabled, session, crossed>>

\* The later steps of the deployment succeeded.
Leave(d) ==
  /\ At(d, "ok")
  /\ Goes(d, "done") /\ Fine
  /\ UNCHANGED <<vm, session, crossed>>

-----------------------------------------------------------------------------
(* The script in the session.                                               *)

Runs(d, step) == session[d].step = step

\* compose config, which ends the script when it fails, then the pulls: five
\* failures do not keep it from starting the containers.
Pull(d) ==
  /\ Runs(d, "pull")
  /\ \/ session' = [session EXCEPT ![d].step = "up"] /\ Fine
     \/ Broken /\ session' = [session EXCEPT ![d] = [@ EXCEPT !.step = "up", !.ok = FALSE]]
     \/ Broken /\ session' = [session EXCEPT ![d] =
                                [step |-> "ended", ok |-> FALSE, exit |-> "1"]]
  /\ UNCHANGED <<vm, deploy, crossed>>

\* Mutant: the exit of "up" is that of the tee behind it.
UpTeed(d) ==
  /\ Runs(d, "up")
  /\ \/ containers' = disk /\ Fine
     \/ Broken /\ UNCHANGED containers
  /\ session' = [session EXCEPT ![d].step = "finish"]
  /\ UNCHANGED <<disk, enabled, deploy, crossed>>
\* compose up -d, from the files as they are now.
Up(d) ==
  /\ Runs(d, "up")
  /\ \/ /\ containers' = disk /\ Fine
        /\ session' = [session EXCEPT ![d].step = "finish"]
     \/ /\ Broken /\ containers' \in {containers, disk}
        /\ session' = [session EXCEPT ![d] = [@ EXCEPT !.step = "finish", !.ok = FALSE]]
  /\ UNCHANGED <<disk, enabled, deploy, crossed>>

\* nebula_client is ensured, the hook's failure is ignored, and the trap writes
\* the exit file.
Finish(d) ==
  /\ Runs(d, "finish")
  /\ \/ /\ Fine
        /\ session' = [session EXCEPT ![d] =
             [@ EXCEPT !.step = "ended", !.exit = IF session[d].ok THEN "0" ELSE "1"]]
     \/ /\ Broken
        /\ session' = [session EXCEPT ![d] = [step |-> "ended", ok |-> FALSE, exit |-> "1"]]
  /\ UNCHANGED <<vm, deploy, crossed>>

DeployStep(d) ==
  \/ Begin(d) \/ Probe(d) \/ CopyCompose(d) \/ CopyEnv(d) \/ StartSession(d)
  \/ Poll(d) \/ PollTimesOut(d) \/ Enable(d) \/ ComposeDown(d)
  \/ Leave(d)
ScriptStep(d) == Pull(d) \/ Up(d) \/ Finish(d)

Next == \E d \in Deployments : DeployStep(d) \/ ScriptStep(d)

Spec == Init /\ [][Next]_vars

-----------------------------------------------------------------------------
\* Every variable has its type.
TypeOK ==
  /\ disk \in Files /\ containers \in Files /\ enabled \in BOOLEAN
  /\ session \in [Deployments -> Session] /\ deploy \in [Deployments -> Deploy]
  /\ losses \in 0..MaxLosses /\ breaks \in 0..MaxBreaks /\ crossed \in BOOLEAN

\* As long as deployments did not cross, the containers of a successful
\* deployment were started from its own pair of files until another changes
\* them, although sessions of deployments that gave up go on and start whatever
\* files they find.
SuccessRuns ==
  ~crossed => \A d \in Deployments :
    deploy[d].step \in {"ok", "done"} /\ disk = Own(d) => containers = Own(d)

\* Unless a command was lost or the deadline passed, a deployment that is
\* reported failed leaves no session behind that could still start containers.
FailureFinal ==
  losses = 0 => \A d \in Deployments :
    At(d, "failed") => session[d].step \in {"none", "ended"}

\* The first deployment registers the service "for auto-restart and survives
\* reboots" (comment at ssh-deployer.ts:394): unless a command was lost or
\* deployments crossed, what a successful deployment left running comes back
\* after a reboot.
BootsAfterSuccess ==
  losses = 0 /\ ~crossed => \A d \in Deployments : At(d, "done") => enabled
=============================================================================
