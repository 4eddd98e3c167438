---------------------------- MODULE CaddyDeploy ----------------------------
(***************************************************************************)
(* Caddy's configuration on its shared host: deployCaddyConfig and          *)
(* removeCaddyConfig in src/src/services/ssh-deployer.ts.                   *)
(*                                                                         *)
(* Each repository and environment has one file there; Caddy serves all of  *)
(* them.  A deployment backs its file up, overwrites it, validates (when a  *)
(* command is configured) and reloads, and on a failure puts the file back  *)
(* and reloads again.  Validation and reload judge the files of everybody,  *)
(* and nothing keeps two deployments apart.                                 *)
(***************************************************************************)
EXTENDS Naturals

CONSTANTS
  Targets,     \* repository and environment
  Deployers,   \* concurrent deployments and removals
  Validates,   \* CADDY_VALIDATE_COMMAND is set
  MaxStarts,   \* bound on the deployments and removals
  MaxFaults    \* bound on failed commands

VARIABLES
  file,        \* the files on the host
  served,      \* the files as Caddy loaded them
  deployer,    \* the deployments and removals
  starts, faults,
  shared,      \* history: targets that two of them worked on at once
  kept         \* history: each target's file of the last success or removal

vars == <<file, served, deployer, starts, faults, shared, kept>>

\* A file is absent, or a version of a target's, which Caddy accepts or not.
Absent == [version |-> 0, valid |-> TRUE]
File == [version : 0..MaxStarts, valid : BOOLEAN]
Loadable(f) == \A t \in Targets : f[t].valid

SomeTarget == CHOOSE t \in Targets : TRUE
Idle == [step |-> "idle", target |-> SomeTarget, content |-> Absent, backup |-> Absent]
Deployer == [step : {"idle", "backup", "copy", "validate", "reload", "restore",
                     "again", "remove", "unload", "succeeded", "failed"},
             target : Targets, content : File, backup : File]

Init ==
  /\ file = [t \in Targets |-> Absent] /\ served = file
  /\ deployer = [d \in Deployers |-> Idle]
  /\ starts = 0 /\ faults = 0 /\ shared = {} /\ kept = file

At(d, step) == deployer[d].step = step
Target(d) == deployer[d].target
Ended(d) == deployer[d].step \in {"idle", "succeeded", "failed"}
Goes(d, step) == deployer' = [deployer EXCEPT ![d].step = step]
Fault == faults < MaxFaults /\ faults' = faults + 1
Put(t, f) == file' = [file EXCEPT ![t] = f]

-----------------------------------------------------------------------------
(* A deployment brings a file, valid or not; a removal belongs to a          *)
(* deletion.                                                                *)
Start(d, t) ==
  /\ Ended(d) /\ starts < MaxStarts
  /\ starts' = starts + 1
  /\ deployer' \in
       {[deployer EXCEPT ![d] = [Idle EXCEPT !.step = "remove", !.target = t]]} \cup
       {[deployer EXCEPT ![d] = [Idle EXCEPT !.step = "backup", !.target = t,
                                   !.content = [version |-> starts + 1, valid |-> v]]] :
          v \in BOOLEAN}
  /\ shared' = IF \E e \in Deployers : ~Ended(e) /\ Target(e) = t
               THEN shared \cup {t} ELSE shared
  /\ UNCHANGED <<file, served, faults, kept>>

Backup(d) ==
  /\ At(d, "backup")
  /\ \/ /\ deployer' = [deployer EXCEPT ![d] =
                          [@ EXCEPT !.step = "copy", !.backup = file[Target(d)]]]
        /\ UNCHANGED faults
     \/ Fault /\ Goes(d, "failed")
  /\ UNCHANGED <<file, served, starts, shared, kept>>

\* A failed copy is outside the inner try: nothing is put back.
Copy(d) ==
  /\ At(d, "copy")
  /\ \/ /\ Put(Target(d), deployer[d].content)
        /\ Goes(d, IF Validates THEN "validate" ELSE "reload")
        /\ UNCHANGED faults
     \/ /\ Fault /\ Goes(d, "failed")
        /\ UNCHANGED file \/ Put(Target(d), deployer[d].content)
  /\ UNCHANGED <<served, starts, shared, kept>>

Validate(d) ==
  /\ At(d, "validate")
  /\ \/ Goes(d, IF Loadable(file) THEN "reload" ELSE "restore") /\ UNCHANGED faults
     \/ Fault /\ Goes(d, "restore")
  /\ UNCHANGED <<file, served, starts, shared, kept>>

\* Caddy loads all files or, when one is not valid, none; a lost answer hides
\* whether it did.
Load == served' = IF Loadable(file) THEN file ELSE served

Reload(d) ==
  /\ At(d, "reload")
  /\ \/ /\ Load /\ UNCHANGED faults
        /\ Goes(d, IF Loadable(file) THEN "succeeded" ELSE "restore")
        /\ kept' = IF Loadable(file) THEN [kept EXCEPT ![Target(d)] = deployer[d].content]
                   ELSE kept
     \/ Fault /\ Goes(d, "restore") /\ (Load \/ UNCHANGED served) /\ UNCHANGED kept
  /\ UNCHANGED <<file, starts, shared>>

\* Mutant: where there was a file it is removed like a new one.
RestoreNothing(d) ==
  /\ At(d, "restore")
  /\ Put(Target(d), Absent) /\ Goes(d, "again")
  /\ UNCHANGED <<served, starts, faults, shared, kept>>
\* The backup is copied back, or the file removed where there was none.
Restore(d) ==
  /\ At(d, "restore")
  /\ \/ Put(Target(d), deployer[d].backup) /\ Goes(d, "again") /\ UNCHANGED faults
     \/ Fault /\ Goes(d, "failed") /\ UNCHANGED file
  /\ UNCHANGED <<served, starts, shared, kept>>

ReloadAgain(d) ==
  /\ At(d, "again")
  /\ \/ Load /\ UNCHANGED faults
     \/ Fault /\ UNCHANGED served
  /\ Goes(d, "failed")
  /\ UNCHANGED <<file, starts, shared, kept>>

\* removeCaddyConfig: a failed removal of the file is only logged.
Remove(d) ==
  /\ At(d, "remove")
  /\ \/ Put(Target(d), Absent) /\ UNCHANGED faults
     \/ Fault /\ UNCHANGED file
  /\ Goes(d, "unload")
  /\ kept' = [kept EXCEPT ![Target(d)] = Absent]
  /\ UNCHANGED <<served, starts, shared>>

Unload(d) ==
  /\ At(d, "unload")
  /\ \/ /\ Load /\ Goes(d, IF Loadable(file) THEN "succeeded" ELSE "failed")
        /\ UNCHANGED faults
     \/ Fault /\ Goes(d, "failed") /\ UNCHANGED served
  /\ UNCHANGED <<file, starts, shared, kept>>

DeployerStep(d) ==
  \/ Backup(d) \/ Copy(d) \/ Validate(d) \/ Reload(d) \/ Restore(d)
  \/ ReloadAgain(d) \/ Remove(d) \/ Unload(d)

Next == \E d \in Deployers : DeployerStep(d) \/ \E t \in Targets : Start(d, t)

Spec == Init /\ [][Next]_vars

-----------------------------------------------------------------------------
\* Every variable has its type.
TypeOK ==
  /\ file \in [Targets -> File] /\ served \in [Targets -> File]
  /\ deployer \in [Deployers -> Deployer]
  /\ kept \in [Targets -> File]
  /\ starts \in 0..MaxStarts /\ faults \in 0..MaxFaults /\ shared \subseteq Targets

\* When nobody is at work, each target has the file of its last successful
\* deployment or removal ("rollback to previous remote files when
\* validation/reload fails", README.md:469), and Caddy serves exactly these
\* files, although deployments of different targets interleave and fail on each
\* other's files; failed commands and two at once on one target excepted.
RollbackRestores ==
  (\A d \in Deployers : Ended(d)) /\ faults = 0 /\ shared = {} =>
    file = kept /\ served = file
=============================================================================
