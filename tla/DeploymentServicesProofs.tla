---------------------- MODULE DeploymentServicesProofs ----------------------
(***************************************************************************)
(* What a deployment leaves behind on the hosts and services it works with, *)
(* proved for every number of runs, deployments, files, calls and faults:   *)
(* on the VM (FailureFinal, SuccessRuns), on the Caddy host                 *)
(* (RollbackRestores), in the circuit breaker of the calls to GitHub        *)
(* (SkipsEarned), in the verdict on a commit's workflows (VerdictsAgree),   *)
(* and what the runner makes of it all, which DeploymentRunnerProofs proves *)
(* (InProgressEnds, VmAgreesWithRow, IssueTellsOutcome, ChecksSettle).      *)
(*                                                                         *)
(* The verdict is a matter of cases; the others need an invariant. On the   *)
(* VM, the exit file must be known to come from a session that ended, and   *)
(* the files to be the deployment's own while it is the only one under way. *)
(* On the Caddy host, a file that differs from the one to keep must be      *)
(* known to be in the hands of somebody who will put it back. And a call    *)
(* acts on the breaker long after it looked at it: an open breaker was      *)
(* opened by the last failure, and it counts no more failures than there    *)
(* were since the last success. Last come the types of all parts.           *)
(***************************************************************************)
EXTENDS DeploymentServices, VmProvisioningProofs, Integers, Sequences, TLAPS

-----------------------------------------------------------------------------
(* The VM.                                                                  *)

\* The steps of a deployment whose files lie on the VM, and those of one whose
\* session's success counts.
Copied == {"start", "poll", "enable", "ok"}
Counted == {"poll", "enable", "ok", "done"}

ComposeTyped ==
  /\ disk \in Compose!Files /\ containers \in Compose!Files
  /\ session \in [Deployments -> Compose!Session] /\ deploy \in [Deployments -> Compose!Deploy]
  /\ losses \in Nat /\ breaks \in Nat /\ crossed \in BOOLEAN

\* An exit file is left by an ended session; one that says 0, by one without a
\* failure.
ExitOK(step, s, lossy) ==
  /\ s.exit # "none" => s.step = "ended"
  /\ s.exit = "0" => s.ok
  /\ step = "failed" /\ ~lossy => s.step \in {"none", "ended"}
  /\ step = "start" /\ ~lossy => s.step = "none"
  /\ step \in {"new", "probe", "compose", "env"} => s.step = "none"
  /\ step \in {"enable", "ok", "done"} => s.step = "ended" /\ s.ok
ExitInv == \A d \in Deployments : ExitOK(deploy[d].step, session[d], losses # 0)

\* One deployment at a time: its files are on the VM once copied, and the
\* containers of a session that started them come from them.
Started(d) ==
  /\ deploy[d].step \in Counted
  /\ session[d].step \in {"finish", "ended"} /\ session[d].ok
AloneInv ==
  ~crossed =>
    /\ \A d, e \in Deployments : Compose!UnderWay(d) /\ Compose!UnderWay(e) => d = e
    /\ \A d \in Deployments : deploy[d].step \in Copied => disk = Compose!Own(d)
    /\ \A d \in Deployments : Compose!At(d, "env") => disk.compose = d
    /\ \A d \in Deployments : Started(d) /\ disk = Compose!Own(d) => containers = Compose!Own(d)

ComposeInv == ComposeTyped /\ ExitInv /\ AloneInv

LEMMA ComposeStarts ==
  ASSUME Compose!Init
  PROVE  ComposeInv
BY DEF Compose!Init, ComposeInv, ComposeTyped, ExitInv, ExitOK, AloneInv, Started,
   Compose!Files, Compose!Empty, Compose!Session, Compose!NoSession, Compose!Deploy,
       Compose!At, Compose!UnderWay, Copied, Counted

-----------------------------------------------------------------------------
(* What one step writes.                                                    *)

Steps == {"new", "probe", "compose", "env", "start", "poll", "enable",
          "ok", "done", "failed", "undone"}

\* A deployment goes to its next step; the others stay.
LEMMA GoesTo ==
  ASSUME ComposeTyped, NEW d \in Deployments, NEW s \in Steps, Compose!Goes(d, s)
  PROVE  /\ deploy' \in [Deployments -> Compose!Deploy]
         /\ deploy'[d].step = s
         /\ \A e \in Deployments : e # d => deploy'[e] = deploy[e]
<1>1. deploy[d] \in Compose!Deploy
  BY DEF ComposeTyped
<1> DEFINE r == [deploy[d] EXCEPT !.step = s]
<1>2. r \in Compose!Deploy /\ r.step = s
  BY <1>1 DEF Compose!Deploy, Steps
<1>3. deploy' = [deploy EXCEPT ![d] = r]
  BY DEF Compose!Goes
<1> HIDE DEF r
<1> QED BY <1>2, <1>3 DEF ComposeTyped

\* One entry of a function from deployments is written.
LEMMA OneDeploy ==
  ASSUME ComposeTyped, NEW d \in Deployments, NEW r \in Compose!Deploy,
         deploy' = [deploy EXCEPT ![d] = r]
  PROVE  /\ deploy' \in [Deployments -> Compose!Deploy]
         /\ deploy'[d] = r
         /\ \A e \in Deployments : e # d => deploy'[e] = deploy[e]
BY DEF ComposeTyped

LEMMA OneSession ==
  ASSUME ComposeTyped, NEW d \in Deployments, NEW r \in Compose!Session,
         session' = [session EXCEPT ![d] = r]
  PROVE  /\ session' \in [Deployments -> Compose!Session]
         /\ session'[d] = r
         /\ \A e \in Deployments : e # d => session'[e] = session[e]
BY DEF ComposeTyped

\* A copy writes one of the two files.
LEMMA CopyTyped ==
  ASSUME ComposeTyped, NEW d \in Deployments
  PROVE  /\ [disk EXCEPT !.compose = d] \in Compose!Files
         /\ [disk EXCEPT !.compose = d].compose = d
         /\ [disk EXCEPT !.compose = d].env = disk.env
         /\ [disk EXCEPT !.env = d] \in Compose!Files
         /\ [disk EXCEPT !.env = d].env = d
         /\ [disk EXCEPT !.env = d].compose = disk.compose
BY DEF ComposeTyped, Compose!Files

LEMMA OwnFiles ==
  ASSUME NEW f \in Compose!Files, NEW d \in Deployments
  PROVE  (f = Compose!Own(d)) <=> (f.compose = d /\ f.env = d)
BY DEF Compose!Own, Compose!Files

LEMMA CountersTyped ==
  ASSUME ComposeTyped, Compose!Lost \/ Compose!Broken \/ Compose!Fine
  PROVE  losses' \in Nat /\ breaks' \in Nat /\ losses' >= losses
BY DEF ComposeTyped, Compose!Lost, Compose!Broken, Compose!Fine

\* The other deployments keep what is known of their exit files.
LEMMA ExitFrame ==
  ASSUME ComposeTyped, ExitInv, NEW d \in Deployments, losses' \in Nat, losses' >= losses,
         \A e \in Deployments : e # d => deploy'[e] = deploy[e] /\ session'[e] = session[e],
         ExitOK(deploy'[d].step, session'[d], losses' # 0)
  PROVE  ExitInv'
<1> SUFFICES ASSUME NEW e \in Deployments, e # d
             PROVE  ExitOK(deploy'[e].step, session'[e], losses' # 0)
  BY DEF ExitInv
<1>1. deploy'[e] = deploy[e] /\ session'[e] = session[e]
  OBVIOUS
<1>2. losses # 0 => losses' # 0
  BY DEF ComposeTyped
<1>3. ExitOK(deploy[e].step, session[e], losses # 0)
  BY DEF ExitInv
<1> QED BY <1>1, <1>2, <1>3 DEF ExitOK

\* A step that leaves the containers alone, moves no deployment into Counted
\* and starts nothing: nothing new is started.
LEMMA AloneFrame ==
  ASSUME AloneInv, NEW d \in Deployments, crossed' = crossed,
         UNCHANGED <<disk, containers>>,
         \A e \in Deployments : e # d => deploy'[e] = deploy[e] /\ session'[e] = session[e],
         Compose!UnderWay(d)' => Compose!UnderWay(d),
         deploy'[d].step \in Copied => deploy[d].step \in Copied,
         Compose!At(d, "env")' => Compose!At(d, "env"),
         Started(d)' => Started(d)
  PROVE  AloneInv'
BY DEF AloneInv, Compose!UnderWay, Started, Compose!At

-----------------------------------------------------------------------------
(* The steps of a deployment.                                               *)

LEMMA BeginStep ==
  ASSUME ComposeInv, NEW d \in Deployments, Compose!Begin(d)
  PROVE  ComposeInv'
<1> USE DEF ComposeInv
<1>1. PICK s \in {"probe", "failed"} : Compose!Goes(d, s)
  BY DEF Compose!Begin
<1>2. /\ deploy' \in [Deployments -> Compose!Deploy] /\ deploy'[d].step = s
      /\ \A e \in Deployments : e # d => deploy'[e] = deploy[e]
  BY <1>1, GoesTo DEF Steps
<1>3. /\ UNCHANGED <<disk, containers, session>> /\ deploy[d].step = "new"
      /\ crossed' = (crossed \/ \E e \in Deployments : Compose!UnderWay(e))
  BY DEF Compose!Begin, Compose!vm, Compose!At
<1>4. losses' \in Nat /\ breaks' \in Nat /\ losses' >= losses
  BY CountersTyped DEF Compose!Begin
<1>5. ComposeTyped'
  BY <1>2, <1>3, <1>4 DEF ComposeTyped
<1>6. ExitOK(deploy'[d].step, session'[d], losses' # 0)
  BY <1>2, <1>3 DEF ExitInv, ExitOK
<1>7. ExitInv'
  BY <1>2, <1>3, <1>4, <1>6, ExitFrame
<1>8. AloneInv'
  <2> SUFFICES ASSUME ~crossed' PROVE AloneInv'
    BY DEF AloneInv
  <2>1. \A e \in Deployments : ~Compose!UnderWay(e)
    BY <1>3
  <2>2. \A e \in Deployments : e # d => (Compose!UnderWay(e)' <=> Compose!UnderWay(e))
    BY <1>2 DEF Compose!UnderWay
  <2>3. \A e \in Deployments : deploy'[e].step \notin Copied /\ ~Compose!At(e, "env")'
    BY <1>2, <2>1 DEF Compose!UnderWay, Copied, Compose!At
  <2>4. session[d].step = "none"
    BY <1>3 DEF ExitInv, ExitOK
  <2>5. \A e \in Deployments : Started(e)' => Started(e)
    BY <1>2, <1>3, <2>4 DEF Started
  <2> QED BY <1>3, <2>1, <2>2, <2>3, <2>5 DEF AloneInv
<1> QED BY <1>5, <1>7, <1>8

LEMMA ProbeStep ==
  ASSUME ComposeInv, NEW d \in Deployments, Compose!Probe(d)
  PROVE  ComposeInv'
<1> USE DEF ComposeInv
<1>1. PICK b \in BOOLEAN : deploy' = [deploy EXCEPT ![d] = [step |-> "compose", isNew |-> b]]
  BY DEF Compose!Probe
<1>2. /\ deploy' \in [Deployments -> Compose!Deploy] /\ deploy'[d].step = "compose"
      /\ \A e \in Deployments : e # d => deploy'[e] = deploy[e]
  <2>1. [step |-> "compose", isNew |-> b] \in Compose!Deploy
    BY DEF Compose!Deploy
  <2> QED BY <1>1, <2>1, OneDeploy
<1>3. UNCHANGED <<disk, containers, session, crossed>> /\ deploy[d].step = "probe"
  BY DEF Compose!Probe, Compose!vm, Compose!At
<1>4. losses' \in Nat /\ breaks' \in Nat /\ losses' >= losses
  BY CountersTyped DEF Compose!Probe
<1>5. ComposeTyped'
  BY <1>2, <1>3, <1>4 DEF ComposeTyped
<1>6. ExitOK(deploy'[d].step, session'[d], losses' # 0)
  BY <1>2, <1>3 DEF ExitInv, ExitOK
<1>7. ExitInv'
  BY <1>2, <1>3, <1>4, <1>6, ExitFrame
<1>8. AloneInv'
  <2>1. Compose!UnderWay(d) /\ deploy'[d].step \notin Copied /\ ~Compose!At(d, "env")' /\ ~Started(d)'
    BY <1>2, <1>3 DEF Compose!UnderWay, Copied, Compose!At, Started, Counted
  <2> QED BY <1>2, <1>3, <2>1, AloneFrame
<1> QED BY <1>5, <1>7, <1>8

\* A copy puts the file in place, and only of the one deployment under way are
\* both files there.
LEMMA CopyComposeStep ==
  ASSUME ComposeInv, NEW d \in Deployments, Compose!CopyCompose(d)
  PROVE  ComposeInv'
<1> USE DEF ComposeInv
<1> DEFINE f == [disk EXCEPT !.compose = d]
<1>1. PICK s \in {"env", "failed"} :
        Compose!Goes(d, s) /\ disk' \in {disk, f} /\ (s = "env" => disk' = f)
  BY DEF Compose!CopyCompose
<1>2. /\ deploy' \in [Deployments -> Compose!Deploy] /\ deploy'[d].step = s
      /\ \A e \in Deployments : e # d => deploy'[e] = deploy[e]
  BY <1>1, GoesTo DEF Steps
<1>3. UNCHANGED <<containers, session, crossed>> /\ deploy[d].step = "compose"
  BY DEF Compose!CopyCompose, Compose!At
<1>4. losses' \in Nat /\ breaks' \in Nat /\ losses' >= losses
  BY CountersTyped DEF Compose!CopyCompose
<1>5. f \in Compose!Files /\ f.compose = d
  BY CopyTyped
<1> HIDE DEF f
<1>6. ComposeTyped'
  BY <1>1, <1>2, <1>3, <1>4, <1>5 DEF ComposeTyped
<1>7. ExitOK(deploy'[d].step, session'[d], losses' # 0)
  BY <1>1, <1>2, <1>3 DEF ExitInv, ExitOK
<1>8. ExitInv'
  BY <1>2, <1>3, <1>4, <1>7, ExitFrame
<1>9. AloneInv'
  <2> SUFFICES ASSUME ~crossed PROVE AloneInv'
    BY <1>3 DEF AloneInv
  <2>1. Compose!UnderWay(d) /\ \A e \in Deployments : Compose!UnderWay(e) => e = d
    BY <1>3 DEF AloneInv, Compose!UnderWay
  <2>2. \A e \in Deployments : e # d => deploy'[e] = deploy[e] /\ ~Compose!UnderWay(e)'
    BY <1>2, <2>1 DEF Compose!UnderWay
  <2>3. \A e \in Deployments : deploy'[e].step \notin Copied
    BY <1>1, <1>2, <2>2 DEF Compose!UnderWay, Copied
  <2>4. \A e \in Deployments : Compose!At(e, "env")' => e = d /\ disk' = f
    BY <1>1, <1>2, <2>2 DEF Compose!UnderWay, Compose!At
  <2>5. ASSUME NEW e \in Deployments, Started(e)', disk' = Compose!Own(e)
        PROVE  containers' = Compose!Own(e)
    <3>1. e # d
      BY <1>1, <1>2, <2>5 DEF Started, Counted
    <3>2. disk'.compose = e
      BY <2>5 DEF Compose!Own
    <3>3. disk' = disk
      BY <1>1, <1>5, <3>1, <3>2
    <3>4. Started(e)
      BY <1>2, <1>3, <2>5, <3>1 DEF Started
    <3> QED BY <1>3, <2>5, <3>3, <3>4 DEF AloneInv
  <2> QED BY <1>3, <1>5, <2>2, <2>3, <2>4, <2>5 DEF AloneInv
<1> QED BY <1>6, <1>8, <1>9

LEMMA CopyEnvStep ==
  ASSUME ComposeInv, NEW d \in Deployments, Compose!CopyEnv(d)
  PROVE  ComposeInv'
<1> USE DEF ComposeInv
<1> DEFINE f == [disk EXCEPT !.env = d]
<1>1. PICK s \in {"start", "failed"} :
        Compose!Goes(d, s) /\ disk' \in {disk, f} /\ (s = "start" => disk' = f)
  BY DEF Compose!CopyEnv
<1>2. /\ deploy' \in [Deployments -> Compose!Deploy] /\ deploy'[d].step = s
      /\ \A e \in Deployments : e # d => deploy'[e] = deploy[e]
  BY <1>1, GoesTo DEF Steps
<1>3. UNCHANGED <<containers, session, crossed>> /\ deploy[d].step = "env"
  BY DEF Compose!CopyEnv, Compose!At
<1>4. losses' \in Nat /\ breaks' \in Nat /\ losses' >= losses
  BY CountersTyped DEF Compose!CopyEnv
<1>5. f \in Compose!Files /\ f.env = d /\ f.compose = disk.compose
  BY CopyTyped
<1> HIDE DEF f
<1>6. ComposeTyped'
  BY <1>1, <1>2, <1>3, <1>4, <1>5 DEF ComposeTyped
<1>7. ExitOK(deploy'[d].step, session'[d], losses' # 0)
  BY <1>1, <1>2, <1>3 DEF ExitInv, ExitOK
<1>8. ExitInv'
  BY <1>2, <1>3, <1>4, <1>7, ExitFrame
<1>9. AloneInv'
  <2> SUFFICES ASSUME ~crossed PROVE AloneInv'
    BY <1>3 DEF AloneInv
  <2>1. Compose!UnderWay(d) /\ \A e \in Deployments : Compose!UnderWay(e) => e = d
    BY <1>3 DEF AloneInv, Compose!UnderWay
  <2>2. \A e \in Deployments : e # d => deploy'[e] = deploy[e] /\ ~Compose!UnderWay(e)'
    BY <1>2, <2>1 DEF Compose!UnderWay
  <2>3. disk.compose = d
    BY <1>3 DEF AloneInv, Compose!At
  <2>4. \A e \in Deployments : deploy'[e].step \in Copied => e = d /\ disk' = Compose!Own(d)
    <3>1. f = Compose!Own(d)
      BY <1>5, <2>3, OwnFiles
    <3> QED BY <1>1, <1>2, <2>2, <3>1 DEF Compose!UnderWay, Copied
  <2>5. \A e \in Deployments : ~Compose!At(e, "env")'
    BY <1>1, <1>2, <2>2 DEF Compose!UnderWay, Compose!At
  <2>6. ASSUME NEW e \in Deployments, Started(e)', disk' = Compose!Own(e)
        PROVE  containers' = Compose!Own(e)
    <3>1. CASE e = d
      <4>1. deploy'[d].step \in {"start", "failed"}
        BY <1>1, <1>2
      <4> QED BY <2>6, <3>1, <4>1 DEF Started, Counted
    <3>2. CASE e # d
      <4>1. disk'.compose = e
        BY <2>6 DEF Compose!Own
      <4> QED BY <1>1, <1>5, <2>3, <3>2, <4>1
    <3> QED BY <3>1, <3>2
  <2> QED BY <1>3, <2>2, <2>4, <2>5, <2>6 DEF AloneInv
<1> QED BY <1>6, <1>8, <1>9

\* The session starts without an exit file, or the deployment fails with a
\* command lost.
LEMMA StartSessionStep ==
  ASSUME ComposeInv, NEW d \in Deployments, Compose!StartSession(d)
  PROVE  ComposeInv'
<1> USE DEF ComposeInv
<1> DEFINE r == [Compose!NoSession EXCEPT !.step = "pull"]
           Writes(s) == /\ \/ deploy' = deploy /\ s = "start"
                           \/ Compose!Goes(d, s)
                        /\ s # "poll" => Compose!Lost
                        /\ \/ session' = [session EXCEPT ![d] = r]
                           \/ session' = session /\ s = "failed"
<1>r. r \in Compose!Session /\ r.step = "pull" /\ r.ok = TRUE /\ r.exit = "none"
  BY DEF Compose!Session, Compose!NoSession
<1>1. PICK s \in {"start", "poll", "failed"} : Writes(s)
  <2>1. CASE session' = [session EXCEPT ![d] = r] /\ Compose!Goes(d, "poll") /\ Compose!Fine
    <3>1. Writes("poll")
      BY <2>1
    <3> QED BY <3>1
  <2>2. CASE session' = [session EXCEPT ![d] = r] /\ deploy' = deploy /\ Compose!Lost
    <3>1. Writes("start")
      BY <2>2
    <3> QED BY <3>1
  <2>3. CASE session' = [session EXCEPT ![d] = r] /\ Compose!Goes(d, "failed") /\ Compose!Lost
    <3>1. Writes("failed")
      BY <2>3
    <3> QED BY <3>1
  <2>4. CASE Compose!Goes(d, "failed") /\ Compose!Lost /\ UNCHANGED session
    <3>1. Writes("failed")
      BY <2>4
    <3> QED BY <3>1
  <2> QED BY <2>1, <2>2, <2>3, <2>4, Zenon DEF Compose!StartSession, Compose!Goes
<1> HIDE DEF r
<1>2. UNCHANGED <<disk, containers, crossed>> /\ deploy[d].step = "start"
  BY DEF Compose!StartSession, Compose!vm, Compose!At
<1>3. /\ deploy' \in [Deployments -> Compose!Deploy] /\ deploy'[d].step = s
      /\ \A e \in Deployments : e # d => deploy'[e] = deploy[e]
  <2>1. CASE deploy' = deploy /\ s = "start"
    BY <1>2, <2>1 DEF ComposeTyped
  <2>2. CASE Compose!Goes(d, s)
    BY <2>2, GoesTo DEF Steps
  <2> QED BY <1>1, <2>1, <2>2
<1>4. /\ session' \in [Deployments -> Compose!Session]
      /\ \/ session'[d] = r
         \/ session'[d] = session[d] /\ s = "failed"
      /\ \A e \in Deployments : e # d => session'[e] = session[e]
  <2>2. CASE session' = [session EXCEPT ![d] = r]
    BY <1>r, <2>2, OneSession
  <2>3. CASE session' = session /\ s = "failed"
    BY <2>3 DEF ComposeTyped
  <2> QED BY <1>1, <2>2, <2>3
<1>5. losses' \in Nat /\ breaks' \in Nat /\ losses' >= losses
  BY CountersTyped DEF Compose!StartSession
<1>6. s # "poll" => losses' # 0
  BY <1>1 DEF ComposeTyped, Compose!Lost
<1>7. ComposeTyped'
  BY <1>2, <1>3, <1>4, <1>5 DEF ComposeTyped
<1>8. ExitOK(deploy'[d].step, session'[d], losses' # 0)
  <2>1. ExitOK("start", session[d], losses # 0)
    BY <1>2 DEF ExitInv
  <2> QED BY <1>r, <1>3, <1>4, <1>6, <2>1 DEF ExitOK
<1>9. ExitInv'
  BY <1>3, <1>4, <1>5, <1>8, ExitFrame
<1>10. AloneInv'
  <2>1. Compose!UnderWay(d) /\ deploy[d].step \in Copied /\ ~Compose!At(d, "env")' /\ ~Started(d)'
    BY <1>r, <1>2, <1>3, <1>4 DEF Compose!UnderWay, Copied, Compose!At, Started,
       Counted
  <2> QED BY <1>2, <1>3, <1>4, <2>1, AloneFrame
<1> QED BY <1>7, <1>9, <1>10

\* An exit file that says 0 is left by a session without a failure.
LEMMA PollEndStep ==
  ASSUME ComposeInv, NEW d \in Deployments, Compose!Poll(d)
  PROVE  ComposeInv'
<1> USE DEF ComposeInv
<1> DEFINE r == [session[d] EXCEPT !.exit = "none"]
<1>1. PICK s \in {"poll", "enable", "ok", "failed"} :
        /\ \/ deploy' = deploy /\ s = "poll"
           \/ Compose!Goes(d, s)
        /\ s \in {"enable", "ok"} => session[d].exit = "0"
  <2> DEFINE W(s) == /\ \/ deploy' = deploy /\ s = "poll"
                        \/ Compose!Goes(d, s)
                     /\ s \in {"enable", "ok"} => session[d].exit = "0"
  <2>1. CASE Compose!Goes(d, IF session[d].exit = "0"
                     THEN IF deploy[d].isNew THEN "enable" ELSE "ok" ELSE "failed")
    <3>1. CASE session[d].exit = "0" /\ deploy[d].isNew
      <4>1. W("enable")
        BY <2>1, <3>1
      <4> QED BY <4>1
    <3>2. CASE session[d].exit = "0" /\ ~deploy[d].isNew
      <4>1. W("ok")
        BY <2>1, <3>2
      <4> QED BY <4>1
    <3>3. CASE session[d].exit # "0"
      <4>1. W("failed")
        BY <2>1, <3>3
      <4> QED BY <4>1
    <3> QED BY <3>1, <3>2, <3>3
  <2>2. CASE UNCHANGED deploy
    <3>1. W("poll")
      BY <2>2
    <3> QED BY <3>1
  <2> QED BY <2>1, <2>2, Zenon DEF Compose!Poll
<1>2. /\ UNCHANGED <<disk, containers, crossed>>
      /\ deploy[d].step = "poll" /\ session[d].exit # "none"
      /\ session' = [session EXCEPT ![d].exit = "none"]
  BY DEF Compose!Poll, Compose!vm, Compose!At
<1>3. /\ deploy' \in [Deployments -> Compose!Deploy] /\ deploy'[d].step = s
      /\ \A e \in Deployments : e # d => deploy'[e] = deploy[e]
  <2>1. CASE deploy' = deploy /\ s = "poll"
    BY <1>2, <2>1 DEF ComposeTyped
  <2>2. CASE Compose!Goes(d, s)
    BY <2>2, GoesTo DEF Steps
  <2> QED BY <1>1, <2>1, <2>2
<1>r. r \in Compose!Session /\ r.step = session[d].step /\ r.ok = session[d].ok /\ r.exit = "none"
  <2>1. session[d] \in Compose!Session
    BY DEF ComposeTyped
  <2> QED BY <2>1 DEF Compose!Session
<1>s. session' = [session EXCEPT ![d] = r]
  BY <1>2
<1> HIDE DEF r
<1>4. /\ session' \in [Deployments -> Compose!Session] /\ session'[d] = r
      /\ \A e \in Deployments : e # d => session'[e] = session[e]
  BY <1>r, <1>s, OneSession
<1>5. losses' \in Nat /\ breaks' \in Nat /\ losses' >= losses
  BY CountersTyped DEF Compose!Poll
<1>6. ExitOK("poll", session[d], losses # 0)
  BY <1>2 DEF ExitInv
<1>7. ComposeTyped'
  BY <1>2, <1>3, <1>4, <1>5 DEF ComposeTyped
<1>8. ExitOK(deploy'[d].step, session'[d], losses' # 0)
  BY <1>r, <1>1, <1>2, <1>3, <1>4, <1>6 DEF ExitOK
<1>9. ExitInv'
  BY <1>3, <1>4, <1>5, <1>8, ExitFrame
<1>10. AloneInv'
  <2>1. Compose!UnderWay(d) /\ deploy[d].step \in Copied /\ ~Compose!At(d, "env")' /\ (Started(d)' => Started(d))
    BY <1>r, <1>2, <1>3, <1>4 DEF Compose!UnderWay, Copied, Compose!At, Started,
       Counted
  <2> QED BY <1>2, <1>3, <1>4, <2>1, AloneFrame
<1> QED BY <1>7, <1>9, <1>10

\* Without a loss a deployment waits until its session has ended.
LEMMA PollTimesOutStep ==
  ASSUME ComposeInv, NEW d \in Deployments, Compose!PollTimesOut(d)
  PROVE  ComposeInv'
<1> USE DEF ComposeInv
<1>1. /\ deploy' \in [Deployments -> Compose!Deploy] /\ deploy'[d].step = "failed"
      /\ \A e \in Deployments : e # d => deploy'[e] = deploy[e]
  BY GoesTo DEF Compose!PollTimesOut, Steps
<1>2. UNCHANGED <<disk, containers, session, crossed>> /\ deploy[d].step = "poll"
  BY DEF Compose!PollTimesOut, Compose!vm, Compose!At
<1>3. losses' \in Nat /\ breaks' \in Nat /\ losses' >= losses
  BY CountersTyped DEF Compose!PollTimesOut
<1>4. session[d].step # "ended" => losses' # 0
  BY DEF Compose!PollTimesOut, ComposeTyped, Compose!Lost
<1>5. ComposeTyped'
  BY <1>1, <1>2, <1>3 DEF ComposeTyped
<1>6. ExitOK("poll", session[d], losses # 0)
  BY <1>2 DEF ExitInv
<1>7. ExitOK(deploy'[d].step, session'[d], losses' # 0)
  BY <1>1, <1>2, <1>4, <1>6 DEF ExitOK
<1>8. ExitInv'
  BY <1>1, <1>2, <1>3, <1>7, ExitFrame
<1>9. AloneInv'
  <2>1. /\ Compose!UnderWay(d) /\ deploy'[d].step \notin Copied /\ ~Compose!At(d, "env")'
        /\ ~Started(d)'
    BY <1>1, <1>2 DEF Compose!UnderWay, Copied, Compose!At, Started, Counted
  <2> QED BY <1>1, <1>2, <2>1, AloneFrame
<1> QED BY <1>5, <1>8, <1>9

LEMMA EnableStep ==
  ASSUME ComposeInv, NEW d \in Deployments, Compose!Enable(d)
  PROVE  ComposeInv'
<1> USE DEF ComposeInv
<1>1. /\ deploy' \in [Deployments -> Compose!Deploy] /\ deploy'[d].step = "ok"
      /\ \A e \in Deployments : e # d => deploy'[e] = deploy[e]
  BY GoesTo DEF Compose!Enable, Steps
<1>2. UNCHANGED <<disk, containers, session, crossed>> /\ deploy[d].step = "enable"
  BY DEF Compose!Enable, Compose!At
<1>3. losses' \in Nat /\ breaks' \in Nat /\ losses' >= losses
  BY CountersTyped DEF Compose!Enable
<1>5. ComposeTyped'
  BY <1>1, <1>2, <1>3 DEF ComposeTyped
<1>6. ExitOK("enable", session[d], losses # 0)
  BY <1>2 DEF ExitInv
<1>7. ExitOK(deploy'[d].step, session'[d], losses' # 0)
  BY <1>1, <1>2, <1>6 DEF ExitOK
<1>8. ExitInv'
  BY <1>1, <1>2, <1>3, <1>7, ExitFrame
<1>9. AloneInv'
  <2>1. /\ Compose!UnderWay(d) /\ deploy[d].step \in Copied /\ ~Compose!At(d, "env")'
        /\ (Started(d)' => Started(d))
    BY <1>1, <1>2 DEF Compose!UnderWay, Copied, Compose!At, Started, Counted
  <2> QED BY <1>1, <1>2, <2>1, AloneFrame
<1> QED BY <1>5, <1>8, <1>9

\* The containers go down; the files of no other deployment are on the VM.
LEMMA ComposeDownStep ==
  ASSUME ComposeInv, NEW d \in Deployments, Compose!ComposeDown(d)
  PROVE  ComposeInv'
<1> USE DEF ComposeInv
<1>1. /\ deploy' \in [Deployments -> Compose!Deploy] /\ deploy'[d].step = "undone"
      /\ \A e \in Deployments : e # d => deploy'[e] = deploy[e]
  BY GoesTo DEF Compose!ComposeDown, Steps
<1>2. UNCHANGED <<disk, session, crossed>> /\ deploy[d].step = "ok"
  BY DEF Compose!ComposeDown, Compose!At
<1>3. losses' \in Nat /\ breaks' \in Nat /\ losses' >= losses
  BY CountersTyped DEF Compose!ComposeDown
<1>4. containers' \in Compose!Files
  BY DEF Compose!ComposeDown, ComposeTyped, Compose!Empty, Compose!Files
<1>5. ComposeTyped'
  BY <1>1, <1>2, <1>3, <1>4 DEF ComposeTyped
<1>6. ExitOK("ok", session[d], losses # 0)
  BY <1>2 DEF ExitInv
<1>7. ExitOK(deploy'[d].step, session'[d], losses' # 0)
  BY <1>1, <1>2, <1>6 DEF ExitOK
<1>8. ExitInv'
  BY <1>1, <1>2, <1>3, <1>7, ExitFrame
<1>9. AloneInv'
  <2> SUFFICES ASSUME ~crossed PROVE AloneInv'
    BY <1>2 DEF AloneInv
  <2>1. disk = Compose!Own(d)
    BY <1>2 DEF AloneInv, Copied
  <2>2. /\ ~Compose!UnderWay(d)' /\ deploy'[d].step \notin Copied /\ ~Compose!At(d, "env")'
        /\ ~Started(d)'
    BY <1>1 DEF Compose!UnderWay, Copied, Compose!At, Started, Counted
  <2>3. \A e \in Deployments : disk = Compose!Own(e) => e = d
    BY <2>1 DEF Compose!Own
  <2> QED BY <1>1, <1>2, <2>2, <2>3 DEF AloneInv, Compose!UnderWay, Compose!At,
      Started
<1> QED BY <1>5, <1>8, <1>9

LEMMA LeaveStep ==
  ASSUME ComposeInv, NEW d \in Deployments, Compose!Leave(d)
  PROVE  ComposeInv'
<1> USE DEF ComposeInv
<1>1. /\ deploy' \in [Deployments -> Compose!Deploy] /\ deploy'[d].step = "done"
      /\ \A e \in Deployments : e # d => deploy'[e] = deploy[e]
  BY GoesTo DEF Compose!Leave, Steps
<1>2. UNCHANGED <<disk, containers, session, crossed>> /\ deploy[d].step = "ok"
  BY DEF Compose!Leave, Compose!vm, Compose!At
<1>3. losses' \in Nat /\ breaks' \in Nat /\ losses' >= losses
  BY CountersTyped DEF Compose!Leave
<1>5. ComposeTyped'
  BY <1>1, <1>2, <1>3 DEF ComposeTyped
<1>6. ExitOK("ok", session[d], losses # 0)
  BY <1>2 DEF ExitInv
<1>7. ExitOK(deploy'[d].step, session'[d], losses' # 0)
  BY <1>1, <1>2, <1>6 DEF ExitOK
<1>8. ExitInv'
  BY <1>1, <1>2, <1>3, <1>7, ExitFrame
<1>9. AloneInv'
  <2>1. /\ Compose!UnderWay(d) /\ deploy'[d].step \notin Copied /\ ~Compose!At(d, "env")'
        /\ (Started(d)' => Started(d))
    BY <1>1, <1>2 DEF Compose!UnderWay, Copied, Compose!At, Started, Counted
  <2> QED BY <1>1, <1>2, <2>1, AloneFrame
<1> QED BY <1>5, <1>8, <1>9

-----------------------------------------------------------------------------
(* The steps of a session.                                                  *)

\* What every session step keeps: the deployment's step, and what is known of
\* the exit file when the session r it becomes is one the script can be in.
LEMMA ScriptFrame ==
  ASSUME ComposeInv, NEW d \in Deployments, NEW r \in Compose!Session,
         session[d].step \in {"pull", "up", "finish"}, UNCHANGED deploy,
         session' = [session EXCEPT ![d] = r], Compose!Broken \/ Compose!Fine,
         r.step # "none",
         r.exit # "none" => r.step = "ended", r.exit = "0" => r.ok
  PROVE  /\ session' \in [Deployments -> Compose!Session] /\ session'[d] = r
         /\ \A e \in Deployments : e # d => session'[e] = session[e]
         /\ losses' \in Nat /\ breaks' \in Nat /\ ExitInv'
<1> USE DEF ComposeInv
<1>1. /\ session' \in [Deployments -> Compose!Session] /\ session'[d] = r
      /\ \A e \in Deployments : e # d => session'[e] = session[e]
  BY OneSession
<1>2. losses' \in Nat /\ breaks' \in Nat /\ losses' >= losses
  BY CountersTyped
<1>3. losses' = losses
  BY DEF Compose!Broken, Compose!Fine
<1>4. ExitOK(deploy[d].step, session[d], losses # 0)
  BY DEF ExitInv
<1>5. ExitOK(deploy'[d].step, session'[d], losses' # 0)
  BY <1>1, <1>3, <1>4 DEF ExitOK
<1>6. ExitInv'
  BY <1>1, <1>2, <1>5, ExitFrame
<1> QED BY <1>1, <1>2, <1>6

LEMMA PullStep ==
  ASSUME ComposeInv, NEW d \in Deployments, Compose!Pull(d)
  PROVE  ComposeInv'
<1> USE DEF ComposeInv
<1>1. UNCHANGED <<disk, containers, deploy, crossed>> /\ session[d].step = "pull"
  BY DEF Compose!Pull, Compose!vm, Compose!Runs
<1>2. session[d] \in Compose!Session
  BY DEF ComposeTyped
<1>3. ExitOK(deploy[d].step, session[d], losses # 0)
  BY DEF ExitInv
<1>4. \E r \in Compose!Session : /\ session' = [session EXCEPT ![d] = r] /\ (Compose!Broken \/ Compose!Fine)
                                 /\ r.step \in {"up", "ended"} /\ (r.step = "ended" => ~r.ok)
                                 /\ r.exit # "none" => r.step = "ended"
                                 /\ r.exit = "0" => r.ok
  <2>1. CASE session' = [session EXCEPT ![d].step = "up"] /\ Compose!Fine
    <3> DEFINE r == [session[d] EXCEPT !.step = "up"]
    <3>1. r \in Compose!Session /\ r.step = "up" /\ r.exit = session[d].exit
      BY <1>2 DEF Compose!Session
    <3>2. session' = [session EXCEPT ![d] = r]
      BY <2>1
    <3>3. r.exit = "none"
      BY <1>1, <1>3, <3>1 DEF ExitOK
    <3> HIDE DEF r
    <3> QED BY <2>1, <3>1, <3>2, <3>3
  <2>2. CASE Compose!Broken /\ session' = [session EXCEPT ![d] = [@ EXCEPT !.step = "up", !.ok = FALSE]]
    <3> DEFINE r == [session[d] EXCEPT !.step = "up", !.ok = FALSE]
    <3>1. r \in Compose!Session /\ r.step = "up" /\ r.exit = session[d].exit
      BY <1>2 DEF Compose!Session
    <3>2. session' = [session EXCEPT ![d] = r]
      BY <2>2
    <3>3. r.exit = "none"
      BY <1>1, <1>3, <3>1 DEF ExitOK
    <3> HIDE DEF r
    <3> QED BY <2>2, <3>1, <3>2, <3>3
  <2>3. CASE Compose!Broken /\ session' = [session EXCEPT ![d] =
                                             [step |-> "ended", ok |-> FALSE, exit |-> "1"]]
    <3>1. [step |-> "ended", ok |-> FALSE, exit |-> "1"] \in Compose!Session
      BY DEF Compose!Session
    <3> QED BY <2>3, <3>1
  <2> QED BY <2>1, <2>2, <2>3, Zenon DEF Compose!Pull
<1>5. PICK r \in Compose!Session : /\ session' = [session EXCEPT ![d] = r] /\ (Compose!Broken \/ Compose!Fine)
                                   /\ r.step \in {"up", "ended"} /\ (r.step = "ended" => ~r.ok)
                                   /\ r.exit # "none" => r.step = "ended"
                                   /\ r.exit = "0" => r.ok
  BY <1>4
<1>6. /\ session' \in [Deployments -> Compose!Session] /\ session'[d] = r
      /\ \A e \in Deployments : e # d => session'[e] = session[e]
      /\ losses' \in Nat /\ breaks' \in Nat /\ ExitInv'
  BY <1>1, <1>5, ScriptFrame
<1>7. ComposeTyped'
  BY <1>1, <1>6 DEF ComposeTyped
<1>8. AloneInv'
  <2>1. ~Started(d)'
    BY <1>5, <1>6 DEF Started
  <2> QED BY <1>1, <1>6, <2>1, AloneFrame DEF Compose!UnderWay, Compose!At
<1> QED BY <1>6, <1>7, <1>8

\* Whoever's session starts the containers, it takes the files on the VM.
LEMMA UpStep ==
  ASSUME ComposeInv, NEW d \in Deployments, Compose!Up(d)
  PROVE  ComposeInv'
<1> USE DEF ComposeInv
<1>1. /\ UNCHANGED <<disk, deploy, crossed>> /\ session[d].step = "up"
      /\ containers' \in {containers, disk}
  BY DEF Compose!Up, Compose!Runs
<1>2. session[d] \in Compose!Session
  BY DEF ComposeTyped
<1>3. ExitOK(deploy[d].step, session[d], losses # 0)
  BY DEF ExitInv
<1>4. \E r \in Compose!Session : /\ session' = [session EXCEPT ![d] = r] /\ (Compose!Broken \/ Compose!Fine)
                                 /\ r.step = "finish" /\ r.exit = "none"
                                 /\ r.ok => containers' = disk
  <2>1. CASE /\ containers' = disk /\ Compose!Fine
             /\ session' = [session EXCEPT ![d].step = "finish"]
    <3> DEFINE r == [session[d] EXCEPT !.step = "finish"]
    <3>1. r \in Compose!Session /\ r.step = "finish" /\ r.exit = session[d].exit
      BY <1>2 DEF Compose!Session
    <3>2. session' = [session EXCEPT ![d] = r]
      BY <2>1
    <3>3. r.exit = "none"
      BY <1>1, <1>3, <3>1 DEF ExitOK
    <3> HIDE DEF r
    <3> QED BY <2>1, <3>1, <3>2, <3>3
  <2>2. CASE /\ Compose!Broken
             /\ session' = [session EXCEPT ![d] = [@ EXCEPT !.step = "finish", !.ok = FALSE]]
    <3> DEFINE r == [session[d] EXCEPT !.step = "finish", !.ok = FALSE]
    <3>1. r \in Compose!Session /\ r.step = "finish" /\ r.exit = session[d].exit /\ r.ok = FALSE
      BY <1>2 DEF Compose!Session
    <3>2. session' = [session EXCEPT ![d] = r]
      BY <2>2
    <3>3. r.exit = "none"
      BY <1>1, <1>3, <3>1 DEF ExitOK
    <3> HIDE DEF r
    <3> QED BY <2>2, <3>1, <3>2, <3>3
  <2> QED BY <2>1, <2>2, Zenon DEF Compose!Up
<1>5. PICK r \in Compose!Session : /\ session' = [session EXCEPT ![d] = r] /\ (Compose!Broken \/ Compose!Fine)
                                   /\ r.step = "finish" /\ r.exit = "none"
                                   /\ r.ok => containers' = disk
  BY <1>4
<1>6. /\ session' \in [Deployments -> Compose!Session] /\ session'[d] = r
      /\ \A e \in Deployments : e # d => session'[e] = session[e]
      /\ losses' \in Nat /\ breaks' \in Nat /\ ExitInv'
  BY <1>1, <1>5, ScriptFrame
<1>7. ComposeTyped'
  BY <1>1, <1>6 DEF ComposeTyped
<1>8. AloneInv'
  <2>1. ASSUME ~crossed, NEW e \in Deployments, Started(e)', disk = Compose!Own(e)
        PROVE  containers' = Compose!Own(e)
    <3>1. CASE e = d
      BY <1>5, <1>6, <2>1, <3>1 DEF Started
    <3>2. CASE e # d
      <4>1. Started(e)
        BY <1>1, <1>6, <2>1, <3>2 DEF Started
      <4> QED BY <1>1, <2>1, <4>1 DEF AloneInv
    <3> QED BY <3>1, <3>2
  <2> QED BY <1>1, <2>1 DEF AloneInv, Compose!UnderWay, Compose!At
<1> QED BY <1>6, <1>7, <1>8

LEMMA FinishStep ==
  ASSUME ComposeInv, NEW d \in Deployments, Compose!Finish(d)
  PROVE  ComposeInv'
<1> USE DEF ComposeInv
<1>1. UNCHANGED <<disk, containers, deploy, crossed>> /\ session[d].step = "finish"
  BY DEF Compose!Finish, Compose!vm, Compose!Runs
<1>2. session[d] \in Compose!Session
  BY DEF ComposeTyped
<1>4. \E r \in Compose!Session : /\ session' = [session EXCEPT ![d] = r] /\ (Compose!Broken \/ Compose!Fine)
                                 /\ r.step = "ended" /\ (r.ok => session[d].ok)
                                 /\ r.exit = "0" => r.ok
  <2>1. CASE /\ Compose!Fine
             /\ session' = [session EXCEPT ![d] =
                  [@ EXCEPT !.step = "ended", !.exit = IF session[d].ok THEN "0" ELSE "1"]]
    <3> DEFINE x == IF session[d].ok THEN "0" ELSE "1"
               r == [session[d] EXCEPT !.step = "ended", !.exit = x]
    <3>1. x \in {"0", "1"} /\ (x = "0" => session[d].ok)
      OBVIOUS
    <3>2. session' = [session EXCEPT ![d] = r]
      BY <2>1
    <3> HIDE DEF x
    <3>3. r \in Compose!Session /\ r.step = "ended" /\ r.exit = x /\ r.ok = session[d].ok
      BY <1>2, <3>1 DEF Compose!Session
    <3> HIDE DEF r
    <3> QED BY <2>1, <3>1, <3>2, <3>3
  <2>2. CASE /\ Compose!Broken
             /\ session' = [session EXCEPT ![d] = [step |-> "ended", ok |-> FALSE, exit |-> "1"]]
    <3>1. [step |-> "ended", ok |-> FALSE, exit |-> "1"] \in Compose!Session
      BY DEF Compose!Session
    <3> QED BY <2>2, <3>1
  <2> QED BY <2>1, <2>2, Zenon DEF Compose!Finish
<1>5. PICK r \in Compose!Session : /\ session' = [session EXCEPT ![d] = r] /\ (Compose!Broken \/ Compose!Fine)
                                   /\ r.step = "ended" /\ (r.ok => session[d].ok)
                                   /\ r.exit = "0" => r.ok
  BY <1>4
<1>6. /\ session' \in [Deployments -> Compose!Session] /\ session'[d] = r
      /\ \A e \in Deployments : e # d => session'[e] = session[e]
      /\ losses' \in Nat /\ breaks' \in Nat /\ ExitInv'
  BY <1>1, <1>5, ScriptFrame
<1>7. ComposeTyped'
  BY <1>1, <1>6 DEF ComposeTyped
<1>8. AloneInv'
  <2>1. Started(d)' => Started(d)
    BY <1>1, <1>5, <1>6 DEF Started
  <2> QED BY <1>1, <1>6, <2>1, AloneFrame DEF Compose!UnderWay, Compose!At
<1> QED BY <1>6, <1>7, <1>8

-----------------------------------------------------------------------------
LEMMA ComposeSteps ==
  ASSUME ComposeInv, [Compose!Next]_(Compose!vars)
  PROVE  ComposeInv'
<1>1. CASE UNCHANGED Compose!vars
  BY <1>1 DEF Compose!vars, ComposeInv, ComposeTyped, ExitInv, AloneInv,
     Compose!UnderWay,
     Started, Compose!At
<1>2. ASSUME NEW d \in Deployments, Compose!DeployStep(d)
      PROVE  ComposeInv'
  BY <1>2, BeginStep, ProbeStep, CopyComposeStep, CopyEnvStep, StartSessionStep,
     PollEndStep, PollTimesOutStep, EnableStep, ComposeDownStep, LeaveStep
     DEF Compose!DeployStep
<1>3. ASSUME NEW d \in Deployments, Compose!ScriptStep(d)
      PROVE  ComposeInv'
  BY <1>3, PullStep, UpStep, FinishStep DEF Compose!ScriptStep
<1> QED BY <1>1, <1>2, <1>3 DEF Compose!Next

LEMMA ComposeInvariant == Compose!Spec => []ComposeInv
<1> QED BY ComposeStarts, ComposeSteps, PTL DEF Compose!Spec

\* What the properties of a deployment do not ask about.
ComposeBounded ==
  losses \in 0..MaxComposeLosses /\ breaks \in 0..MaxComposeBreaks /\ enabled \in BOOLEAN

LEMMA ComposeCounts ==
  ASSUME Compose!Lost \/ Compose!Broken \/ Compose!Fine, enabled' \in {enabled, TRUE},
         ComposeBounded
  PROVE  ComposeBounded'
<1>1. MaxComposeLosses \in Nat /\ MaxComposeBreaks \in Nat
  BY ServicesAssumption DEF Bounds
<1>2. enabled' \in BOOLEAN
  BY DEF ComposeBounded
<1>3. losses' \in 0..MaxComposeLosses /\ breaks' \in 0..MaxComposeBreaks
  <2>1. losses \in 0..MaxComposeLosses /\ breaks \in 0..MaxComposeBreaks
    BY DEF ComposeBounded
  <2> QED BY <1>1, <2>1 DEF Compose!Lost, Compose!Broken, Compose!Fine
<1> QED BY <1>2, <1>3 DEF ComposeBounded

LEMMA ComposeTypes == Compose!Spec => []Compose!TypeOK
<1>1. Compose!Init => ComposeBounded
  <2>1. 0 \in 0..MaxComposeLosses /\ 0 \in 0..MaxComposeBreaks
    BY ServicesAssumption DEF Bounds
  <2> QED BY <2>1 DEF Compose!Init, ComposeBounded
<1>2. ComposeBounded /\ [Compose!Next]_(Compose!vars) => ComposeBounded'
  <2>1. CASE UNCHANGED Compose!vars
    BY <2>1 DEF Compose!vars, ComposeBounded
  <2>2. ASSUME NEW d \in Deployments, Compose!DeployStep(d)
        PROVE  (Compose!Lost \/ Compose!Broken \/ Compose!Fine) /\ enabled' \in {enabled, TRUE}
    BY <2>2 DEF Compose!DeployStep, Compose!Begin, Compose!Probe, Compose!CopyCompose,
       Compose!CopyEnv, Compose!StartSession, Compose!Poll, Compose!PollTimesOut,
       Compose!Enable, Compose!ComposeDown, Compose!Leave, Compose!vm
  <2>3. ASSUME NEW d \in Deployments, Compose!ScriptStep(d)
        PROVE  (Compose!Lost \/ Compose!Broken \/ Compose!Fine) /\ enabled' \in {enabled, TRUE}
    BY <2>3 DEF Compose!ScriptStep, Compose!Pull, Compose!Up, Compose!Finish, Compose!vm
  <2> QED BY <2>1, <2>2, <2>3, ComposeCounts DEF Compose!Next
<1>3. ComposeInv /\ ComposeBounded => Compose!TypeOK
  BY DEF ComposeInv, ComposeTyped, ComposeBounded, Compose!TypeOK
<1> QED BY <1>1, <1>2, <1>3, ComposeInvariant, PTL DEF Compose!Spec

\* Unless a command was lost or the deadline of the poll passed, a deployment
\* that deployComposeToVm reports failed has left no session at work, however
\* many deployments share the VM.
THEOREM FailedIsOver == Compose!Spec => []FailureFinal
<1>1. ComposeInv => FailureFinal
  BY DEF ComposeInv, ComposeTyped, ExitInv, ExitOK, FailureFinal,
     Compose!FailureFinal, Compose!At
<1> QED BY ComposeInvariant, <1>1, PTL

\* Of deployments that never crossed, the containers of a successful one come
\* from its own files, also when sessions that were given up go on.
THEOREM SuccessIsRunning == Compose!Spec => []SuccessRuns
<1>1. ComposeInv => SuccessRuns
  BY DEF ComposeInv, ExitInv, ExitOK, AloneInv, Started, Counted, SuccessRuns,
     Compose!SuccessRuns
<1> QED BY ComposeInvariant, <1>1, PTL

-----------------------------------------------------------------------------
(* The Caddy host.                                                          *)

\* No command failed, and no target was worked on by two at once.
Undisturbed == caddyFaults = 0 /\ shared = {}

\* The steps at which a target's file is the deployment's, and those from which
\* a deployment or removal comes to make Caddy load the files.
Overwritten(d) == deployer[d].step \in {"validate", "reload", "restore"}
WillLoad(d) == deployer[d].step \in {"validate", "reload", "restore", "again", "unload"}

OnePerTarget ==
  \A d, e \in Deployers : ~Caddy!Ended(d) /\ ~Caddy!Ended(e) /\ Caddy!Target(d) = Caddy!Target(e) => d = e

\* What was kept can be loaded; a file that differs from it belongs to a
\* deployment that will put it back or keep it.
FileInv ==
  /\ \A t \in Sites :
       /\ kept[t].valid
       /\ file[t] = kept[t] \/ \E d \in Deployers : Overwritten(d) /\ Caddy!Target(d) = t
  /\ \A d \in Deployers :
       /\ Overwritten(d) => file[Caddy!Target(d)] = deployer[d].content
       /\ Overwritten(d) \/ Caddy!At(d, "copy") => deployer[d].backup = kept[Caddy!Target(d)]

ServedInv == served = file \/ \E d \in Deployers : WillLoad(d)

CaddyInv == Caddy!TypeOK /\ (Undisturbed => OnePerTarget /\ FileInv /\ ServedInv)

LEMMA HostBounds == MaxCaddyStarts \in Nat /\ MaxCaddyFaults \in Nat
BY ServicesAssumption DEF Bounds

LEMMA HostAtRest == Caddy!Absent \in Caddy!File /\ Caddy!Idle \in Caddy!Deployer
<1>1. Caddy!SomeTarget \in Sites
  BY ServicesAssumption DEF Caddy!SomeTarget
<1>2. Caddy!Absent \in Caddy!File
  BY HostBounds DEF Caddy!Absent, Caddy!File
<1> QED BY <1>1, <1>2 DEF Caddy!Idle, Caddy!Deployer

LEMMA CaddyStarts ==
  ASSUME Caddy!Init
  PROVE  CaddyInv
<1>2. \A d \in Deployers : deployer[d] = Caddy!Idle
  BY DEF Caddy!Init
<1>3. Caddy!TypeOK
  BY HostAtRest, HostBounds DEF Caddy!Init, Caddy!TypeOK
<1>4. OnePerTarget /\ FileInv /\ ServedInv
  BY <1>2 DEF Caddy!Init, OnePerTarget, FileInv, ServedInv, Caddy!Ended,
     Caddy!Idle, Overwritten, Caddy!At, Caddy!Absent
<1> QED BY <1>3, <1>4 DEF CaddyInv

\* The types after a step of deployer d.
Moved(d, r) ==
  /\ r \in Caddy!Deployer /\ deployer' = [deployer EXCEPT ![d] = r]
  /\ file' \in [Sites -> Caddy!File] /\ served' \in [Sites -> Caddy!File]
  /\ kept' \in [Sites -> Caddy!File] /\ shared' \subseteq Sites
  /\ caddyStarts' \in 0..MaxCaddyStarts /\ caddyFaults' \in 0..MaxCaddyFaults

LEMMA MovedTypes ==
  ASSUME Caddy!TypeOK, NEW d \in Deployers, NEW r, Moved(d, r)
  PROVE  Caddy!TypeOK' /\ \A e \in Deployers \ {d} : deployer'[e] = deployer[e]
BY DEF Caddy!TypeOK, Moved

LEMMA HostFault ==
  ASSUME Caddy!TypeOK, Caddy!Fault \/ UNCHANGED caddyFaults
  PROVE  caddyFaults' \in 0..MaxCaddyFaults
<1>1. CASE Caddy!Fault
  <2>1. /\ caddyFaults \in 0..MaxCaddyFaults /\ MaxCaddyFaults \in Nat
        /\ caddyFaults < MaxCaddyFaults /\ caddyFaults' = caddyFaults + 1
    BY <1>1, HostBounds DEF Caddy!Fault, Caddy!TypeOK
  <2> QED BY <2>1
<1> QED BY <1>1 DEF Caddy!TypeOK

\* Every step keeps the types.
LEMMA CaddyTypes ==
  ASSUME Caddy!TypeOK, NEW d \in Deployers, Caddy!DeployerStep(d) \/ \E t \in Sites : Caddy!Start(d, t)
  PROVE  Caddy!TypeOK' /\ \A e \in Deployers \ {d} : deployer'[e] = deployer[e]
<1> DEFINE Hop(s) == [deployer[d] EXCEPT !.step = s]
<1>1. /\ deployer[d] \in Caddy!Deployer /\ deployer[d].content \in Caddy!File /\ deployer[d].backup \in Caddy!File
      /\ Caddy!Target(d) \in Sites
  BY DEF Caddy!TypeOK, Caddy!Deployer, Caddy!Target
<1>2. \A s : Caddy!Goes(d, s) => deployer' = [deployer EXCEPT ![d] = Hop(s)]
  BY DEF Caddy!Goes
<1>3. \A s \in {"copy", "validate", "reload", "restore", "again", "unload", "succeeded", "failed"} :
        Hop(s) \in Caddy!Deployer
  BY <1>1 DEF Caddy!Deployer
<1>4. ASSUME NEW t \in Sites, Caddy!Start(d, t) PROVE \E r : Moved(d, r)
  <2> DEFINE Fresh(v) == [Caddy!Idle EXCEPT !.step = "backup", !.target = t,
                                      !.content = [version |-> caddyStarts + 1, valid |-> v]]
             Gone == [Caddy!Idle EXCEPT !.step = "remove", !.target = t]
  <2>1. \/ deployer' = [deployer EXCEPT ![d] = Gone]
        \/ \E v \in BOOLEAN : deployer' = [deployer EXCEPT ![d] = Fresh(v)]
    BY <1>4 DEF Caddy!Start
  <2>2. Gone \in Caddy!Deployer
    BY HostAtRest DEF Caddy!Deployer
  <2>3. /\ caddyStarts < MaxCaddyStarts /\ caddyStarts' = caddyStarts + 1
        /\ file' = file /\ served' = served /\ kept' = kept /\ caddyFaults' = caddyFaults
        /\ shared' \in {shared, shared \cup {t}}
    BY <1>4 DEF Caddy!Start
  <2>4. caddyStarts' \in 0..MaxCaddyStarts /\ caddyStarts + 1 \in 0..MaxCaddyStarts
    <3>1. caddyStarts \in 0..MaxCaddyStarts
      BY DEF Caddy!TypeOK
    <3> QED BY <2>3, <3>1, HostBounds
  <2>5. \A v \in BOOLEAN : [version |-> caddyStarts + 1, valid |-> v] \in Caddy!File
    BY <2>4 DEF Caddy!File
  <2>6. ASSUME NEW v \in BOOLEAN PROVE Fresh(v) \in Caddy!Deployer
    BY <2>5, HostAtRest DEF Caddy!Deployer
  <2>7. /\ file' \in [Sites -> Caddy!File] /\ served' \in [Sites -> Caddy!File]
        /\ kept' \in [Sites -> Caddy!File] /\ shared' \subseteq Sites
        /\ caddyFaults' \in 0..MaxCaddyFaults
    BY <2>3 DEF Caddy!TypeOK
  <2> HIDE DEF Fresh, Gone
  <2> QED BY <2>1, <2>2, <2>4, <2>6, <2>7 DEF Moved
<1>5. ASSUME Caddy!Backup(d) PROVE \E r : Moved(d, r)
  <2> DEFINE Backed == [deployer[d] EXCEPT !.step = "copy", !.backup = file[Caddy!Target(d)]]
  <2>1. Backed \in Caddy!Deployer
    BY <1>1 DEF Caddy!TypeOK, Caddy!Deployer
  <2>2. deployer' = [deployer EXCEPT ![d] = Backed] \/ deployer' = [deployer EXCEPT ![d] = Hop("failed")]
    BY <1>5, <1>2 DEF Caddy!Backup
  <2>3. caddyFaults' \in 0..MaxCaddyFaults
    BY <1>5, HostFault DEF Caddy!Backup
  <2>4. /\ file' \in [Sites -> Caddy!File] /\ served' \in [Sites -> Caddy!File]
        /\ kept' \in [Sites -> Caddy!File] /\ shared' \subseteq Sites
        /\ caddyStarts' \in 0..MaxCaddyStarts
    BY <1>5 DEF Caddy!Backup, Caddy!TypeOK
  <2> HIDE DEF Backed, Hop
  <2> QED BY <2>1, <2>2, <2>3, <2>4, <1>3 DEF Moved
<1>6. ASSUME NEW s \in {"copy", "validate", "reload", "restore", "again", "unload", "succeeded", "failed"},
             Caddy!Goes(d, s),
             file' \in {file} \cup {[file EXCEPT ![Caddy!Target(d)] = f] : f \in Caddy!File},
             served' \in {served, file},
             kept' \in {kept} \cup {[kept EXCEPT ![Caddy!Target(d)] = f] : f \in Caddy!File},
             UNCHANGED <<caddyStarts, shared>>, Caddy!Fault \/ UNCHANGED caddyFaults
      PROVE  \E r : Moved(d, r)
  <2>1. /\ file' \in [Sites -> Caddy!File] /\ served' \in [Sites -> Caddy!File]
        /\ kept' \in [Sites -> Caddy!File] /\ shared' \subseteq Sites
        /\ caddyStarts' \in 0..MaxCaddyStarts
    BY <1>6 DEF Caddy!TypeOK
  <2>2. Moved(d, Hop(s))
    BY <2>1, <1>2, <1>3, <1>6, HostFault DEF Moved
  <2> QED BY <2>2
<1>7. ASSUME Caddy!Copy(d) PROVE \E r : Moved(d, r)
  BY <1>7, <1>6, <1>1 DEF Caddy!Copy, Caddy!Put
<1>8. ASSUME Caddy!Validate(d) PROVE \E r : Moved(d, r)
  BY <1>8, <1>6 DEF Caddy!Validate
<1>9. ASSUME Caddy!Reload(d) PROVE \E r : Moved(d, r)
  BY <1>9, <1>6, <1>1 DEF Caddy!Reload, Caddy!Load
<1>10. ASSUME Caddy!Restore(d) PROVE \E r : Moved(d, r)
  BY <1>10, <1>6, <1>1 DEF Caddy!Restore, Caddy!Put
<1>11. ASSUME Caddy!ReloadAgain(d) PROVE \E r : Moved(d, r)
  BY <1>11, <1>6 DEF Caddy!ReloadAgain, Caddy!Load
<1>12. ASSUME Caddy!Remove(d) PROVE \E r : Moved(d, r)
  BY <1>12, <1>6, HostAtRest DEF Caddy!Remove, Caddy!Put
<1>13. ASSUME Caddy!Unload(d) PROVE \E r : Moved(d, r)
  BY <1>13, <1>6 DEF Caddy!Unload, Caddy!Load
<1> QED BY <1>4, <1>5, <1>7, <1>8, <1>9, <1>10, <1>11, <1>12, <1>13, MovedTypes
    DEF Caddy!DeployerStep

\* A deployer at work moves on and touches the files of its target alone.
LEMMA HostMove ==
  ASSUME Caddy!TypeOK, Caddy!TypeOK', OnePerTarget, FileInv, NEW d \in Deployers, ~Caddy!Ended(d),
         \A e \in Deployers \ {d} : deployer'[e] = deployer[e],
         Caddy!Target(d)' = Caddy!Target(d),
         \A t \in Sites \ {Caddy!Target(d)} : file'[t] = file[t] /\ kept'[t] = kept[t],
         kept'[Caddy!Target(d)].valid,
         file'[Caddy!Target(d)] = kept'[Caddy!Target(d)] \/ Overwritten(d)',
         Overwritten(d)' => file'[Caddy!Target(d)] = deployer'[d].content,
         Overwritten(d)' \/ Caddy!At(d, "copy")' => deployer'[d].backup = kept'[Caddy!Target(d)]
  PROVE  OnePerTarget' /\ FileInv'
<1>1. \A e \in Deployers : Caddy!Target(e) \in Sites
  BY DEF Caddy!TypeOK, Caddy!Deployer, Caddy!Target
<1>2. \A e \in Deployers \ {d} : /\ Caddy!Ended(e)' = Caddy!Ended(e) /\ Caddy!Target(e)' = Caddy!Target(e)
                               /\ Overwritten(e)' = Overwritten(e)
                               /\ Caddy!At(e, "copy")' = Caddy!At(e, "copy")
  BY DEF Caddy!Ended, Caddy!Target, Overwritten, Caddy!At
<1>3. \A e \in Deployers : Overwritten(e) \/ Caddy!At(e, "copy") => ~Caddy!Ended(e)
  BY DEF Overwritten, Caddy!At, Caddy!Ended
<1>4. \A e \in Deployers \ {d} : ~Caddy!Ended(e) => Caddy!Target(e) \in Sites \ {Caddy!Target(d)}
  BY <1>1 DEF OnePerTarget
<1>5. OnePerTarget'
  BY <1>2 DEF OnePerTarget
<1>6. ASSUME NEW t \in Sites
      PROVE  kept'[t].valid /\ (file'[t] = kept'[t] \/ \E e \in Deployers : Overwritten(e)' /\ Caddy!Target(e)' = t)
  <2>1. CASE t = Caddy!Target(d)
    BY <2>1
  <2>2. CASE t # Caddy!Target(d)
    <3>1. kept[t].valid /\ (file[t] = kept[t] \/ \E e \in Deployers : Overwritten(e) /\ Caddy!Target(e) = t)
      BY DEF FileInv
    <3> QED BY <2>2, <3>1, <1>2
  <2> QED BY <2>1, <2>2
<1>7. ASSUME NEW e \in Deployers
      PROVE  /\ Overwritten(e)' => file'[Caddy!Target(e)'] = deployer'[e].content
             /\ Overwritten(e)' \/ Caddy!At(e, "copy")' => deployer'[e].backup = kept'[Caddy!Target(e)']
  <2>1. CASE e = d
    BY <2>1
  <2>2. CASE e # d
    <3>1. /\ Overwritten(e) => file[Caddy!Target(e)] = deployer[e].content
          /\ Overwritten(e) \/ Caddy!At(e, "copy") => deployer[e].backup = kept[Caddy!Target(e)]
      BY DEF FileInv
    <3>2. deployer'[e] = deployer[e]
      BY <2>2
    <3> QED BY <2>2, <3>1, <3>2, <1>2, <1>3, <1>4
  <2> QED BY <2>1, <2>2
<1> QED BY <1>5, <1>6, <1>7 DEF FileInv

\* The deployment's or removal's own steps, when none failed.
LEMMA HostStep ==
  ASSUME CaddyInv, Undisturbed', NEW d \in Deployers, Caddy!DeployerStep(d)
  PROVE  OnePerTarget' /\ FileInv' /\ ServedInv'
<1> DEFINE t == Caddy!Target(d)
           r == deployer[d]
<1>1. Caddy!TypeOK /\ Caddy!TypeOK' /\ \A e \in Deployers \ {d} : deployer'[e] = deployer[e]
  BY CaddyTypes DEF CaddyInv
<1>2. Undisturbed /\ ~Caddy!Fault
  <2>1. caddyFaults \in Nat /\ caddyFaults' = 0
    BY <1>1 DEF Caddy!TypeOK, Undisturbed
  <2>2. ~Caddy!Fault
    BY <2>1 DEF Caddy!Fault
  <2>3. caddyFaults' = caddyFaults /\ shared' = shared
    BY <2>2 DEF Caddy!DeployerStep, Caddy!Backup, Caddy!Copy, Caddy!Validate,
       Caddy!Reload, Caddy!Restore, Caddy!ReloadAgain, Caddy!Remove, Caddy!Unload
  <2> QED BY <2>2, <2>3 DEF Undisturbed
<1>3. OnePerTarget /\ FileInv /\ ServedInv
  BY <1>2 DEF CaddyInv
<1>4. ~Caddy!Ended(d) /\ t \in Sites
  <2>1. ~Caddy!Ended(d)
    BY DEF Caddy!DeployerStep, Caddy!Backup, Caddy!Copy, Caddy!Validate,
       Caddy!Reload, Caddy!Restore, Caddy!ReloadAgain, Caddy!Remove, Caddy!Unload, Caddy!At, Caddy!Ended
  <2> QED BY <1>1, <2>1 DEF Caddy!TypeOK, Caddy!Deployer, Caddy!Target
<1>5. /\ file \in [Sites -> Caddy!File] /\ served \in [Sites -> Caddy!File]
      /\ kept \in [Sites -> Caddy!File] /\ deployer \in [Deployers -> Caddy!Deployer]
      /\ r \in Caddy!Deployer
  BY <1>1 DEF Caddy!TypeOK
<1>6. kept[t].valid /\ (file[t] = kept[t] \/ Overwritten(d))
  BY <1>3, <1>4 DEF FileInv, OnePerTarget, Overwritten, Caddy!Ended
<1>7. /\ Overwritten(d) => file[t] = r.content
      /\ Overwritten(d) \/ Caddy!At(d, "copy") => r.backup = kept[t]
  BY <1>3 DEF FileInv
<1>8. \A s : Caddy!Goes(d, s) => /\ deployer'[d].step = s /\ Caddy!Target(d)' = t
                          /\ deployer'[d].content = r.content /\ deployer'[d].backup = r.backup
  BY <1>5 DEF Caddy!Goes, Caddy!Deployer, Caddy!Target
\* A file that Caddy does not accept is one that somebody will put back.
<1>9. ASSUME ~Caddy!Loadable(file), ~Overwritten(d)
      PROVE  \E e \in Deployers \ {d} : WillLoad(e)
  <2>1. PICK u \in Sites : ~file[u].valid
    BY <1>9 DEF Caddy!Loadable
  <2>2. PICK e \in Deployers : Overwritten(e) /\ Caddy!Target(e) = u
    BY <2>1, <1>3 DEF FileInv
  <2> QED BY <2>2, <1>9 DEF Overwritten, WillLoad
<1>10. \A e \in Deployers \ {d} : WillLoad(e)' = WillLoad(e)
  BY <1>1 DEF WillLoad
<1>11. CASE Caddy!Backup(d)
  <2>1. /\ deployer'[d].step = "copy" /\ Caddy!Target(d)' = t /\ deployer'[d].backup = file[t]
        /\ file' = file /\ kept' = kept /\ served' = served /\ Caddy!At(d, "backup")
    <3>1. /\ deployer' = [deployer EXCEPT ![d] = [r EXCEPT !.step = "copy", !.backup = file[t]]]
          /\ file' = file /\ kept' = kept /\ served' = served /\ Caddy!At(d, "backup")
      BY <1>11, <1>2 DEF Caddy!Backup
    <3>2. deployer'[d] = [r EXCEPT !.step = "copy", !.backup = file[t]]
      BY <3>1, <1>5
    <3> QED BY <3>1, <3>2, <1>5 DEF Caddy!Deployer, Caddy!Target
  <2>2. file[t] = kept[t] /\ ~WillLoad(d)
    BY <2>1, <1>6 DEF Overwritten, WillLoad, Caddy!At
  <2>3. ServedInv'
    BY <2>1, <2>2, <1>3, <1>10 DEF ServedInv
  <2> QED BY <2>1, <2>2, <2>3, <1>1, <1>3, <1>4, <1>6, HostMove DEF Overwritten,
      Caddy!At
<1>12. CASE Caddy!Copy(d)
  <2>1. /\ deployer'[d].step \in {"validate", "reload"} /\ Caddy!Target(d)' = t
        /\ deployer'[d].backup = r.backup /\ deployer'[d].content = r.content
        /\ file' = [file EXCEPT ![t] = r.content] /\ kept' = kept /\ Caddy!At(d, "copy")
    BY <1>12, <1>2, <1>8 DEF Caddy!Copy, Caddy!Put
  <2>2. ServedInv' /\ Overwritten(d)'
    BY <2>1 DEF ServedInv, WillLoad, Overwritten
  <2>3. file'[t] = r.content /\ \A u \in Sites \ {t} : file'[u] = file[u]
    BY <2>1, <1>4, <1>5
  <2> QED BY <2>1, <2>2, <2>3, <1>1, <1>3, <1>4, <1>6, <1>7, HostMove
<1>13. CASE Caddy!Validate(d)
  <2>1. /\ deployer'[d].step \in {"reload", "restore"} /\ Caddy!Target(d)' = t
        /\ deployer'[d].backup = r.backup /\ deployer'[d].content = r.content
        /\ file' = file /\ kept' = kept /\ Overwritten(d)
    BY <1>13, <1>2, <1>8 DEF Caddy!Validate, Caddy!At, Overwritten
  <2>2. ServedInv' /\ Overwritten(d)'
    BY <2>1 DEF ServedInv, WillLoad, Overwritten
  <2> QED BY <2>1, <2>2, <1>1, <1>3, <1>4, <1>6, <1>7, HostMove
<1>14. CASE Caddy!Reload(d)
  <2>1. /\ Caddy!Target(d)' = t /\ deployer'[d].backup = r.backup /\ deployer'[d].content = r.content
        /\ deployer'[d].step = IF Caddy!Loadable(file) THEN "succeeded" ELSE "restore"
        /\ kept' = IF Caddy!Loadable(file) THEN [kept EXCEPT ![t] = r.content] ELSE kept
        /\ file' = file /\ Overwritten(d) /\ Caddy!Load
    BY <1>14, <1>2, <1>8 DEF Caddy!Reload, Caddy!At, Overwritten
  <2>2. CASE Caddy!Loadable(file)
    <3>1. served' = file /\ kept'[t] = r.content /\ \A u \in Sites \ {t} : kept'[u] = kept[u]
      BY <2>1, <2>2, <1>4, <1>5 DEF Caddy!Load
    <3>2. file[t].valid /\ file[t] = r.content
      BY <2>1, <2>2, <1>4, <1>7 DEF Caddy!Loadable
    <3>3. ServedInv' /\ ~Overwritten(d)' /\ ~Caddy!At(d, "copy")'
      BY <2>1, <2>2, <3>1 DEF ServedInv, Overwritten, Caddy!At
    <3> QED BY <2>1, <3>1, <3>2, <3>3, <1>1, <1>3, <1>4, HostMove
  <2>3. CASE ~Caddy!Loadable(file)
    <3>1. ServedInv' /\ Overwritten(d)' /\ kept' = kept
      BY <2>1, <2>3 DEF ServedInv, WillLoad, Overwritten
    <3> QED BY <2>1, <3>1, <1>1, <1>3, <1>4, <1>6, <1>7, HostMove
  <2> QED BY <2>2, <2>3
<1>15. CASE Caddy!Restore(d)
  <2>1. /\ deployer'[d].step = "again" /\ Caddy!Target(d)' = t /\ Overwritten(d)
        /\ file' = [file EXCEPT ![t] = r.backup] /\ kept' = kept
    BY <1>15, <1>2, <1>8 DEF Caddy!Restore, Caddy!Put, Caddy!At, Overwritten
  <2>2. file'[t] = kept[t] /\ \A u \in Sites \ {t} : file'[u] = file[u]
    BY <2>1, <1>4, <1>5, <1>7
  <2>3. ServedInv' /\ ~Overwritten(d)' /\ ~Caddy!At(d, "copy")'
    BY <2>1 DEF ServedInv, WillLoad, Overwritten, Caddy!At
  <2> QED BY <2>1, <2>2, <2>3, <1>1, <1>3, <1>4, <1>6, HostMove
<1>16. CASE Caddy!ReloadAgain(d) \/ Caddy!Unload(d)
  <2>1. /\ deployer'[d].step \in {"succeeded", "failed"} /\ Caddy!Target(d)' = t
        /\ file' = file /\ kept' = kept /\ Caddy!Load /\ ~Overwritten(d)
    BY <1>16, <1>2, <1>8 DEF Caddy!ReloadAgain, Caddy!Unload, Caddy!At, Overwritten
  <2>2. ServedInv'
    BY <2>1, <1>9, <1>10 DEF ServedInv, Caddy!Load
  <2>3. file[t] = kept[t] /\ ~Overwritten(d)' /\ ~Caddy!At(d, "copy")'
    BY <2>1, <1>6 DEF Overwritten, Caddy!At
  <2> QED BY <2>1, <2>2, <2>3, <1>1, <1>3, <1>4, <1>6, HostMove
<1>17. CASE Caddy!Remove(d)
  <2>1. /\ deployer'[d].step = "unload" /\ Caddy!Target(d)' = t
        /\ file' = [file EXCEPT ![t] = Caddy!Absent] /\ kept' = [kept EXCEPT ![t] = Caddy!Absent]
    BY <1>17, <1>2, <1>8 DEF Caddy!Remove, Caddy!Put
  <2>2. /\ file'[t] = Caddy!Absent /\ kept'[t] = Caddy!Absent
        /\ \A u \in Sites \ {t} : file'[u] = file[u] /\ kept'[u] = kept[u]
    BY <2>1, <1>4, <1>5
  <2>3. ServedInv' /\ ~Overwritten(d)' /\ ~Caddy!At(d, "copy")' /\ Caddy!Absent.valid
    BY <2>1 DEF ServedInv, WillLoad, Overwritten, Caddy!At, Caddy!Absent
  <2> QED BY <2>1, <2>2, <2>3, <1>1, <1>3, <1>4, HostMove
<1> QED BY <1>11, <1>12, <1>13, <1>14, <1>15, <1>16, <1>17 DEF Caddy!DeployerStep

\* A deployment or removal begins where no other is at work on the target.
LEMMA HostBegins ==
  ASSUME CaddyInv, Undisturbed', NEW d \in Deployers, NEW t \in Sites, Caddy!Start(d, t)
  PROVE  OnePerTarget' /\ FileInv' /\ ServedInv'
<1>1. Caddy!TypeOK /\ Caddy!TypeOK' /\ \A e \in Deployers \ {d} : deployer'[e] = deployer[e]
  BY CaddyTypes DEF CaddyInv
<1>2. /\ file' = file /\ served' = served /\ kept' = kept /\ caddyFaults' = caddyFaults /\ Caddy!Ended(d)
      /\ shared' = {} /\ caddyFaults' = 0
      /\ shared' = IF \E e \in Deployers : ~Caddy!Ended(e) /\ Caddy!Target(e) = t THEN shared \cup {t} ELSE shared
  BY DEF Caddy!Start, Undisturbed
<1>3. Undisturbed /\ \A e \in Deployers : ~Caddy!Ended(e) => Caddy!Target(e) # t
  BY <1>2 DEF Undisturbed
<1>4. OnePerTarget /\ FileInv /\ ServedInv
  BY <1>3 DEF CaddyInv
<1>5. deployer'[d].step \in {"backup", "remove"} /\ Caddy!Target(d)' = t
  <2>1. deployer \in [Deployers -> Caddy!Deployer]
    BY <1>1 DEF Caddy!TypeOK
  <2> QED BY <2>1 DEF Caddy!Start, Caddy!Idle, Caddy!Target
<1>6. \A e \in Deployers \ {d} :
        /\ Caddy!Ended(e)' = Caddy!Ended(e) /\ Caddy!Target(e)' = Caddy!Target(e) /\ Overwritten(e)' = Overwritten(e)
        /\ Caddy!At(e, "copy")' = Caddy!At(e, "copy") /\ WillLoad(e)' = WillLoad(e)
  BY <1>1 DEF Caddy!Ended, Caddy!Target, Overwritten, Caddy!At, WillLoad
<1>7. ~Overwritten(d) /\ ~WillLoad(d) /\ ~Overwritten(d)' /\ ~Caddy!At(d, "copy")'
  BY <1>2, <1>5 DEF Overwritten, WillLoad, Caddy!At, Caddy!Ended
<1>8. OnePerTarget'
  BY <1>3, <1>4, <1>5, <1>6 DEF OnePerTarget
<1>9. \A u \in Sites : kept'[u].valid /\ (file'[u] = kept'[u] \/ \E e \in Deployers : Overwritten(e)' /\ Caddy!Target(e)' = u)
  BY <1>2, <1>4, <1>6, <1>7 DEF FileInv
<1>10. ASSUME NEW e \in Deployers
       PROVE  /\ Overwritten(e)' => file'[Caddy!Target(e)'] = deployer'[e].content
              /\ Overwritten(e)' \/ Caddy!At(e, "copy")' => deployer'[e].backup = kept'[Caddy!Target(e)']
  BY <1>1, <1>2, <1>4, <1>6, <1>7 DEF FileInv
<1>11. ServedInv'
  BY <1>2, <1>4, <1>6, <1>7 DEF ServedInv
<1> QED BY <1>8, <1>9, <1>10, <1>11 DEF FileInv

LEMMA CaddyStep ==
  ASSUME CaddyInv, [Caddy!Next]_(Caddy!vars)
  PROVE  CaddyInv'
<1>1. CASE UNCHANGED Caddy!vars
  BY <1>1 DEF Caddy!vars, CaddyInv, Caddy!TypeOK, Undisturbed, OnePerTarget, FileInv,
     ServedInv, Caddy!Ended, Caddy!Target, Overwritten, WillLoad, Caddy!At
<1>2. ASSUME NEW d \in Deployers, Caddy!DeployerStep(d) PROVE CaddyInv'
  BY <1>2, CaddyTypes, HostStep DEF CaddyInv
<1>3. ASSUME NEW d \in Deployers, NEW t \in Sites, Caddy!Start(d, t) PROVE CaddyInv'
  BY <1>3, CaddyTypes, HostBegins DEF CaddyInv
<1> QED BY <1>1, <1>2, <1>3 DEF Caddy!Next

\* When nobody is at work on the Caddy host, each target's file is the one of its
\* last successful deployment or removal, and Caddy serves these files: for every
\* number of targets and concurrent deployments, whose validations and reloads
\* fail on each other's files (deployCaddyConfig, ssh-deployer.ts:505).
THEOREM RollbackIsExact == Caddy!Spec => []RollbackRestores
<1>1. Caddy!Spec => []CaddyInv
  BY CaddyStarts, CaddyStep, PTL DEF Caddy!Spec
<1>2. CaddyInv => RollbackRestores
  <2> SUFFICES ASSUME CaddyInv, Undisturbed, \A d \in Deployers : Caddy!Ended(d)
               PROVE  file = kept /\ served = file
    BY DEF RollbackRestores, Caddy!RollbackRestores, Undisturbed
  <2>1. \A d \in Deployers : ~Overwritten(d) /\ ~WillLoad(d)
    BY DEF Overwritten, WillLoad, Caddy!Ended
  <2>2. FileInv /\ ServedInv /\ file \in [Sites -> Caddy!File] /\ kept \in [Sites -> Caddy!File]
    BY DEF CaddyInv, Caddy!TypeOK
  <2>3. \A t \in Sites : file[t] = kept[t]
    BY <2>1, <2>2 DEF FileInv
  <2> QED BY <2>1, <2>2, <2>3 DEF ServedInv
<1> QED BY <1>1, <1>2, PTL

-----------------------------------------------------------------------------
(* The circuit breaker.                                                     *)

\* The breaker agrees with the history of the calls.
BreakerInv ==
  /\ openedAt # Github!Closed => failures >= Threshold /\ openedAt = lastFailure
  /\ failures <= streak

BreakerInvs == Github!TypeOK /\ BreakerInv

LEMMA BreakerStarts ==
  ASSUME Github!Init
  PROVE  BreakerInvs
BY ServicesAssumption DEF Configured, Github!Init, BreakerInvs, Github!TypeOK, BreakerInv,
   Github!Closed, Github!New, Github!Skipped

LEMMA BreakerStep ==
  ASSUME BreakerInvs, [Github!Next]_(Github!vars)
  PROVE  BreakerInvs'
<1> USE DEF BreakerInvs, Github!TypeOK, BreakerInv, Github!Closed, Github!New,
    Github!Done, Github!Skipped
<1>1. CASE UNCHANGED Github!vars
  BY <1>1 DEF Github!vars, Github!breaker
<1>2. ASSUME NEW k \in GithubCalls, Github!Begin(k) PROVE BreakerInvs'
  BY <1>2, ServicesAssumption DEF Configured, Github!Begin, Github!CoolingDown, Github!breaker
<1>3. ASSUME NEW k \in GithubCalls, Github!Retry(k) PROVE BreakerInvs'
  <2>1. request[k] + 1 \in Github!Skipped..MaxRetries
    BY <1>3, ServicesAssumption DEF Configured, Github!Retry, Github!Flies
  <2> QED BY <1>3, <2>1 DEF Github!Retry, Github!breaker
<1>4. ASSUME NEW k \in GithubCalls, Github!Succeed(k) PROVE BreakerInvs'
  BY <1>4, ServicesAssumption DEF Configured, Github!Succeed
<1>5. ASSUME NEW k \in GithubCalls, Github!Fail(k) PROVE BreakerInvs'
  BY <1>5, ServicesAssumption DEF Configured, Github!Fail
<1>6. CASE Github!Tick
  BY <1>6 DEF Github!Tick, Github!breaker
<1> QED BY <1>1, <1>2, <1>3, <1>4, <1>5, <1>6 DEF Github!Next

\* Every reachable state of the breaker is well-typed (TypeOK), and the
\* breaker agrees with what the calls came to.
THEOREM BreakerCorrect == Github!Spec => [](Github!TypeOK /\ BreakerInv)
<1>1. Github!Spec => []BreakerInvs
  BY BreakerStarts, BreakerStep, PTL DEF Github!Spec
<1> QED BY <1>1, PTL DEF BreakerInvs

LEMMA SkipStep ==
  ASSUME BreakerInvs, [Github!Next]_(Github!vars), NEW k \in GithubCalls, request'[k] = Github!Skipped, request[k] # Github!Skipped
  PROVE  streak >= Threshold /\ clock - lastFailure < Cooldown
<1>1. PICK j \in GithubCalls : Github!Begin(j) /\ Github!CoolingDown
  <2> USE DEF BreakerInvs, Github!TypeOK, Github!New, Github!Done, Github!Skipped,
      Github!Flies
  <2>1. ASSUME UNCHANGED Github!vars PROVE FALSE BY <2>1 DEF Github!vars
  <2>2. ASSUME Github!Tick PROVE FALSE BY <2>2 DEF Github!Tick
  <2>3. ASSUME NEW j \in GithubCalls, Github!Retry(j) PROVE FALSE BY <2>3
      DEF Github!Retry
  <2>4. ASSUME NEW j \in GithubCalls, Github!Succeed(j) PROVE FALSE BY <2>4
      DEF Github!Succeed
  <2>5. ASSUME NEW j \in GithubCalls, Github!Fail(j) PROVE FALSE BY <2>5
      DEF Github!Fail
  <2>6. ASSUME NEW j \in GithubCalls,
      Github!Begin(j) PROVE Github!CoolingDown BY <2>6 DEF Github!Begin
  <2> QED BY <2>1, <2>2, <2>3, <2>4, <2>5, <2>6 DEF Github!Next
<1> QED BY <1>1, ServicesAssumption DEF Configured, BreakerInvs, Github!TypeOK, BreakerInv,
    Github!CoolingDown, Github!Closed

\* A call is skipped only when Threshold calls or more ended in failure since
\* the last success, and the last of them less than a cool-down ago
\* (isCircuitOpen, github-status.ts:97).
THEOREM SkipsAreEarned == Github!Spec => SkipsEarned
<1> DEFINE Earned == \A k \in GithubCalls : request'[k] = Github!Skipped /\ request[k] # Github!Skipped =>
                       streak >= Threshold /\ clock - lastFailure < Cooldown
<1>1. BreakerInvs /\ [Github!Next]_(Github!vars) => [Earned]_(Github!vars)
  BY SkipStep DEF Earned
<1>2. Github!Spec => []BreakerInvs
  BY BreakerStarts, BreakerStep, PTL DEF Github!Spec
<1> QED BY <1>1, <1>2, PTL DEF Github!Spec, SkipsEarned, Github!SkipsEarned

-----------------------------------------------------------------------------
(* The verdict on workflows.                                                *)

LEMMA GateTypes == Gate!Spec => []Gate!TypeOK
<1>1. Gate!Init => Gate!TypeOK
  BY DEF Gate!Init, Gate!TypeOK, Gate!Status
<1>2. Gate!TypeOK /\ [Gate!Next]_latest => Gate!TypeOK'
  BY DEF Gate!TypeOK, Gate!Status, Gate!Next, Gate!WorkflowMoves
<1> QED BY <1>1, <1>2, PTL DEF Gate!Spec

\* Once its workflows have all started, and none of them is cancelled or the
\* like, both ways to judge a commit come to the same verdict, for every number
\* of workflows (checkWorkflowsOnce, github-status.ts:626).
THEOREM GatesAgree == Gate!Spec => []VerdictsAgree
<1>1. Gate!TypeOK => VerdictsAgree
  <2> SUFFICES ASSUME Gate!TypeOK, Gate!In(Workflows, {"absent", "other"}) = {}
               PROVE  Gate!AnyWorkflows = Gate!RequiredWorkflows(Workflows)
    BY DEF VerdictsAgree, Gate!VerdictsAgree
  <2>1. \A w \in Workflows : latest[w] \in {"running", "success", "failure"}
    BY DEF Gate!TypeOK, Gate!Status, Gate!In
  <2>2. /\ Gate!In(Workflows, {"absent"}) = {}
        /\ Gate!In(Workflows, {"failure", "other"}) = Gate!In(Workflows, {"failure"})
        /\ Gate!In(Workflows, {"absent", "failure", "other"}) = Gate!In(Workflows, {"failure"})
    BY <2>1 DEF Gate!In
  <2>3. CASE Gate!In(Workflows, {"failure"}) # {}
    BY <2>2, <2>3 DEF Gate!AnyWorkflows, Gate!RequiredWorkflows
  <2>4. CASE Gate!In(Workflows, {"failure"}) = {} /\ Gate!In(Workflows, {"running"}) # {}
    BY <2>2, <2>4 DEF Gate!AnyWorkflows, Gate!RequiredWorkflows
  <2>5. CASE Gate!In(Workflows, {"failure"}) = {} /\ Gate!In(Workflows, {"running"}) = {}
    BY <2>2, <2>5 DEF Gate!AnyWorkflows, Gate!RequiredWorkflows
  <2> QED BY <2>3, <2>4, <2>5
<1> QED BY <1>1, GateTypes, PTL

-----------------------------------------------------------------------------
(* The runner.                                                              *)

\* The runner as DeploymentRunnerProofs proves about it.
Proved == INSTANCE DeploymentRunnerProofs WITH
  MaxStarts <- MaxRuns, MaxFaults <- MaxRunFaults,
  row <- deployment, starts <- runs, faults <- runFaults

\* It is the same specification, definition by definition.
LEMMA SameRunner ==
  /\ Runner!Init => Proved!Init
  /\ [Runner!Next]_(Runner!vars) => [Proved!Next]_(Proved!vars)
<1>1. Runner!Init => Proved!Init
  BY DEF Runner!Init, Proved!Init, Runner!IdleBody, Proved!IdleBody,
         Runner!SomeCommit, Proved!SomeCommit, Runner!NoCommit, Proved!NoCommit,
         Runner!Unlisted, Proved!Unlisted, Runner!Unknown, Proved!Unknown
<1>2. [Runner!Next]_(Runner!vars) => [Proved!Next]_(Proved!vars)
  BY DEF Runner!github, Proved!github, Runner!world, Proved!world, Runner!history,
         Proved!history, Runner!vars, Proved!vars, Runner!Step, Proved!Step,
         Runner!Deploy, Proved!Deploy, Runner!Recover, Proved!Recover,
         Runner!CourseNames, Proved!CourseNames, Runner!WithDeploy,
         Proved!WithDeploy, Runner!Courses, Proved!Courses, Runner!Incomplete,
         Proved!Incomplete, Runner!SomeCommit, Proved!SomeCommit, Runner!NoCommit,
         Proved!NoCommit, Runner!Unlisted, Proved!Unlisted, Runner!IdleBody,
         Proved!IdleBody, Runner!Unknown, Proved!Unknown, Runner!Running,
         Proved!Running, Runner!Does, Proved!Does, Runner!Arg, Proved!Arg,
         Runner!Commit, Proved!Commit, Runner!Moved, Proved!Moved, Runner!Turned,
         Proved!Turned, Runner!Advance, Proved!Advance, Runner!Turn, Proved!Turn,
         Runner!Fault, Proved!Fault, Runner!Start, Proved!Start, Runner!Newest,
         Proved!Newest, Runner!ListChecks, Proved!ListChecks, Runner!WriteCheck,
         Proved!WriteCheck, Runner!CheckLost, Proved!CheckLost, Runner!Admit,
         Proved!Admit, Runner!Duplicate, Proved!Duplicate, Runner!FindDeployment,
         Proved!FindDeployment, Runner!CreateHosted, Proved!CreateHosted,
         Runner!CheckWorkflows, Proved!CheckWorkflows, Runner!Prepare,
         Proved!Prepare, Runner!CheckApproval, Proved!CheckApproval,
         Runner!PostStatus, Proved!PostStatus, Runner!ReportError,
         Proved!ReportError, Runner!CloseIssue, Proved!CloseIssue,
         Runner!DeployCompose, Proved!DeployCompose, Runner!FetchCaddyfile,
         Proved!FetchCaddyfile, Runner!DeployCaddy, Proved!DeployCaddy,
         Runner!Compensate, Proved!Compensate, Runner!Outcome, Proved!Outcome,
         Runner!Settle, Proved!Settle, Runner!Die, Proved!Die, Runner!RunStep,
         Proved!RunStep, Runner!Next, Proved!Next
<1> QED BY <1>1, <1>2

LEMMA RunnerSpec == Runner!Spec => Proved!Spec
BY SameRunner, PTL DEF Runner!Spec, Proved!Spec

\* A deployment that GitHub shows in progress has a run at work on it, unless the
\* run lost the call that would end it or died (deployment-runner.ts:479).
THEOREM DeploymentInProgressEnds == Runner!Spec => []InProgressEnds
<1>1. Proved!InProgressEnds => InProgressEnds
  BY DEF InProgressEnds, Runner!InProgressEnds, Proved!InProgressEnds, Runner!Running,
         Proved!Running
<1> QED BY <1>1, RunnerSpec, Proved!DeploymentsEnd, PTL

\* As long as runs did not overlap, the outcome of the last one is what the row
\* says and what the VM and Caddy serve (deployment-runner.ts:838-1012).
THEOREM VmServesOutcome == Runner!Spec => []VmAgreesWithRow
<1>1. Proved!VmAgreesWithRow => VmAgreesWithRow
  BY DEF VmAgreesWithRow, Runner!VmAgreesWithRow, Proved!VmAgreesWithRow, Runner!Idle, Proved!Idle,
         Runner!Running, Proved!Running, Runner!NoCommit, Proved!NoCommit
<1> QED BY <1>1, RunnerSpec, Proved!VmAgrees, PTL

\* As long as runs did not overlap and no issue call failed, an error issue is
\* open exactly when the last run failed (github-status.ts).
THEOREM IssueOfLastFailure == Runner!Spec => []IssueTellsOutcome
<1>1. Proved!IssueTellsOutcome => IssueTellsOutcome
  BY DEF IssueTellsOutcome, Runner!IssueTellsOutcome, Proved!IssueTellsOutcome, Runner!Idle,
         Proved!Idle, Runner!Running, Proved!Running
<1> QED BY <1>1, RunnerSpec, Proved!IssueTells, PTL

\* At most the newest check run of a commit is open, and none once its last run
\* has an outcome, unless runs of the commit crossed, lost a call or died.
THEOREM ChecksAreClosed == Runner!Spec => []ChecksSettle
<1>1. Proved!ChecksSettle => ChecksSettle
  BY DEF ChecksSettle, Runner!ChecksSettle, Proved!ChecksSettle, Runner!Idle, Proved!Idle,
         Runner!Running, Proved!Running, Runner!Incomplete, Proved!Incomplete
<1> QED BY <1>1, RunnerSpec, Proved!ChecksDoSettle, PTL

-----------------------------------------------------------------------------
(* All parts.                                                               *)

LEMMA RunnerTypes == Runner!Spec => []Runner!TypeOK
<1>1. Proved!TypeOK => Runner!TypeOK
  BY DEF Proved!TypeOK, Runner!TypeOK, Proved!Status, Runner!Status,
         Proved!HostedState, Runner!HostedState, Proved!CheckState, Runner!CheckState,
         Proved!Known, Runner!Known, Proved!NoCommit, Runner!NoCommit, Proved!Body, Runner!Body,
         Proved!Unlisted, Runner!Unlisted, Proved!Rest, Runner!Rest,
         Proved!CourseNames, Runner!CourseNames, Proved!Courses, Runner!Courses,
         Proved!Deploy, Runner!Deploy, Proved!Recover, Runner!Recover,
         Proved!WithDeploy, Runner!WithDeploy, Proved!Step, Runner!Step
<1>2. Commits # {}
  BY ServicesAssumption
<1> QED BY <1>1, <1>2, RunnerSpec, Proved!RunnerTypeCorrect, PTL

\* Every variable of every part of a deployment keeps its type, however far the
\* bounds, whatever fails and whichever part moves.
THEOREM PartsTypeCorrect ==
  Spec /\ Runner!Spec /\ Compose!Spec /\ Caddy!Spec /\ Github!Spec /\ Gate!Spec => []TypesOK
<1>1. Caddy!Spec => []Caddy!TypeOK
  BY CaddyStarts, CaddyStep, PTL DEF Caddy!Spec, CaddyInv
<1>2. Github!Spec => []Github!TypeOK
  BY BreakerCorrect, PTL
<1> QED BY <1>1, <1>2, ProvisioningTypeCorrect, RunnerTypes, ComposeTypes, GateTypes,
    PTL DEF TypesOK
=============================================================================
