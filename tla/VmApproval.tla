----------------------------- MODULE VmApproval -----------------------------
(***************************************************************************)
(* The approval of virtual machines: src/src/services/vm-approval.ts, the   *)
(* step vm.check_approval of the deployment runner and the two ways a VM is *)
(* deleted (the bot command delete-vm and the Virtualizor webhook).         *)
(*                                                                         *)
(* A target is an environment of a repository; it has one row of            *)
(* vm_approval_requests and at most one row of vms.  A deployment of a      *)
(* target whose request is not approved opens a GitHub issue, stores the    *)
(* request and parks its job; a comment on the issue approves the request   *)
(* and wakes the jobs whose message mentions the issue.  Deployments,       *)
(* comments and deletions run in different handlers and interleave at every *)
(* await.  The queue is abstracted: a job is queued, running or parked, and *)
(* a run that crashes or fails is queued again.                             *)
(***************************************************************************)
EXTENDS Integers, FiniteSets

CONSTANTS
  Targets,      \* environments of repositories
  Repo,         \* the repository of a target
  Jobs,         \* deployment jobs
  Target,       \* the target a job deploys
  Numbers,      \* the issue numbers GitHub will give out in a repository
  Handlers,     \* processApprovalComment invocations
  Deleters,     \* deletions being processed
  Patient,      \* targets whose users comment once, on a parked deployment
  MaxDeploys,   \* bound on the deployments of a job slot
  MaxFaults,    \* bound on failed or crashed runs and deletions
  MaxCrashes    \* bound on crashes of a comment handler

None == 0
Repos == {Repo[t] : t \in Targets}

ASSUME ApprovalAssumption ==
  /\ Targets # {}
  /\ Repo \in [Targets -> Repos]
  /\ \A j \in Jobs : Target[j] \in Targets /\ MaxDeploys[j] \in Nat
  /\ Numbers \in [Repos -> SUBSET (Nat \ {None})]
  /\ Patient \subseteq Targets
  /\ MaxFaults \in Nat
  /\ MaxCrashes \in Nat

VARIABLES
  request,  \* vm_approval_requests, by target
  vm,       \* vms, by target
  job,      \* the jobs and their runs
  opened,   \* the issues opened in each repository
  handler,  \* the comment handlers
  deleter,  \* the deletions
  faults,   \* failed or crashed runs and deletions so far
  crashes   \* crashed comment handlers so far

vars == <<request, vm, job, opened, handler, deleter, faults, crashes>>

-----------------------------------------------------------------------------
(* Rows and records.  approvedAt is the column of that name: set by every   *)
(* approval and cleared by nothing.  A row of vms is known by its id.       *)

Issue == {None} \cup UNION {Numbers[r] : r \in Repos}
Request == [status : {"none", "pending", "approved", "cancelled"},
            issue : Issue, approvedAt : BOOLEAN]
Vm == [present : BOOLEAN, id : Nat]
JobPc == {"queued", "reread", "post", "store", "park", "parked", "ensure", "done"}
Job == [pc : JobPc, issue : Issue, deploys : Nat]
Handler == [pc : {"idle", "approve", "wake"}, target : Targets, issue : Issue]
Deleter == [pc : {"idle", "cancel", "delete"}, target : Targets, id : Nat]

SomeTarget == CHOOSE t \in Targets : TRUE
IdleHandler == [pc |-> "idle", target |-> SomeTarget, issue |-> None]
IdleDeleter == [pc |-> "idle", target |-> SomeTarget, id |-> 0]

Goto(j, pc) == job' = [job EXCEPT ![j].pc = pc]
Waiting(j, pc, n) == job' = [job EXCEPT ![j].pc = pc, ![j].issue = n]
Queued(old) == [old EXCEPT !.pc = "queued", !.issue = None]

\* The text "issue #n" contains the text "issue #m".
Mentions(n, m) == \E d \in 0..3 : n \div 10^d = m

Init ==
  /\ request = [t \in Targets |->
                  [status |-> "none", issue |-> None, approvedAt |-> FALSE]]
  /\ vm = [t \in Targets |-> [present |-> FALSE, id |-> 0]]
  /\ job = [j \in Jobs |-> [pc |-> "queued", issue |-> None, deploys |-> 1]]
  /\ opened = [r \in Repos |-> {}]
  /\ handler = [h \in Handlers |-> IdleHandler]
  /\ deleter = [d \in Deleters |-> IdleDeleter]
  /\ faults = 0
  /\ crashes = 0

-----------------------------------------------------------------------------
(* A deployment, from vm.check_approval to ensureVirtualizorVm.             *)

\* Mutant: a target without a request needs none.
CheckApprovalLax(j) ==
  LET q == request[Target[j]]
  IN  /\ job[j].pc = "queued"
      /\ \/ q.status = "pending" /\ Waiting(j, "park", q.issue)
         \/ q.status \in {"approved", "none"} /\ Goto(j, "ensure")
         \/ q.status = "cancelled" /\ Goto(j, "reread")
      /\ UNCHANGED <<request, vm, opened, handler, deleter, faults, crashes>>

CheckApproval(j) ==
  LET q == request[Target[j]]
  IN  /\ job[j].pc = "queued"
      /\ \/ q.status = "pending" /\ Waiting(j, "park", q.issue)
         \/ q.status = "approved" /\ Goto(j, "ensure")
         \/ q.status \in {"none", "cancelled"} /\ Goto(j, "reread")
      /\ UNCHANGED <<request, vm, opened, handler, deleter, faults, crashes>>

\* createVmApprovalRequest looks again before it opens an issue, ...
RereadRequest(j) ==
  LET q == request[Target[j]]
  IN  /\ job[j].pc = "reread"
      /\ \/ q.status = "pending" /\ Waiting(j, "park", q.issue)
         \/ q.status # "pending" /\ Goto(j, "post")
      /\ UNCHANGED <<request, vm, opened, handler, deleter, faults, crashes>>

\* ... has GitHub number the new issue, ...
PostIssue(j) ==
  LET r == Repo[Target[j]]
      free == Numbers[r] \ opened[r]
  IN  /\ job[j].pc = "post"
      /\ \E n \in free :
           /\ \A m \in free : n <= m
           /\ opened' = [opened EXCEPT ![r] = @ \cup {n}]
           /\ Waiting(j, "store", n)
      /\ UNCHANGED <<request, vm, handler, deleter, faults, crashes>>

\* ... and upserts the request, whatever became of it meanwhile.
StoreRequest(j) ==
  /\ job[j].pc = "store"
  /\ request' = [request EXCEPT ![Target[j]].status = "pending",
                                ![Target[j]].issue = job[j].issue]
  /\ Goto(j, "park")
  /\ UNCHANGED <<vm, opened, handler, deleter, faults, crashes>>

\* runClaimedJob writes pending_approval and the message with the issue.
Park(j) ==
  /\ job[j].pc = "park"
  /\ Goto(j, "parked")
  /\ UNCHANGED <<request, vm, opened, handler, deleter, faults, crashes>>

\* The VM of the target is reused, or created when there is none.
EnsureVm(j) ==
  LET t == Target[j]
  IN  /\ job[j].pc = "ensure"
      /\ vm' = IF vm[t].present THEN vm
               ELSE [vm EXCEPT ![t] = [present |-> TRUE, id |-> vm[t].id + 1]]
      /\ Goto(j, "done")
      /\ UNCHANGED <<request, opened, handler, deleter, faults, crashes>>

\* A step fails or its process dies; a retry or the lease queues the job.
RunFails(j) ==
  /\ faults < MaxFaults
  /\ faults' = faults + 1
  /\ job[j].pc \in {"reread", "post", "store", "park", "ensure"}
  /\ job' = [job EXCEPT ![j] = Queued(@)]
  /\ UNCHANGED <<request, vm, opened, handler, deleter, crashes>>

Redeploy(j) ==
  /\ job[j].pc = "done"
  /\ job[j].deploys < MaxDeploys[j]
  /\ job' = [job EXCEPT ![j] = [@ EXCEPT !.pc = "queued",
                                         !.deploys = job[j].deploys + 1]]
  /\ UNCHANGED <<request, vm, opened, handler, deleter, faults, crashes>>

-----------------------------------------------------------------------------
(* The comment handler.                                                     *)

\* An authorised /approve on the issue of a pending request.
Comment(h, t) ==
  /\ handler[h].pc = "idle"
  /\ request[t].status = "pending"
  /\ t \in Patient =>
       /\ \A j \in Jobs : Target[j] = t => job[j].pc = "parked"
       /\ \A g \in Handlers : handler[g].pc # "idle" => handler[g].target # t
  /\ handler' = [handler EXCEPT ![h] = [pc |-> "approve", target |-> t,
                                        issue |-> request[t].issue]]
  /\ UNCHANGED <<request, vm, job, opened, deleter, faults, crashes>>

Approved(q) == [q EXCEPT !.status = "approved", !.approvedAt = TRUE]

\* The update is by the id of the row it read.
Approve(h) ==
  /\ handler[h].pc = "approve"
  /\ request' = [request EXCEPT ![handler[h].target] = Approved(@)]
  /\ handler' = [handler EXCEPT ![h].pc = "wake"]
  /\ UNCHANGED <<vm, job, opened, deleter, faults, crashes>>

Waiters(n) == {j \in Jobs : job[j].pc = "parked" /\ Mentions(job[j].issue, n)}

\* Mutant: one job is woken, as update or findFirst would.
WakeOne(h) ==
  /\ handler[h].pc = "wake"
  /\ \E S \in {{}} \cup {{j} : j \in Waiters(handler[h].issue)} :
       /\ S = {} => Waiters(handler[h].issue) = {}
       /\ job' = [j \in Jobs |-> IF j \in S THEN Queued(job[j])
                                 ELSE job[j]]
  /\ handler' = [handler EXCEPT ![h] = IdleHandler]
  /\ UNCHANGED <<request, vm, opened, deleter, faults, crashes>>

\* Every parked job that mentions the number, of any repository, is queued.
Wake(h) ==
  /\ handler[h].pc = "wake"
  /\ job' = [j \in Jobs |-> IF j \in Waiters(handler[h].issue)
                            THEN Queued(job[j])
                            ELSE job[j]]
  /\ handler' = [handler EXCEPT ![h] = IdleHandler]
  /\ UNCHANGED <<request, vm, opened, deleter, faults, crashes>>

HandlerCrash(h) ==
  /\ crashes < MaxCrashes
  /\ crashes' = crashes + 1
  /\ handler[h].pc # "idle"
  /\ handler' = [handler EXCEPT ![h] = IdleHandler]
  /\ UNCHANGED <<request, vm, job, opened, deleter, faults>>

-----------------------------------------------------------------------------
(* The deletion of a VM.                                                    *)

DeleteStart(d, t) ==
  /\ deleter[d].pc = "idle"
  /\ vm[t].present
  /\ deleter' = [deleter EXCEPT ![d] = [pc |-> "cancel", target |-> t,
                                        id |-> vm[t].id]]
  /\ UNCHANGED <<request, vm, job, opened, handler, faults, crashes>>

\* Mutant: a status the other handlers do not know.
CancelledUnknown(q) == [q EXCEPT !.status = "deleted"]

Cancelled(q) == [q EXCEPT !.status = "cancelled"]

CancelRequest(d) ==
  /\ deleter[d].pc = "cancel"
  /\ request' = IF request[deleter[d].target].status \in {"pending", "approved"}
                THEN [request EXCEPT ![deleter[d].target] = Cancelled(@)]
                ELSE request
  /\ deleter' = [deleter EXCEPT ![d].pc = "delete"]
  /\ UNCHANGED <<vm, job, opened, handler, faults, crashes>>

\* The delete is by id and throws when another deletion was faster.
DeleteRow(d) ==
  LET t == deleter[d].target
  IN  /\ deleter[d].pc = "delete"
      /\ vm' = IF vm[t].id = deleter[d].id
               THEN [vm EXCEPT ![t].present = FALSE] ELSE vm
      /\ deleter' = [deleter EXCEPT ![d] = IdleDeleter]
      /\ UNCHANGED <<request, job, opened, handler, faults, crashes>>

\* An await of the deletion throws; what it did already stays done.
DeleteFails(d) ==
  /\ faults < MaxFaults
  /\ faults' = faults + 1
  /\ deleter[d].pc # "idle"
  /\ deleter' = [deleter EXCEPT ![d] = IdleDeleter]
  /\ UNCHANGED <<request, vm, job, opened, handler, crashes>>

-----------------------------------------------------------------------------
JobStep(j) ==
  \/ CheckApproval(j) \/ RereadRequest(j) \/ PostIssue(j) \/ StoreRequest(j)
  \/ Park(j) \/ EnsureVm(j)

Next ==
  \/ \E j \in Jobs : JobStep(j) \/ RunFails(j) \/ Redeploy(j)
  \/ \E h \in Handlers : \/ Approve(h) \/ Wake(h) \/ HandlerCrash(h)
                         \/ \E t \in Targets : Comment(h, t)
  \/ \E d \in Deleters : \/ CancelRequest(d) \/ DeleteRow(d) \/ DeleteFails(d)
                         \/ \E t \in Targets : DeleteStart(d, t)

Spec == Init /\ [][Next]_vars

\* Queued jobs are polled for and handlers run on; nobody has to comment,
\* delete or deploy again.
Fairness ==
  /\ \A j \in Jobs : WF_vars(JobStep(j))
  /\ \A h \in Handlers : WF_vars(Approve(h) \/ Wake(h))
  /\ \A d \in Deleters : WF_vars(CancelRequest(d) \/ DeleteRow(d))

FairSpec == Spec /\ Fairness

-----------------------------------------------------------------------------
(* Properties.                                                              *)

\* Type correctness of the rows and of the handlers' records.
TypeOK ==
  /\ request \in [Targets -> Request]
  /\ vm \in [Targets -> Vm]
  /\ job \in [Jobs -> Job]
  /\ opened \in [Repos -> SUBSET Issue]
  /\ handler \in [Handlers -> Handler]
  /\ deleter \in [Deleters -> Deleter]
  /\ faults \in 0..MaxFaults
  /\ crashes \in 0..MaxCrashes

\* No VM comes into being for a target nobody ever approved, although wakes
\* reach jobs of other repositories and issues whose numbers begin alike.
NoVmBeforeApproval ==
  \A t \in Targets : vm[t].id > 0 => request[t].approvedAt

\* Once the request a deployment waits for is approved, the deployment runs
\* on, unless a handler died between the approval and the wake.
Resumes(j) ==
  /\ job[j].pc = "parked"
  /\ request[Target[j]].status = "approved"
  /\ request[Target[j]].issue = job[j].issue
  ~> job[j].pc # "parked" \/ crashes > 0

\* An approval always resumes the deployment that waits for it if the user
\* comments once, after the deployment has parked, and no other issue whose
\* number its own begins with is approved: whatever retries, deletions and
\* other deployments do meanwhile.
PatientDeploymentResumes ==
  \A j \in Jobs : Target[j] \in Patient => Resumes(j)

\* vm-approval.ts:304: the deployment resumes, however early the approval comes.
DeploymentResumes == \A j \in Jobs : Resumes(j)

\* webhooks.ts:2155: after a deletion the next VM needs a new approval.
NewVmNeedsApproval ==
  [][\A t \in Targets :
       vm'[t].id > vm[t].id => request[t].status = "approved"]_vars
=============================================================================
