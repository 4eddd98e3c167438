--------------------------- MODULE DeploymentQueue ---------------------------
(***************************************************************************)
(* The durable deployment queue of src/src/services/deployment-queue.ts.    *)
(*                                                                         *)
(* Several processes share the table deployment_jobs.  In each of them     *)
(* poll() is started by the timer, by an enqueue, by an operator's requeue  *)
(* and by a VM approval, so several polls may be in flight at once; every   *)
(* await is a point where another poll, run or process may move.  A poll    *)
(* returns expired rows to the queue, then claims rows while the process    *)
(* has a free slot; each claim starts a detached runClaimedJob that races   *)
(* the deployment against a timer and finally writes the row.               *)
(*                                                                         *)
(* Time is counted in ticks.  A Tick may not pass a timer that is due, nor  *)
(* the last moment a finished run may take to write its row.                *)
(***************************************************************************)
EXTENDS Integers, FiniteSets

CONSTANTS
  Jobs,              \* ids of the rows, numbers in createdAt order
  Procs,             \* operating-system processes sharing the database
  TimerProcs,        \* processes that called startDeploymentQueueWorker
  Polls,             \* poll() invocations in flight (bound)
  Runs,              \* runClaimedJob invocations in memory (bound)
  Operators,         \* requeue requests being served
  Home,              \* the process of a poll, a run or a request
  Concurrency,       \* DEPLOY_QUEUE_CONCURRENCY
  MaxAttempts,       \* deployment_jobs.max_attempts
  Lease,             \* DEPLOY_QUEUE_RUNNING_LEASE_MS, in ticks
  Timeout,           \* timeout of each job, in ticks
  SettleTicks,       \* ticks a finished run may need to write its row
  MaxWorkflowChecks, \* re-checks that fit in GITHUB_WORKFLOW_CHECK_TIMEOUT_MS
  AmbiguousWrites,   \* may a committed success write be reported as failed?
  MaxFaults,         \* bound on crashes and database errors
  MaxRequeues,       \* bound on operator requeues of a job
  MaxWakes           \* bound on VM approvals

NoJob == 0

ASSUME QueueAssumption ==
  /\ Jobs \subseteq Nat \ {NoJob}
  /\ TimerProcs \subseteq Procs
  /\ IsFiniteSet(Polls)
  /\ IsFiniteSet(Runs)
  /\ Home \in [Polls \cup Runs \cup Operators -> Procs]
  /\ Concurrency \in Nat \ {0}
  /\ MaxAttempts \in Nat \ {0}
  /\ Lease \in Nat
  /\ Timeout \in [Jobs -> Nat]
  /\ SettleTicks \in Nat
  /\ MaxWorkflowChecks \in Nat
  /\ AmbiguousWrites \in BOOLEAN
  /\ MaxFaults \in Nat
  /\ MaxRequeues \in Nat
  /\ MaxWakes \in Nat

VARIABLES
  row,          \* the table deployment_jobs
  poll,         \* the poll() invocations
  run,          \* the runClaimedJob invocations
  runningCount, \* the counter of each process
  op,           \* the requeueDeploymentJob invocations
  faults,       \* crashes and database errors so far
  wakes         \* approvals so far

vars == <<row, poll, run, runningCount, op, faults, wakes>>

-----------------------------------------------------------------------------
(* The rows and the in-memory records.                                      *)

Status == {"absent", "queued", "running", "pending_workflows",
           "pending_approval", "succeeded", "failed", "deleted"}

\* age counts the ticks since startedAt, wfChecks stands for the time since
\* workflowCheckStartedAt, wfDue says nextWorkflowCheckAt has passed.
JobRow == [status : Status, attempts : Nat, age : 0..Lease + 1,
           leaseReclaimCount : Nat, requeueCount : Nat,
           wfChecks : Nat, wfDue : BOOLEAN]

PollPc == {"idle", "reclaim", "check", "findQueued", "claimQueued",
           "findWorkflows", "claimWorkflows"}
Poll == [pc : PollPc, job : Jobs \cup {NoJob}, attempts : Nat, wfChecks : Nat]
IdlePoll == [pc |-> "idle", job |-> NoJob, attempts |-> 0, wfChecks |-> 0]

Outcome == {"none", "ok", "error", "timeout", "workflows", "approval"}
Phase == {"free", "exec", "settle", "orphan"}
Run == [phase : Phase, job : Jobs \cup {NoJob}, attempts : Nat,
        wfChecks : Nat, elapsed : Nat, outcome : Outcome]
FreeRun == [phase |-> "free", job |-> NoJob, attempts |-> 0, wfChecks |-> 0,
            elapsed |-> 0, outcome |-> "none"]

\* A run owns its job from the claim to the write that ends it; the body
\* executeDeployment of a timed-out run goes on as an orphan.
Owns(r) == run[r].phase \in {"exec", "settle"}
HasBody(r) == \/ run[r].phase \in {"exec", "orphan"}
              \/ run[r].phase = "settle" /\ run[r].outcome = "timeout"
Owned(j) == \E r \in Runs : Owns(r) /\ run[r].job = j

InStatus(s) == {j \in Jobs : row[j].status = s}
Oldest(S) == {j \in S : \A i \in S : j <= i}
Goto(k, pc) == poll' = [poll EXCEPT ![k] = [IdlePoll EXCEPT !.pc = pc]]

Init ==
  /\ row = [j \in Jobs |->
              [status |-> "absent", attempts |-> 0, age |-> 0,
               leaseReclaimCount |-> 0, requeueCount |-> 0,
               wfChecks |-> 0, wfDue |-> FALSE]]
  /\ poll = [k \in Polls |-> IdlePoll]
  /\ run = [r \in Runs |-> FreeRun]
  /\ runningCount = [p \in Procs |-> 0]
  /\ op = [o \in Operators |-> NoJob]
  /\ faults = 0
  /\ wakes = 0

-----------------------------------------------------------------------------
(* Starting a poll, and the poll itself.                                    *)

StartPoll(k) ==
  /\ poll[k].pc = "idle"
  /\ Goto(k, "reclaim")

TimerPoll(k) ==
  /\ Home[k] \in TimerProcs
  /\ StartPoll(k)
  /\ UNCHANGED <<row, run, runningCount, op, faults, wakes>>

\* The rows are created in order; the request handler starts a poll.
Enqueue(k, j) ==
  /\ row[j].status = "absent"
  /\ \A i \in Jobs : i < j => row[i].status # "absent"
  /\ row' = [row EXCEPT ![j].status = "queued"]
  /\ StartPoll(k)
  /\ UNCHANGED <<run, runningCount, op, faults, wakes>>

\* Mutant: the lease is not looked at.
ExpiredAtOnce(j) == row[j].status = "running"

Expired(j) == row[j].status = "running" /\ row[j].age > Lease

Reclaimed(old) == [old EXCEPT !.status = "queued", !.age = 0,
                              !.leaseReclaimCount = @ + 1]

ReclaimRows ==
  [j \in Jobs |-> IF Expired(j) THEN Reclaimed(row[j]) ELSE row[j]]

ReclaimExpired(k) ==
  /\ poll[k].pc = "reclaim"
  /\ row' = ReclaimRows
  /\ Goto(k, "check")
  /\ UNCHANGED <<run, runningCount, op, faults, wakes>>

\* Mutants: off by one in either direction.
CheckSlotsTooMany(k) ==
  /\ poll[k].pc = "check"
  /\ \/ runningCount[Home[k]] <= Concurrency /\ Goto(k, "findQueued")
     \/ runningCount[Home[k]] > Concurrency /\ Goto(k, "idle")
  /\ UNCHANGED <<row, run, runningCount, op, faults, wakes>>
CheckSlotsTooFew(k) ==
  /\ poll[k].pc = "check"
  /\ \/ runningCount[Home[k]] + 1 < Concurrency /\ Goto(k, "findQueued")
     \/ runningCount[Home[k]] + 1 >= Concurrency /\ Goto(k, "idle")
  /\ UNCHANGED <<row, run, runningCount, op, faults, wakes>>

\* The test of drainOnce; the counter only moves after the awaits below.
CheckSlots(k) ==
  /\ poll[k].pc = "check"
  /\ \/ runningCount[Home[k]] < Concurrency /\ Goto(k, "findQueued")
     \/ runningCount[Home[k]] >= Concurrency /\ Goto(k, "idle")
  /\ UNCHANGED <<row, run, runningCount, op, faults, wakes>>

FindQueued(k) ==
  /\ poll[k].pc = "findQueued"
  /\ \/ InStatus("queued") = {} /\ Goto(k, "findWorkflows")
     \/ \E j \in Oldest(InStatus("queued")) :
          poll' = [poll EXCEPT ![k] = [pc |-> "claimQueued", job |-> j,
                                       attempts |-> row[j].attempts,
                                       wfChecks |-> 0]]
  /\ UNCHANGED <<row, run, runningCount, op, faults, wakes>>

FindWorkflows(k) ==
  /\ poll[k].pc = "findWorkflows"
  /\ LET due == {j \in InStatus("pending_workflows") : row[j].wfDue}
     IN  \/ due = {} /\ Goto(k, "idle")
         \/ \E j \in Oldest(due) :
              poll' = [poll EXCEPT ![k] = [pc |-> "claimWorkflows", job |-> j,
                                           attempts |-> row[j].attempts,
                                           wfChecks |-> row[j].wfChecks]]
  /\ UNCHANGED <<row, run, runningCount, op, faults, wakes>>

\* The updates that claim a row.
ClaimedQueued(old) ==
  [old EXCEPT !.status = "running", !.age = 0, !.attempts = @ + 1]
ClaimedWorkflows(old) ==
  [old EXCEPT !.status = "running", !.age = 0, !.wfDue = FALSE]

\* runningCount += 1 and the detached runClaimedJob, with the row as it was
\* read before the claim.
StartRun(k) ==
  /\ \E r \in Runs :
       /\ Home[r] = Home[k]
       /\ run[r].phase = "free"
       /\ run' = [run EXCEPT ![r] =
                    [FreeRun EXCEPT !.phase = "exec", !.job = poll[k].job,
                                    !.attempts = poll[k].attempts,
                                    !.wfChecks = poll[k].wfChecks]]
  /\ runningCount' = [runningCount EXCEPT ![Home[k]] = @ + 1]

\* Mutant: the update is by id only, as the one of requeueDeploymentJob is.
ClaimQueuedById(k) ==
  /\ poll[k].pc = "claimQueued"
  /\ row' = [row EXCEPT ![poll[k].job] = ClaimedQueued(@)]
  /\ StartRun(k)
  /\ Goto(k, "check")
  /\ UNCHANGED <<op, faults, wakes>>

ClaimQueued(k) ==
  /\ poll[k].pc = "claimQueued"
  /\ row[poll[k].job].status = "queued"
  /\ row' = [row EXCEPT ![poll[k].job] = ClaimedQueued(@)]
  /\ StartRun(k)
  /\ Goto(k, "check")
  /\ UNCHANGED <<op, faults, wakes>>

ClaimQueuedMissed(k) ==
  /\ poll[k].pc = "claimQueued"
  /\ row[poll[k].job].status # "queued"
  /\ Goto(k, "findWorkflows")
  /\ UNCHANGED <<row, run, runningCount, op, faults, wakes>>

ClaimWorkflows(k) ==
  /\ poll[k].pc = "claimWorkflows"
  /\ row[poll[k].job].status = "pending_workflows"
  /\ row' = [row EXCEPT ![poll[k].job] = ClaimedWorkflows(@)]
  /\ StartRun(k)
  /\ Goto(k, "check")
  /\ UNCHANGED <<op, faults, wakes>>

ClaimWorkflowsMissed(k) ==
  /\ poll[k].pc = "claimWorkflows"
  /\ row[poll[k].job].status # "pending_workflows"
  /\ Goto(k, "idle")
  /\ UNCHANGED <<row, run, runningCount, op, faults, wakes>>

\* A query throws and ends the poll; a claim may have committed all the same
\* (a reclaim that did is a ReclaimExpired followed by the next query's error).
PollDbError(k) ==
  /\ faults < MaxFaults
  /\ faults' = faults + 1
  /\ poll[k].pc \notin {"idle", "check"}
  /\ \/ row' = row
     \/ /\ poll[k].pc = "claimQueued"
        /\ row[poll[k].job].status = "queued"
        /\ row' = [row EXCEPT ![poll[k].job] = ClaimedQueued(@)]
     \/ /\ poll[k].pc = "claimWorkflows"
        /\ row[poll[k].job].status = "pending_workflows"
        /\ row' = [row EXCEPT ![poll[k].job] = ClaimedWorkflows(@)]
  /\ Goto(k, "idle")
  /\ UNCHANGED <<run, runningCount, op, wakes>>

-----------------------------------------------------------------------------
(* A run: the race of the deployment and the timer, then the final write.   *)

\* executeDeployment resolves, or throws an ordinary error,
\* WorkflowsPendingError (while its waiting time lasts) or
\* VmApprovalPendingError.
BodyEnds(r) ==
  /\ run[r].phase = "exec"
  /\ \E o \in {"ok", "error", "workflows", "approval"} :
       /\ o = "workflows" => run[r].wfChecks < MaxWorkflowChecks
       /\ run' = [run EXCEPT ![r].phase = "settle", ![r].outcome = o]
  /\ UNCHANGED <<row, poll, runningCount, op, faults, wakes>>

TimerFires(r) ==
  /\ run[r].phase = "exec"
  /\ run[r].elapsed >= Timeout[run[r].job]
  /\ run' = [run EXCEPT ![r].phase = "settle", ![r].outcome = "timeout"]
  /\ UNCHANGED <<row, poll, runningCount, op, faults, wakes>>

\* Mutants: a status no poll looks for; one attempt counted twice.
NextStatusUnknown(r) ==
  IF run[r].attempts + 1 >= MaxAttempts THEN "failed" ELSE "pending"
NextStatusEarly(r) ==
  IF run[r].attempts + 2 >= MaxAttempts THEN "failed" ELSE "queued"

\* The attempts read before the claim decide between a retry and the end.
NextStatus(r) ==
  IF run[r].attempts + 1 >= MaxAttempts THEN "failed" ELSE "queued"

\* The four updates of runClaimedJob: by id only, whatever the row holds now.
SettledRow(r, old) ==
  CASE run[r].outcome = "ok" -> [old EXCEPT !.status = "succeeded"]
    [] run[r].outcome = "workflows" ->
         [old EXCEPT !.status = "pending_workflows", !.age = 0,
                     !.wfChecks = run[r].wfChecks + 1, !.wfDue = FALSE]
    [] run[r].outcome = "approval" ->
         [old EXCEPT !.status = "pending_approval", !.age = 0]
    [] OTHER -> [old EXCEPT !.status = NextStatus(r), !.age = 0]

\* Mutant: the slot of a timed-out run is only freed with its body.
EndRunLeaking(r) ==
  /\ run' = [run EXCEPT ![r] = IF HasBody(r)
                               THEN [FreeRun EXCEPT !.phase = "orphan",
                                                    !.job = run[r].job]
                               ELSE FreeRun]
  /\ runningCount' = [runningCount EXCEPT
                         ![Home[r]] = IF HasBody(r) THEN @ ELSE @ - 1]

\* runClaimedJob returns; a body that was not waited for stays behind.
EndRun(r) ==
  /\ run' = [run EXCEPT ![r] = IF HasBody(r)
                               THEN [FreeRun EXCEPT !.phase = "orphan",
                                                    !.job = run[r].job]
                               ELSE FreeRun]
  /\ runningCount' = [runningCount EXCEPT ![Home[r]] = @ - 1]

Settle(r) ==
  /\ run[r].phase = "settle"
  /\ row[run[r].job].status # "deleted"
  /\ row' = [row EXCEPT ![run[r].job] = SettledRow(r, @)]
  /\ EndRun(r)
  /\ UNCHANGED <<poll, op, faults, wakes>>

\* An update that throws: a success goes on in the catch block as an ordinary
\* error, every other write is logged and given up.
SettleError(r) ==
  /\ run[r].phase = "settle"
  /\ \/ faults < MaxFaults /\ faults' = faults + 1
     \/ row[run[r].job].status = "deleted" /\ faults' = faults
  /\ \/ /\ run[r].outcome = "ok"
        /\ \/ row' = row
           \/ /\ AmbiguousWrites
              /\ row[run[r].job].status # "deleted"
              /\ row' = [row EXCEPT ![run[r].job] = SettledRow(r, @)]
        /\ run' = [run EXCEPT ![r].outcome = "error"]
        /\ UNCHANGED runningCount
     \/ /\ run[r].outcome # "ok"
        /\ row' = row
        /\ EndRun(r)
  /\ UNCHANGED <<poll, op, wakes>>

OrphanEnds(r) ==
  /\ run[r].phase = "orphan"
  /\ run' = [run EXCEPT ![r] = FreeRun]
  /\ UNCHANGED <<row, poll, runningCount, op, faults, wakes>>

-----------------------------------------------------------------------------
(* The other writers of the table.                                          *)

\* Mutant: any status is accepted.
RequeueReadAny(o, j) ==
  /\ op[o] = NoJob
  /\ row[j].status # "absent"
  /\ row[j].requeueCount < MaxRequeues
  /\ op' = [op EXCEPT ![o] = j]
  /\ UNCHANGED <<row, poll, run, runningCount, faults, wakes>>

\* requeueDeploymentJob reads the status, then writes by id.
RequeueRead(o, j) ==
  /\ op[o] = NoJob
  /\ row[j].status = "failed"
  /\ row[j].requeueCount < MaxRequeues
  /\ op' = [op EXCEPT ![o] = j]
  /\ UNCHANGED <<row, poll, run, runningCount, faults, wakes>>

Requeued(old) == [old EXCEPT !.status = "queued", !.age = 0,
                             !.requeueCount = @ + 1]

RequeueWrite(o, k) ==
  /\ op[o] # NoJob
  /\ Home[k] = Home[o]
  /\ row[op[o]].status # "deleted"
  /\ row' = [row EXCEPT ![op[o]] = Requeued(@)]
  /\ StartPoll(k)
  /\ op' = [op EXCEPT ![o] = NoJob]
  /\ UNCHANGED <<run, runningCount, faults, wakes>>

RequeueGone(o) ==
  /\ op[o] # NoJob
  /\ row[op[o]].status = "deleted"
  /\ op' = [op EXCEPT ![o] = NoJob]
  /\ UNCHANGED <<row, poll, run, runningCount, faults, wakes>>

Woken(old) == [old EXCEPT !.status = "queued", !.attempts = 0]

\* processApprovalComment wakes the jobs parked on the issue, then polls.
ApprovalWake(k) ==
  /\ wakes < MaxWakes
  /\ \E S \in SUBSET InStatus("pending_approval") \ {{}} :
       row' = [j \in Jobs |-> IF j \in S THEN Woken(row[j]) ELSE row[j]]
  /\ StartPoll(k)
  /\ wakes' = wakes + 1
  /\ UNCHANGED <<run, runningCount, op, faults>>

\* pruneOldDeploymentJobs deletes finished rows older than the retention.
Prune ==
  /\ \E S \in SUBSET (InStatus("succeeded") \cup InStatus("failed")) \ {{}} :
       row' = [j \in Jobs |-> IF j \in S
                              THEN [row[j] EXCEPT !.status = "deleted"]
                              ELSE row[j]]
  /\ UNCHANGED <<poll, run, runningCount, op, faults, wakes>>

-----------------------------------------------------------------------------
(* The environment: time, and processes that die and start again.           *)

Aged(old) ==
  CASE old.status = "running" /\ old.age <= Lease -> [old EXCEPT !.age = @ + 1]
    [] old.status = "pending_workflows" -> [old EXCEPT !.wfDue = TRUE]
    [] OTHER -> old

Tick ==
  /\ \A r \in Runs :
       /\ run[r].phase = "exec" => run[r].elapsed < Timeout[run[r].job]
       /\ run[r].phase = "settle" =>
            run[r].elapsed < Timeout[run[r].job] + SettleTicks
  /\ row' = [j \in Jobs |-> Aged(row[j])]
  /\ run' = [r \in Runs |-> IF Owns(r)
                            THEN [run[r] EXCEPT !.elapsed = @ + 1]
                            ELSE run[r]]
  /\ UNCHANGED <<poll, runningCount, op, faults, wakes>>

Crash(p) ==
  /\ faults < MaxFaults
  /\ faults' = faults + 1
  /\ poll' = [k \in Polls |-> IF Home[k] = p THEN IdlePoll ELSE poll[k]]
  /\ run' = [r \in Runs |-> IF Home[r] = p THEN FreeRun ELSE run[r]]
  /\ op' = [o \in Operators |-> IF Home[o] = p THEN NoJob ELSE op[o]]
  /\ runningCount' = [runningCount EXCEPT ![p] = 0]
  /\ UNCHANGED <<row, wakes>>

-----------------------------------------------------------------------------
PollStep(k) ==
  \/ ReclaimExpired(k) \/ CheckSlots(k)
  \/ FindQueued(k) \/ ClaimQueued(k) \/ ClaimQueuedMissed(k)
  \/ FindWorkflows(k) \/ ClaimWorkflows(k) \/ ClaimWorkflowsMissed(k)

RunStep(r) == BodyEnds(r) \/ TimerFires(r) \/ Settle(r) \/ OrphanEnds(r)

Next ==
  \/ \E k \in Polls : \/ TimerPoll(k) \/ PollStep(k) \/ PollDbError(k)
                      \/ ApprovalWake(k)
                      \/ \E j \in Jobs : Enqueue(k, j)
                      \/ \E o \in Operators : RequeueWrite(o, k)
  \/ \E r \in Runs : RunStep(r) \/ SettleError(r)
  \/ \E o \in Operators : \/ RequeueGone(o)
                          \/ \E j \in Jobs : RequeueRead(o, j)
  \/ Prune
  \/ Tick
  \/ \E p \in Procs : Crash(p)

Spec == Init /\ [][Next]_vars

\* The timer of a worker process fires for ever, queries return, a run's timer
\* fires if its body does not end, external calls have limits of their own so
\* that orphans end, and time passes.  Requests, approvals, pruning, faults and
\* the polls of processes without a timer are not fair.
Fairness ==
  /\ \A k \in Polls : WF_vars(PollStep(k))
  /\ \A k \in Polls : Home[k] \in TimerProcs => WF_vars(TimerPoll(k))
  /\ \A r \in Runs : WF_vars(RunStep(r))
  /\ WF_vars(Tick)

FairSpec == Spec /\ Fairness

-----------------------------------------------------------------------------
(* Properties.                                                              *)

\* Type correctness of the table and of the in-memory records.
TypeOK ==
  /\ row \in [Jobs -> JobRow]
  /\ poll \in [Polls -> Poll]
  /\ run \in [Runs -> Run]
  /\ runningCount \in [Procs -> Int]
  /\ op \in [Operators -> Jobs \cup {NoJob}]
  /\ faults \in 0..MaxFaults
  /\ wakes \in 0..MaxWakes

\* No job is ever in the hands of two runs, in one process or in two: the
\* conditional update of a claim and the lease together are a lock.
SingleOwner ==
  \A r1, r2 \in Runs :
    Owns(r1) /\ Owns(r2) /\ r1 # r2 => run[r1].job # run[r2].job

\* Only a job whose run is gone is taken back by the lease: a live run always
\* ends and writes its row before requeueExpiredRunningJobs can see it expired.
ReclaimsOnlyAbandoned ==
  [][\A j \in Jobs :
       row'[j].leaseReclaimCount > row[j].leaseReclaimCount => ~Owned(j)]_vars

\* The table and the runs, seen as the jobs of JobLease.
JobState ==
  [j \in Jobs |->
     CASE row[j].status = "queued" -> "waiting"
       [] row[j].status \in {"pending_workflows", "pending_approval"} -> "parked"
       [] row[j].status = "running" -> IF Owned(j) THEN "held" ELSE "abandoned"
       [] OTHER -> row[j].status]

JL == INSTANCE JobLease WITH state <- JobState

\* Whatever the polls, processes, requeues and faults do, each job moves as
\* JobLease allows: held by one run until that run ends or dies, recovered when
\* abandoned, never touched once it succeeded, submitted again only once failed.
ImplementsJobLease == JL!Spec

\* A job is only given up after all its attempts; a run re-claimed from
\* pending_workflows counts its own attempt twice, so one that ever waited for
\* workflows may miss one.  An approval sets attempts back to 0 while a poll may
\* hold the number it read before, and a claim does not compare it: once a job
\* was woken a later failure may come too early, so nothing is said from then on.
NoEarlyFailure ==
  wakes = 0 => \A j \in Jobs : row[j].status = "failed" =>
    row[j].attempts + (IF row[j].wfChecks > 0 THEN 1 ELSE 0) >= MaxAttempts

\* runningCount is exactly the number of runs that have not returned: no path
\* through success, failure, parking or a database error leaks or frees a slot.
SlotsCounted ==
  \A p \in Procs : runningCount[p] =
    Cardinality({r \in Runs : Home[r] = p /\ Owns(r)})

\* The polls past the test of drainOnce, whose claim is not counted yet.
Claiming(p) ==
  {k \in Polls : Home[k] = p /\ poll[k].pc \notin {"idle", "reclaim", "check"}}

\* drainOnce tests the counter before it awaits the claim, so overlapping polls
\* overshoot DEPLOY_QUEUE_CONCURRENCY, but by at most one run for every poll
\* beyond the first.
OvershootBound ==
  \A p \in Procs :
    runningCount[p] + Cardinality(Claiming(p)) <
      Concurrency + Cardinality({k \in Polls : Home[k] = p})
      \/ Cardinality({k \in Polls : Home[k] = p}) = 0

\* Every job in the queue, running or waiting for workflows comes to an end:
\* done, failed or handed to a human, whatever crashes and lost writes happen.
EveryJobSettles ==
  \A j \in Jobs :
    row[j].status \in {"queued", "running", "pending_workflows"} ~>
      row[j].status \in {"succeeded", "failed", "pending_approval", "deleted"}

\* README.md:411: DEPLOY_QUEUE_CONCURRENCY bounds the jobs a process executes.
ConcurrencyRespected == \A p \in Procs : runningCount[p] <= Concurrency
=============================================================================
