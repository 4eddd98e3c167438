# Formal models of the kumpeapps deployment bot

This directory holds TLA+ models of the deployment bot, the configurations
with which TLC checks them on small instances, and proofs that TLAPS checks for
every instance. Source paths below are relative to the repository; `PROJECT.json`
maps every definition to the lines it models.

    tlc -config MCDeploymentQueueLease.cfg MCDeploymentQueueLease.tla
    tlapm DeploymentQueueProofs.tla

## 1. The system

The bot is a Fastify server with background workers over a MariaDB database.
`index.ts` starts it in the role `web`, `worker` or `all`; several processes may
share the database. GitHub sends webhooks; pushes, comments and finished
workflows become deployment jobs; a job makes a deployment that may need an
approved virtual machine, deploys over SSH and reports to GitHub.

| Component | State | Operations | Talks to |
|---|---|---|---|
| Deployment queue (`deployment-queue.ts`, `deployment-job-cleanup.ts`) | table `deployment_jobs`; per process `runningCount`, the database backoff | enqueue, poll (reclaim, claim), run, requeue, prune | runner (call), VM approval (parks and wakes), GitHub handlers (enqueue) |
| Webhook intake (`POST /github/webhook`, `webhook-processing-queue.ts`, `webhook-backfill.ts`, `webhook-delivery-cleanup.ts`, `webhook-retry-scheduler.ts`) | table `github_webhook_deliveries`; per process the list `pending` and `activeCount` | receive, suppress, accept, handle, settle, replay, prune | event handlers (call), GitHub's delivery log |
| Event handlers and bot commands (`webhooks.ts`, `github-automation.ts`) | none of their own | push, labels, pull requests, releases, redeploy, bot commands, installation events, vm-deleted | queue, approval, repositories |
| VM approval (`vm-approval.ts`) | table `vm_approval_requests` | create a request and its issue, approve by comment, cancel | queue (wake), runner (check), GitHub issues |
| Deployment runner (`deployment-runner.ts`) | tables `deployments`, `deployment_steps` | executeDeployment: gates, quota, duplicate check, approval, VM, SSH, Caddy, status, compensation | Virtualizor, SSH, GitHub, Nebula |
| Virtualizor VMs (`virtualizor.ts`) | table `vms`, the hypervisor | ensure (reuse, rename, create, adopt, wait), delete | hypervisor API |
| GitHub status API (`github-status.ts`) | circuit breaker; GitHub's deployments, check runs, error issues | retried calls, workflow verdicts, statuses, issues | GitHub |
| Repository lifecycle (`installations.ts`, `repository-initialization.ts`, `repository-tokens.ts`, `repository-token-provisioning.ts`, `repository-cleanup.ts`) | tables of installations, repositories, secrets; secrets at GitHub | install, add, remove, initialise, provision tokens, clean up | GitHub, Nebula |
| SSH and Caddy (`ssh-deployer.ts`, `ssh-deploy-scripts.ts`) | files, sessions and containers on the VM; files on the Caddy host | deploy, poll, compensate; deploy and remove a site | VM, Caddy host |
| Nebula (`nebula-provisioning.ts`) | clients, tokens, certificates | create, share, delete; renew, revoke | Nebula API, GitHub |
| VM users (`vm-user-management.ts`) | accounts and groups on the VM | sync the administrators | VM, GitHub |
| Rules and configuration (`deploy-rules.ts`, `schemas/`, `github-config-sync.ts`) | table `deployment_configs` | match triggers, validate, sync | GitHub |
| Secrets (`secret-crypto.ts`, `repository-secrets.ts`, `operations.ts`) | table of secrets | encrypt, read, rotate | - |
| Rate limiting (`rate-limit.ts`) | buckets in memory | consume, clean up | - |
| Administration, views, health, registry mirror, text helpers | sessions, roles, counters | mostly reads | - |

### What is hard in it, and what makes it correct

* **Deployment queue.** Every `await` of `poll()` lets another poll of the same
  process, another process, a run or a request move. The conditional update of a
  claim and the lease together are a distributed lock; the final writes of a run are by
  id only. Correct means: one owner of a job, a reclaim only of an abandoned job, as
  many attempts as promised, slots that neither leak nor multiply, and an end for
  every job, with crashes and lost writes.
* **Webhook intake.** Deliveries are duplicated, lost, answered too late, replayed
  past the queue, and forgotten with the memory of a process. Correct means: a
  duplicate does not start a second handler, what was processed stays so, and what
  was missed is replayed.
* **VM approval.** Four handlers (deployment, comment, two kinds of deletion)
  share a request with no transaction among them. Correct means: no VM without an
  approval, and an approval that wakes the deployment waiting for it.
* **Runner.** A run writes to the database, to GitHub, to the VM and to Caddy, in
  an order and with a recovery of its own, and any of these calls fails alone. A run that
  timed out goes on beside its retry. Correct means: what a run reports is what it left,
  nothing at GitHub stays open without a run at work, an error issue is open exactly after
  a failure.
* **VMs.** The quota, the hostname and the address are read before awaits and used
  after them; the hypervisor creates machines whose answer is lost. Correct means: the quota
  holds, no machine, name or address is taken twice, every machine is in the database, no
  row outlives or dies before its machine.
* **SSH and Caddy.** A script runs on in its own session after the bot has given up on
  it; everybody's files lie on one Caddy host. Correct means: the containers of a success
  come from its own files, a failed deployment is over, a rollback restores.
* **GitHub API.** Calls that began before the breaker opened still end, and move or close it.
  Correct means: a call is skipped only on enough fresh failures.
* **Repositories and Nebula.** A token, its copy at GitHub, the clients and their tokens
  are written one awaited call after the other; the token's column doubles as the mark of
  an initialised repository; the App is removed and installed again in between. Correct
  means: copies agree, and no client is left behind or missing.
* **Events.** All events of a repository share one stored configuration and one label.
  Correct means: a commit is deployed with its own configuration, one pull request is labelled.
* **VM users.** A question to the VM that fails is answered no. Correct means: a sync that
  succeeds leaves exactly the authorised administrators.

`PROJECT.json` lists these hazards one by one at their lines, with the properties
that would catch them.

## 2. Modules

| Module | Models |
|---|---|
| `JobLease` | abstract: what the queue promises its clients about one job |
| `DeploymentQueue` | the queue, in detail |
| `DeploymentQueueProofs` | its theorems |
| `VmApproval` | the approval protocol, with the queue reduced to queued, running, parked |
| `VmApprovalProofs` | its theorems |
| `WebhookDelivery` | intake, in-memory queue, backfill |
| `WebhookDeliveryProofs` | its theorems |
| `DeploymentRunner` | executeDeployment: its course, its early ends, its recovery, what it writes to GitHub |
| `DeploymentRunnerProofs` | its theorems |
| `VmProvisioning` | quota, creation, adoption, rename and deletion of machines and their rows |
| `VmProvisioningProofs` | its theorems |
| `ComposeDeploy` | the compose deployment over SSH, with the script in its session |
| `CaddyDeploy` | deployments, removals and rollbacks on the Caddy host |
| `GithubApi` | retries and circuit breaker of the calls to GitHub |
| `WorkflowGate` | the two verdicts on a commit's workflows |
| `DeploymentServices` | the parts of a deployment side by side, with their assumptions and properties |
| `DeploymentServicesProofs` | theorems of compose, Caddy, GitHub calls, workflow verdicts and the runner among them |
| `RepositoryLifecycle` | installation, initialisation, cleanup and the token job |
| `RepositoryLifecycleProofs` | its theorems |
| `EventDeploys` | the events that deploy, over the shared configuration |
| `VmUsers` | the sync of a VM's administrators |
| `RepositoryEvents` | repository, events and administrators side by side, with their assumptions and properties |
| `RepositoryEventsProofs` | theorems of events and administrators |
| `MC...` | instances for TLC; `MCDeployments` and `MCRepositories` hold several parts each |

The parts of a deployment are modelled one by one and not composed into one state
space: a step of a larger part stands for a smaller one by what it may leave behind.
`DeploymentQueue` runs a body that ends well, badly or parked: `DeploymentRunner` shows
what that body does. There the step `compose` leaves the containers up, down or either way
after a failure, and `ComposeDeploy` shows when which is so; the step `caddy` stands for
`CaddyDeploy`, the step `approval` for `VmApproval`, the step `vm` for `VmProvisioning` and
`VmUsers`, the step `workflows` for `WorkflowGate`, and a lost call for one that `GithubApi`
skips or gives up on.

Definitions named "Mutant" in the comment above them are faulty versions of the definition
that follows; they are used by nothing. Replacing the definition by its mutant makes
TLC find the property that `PROJECT.json` pairs with it violated, which shows that the
property depends on that line of the code.

### DeploymentQueue

`row` is the table, `poll` the invocations of `poll()`, `run` those of
`runClaimedJob`, `runningCount` the counter, `op` the `requeueDeploymentJob` calls
between their read and their write. A poll has a program counter with one value
per await: `ReclaimExpired` (requeueExpiredRunningJobs), `CheckSlots` (the test of
drainOnce), `FindQueued`/`ClaimQueued` (the read and the conditional update of
claimNextJob), `FindWorkflows`/`ClaimWorkflows`. A claim starts a run with
the row *as it was read*. `BodyEnds` and `TimerFires` are the two sides of the
race of executeWithTimeout; `Settle` is the write of whichever outcome, with the
attempts of the stale snapshot; the body of a timed-out run remains as an
orphan. `SettleError` and `PollDbError` are the catch blocks, `Crash` the death and restart
of a process.

Abstractions: time is a number of ticks; createdAt order is the order of ids; the
database backoff is left out, since a poll that it skips is a poll that is not taken;
`nextWorkflowCheckAt` passes within one tick; the window since
`workflowCheckStartedAt` is a number of checks; retention may remove any set of
finished rows; messages and statistics are left out. `SettleTicks` bounds the time a
finished run needs for its last write. A reclaim that commits but is reported as failed is
the reclaim followed by an error of the next query.

### VmApproval

`request`, `vm` are tables by target, `job` the deployments with one program counter
value per await between the check of the approval and the creation of the VM,
`handler` the comment handlers between read, approval and wake, `deleter`
the deletions between the cancelling of the request and the deletion of the row. The
text search `contains 'issue #N'` is modelled by what it does: it crosses
repositories and matches numbers that begin with N (`Mentions`). Left out: reminders,
the closing of the issue, comments of users who may not approve. The status
`rejected` is written nowhere in the source and has no action. A target keeps one
hostname and therefore one row of `vms`.

### WebhookDelivery

`row` is the table, `request` the requests between the read of the row and the
queueing, `item` the entries of the in-memory queue, `pending` and `activeCount`
the variables of that name in each process, `replay` the backfills, and `missed` says
whether GitHub's log holds a failed request of the delivery, which is what the backfill
reads. `drainQueue` has no await, so it is part of `Accept` and `EndItem`. GitHub may
lose a request (`LoseDelivery`), stop waiting for its answer (`GiveUp`) and send it
again by hand, but not while it is still waiting for an answer.

Left out: what a handler does (it succeeds or throws), counters, the age limit and the
page size of the backfill, writes that commit and are reported as failed, and the
retry scheduler, which reads and logs only (`webhook-retry-scheduler.ts:61-69` says that
reprocessing is not implemented, although README.md:394 promises an automatic retry). A row
is pruned only while nothing is at work on it: the retention is counted in days.

### DeploymentRunner

`body` is the runs of `executeDeployment`. The course of a run, in the code's order, is
the sequence `Deploy` of steps; `Recover` is the catch block, and the other courses are the
early ends: a rejected policy (`reject`), a user without approval (`refuse`), a VM that waits for
approval (`park`). A run holds the steps it still has to do, the id of GitHub's deployment, whether
the containers are up (`composeDeployed` in the code), and the check run it has listed. `row` is
the table, `hosted`, `checks` and `issues` are what GitHub holds, `vm` and `caddy` whose
files are served. A check run takes two actions, `ListChecks` and `WriteCheck`, since the
code lists and then patches or creates. `Start` begins a run beside another: the jobs of two
commits, or the retry of a job whose body outlived its timeout.

Left out: the resolution of secrets and variables (its failure is a failing gate), the
text of comments and logs, the fallback from check runs to commit statuses.

### VmProvisioning

`machine` is the hypervisor, `row` the table `vms`, `call` the calls of
`ensureVirtualizorVm` with the quota check before them, one program counter value per await;
`remover` the bot's and the webhook's deletions; `notices` the `vm-deleted` webhooks to come.
The hypervisor is external: it may create a machine and lose its answer, answer without an
id, or lose a machine in its panel. A row's `id` is modelled, because updates and deletions go by
an id read earlier. Left out: mode `ssh`, plans and their pools, a row without an address.

### ComposeDeploy and CaddyDeploy

`disk` is the pair of files in the deployment's directory, `containers` whose files they were
started from, `session` each deployment's screen session and exit file. A lost command (`Lost`) is
one whose retries are used up or whose answer was lost after it took effect; `Broken` is a failure
of the script's own commands. `PollTimesOut` needs a loss while the session is still at work: the
deadline (SSH_DOCKER_DEPLOY_MAX_SECONDS) counts as one. In `CaddyDeploy` a file is a version
that Caddy accepts or not, and one that is not accepted by anybody keeps Caddy from loading all.
The shell text is abstracted to what it does to files, containers and exit codes; the repair of Docker and
Nebula inside the script is part of `Broken` and `Fine`.

### GithubApi and WorkflowGate

`failures` and `openedAt` are the module variables of the source, `call` the calls between
their look at the breaker and their end. `WorkflowGate` states checkWorkflowsOnce and
checkRequiredWorkflowRuns as operators on the latest run of each workflow.

### RepositoryLifecycle

`row` is the repository's row, `secret` and `shared` are its secrets at GitHub, `kept` the copy
in the database, `clients` those of Nebula. A handler (`worker`) is an event, a bot command, a push
or an administrator's request, with one point per awaited call of `installations.ts`,
`repository-cleanup.ts`, `repository-initialization.ts`, `repository-tokens.ts` and
`nebula-provisioning.ts`. `Job` is the token job with its guard `isRunning`. Deleting an
installation deletes its repositories with all they own (the cascade of the schema).
`hurt` remembers the worst that happened, by which the properties say what they except.

### EventDeploys

`snapshot` is the one row of `deployment_configs` of a file, by the commit whose file it
holds. A handler stores the commit's file (`SyncConfig`), reads the row back and
judges (`Judge`), enqueues and, for a label, takes the label from the other pull requests one by
one. `ground` remembers how the handler came by its configuration: stored by itself, not
stored, or overwritten by another between store and read. Patterns of branches and tags, and the schema of
the file, are left out: a commit has one rule or no valid file.

### VmUsers

`accounts`, `grouped` and `admins` are what is on the VM, `team` the GitHub group that a
configuration may name, `sync` the calls of `syncAuthorizedAdminsToVm`. A failed question answers no
(`Join` adds again, `ReadMembers` finds nobody); a failed change ends the sync, made or not.

## 3. Runs

| Run | Question | Result |
|---|---|---|
| `queue_lease` | one owner, attempts, lease, refinement of `JobLease`, every job ends | holds |
| `queue_slots` | slots are counted; how far do overlapping polls overshoot | holds |
| `queue_concurrency` | is `DEPLOY_QUEUE_CONCURRENCY` a bound (README.md:411)? | violated |
| `approval` | no VM without approval; a patient user's approval resumes the deployment | holds |
| `approval_resume` | does *every* approval resume (vm-approval.ts:304)? | violated |
| `approval_delete` | does a deletion make the next VM need a new approval (webhooks.ts:2155)? | violated |
| `webhook` | one handler, processed stays processed, missed is replayed, the queue drains | holds |
| `webhook_duplicate` | are all duplicates suppressed (README.md:495)? | violated |
| `webhook_stale` | are stale deliveries reclaimed automatically (README.md:497)? | violated |
| `deployments` | does what a deployment reports agree with what it leaves: machines, GitHub, VM, Caddy, breaker, verdicts | holds |
| `compose_boot` | does the service of a new deployment survive reboots (ssh-deployer.ts:394)? | violated |
| `repositories` | do tokens, clients, configurations, labels and administrators agree over a repository's life | holds |

`deployments` and `repositories` explore several modules in one run. The modules
share no state, so nothing is lost by exploring them one at a time: the first state
chooses the part that moves (`part`), and the other variables stay as they are. The actions
and properties are those of the modules: `DeploymentServices` extends `VmProvisioning`
and takes the runner, compose, Caddy, the calls and the verdicts by `INSTANCE`;
`RepositoryEvents` extends `RepositoryLifecycle` and takes the events and the administrators.
The MC modules extend these two, so that TLC evaluates their assumptions, and the proofs
are about the same instances.

What the violations show:

* `queue_concurrency`: drainOnce tests the counter, awaits, and increments it. Two
  polls both pass the test and one process runs two jobs with a limit of one. The excess is
  bounded by the number of overlapping polls (`OvershootBound`).
* `approval_resume`: an approval between the storing of the request and the parking of
  the job finds nothing to wake. The job then parks on an approved request.
* `approval_delete`: a deployment that has passed its check creates a VM after a
  deletion cancelled the approval.
* `webhook_duplicate`: two requests of a failed delivery read the same row and both
  take it, because the update names the id and not the status.
* `webhook_stale`: a delivery answered with 202 is lost with the memory of its
  process. The lease is only looked at when the delivery comes again.
* `compose_boot`: whether a deployment is the first is asked of a file that the deployment
  writes before it may fail. A first deployment that fails leaves the file, the next one
  succeeds and never enables the service.

### What the properties except

Several guarantees hold only while two actors do not meet in a window the code leaves
open. The models contain these windows, and a history variable remembers that one was
entered, so that a property excepts exactly that and nothing else:

| Variable | Window | What happens in it |
|---|---|---|
| `raced` (VmProvisioning) | two calls between the read of quota, list or pool and the row or machine | quota exceeded, one address or name for two machines |
| `lost` (VmProvisioning) | a creation whose answer or row is lost | a machine nobody knows |
| `overlapped`, `doubled` (DeploymentRunner) | two runs of an environment, or of a commit, at once | containers of one, status of the other; two error issues; an open check run |
| `missed` (DeploymentRunner) | a lost status call or a dead process | a deployment in progress at GitHub for ever |
| `crossed` (ComposeDeploy), `shared` (CaddyDeploy) | two deployments of one VM or site at once | containers from mixed files; a backup of the other's file |
| `hurt` (RepositoryLifecycle) | a token or client call that fails, two initialisations at once, a cleanup beside a provisioning, an installation event so late that it discards a row while or after it is initialised | different tokens; clients nobody deletes |
| `ground` (EventDeploys) | another event's store between store and read | a commit deployed with another's configuration |
| `crossed`, `read` (VmUsers) | two syncs at once; members that could not be read | a former administrator stays |

Each of these windows was found by TLC as a counterexample to the property without
the exception; none contradicts a line of the documents, so they are described here and in the hazards
and not listed as findings.

Seen while modelling, without a run: the runner skips a deployment whose row says `succeeded`
but writes `success` (deployment-runner.ts:504-508), so the skip never happens; the token job
gives a repository that was never initialised its token, after which `/bot initialize` is
refused as already done; a command to reinitialize in an issue that already has its branch
fails at the creation of the branch after the cleanup; the header of
`repository-token-provisioning.ts` promises to recover tokens deleted at GitHub, while
repositories with a token in the database are skipped.

### Bounds, and why they are enough

* `queue_lease`: one job, because a job's fate depends on the others only through
  the free slots. Two processes with one poll and one run each, only one with a timer:
  a poll of each role meets a run of the other. Two attempts, so a retry happens;
  a timeout of 1 tick, a last write within 1, a lease of 2, the tightest lease that satisfies
  the assumption of the theorems; one re-check of workflows, one fault, one requeue. The other
  writers are exercised with more jobs by the second run.
* `queue_slots`: one process, two polls, two runs, two jobs and an approval: the
  smallest instance in which polls overlap. A success write that commits but is reported
  as failed is allowed here (`AmbiguousWrites`); it contradicts `JobLease`, which lets
  nothing happen to a job that succeeded, so `queue_lease` assumes it away.
* `approval`: two targets in two repositories whose issue numbers 1 and 12 overlap as text,
  one job of the patient target that may deploy twice, two competing jobs of the other,
  a comment handler, a deletion, a failed run or deletion, and a crash of the handler.
* `webhook`: one delivery sent three times (the first, a duplicate, and one of a
  row that has gone stale or failed), two processes, two items in the one with
  requests and one in the other, a backfill, one fault, and the tightest lease. Deliveries
  only meet in the queue of a process, where two items of one delivery fill and exceed
  the concurrency of one.
* `deployments`: two targets of one user with a limit of one machine, two addresses, hostnames
  that the two may share, two calls and two deletions among three starts, three machines, one fault: a
  machine is made, deleted and made again while another call is on its way. Two runs of two commits, of which
  one has a caddyfile, with one fault. Two deployments to one VM with two lost commands and one
  failure of the script, so that a session outlives its deployment and meets the next. Three starts on two
  sites with one fault. Two calls at once, seven in all, against a breaker with threshold two and a
  cool-down of two ticks: it opens, cools down, and opens again. Calls and deletions are alike (SYMMETRY).
* `compose_boot`: two deployments, no lost command, one failure of the script.
* `repositories`: one environment (each goes through the same calls), two handlers and the job, three
  starts: an installation, an initialisation and a cleanup, or a second of one of them, with one fault. Four commits
  and three events over two pull requests and the default branch. Two users, two syncs, one
  change of the group. Instead of SYMMETRY, which liveness forbids, `InTurn` lets the first of two idle
  handlers take the work.

CHECK_DEADLOCK is FALSE for all but the queue: when all comments, sends, starts
and deployments are used up, nothing has to happen. The queue never stops, since its
timers fire for ever.

### Fairness

* Queue: polls and runs go on (queries return or throw), the timer of a worker process
  fires again and again (`setInterval`), time passes, and the body of a timed-out run
  ends because its external calls have limits. Requests, approvals, retention, faults and
  the polls of web processes are not fair.
* Approval: deployments and handlers run on. Nobody has to comment or delete, and
  a crashed handler does not come back: its delivery may be sent again by nobody.
* Webhooks: queries and handlers return. `ReplayRead` is strongly fair, since the
  interval timer of the backfill fires for ever and every pass walks the whole log,
  while the row may be out of its reach ("processed", then retaken) in between. GitHub
  need not send anything again.
* Repositories: the token job (`JobNext`) is weakly fair: `setInterval` starts a pass again and
  again, and a pass goes on, because its queries and calls return or throw. Handlers and the owner's
  actions are not fair. The other new modules state safety only and no fairness.

## 4. Proofs

| Module | Theorem | Says | Assumes |
|---|---|---|---|
| `DeploymentQueueProofs` | `TypeCorrect` | type invariant | - |
| `DeploymentQueueProofs` | `MutualExclusion` | `SingleOwner` | `LeaseCovers`, `OneOperator` |
| `DeploymentQueueProofs` | `ReclaimsAreSafe` | `ReclaimsOnlyAbandoned` | `LeaseCovers`, `OneOperator` |
| `DeploymentQueueProofs` | `SlotsNeverLeak` | `SlotsCounted` | - |
| `DeploymentQueueProofs` | `OvershootIsBounded` | `OvershootBound` | - |
| `DeploymentQueueProofs` | `NoAttemptLost` | `NoEarlyFailure` | - |
| `DeploymentQueueProofs` | `QueueImplementsLease` | the steps and the initial states of `JobLease` (`ImplementsJobLease` without its fairness) | `LeaseCovers`, `OneOperator`, `WritesAreCertain` |
| `VmApprovalProofs` | `ApprovalTypeCorrect` | type invariant | - |
| `VmApprovalProofs` | `ApprovalGate` | `NoVmBeforeApproval` | - |
| `WebhookDeliveryProofs` | `DeliveryTypeCorrect` | type invariant | - |
| `WebhookDeliveryProofs` | `SingleHandling` | `OneHandler` | `PromptHandlers` |
| `WebhookDeliveryProofs` | `ProcessedForGood` | `ProcessedStays` | `PromptHandlers` |
| `WebhookDeliveryProofs` | `SlotsAreUsed` | `WorkConserving` | - |
| `VmProvisioningProofs` | `ProvisioningTypeCorrect` | type invariant | - |
| `VmProvisioningProofs` | `NoOrphans` | `AccountedFor` | - |
| `VmProvisioningProofs` | `NamesAreUnique` | `NoDuplicateVm` | - |
| `VmProvisioningProofs` | `AddressesAreUnique` | `NoSharedAddress` | - |
| `VmProvisioningProofs` | `RowsGoLast` | `RowsOutliveMachines` | - |
| `VmProvisioningProofs` | `QuotaHolds` | `WithinQuota` | - |
| `VmProvisioningProofs` | `RowsLeadHome` | `RowsPointHome` | - |
| `DeploymentRunnerProofs` | `RunnerTypeCorrect` | type invariant | `Commits # {}` |
| `DeploymentServicesProofs` | `PartsTypeCorrect` | `TypesOK` of all parts | - |
| `DeploymentServicesProofs` | `DeploymentInProgressEnds` | `InProgressEnds` | - |
| `DeploymentServicesProofs` | `VmServesOutcome` | `VmAgreesWithRow` | - |
| `DeploymentServicesProofs` | `IssueOfLastFailure` | `IssueTellsOutcome` | - |
| `DeploymentServicesProofs` | `ChecksAreClosed` | `ChecksSettle` | - |
| `DeploymentServicesProofs` | `FailedIsOver` | `FailureFinal` | - |
| `DeploymentServicesProofs` | `SuccessIsRunning` | `SuccessRuns` | - |
| `DeploymentServicesProofs` | `RollbackIsExact` | `RollbackRestores` | - |
| `DeploymentServicesProofs` | `BreakerCorrect` | what the breaker's variables mean | - |
| `DeploymentServicesProofs` | `SkipsAreEarned` | `SkipsEarned` | - |
| `DeploymentServicesProofs` | `GatesAgree` | `VerdictsAgree` | - |
| `RepositoryLifecycleProofs` | `LifeTypeCorrect` | type invariant | - |
| `RepositoryLifecycleProofs` | `TheSecretMatches` | `SecretMatches` | - |
| `RepositoryLifecycleProofs` | `ClientsAreAccountedFor` | `ClientsAccounted` | - |
| `RepositoryEventsProofs` | `EventsTypeCorrect` | `TypesOK` of all parts | - |
| `RepositoryEventsProofs` | `OwnConfiguration` | `JobConfigMatches` | - |
| `RepositoryEventsProofs` | `OneDeployLabel` | `OneLabelled` | - |
| `RepositoryEventsProofs` | `SyncSettles` | `AdminsSynced` | - |

Every safety property that a passing run checks is the statement of a theorem; the run shows it
on one instance, the theorem for all. A dash under "Assumes" means nothing beyond the named
assumptions of the model's own module, which TLC evaluates on every run
(`QueueAssumption`, `ApprovalAssumption`, `DeliveryAssumption`, `VmAssumption`, `LifeAssumption`,
`ServicesAssumption`, `EventsAssumption`). These give the constants their types. They ask that
the sets which are counted are finite (polls and runs, the items of a process, the targets of a user, the
environments), that bounds are numbers, that a set from which an initial state
picks is not empty, and what the schema of the environment enforces: a positive threshold
and a cool-down and retries that are natural numbers. Every bound is a constant of which
nothing else is assumed, so the theorems hold for every number of faults, starts and ticks.

**Mutual exclusion of the queue.** `SingleOwner` is not inductive: nothing in it
stops a claim of a job that a run holds. `IInv` adds that the row of a held job is
`running` and as old as its run at most (`OwnInv`), so that neither a claim nor the
lease can take it; that a requeue request past its read points to a failed or deleted
row (`OpInv`), so that its write by id does not queue a running job; and that a poll about
to claim has a job (`PollInv`). `LeaseCovers` says that the lease is at least the
timeout of a job plus the time of its last write. It holds for the defaults (35
and 30 minutes) and not for a job with a `timeoutMs` of up to two hours
(`routes/deployments.ts:22`). `OneOperator` says that one requeue
request is served at a time: two requests that both read `failed` break the
invariant, because the second writes by id after the first one's job has been claimed.

**Slots.** A step that touches the counter of a process starts a run, ends one, or empties
a process that dies (`SlotCases`); so the counter is the number of held runs.
A poll that is about to claim saw a free slot: together running jobs and claiming
polls are below the limit plus the polls (`OvershootBound`), and this is inductive with the types alone.

**Attempts.** `AttemptInv` has three parts. `PollKnows` and `RunKnows`: what a poll or a run remembers of
a job's attempts is at most what the row says, and the claim a run began with is counted in the row,
or the row tells that the job waited for workflows. `RowKnows`: a failed row has used its attempts up,
with one set off for such a wait. The approval's wake sets attempts back to 0 under polls that
remember more, so all three are claimed only while no approval has woken a job.

**The queue implements the lease.** Each action is a step of `JobLease` under the mapping, or
leaves its variables as they are; one lemma per action. The mapping needs mutual exclusion,
because a step of a run that lost its job would move the job of another, and
`RunningInv`: the row of an owned job is `running`. `WritesAreCertain` (no success write that commits and is
reported as failed) is needed because `JobLease` lets nothing happen to a job that succeeded.

**The approval gate.** The invariant says that a deployment beyond its check has a
target that was once approved; `approvedAt` is written by every approval and
cleared by nothing.

**One handler of a delivery.** `DeliveryInv` says, of each delivery GitHub has not
logged as failed: no backfill is at it, at most one request is, the row of a live item
is in progress and no older than the item, and a request on its way to take the
delivery has no live item beside it. `QueueInv` (the queue of a process holds waiting
items of that process, each once) is what makes a drain leave the other items alone. `PromptHandlers`
says that a handler ends within the lease: nothing in the code enforces it, handlers
have no timeout. Deliveries that GitHub did log as failed are excluded with reason: the backfill
takes rows in progress, and overlapping requests both retake a failed one.

**No idle slot.** `Conserving(p)`: the active count of a process is the number of its active
items, at most the concurrency, and when items wait, every slot is taken. A drain starts as many items as
there are waiting or slots free (`DrainConserves`), and they are distinct by `QueueInv`.

**The circuit breaker.** `BreakerInv` relates the two variables to history: `failures` is at
most the failures since the last success, and an open breaker was opened by the
last of at least as many as the threshold. It is kept by calls that began before the breaker
opened and end after it closed.

**The runner.** A run is the list of steps it has left, so its place (`In(r, c, n)`) is a
position in one of the courses, and the invariants speak of places. `HostInv`: a
deployment in progress at GitHub was missed or belongs to one run between its two statuses. `OutcomeInv`: while runs did not
overlap, the only run knows at each place what it has made so (`AtKnown`: row, containers, site,
issue), and when none is at work, all of it tells the last outcome (`Told`). `CheckInv`: of a
commit whose runs did not overlap only the newest check run may be open, and a run that has its
outcome has still to close it. The theorems are proved of the module alone
(`DeploymentRunnerProofs`) and carried over to its instance among the services definition by definition (`SameRunner`).

**Caddy.** `CaddyInv` holds while nothing failed and no site was shared: each site has one deployment at
work, a file that differs from the one last kept is in the hands of a deployment that has its
backup (`FileInv`), and what Caddy serves is the file unless somebody is about to load it
(`ServedInv`). At rest nobody has a file in hand, so all files are kept and served.

**Compose.** `ExitInv` follows the exit file: only a session that ended leaves one, and one that says 0
comes from a session without a failure; without a loss a deployment has no session before it
starts one, and leaves its poll only when the session has ended. `AloneInv` holds while no two
deployments were under way at once: the files on the VM are those of the one that copied
them, and a session that started the containers, whoever's, took the files it found.
The sessions of deployments that gave up are not excluded: they may go on for ever.

**Events.** `GroundInv` follows the shared row: a handler that stored its commit's file finds that
commit or nothing there as long as no other stored, so what it takes to the queue is its own.
`LabelInv` makes `OneLabelled` inductive: of any two labelled pull requests, the handler of
one of the labels is still to take the other, because it has not read the list yet or
has the other in its list. `EventsConfigured` gives the constants their types, and says that there is a commit and that
`Main` is no pull request.

**VM users.** While a sync was alone all the time, who is authorised and not left to be added is
a member (`Achieved`), and after the members were read, who is a member and not authorised
is left to be removed. Two syncs that overlapped, of which one ended with the other's
picture, are excused by the property itself. `SyncsConfigured` says that GitHub answers with users.

**Machines.** `IInv` of `VmProvisioningProofs` has one part for each way a step finds its machine. A row names a machine
that exists (`RowInv`), a deletion the machine of the row it read, whose id is never used again (`RemoverInv`),
so that a late deletion does not take a newer row. A machine
of which the webhook tells is down (`NoticeInv`). A call holds a machine exactly between creating it and
storing the row (`CallInv`), which makes `AccountedFor` inductive. Between finding a name
free and creating, a call is alone with that name, and so with its address (`NameInv`,
`AddressInv`): the first to break either has raced. `QuotaInv` counts the targets of a user that have a row or a call
that promises one: while the user's calls did not race, that is at most the limit, and a call adds to it only
from a count it has just read. `HomeInv` makes `RowsPointHome` inductive: a call works on its target's
hostname, two calls of one target or of one name have raced, and what a call has made or is about to
mark agrees with the address of the machine.

**A repository's token.** `BasicInv` adds to the types what a worker remembers at each point. `TokenInv` holds while nothing that
the history excepts has happened: nobody provisions while another cleans up (`Apart`), a worker
that provisions has the row's token (`HasToken`), and the row's token is GitHub's secret, or
somebody is about to push it or to clear it (`SecretOnItsWay`). At rest nobody is.

**Nebula clients.** `CalmInv` places each client: a handler is deleting it, or one
handler has made it and is on its way with it to GitHub and to the database (`Held`), or it
is the one both of them hold (`Agreed`). No environment has two, a handler that initialises is
alone, and a repository with a token has all its clients unless a handler is still to make or delete
them (`Full`).

**Types of parts.** `PartsTypeCorrect` and `EventsTypeCorrect` assume the conjunction of the
parts' specifications, since the parts share no variable. The type of the runner needs that a run has
the end of a course left, that of the VM's users that a group's members have accounts.

### What attempts at proofs found

Properties that held on the instances TLC explored turned out to be false
in general when their invariants could not be made inductive, and are now stated with the exception:

* `NoEarlyFailure`: a poll reads a queued job with one attempt used; the job is claimed by
  another, parked for approval and woken, which sets its attempts to 0; the first poll claims it,
  counting from what it read. The row now says 1 and the run fails as if it had used 2. The property
  speaks of jobs as long as no approval has woken one (`wakes = 0`).
* `SecretMatches` and `ClientsAccounted`: an installation event that comes late finds the
  row of an earlier installation and discards it while, or after, a command initialises it. It takes four
  starts, one more than the run has. TLC confirmed it with four starts, and the corrected
  properties with four starts and no fault and, with two environments, three starts and a fault.

### Only model-checked

Liveness (`EveryJobSettles`, `PatientDeploymentResumes`, `MissedReplayed`,
`QueueDrains`, `TokenArrives`) and the fairness part of `ImplementsJobLease` are beyond the prover, as is
everything under ENABLED. The runs that expect a violation show what does not hold,
of which there is nothing to prove.

## 5. Not modelled, and the plan

What the plan has left:

1. Properties across parts, and their proofs: the runner with the approval and the queue in one
   module, so that a VM deleted while a run is on it, or a parked job beside its timed-out
   run, can be spoken of.
2. The rotation of the encryption key (`operations.ts`), the sessions and the cache of roles of
   the administration, collaborators and their invitations, Nebula certificates and their renewal: each
   is a short sequence of single-row writes, started by hand.
3. The pools of plans and the mode `ssh` of `virtualizor.ts`, the rate limiter's windows, patterns of
   deploy rules as operators against a reference definition.

Left out for good: shell text beyond its effects, cryptography, text generation, the static
admin page, statistics and health counters on which nothing decides, single-row
administration routes, and the retry scheduler, which only logs.

Known limits of the present models: two overlapping polls with stale snapshots may give a
job more than `MaxAttempts` attempts through reclaims and requeues (no property says
otherwise); two deployments of a target that both find no request open two issues, and the job on the
superseded one is not promised anything; the parts of a deployment are composed by what a step
may leave behind and not as one state machine, so a property across two parts (a VM deleted while
a compose deployment is on it) is not stated; `RollbackRestores` speaks of files that Caddy refuses, not of
commands that fail while the file is put back; a deadline and a lost command are one fault, a deadline that passes with
everything else in order is not told apart.
