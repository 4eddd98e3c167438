------------------------ MODULE RepositoryLifecycle ------------------------
(***************************************************************************)
(* One repository from its installation to its removal: the handlers of     *)
(* the installation events and of the bot commands in                       *)
(* src/src/routes/webhooks.ts, the administrator's requests in              *)
(* src/src/routes/repository-management.ts, and the services they call      *)
(* (installations, repository-initialization, repository-tokens,            *)
(* repository-cleanup, nebula-provisioning, the token provisioning job).    *)
(*                                                                         *)
(* The repository's row, the secrets GitHub holds for its workflows and its *)
(* Nebula clients are three systems nobody updates together.  A handler     *)
(* goes through them one awaited call at a time; handlers interleave, a     *)
(* call may fail, and a handler may stop anywhere.  Tokens and clients are  *)
(* numbers, 0 none; the collaborator invitations and the texts of comments, *)
(* files and the audit are left out.                                        *)
(***************************************************************************)
EXTENDS Integers, FiniteSets, FiniteSetsExt

CONSTANTS
  Environments, \* dev, stage, prod
  Handlers,     \* concurrent handlers of events, commands and requests
  Job,          \* the token provisioning job
  MaxStarts,    \* bound on the handlers started
  MaxFaults     \* bound on failed calls and stopped handlers

ASSUME LifeAssumption ==
  /\ IsFiniteSet(Environments) /\ Environments # {}
  /\ Job \notin Handlers
  /\ MaxStarts \in Nat /\ MaxFaults \in Nat

VARIABLES
  row,       \* table repositories: id (0 no row), active, installation, token
  app,       \* GitHub: the installation that covers the repository, 0 none
  secret,    \* GitHub: the repository's KUMPEAPPS_DEPLOY_BOT_TOKEN
  shared,    \* GitHub: each environment's NEBULA_CLIENT_TOKEN
  kept,      \* table repository_secrets: the same
  clients,   \* Nebula: the clients that bear each environment's name
  branch,    \* GitHub: the branch of the issue commands are given in
  worker,    \* handlers and the job: what each does, and what it has read
  isRunning, \* the job's guard
  fresh,     \* the last row, installation, token and client numbers given
  starts, faults,
  hurt       \* history: the worst that went wrong or crossed

store == <<row, kept>>
github == <<app, secret, shared, branch>>
bounds == <<starts, faults>>
vars == <<store, github, clients, worker, isRunning, fresh, bounds, hurt>>

Workers == Handlers \cup {Job}
NoRow == [id |-> 0, active |-> FALSE, inst |-> 0, token |-> 0]
Nothing == [e \in Environments |-> 0]
Idle == [at |-> "idle", does |-> "job", id |-> 0, inst |-> 0, token |-> 0,
         left |-> {}, seen |-> Nothing]

Cleanups == {"remove", "uninstall", "reinit", "uninit", "clear", "drop"}
Tasks == Cleanups \cup {"install", "add", "init", "push", "job"}
Cleaning == {"list", "delete", "unsecret", "unshare", "forget"}
Provisioning == {"write", "token", "create", "share", "keep"}
Initializing == {"issue", "ensure"} \cup Provisioning
Points == Cleaning \cup Provisioning \cup
  {"idle", "upsert", "leave", "select", "find", "mark", "drop", "command",
   "check", "issue", "ensure", "setup"}

\* What the history remembers: the worst that happened, which covers the rest.
Unhurt == 0
ByJob == 1        \* the job gave an uninitialised repository its token
ClientHurt == 2   \* a call about clients or their secrets failed, two
                  \* initializations ran at once, or a late event discarded
                  \* what an initialization had left
TokenHurt == 3    \* a push of the token failed, a worker stopped, two tokens were
                  \* generated at once, or a cleanup or a late event ran into a
                  \* provisioning

Busy(w) == worker[w].at # "idle"
At(w, point) == worker[w].at = point
Does(w, tasks) == worker[w].does \in tasks
Others(w, points) == \E v \in Workers \ {w} : worker[v].at \in points

Set(w, r) == worker' = [worker EXCEPT ![w] = r]
Go(w, point) == Set(w, [worker[w] EXCEPT !.at = point])
Stop(w) == Set(w, Idle)
\* Environment e is dealt with; after the last one the worker goes to a point.
Past(w, e, point) ==
  [worker[w] EXCEPT !.left = @ \ {e}, !.seen[e] = 0,
                    !.at = IF worker[w].left = {e} THEN point ELSE @]
\* The job's try ... finally leaves its guard down however it ends.
Released(w) == isRunning' = IF w = Job THEN FALSE ELSE isRunning
Leave(w) == Stop(w) /\ Released(w)

Fault == faults < MaxFaults /\ faults' = faults + 1
Hurt(harm) == hurt' = Max({hurt, harm})
When(cond, harm) == IF cond THEN harm ELSE Unhurt
\* The row's token, or the row, goes without a cleanup.
Discard(h) ==
  Hurt(IF Others(h, Provisioning) THEN TokenHurt
       ELSE When(row.token # 0 \/ kept # Nothing, ClientHurt))

Init ==
  /\ row = NoRow /\ app = 0 /\ secret = 0 /\ branch = FALSE
  /\ shared = Nothing /\ kept = Nothing
  /\ clients = [e \in Environments |-> {}]
  /\ worker = [w \in Workers |-> Idle]
  /\ isRunning = FALSE
  /\ fresh = [row |-> 0, inst |-> 0, token |-> 0, client |-> 0]
  /\ starts = 0 /\ faults = 0 /\ hurt = Unhurt

-----------------------------------------------------------------------------
(* What starts a handler.                                                   *)

Started(h) ==
  /\ ~Busy(h) /\ starts < MaxStarts
  /\ starts' = starts + 1
  /\ UNCHANGED <<store, secret, shared, branch, clients, isRunning, faults, hurt>>

\* The owner installs the App, or gives it access again.
Grant(h, task) ==
  /\ Started(h) /\ app = 0
  /\ task = "add" => fresh.inst > 0
  /\ fresh' = [fresh EXCEPT !.inst = IF task = "install" THEN @ + 1 ELSE @]
  /\ app' = fresh'.inst
  /\ Set(h, [Idle EXCEPT !.at = "upsert", !.does = task, !.inst = fresh'.inst])

\* The owner uninstalls it, or takes the repository away from it.
Deny(h, task) ==
  /\ Started(h) /\ app # 0
  /\ app' = 0
  /\ Set(h, [Idle EXCEPT !.at = IF task = "remove" THEN "leave" ELSE "select",
                         !.does = task, !.inst = app])
  /\ UNCHANGED fresh

Wants(h, task, point) ==
  /\ Started(h)
  /\ Set(h, [Idle EXCEPT !.does = task, !.at = point])
  /\ UNCHANGED <<app, fresh>>

\* A bot command in an issue.
Ask(h, task) == Wants(h, task, "command")

\* A push that brings the configuration directory.
Push(h) == Wants(h, "push", "check")

\* An administrator clears the repository's resources, or drops it.
Request(h, task) == Wants(h, task, "find")

-----------------------------------------------------------------------------
(* Installation events.                                                     *)

\* Steps that touch the row alone.
RowStep == UNCHANGED <<github, clients, isRunning, bounds>>

\* upsertInstallation clears the token of a row found inactive;
\* upsertInstallationRepositories does not.
Upsert(h) ==
  /\ At(h, "upsert")
  /\ LET new == row.id = 0
         reset == Does(h, {"install"}) /\ ~row.active
     IN /\ fresh' = [fresh EXCEPT !.row = IF new THEN @ + 1 ELSE @]
        /\ row' = [id |-> IF new THEN fresh'.row ELSE row.id, active |-> TRUE,
                   inst |-> worker[h].inst,
                   token |-> IF reset THEN 0 ELSE row.token]
        /\ IF reset THEN Discard(h) ELSE UNCHANGED hurt
  /\ Stop(h)
  /\ UNCHANGED kept /\ RowStep

Withdraw(h) ==
  /\ At(h, "leave")
  /\ row' = IF row.id # 0 /\ row.inst = worker[h].inst
            THEN [row EXCEPT !.active = FALSE] ELSE row
  /\ Go(h, "find")
  /\ UNCHANGED <<kept, fresh, hurt>> /\ RowStep

Select(h) ==
  /\ At(h, "select")
  /\ Go(h, IF row.id # 0 /\ row.inst = worker[h].inst THEN "find" ELSE "mark")
  /\ UNCHANGED <<store, fresh, hurt>> /\ RowStep

\* Deleting the installation deletes its repositories with all they own.
Erase(h) == row' = NoRow /\ kept' = Nothing /\ Discard(h)

MarkInactive(h) ==
  /\ At(h, "mark")
  /\ IF row.id # 0 /\ row.inst = worker[h].inst THEN Erase(h) ELSE UNCHANGED <<store, hurt>>
  /\ Stop(h)
  /\ UNCHANGED fresh /\ RowStep

-----------------------------------------------------------------------------
(* cleanupRepository.                                                       *)

\* The row is found, and its configurations and secrets are deleted.
FindAndWipe(h) ==
  /\ At(h, "find")
  /\ IF row.id # 0
     THEN /\ Set(h, [worker[h] EXCEPT !.at = "list", !.id = row.id])
          /\ kept' = Nothing
          /\ Hurt(When(Others(h, Provisioning), TokenHurt))
     ELSE /\ IF Does(h, {"uninstall"}) THEN Go(h, "mark")
             ELSE IF Does(h, {"reinit"}) THEN Go(h, "check") ELSE Stop(h)
          /\ UNCHANGED <<kept, hurt>>
  /\ UNCHANGED <<row, fresh>> /\ RowStep

\* The clients are listed once; without the list none is deleted.
ListClients(h) ==
  /\ At(h, "list")
  /\ \/ /\ Set(h, [worker[h] EXCEPT !.at = "delete", !.left = Environments,
             !.seen = [e \in Environments |->
                         IF clients[e] = {} THEN 0 ELSE Min(clients[e])]])
        /\ UNCHANGED <<faults, hurt>>
     \/ Go(h, "unsecret") /\ Fault /\ Hurt(ClientHurt)
  /\ UNCHANGED <<store, github, clients, isRunning, fresh, starts>>

DeleteClient(h) ==
  /\ At(h, "delete")
  /\ \E e \in worker[h].left :
       /\ Set(h, Past(h, e, "unsecret"))
       /\ \/ /\ clients' = [clients EXCEPT ![e] = @ \ {worker[h].seen[e]}]
             /\ UNCHANGED <<faults, hurt>>
          \/ /\ worker[h].seen[e] # 0
             /\ clients' \in {clients, [clients EXCEPT ![e] = @ \ {worker[h].seen[e]}]}
             /\ Fault /\ Hurt(ClientHurt)
  /\ UNCHANGED <<store, github, isRunning, fresh, starts>>

\* cleanupRepositorySecrets asks GitHub with the installation's token, which
\* an uninstalled App no longer has; what fails is only counted.
Unsecret(h) ==
  /\ At(h, "unsecret")
  /\ Set(h, [worker[h] EXCEPT !.at = "unshare", !.left = Environments])
  /\ \/ app # 0 /\ secret' = 0 /\ UNCHANGED faults
     \/ app = 0 /\ UNCHANGED <<secret, faults>>
     \/ Fault /\ secret' \in {secret, 0}
  /\ UNCHANGED <<store, app, shared, branch, clients, isRunning, fresh, starts, hurt>>

Unshare(h) ==
  /\ At(h, "unshare")
  /\ \E e \in worker[h].left :
       /\ Set(h, Past(h, e, "forget"))
       /\ \/ /\ app # 0 /\ shared' = [shared EXCEPT ![e] = 0]
             /\ UNCHANGED <<faults, hurt>>
          \/ app = 0 /\ UNCHANGED <<shared, faults>> /\ Hurt(ClientHurt)
          \/ /\ shared' \in {shared, [shared EXCEPT ![e] = 0]}
             /\ Fault /\ Hurt(ClientHurt)
  /\ UNCHANGED <<store, app, secret, branch, clients, isRunning, fresh, starts>>

\* Mutant: the repository still counts as initialised after its cleanup.
ForgetLater(h) ==
  /\ At(h, "forget")
  /\ IF Does(h, {"uninstall"}) THEN Go(h, "mark")
     ELSE IF Does(h, {"reinit"}) THEN Go(h, "check")
     ELSE IF Does(h, {"drop"}) THEN Go(h, "drop") ELSE Stop(h)
  /\ UNCHANGED <<store, fresh, hurt>> /\ RowStep
Forget(h) ==
  /\ At(h, "forget")
  /\ IF row.id # worker[h].id THEN Stop(h) /\ UNCHANGED <<row, hurt>>
     ELSE /\ row' = [row EXCEPT !.token = 0]
          /\ Hurt(When(Others(h, Provisioning), TokenHurt))
          /\ IF Does(h, {"uninstall"}) THEN Go(h, "mark")
             ELSE IF Does(h, {"reinit"}) THEN Go(h, "check")
             ELSE IF Does(h, {"drop"}) THEN Go(h, "drop") ELSE Stop(h)
  /\ UNCHANGED <<kept, fresh>> /\ RowStep

DropRow(h) ==
  /\ At(h, "drop")
  /\ IF row.id = worker[h].id THEN Erase(h) ELSE UNCHANGED <<store, hurt>>
  /\ Stop(h)
  /\ UNCHANGED fresh /\ RowStep

-----------------------------------------------------------------------------
(* initializeRepository.                                                    *)

\* A call to GitHub that changes nothing modelled: the next point, or the end.
CallThen(h, point) ==
  /\ \/ app # 0 /\ Go(h, point) /\ UNCHANGED <<isRunning, faults>>
     \/ app = 0 /\ Leave(h) /\ UNCHANGED faults
     \/ Fault /\ Leave(h)
  /\ UNCHANGED <<store, github, clients, fresh, starts, hurt>>

\* A command is refused in the wrong state, else answered with a comment first.
Command(h) ==
  /\ At(h, "command")
  /\ IF (row.token # 0) = Does(h, {"init"})
     THEN /\ Leave(h)
          /\ UNCHANGED <<store, github, clients, fresh, bounds, hurt>>
     ELSE CallThen(h, IF Does(h, {"init"}) THEN "check" ELSE "find")

CheckInitialized(h) ==
  /\ At(h, "check")
  /\ IF row.token # 0 THEN Stop(h) /\ UNCHANGED hurt
     ELSE Go(h, "issue") /\ Hurt(When(\E v \in Handlers \ {h} :
                                       worker[v].at \in Initializing, ClientHurt))
  /\ UNCHANGED <<store, fresh>> /\ RowStep

\* The push's initialization opens an issue; a command's has one.
OpenIssue(h) ==
  /\ At(h, "issue")
  /\ IF Does(h, {"push"}) THEN CallThen(h, "ensure")
     ELSE /\ Go(h, "ensure")
          /\ UNCHANGED <<store, fresh, hurt>> /\ RowStep

\* ensureRepositoryToken reads the token, and writes one later if it saw none.
ReadToken(w) ==
  /\ At(w, "ensure")
  /\ IF row.id = 0 THEN Leave(w) /\ UNCHANGED hurt
     ELSE /\ Set(w, [worker[w] EXCEPT !.id = row.id, !.token = row.token,
                       !.at = IF row.token = 0 THEN "write" ELSE "token"])
          /\ Hurt(When(Others(w, Cleaning), TokenHurt))
          /\ UNCHANGED isRunning
  /\ UNCHANGED <<store, github, clients, fresh, bounds>>

WriteToken(w) ==
  /\ At(w, "write")
  /\ IF row.id # worker[w].id THEN Leave(w) /\ UNCHANGED <<row, fresh, hurt>>
     ELSE /\ fresh' = [fresh EXCEPT !.token = @ + 1]
          /\ row' = [row EXCEPT !.token = fresh'.token]
          /\ Set(w, [worker[w] EXCEPT !.at = "token", !.token = fresh'.token])
          /\ Hurt(IF row.token # 0 THEN TokenHurt ELSE When(w = Job, ByJob))
          /\ UNCHANGED isRunning
  /\ UNCHANGED <<kept, github, clients, bounds>>

\* Mutant: only a token just generated is pushed.
PushTokenNew(w) ==
  /\ At(w, "token")
  /\ \/ /\ app # 0 /\ UNCHANGED <<faults, hurt>>
        /\ secret' = IF worker[w].token = fresh.token THEN secret ELSE worker[w].token
        /\ IF w = Job THEN Leave(w)
           ELSE /\ UNCHANGED isRunning
                /\ Set(w, [worker[w] EXCEPT !.at = "create", !.left = Environments,
                                          !.id = 0, !.token = 0])
     \/ /\ app = 0 /\ Leave(w) /\ Hurt(TokenHurt) /\ UNCHANGED <<secret, faults>>
     \/ /\ Fault /\ Leave(w) /\ Hurt(TokenHurt)
        /\ secret' \in {secret, worker[w].token}
  /\ UNCHANGED <<store, app, shared, branch, clients, fresh, starts>>

\* pushTokenToGitHub; the job is done then, an initialization goes on.
PushToken(w) ==
  /\ At(w, "token")
  /\ \/ /\ app # 0 /\ UNCHANGED <<faults, hurt>>
        /\ secret' = worker[w].token
        /\ IF w = Job THEN Leave(w)
           ELSE /\ UNCHANGED isRunning
                /\ Set(w, [worker[w] EXCEPT !.at = "create", !.left = Environments,
                                          !.id = 0, !.token = 0])
     \/ /\ app = 0 /\ Leave(w) /\ Hurt(TokenHurt) /\ UNCHANGED <<secret, faults>>
     \/ /\ Fault /\ Leave(w) /\ Hurt(TokenHurt)
        /\ secret' \in {secret, worker[w].token}
  /\ UNCHANGED <<store, app, shared, branch, clients, fresh, starts>>

\* provisionNebulaClients creates a client without looking for one.  A failed
\* call may have created it all the same.
CreateClient(h) ==
  /\ At(h, "create")
  /\ \E e \in worker[h].left :
       LET id == fresh.client + 1
           made == [clients EXCEPT ![e] = @ \cup {id}]
       IN /\ fresh' = [fresh EXCEPT !.client = id]
          /\ \/ /\ clients' = made /\ UNCHANGED faults
                /\ Set(h, [worker[h] EXCEPT !.at = "share", !.seen[e] = id])
                /\ Hurt(When(Others(h, Cleaning), TokenHurt))
             \/ /\ clients' \in {clients, made}
                /\ Set(h, Past(h, e, "setup")) /\ Fault /\ Hurt(ClientHurt)
  /\ UNCHANGED <<store, github, isRunning, starts>>

\* The environment whose client was just created.
Current(h) == CHOOSE e \in Environments : worker[h].seen[e] # 0

\* The outcome of pushing an environment's secrets is only recorded.
ShareSecret(h) ==
  /\ At(h, "share")
  /\ Go(h, "keep")
  /\ \/ /\ app # 0 /\ UNCHANGED <<faults, hurt>>
        /\ shared' = [shared EXCEPT ![Current(h)] = worker[h].seen[Current(h)]]
     \/ app = 0 /\ Hurt(ClientHurt) /\ UNCHANGED <<shared, faults>>
     \/ /\ Fault /\ Hurt(ClientHurt)
        /\ shared' \in {shared, [shared EXCEPT ![Current(h)] = worker[h].seen[Current(h)]]}
  /\ UNCHANGED <<store, app, secret, branch, clients, isRunning, fresh, starts>>

KeepSecret(h) ==
  /\ At(h, "keep")
  /\ kept' = IF row.id = 0 THEN kept
             ELSE [kept EXCEPT ![Current(h)] = worker[h].seen[Current(h)]]
  /\ LET done == Past(h, Current(h), "setup")
     IN Set(h, [done EXCEPT !.at = IF @ = "keep" THEN "create" ELSE @])
  /\ UNCHANGED <<row, fresh, hurt>> /\ RowStep

\* The comment, the branch, its files, the pull request and the last comment.
\* The branch is named after the issue: in an issue whose branch is there
\* already, the setup fails at it.
SetUpBranch(h) ==
  /\ At(h, "setup")
  /\ Stop(h)
  /\ LET named == ~Does(h, {"push"})
         able == app # 0 /\ ~(named /\ branch)
     IN \/ able /\ branch' = (branch \/ named) /\ UNCHANGED faults
        \/ ~able /\ UNCHANGED <<branch, faults>>
        \/ Fault /\ branch' \in {branch, branch \/ (able /\ named)}
  /\ UNCHANGED <<store, app, secret, shared, clients, isRunning, fresh, starts, hurt>>

-----------------------------------------------------------------------------
(* runTokenProvisioningJob.                                                 *)

\* Mutant: a pass that finds nothing to do returns before the guard is reset.
StartJobStuck ==
  /\ ~isRunning /\ ~Busy(Job)
  /\ IF row.active /\ row.token = 0
     THEN Set(Job, [Idle EXCEPT !.at = "ensure"]) /\ isRunning' = TRUE
     ELSE UNCHANGED worker /\ isRunning' = TRUE
  /\ UNCHANGED <<store, github, clients, fresh, bounds, hurt>>
\* A pass over the active repositories, of which those with a token are skipped.
StartJob ==
  /\ ~isRunning /\ ~Busy(Job)
  /\ row.active /\ row.token = 0
  /\ Set(Job, [Idle EXCEPT !.at = "ensure"]) /\ isRunning' = TRUE
  /\ UNCHANGED <<store, github, clients, fresh, bounds, hurt>>

JobNext == StartJob \/ ReadToken(Job) \/ WriteToken(Job) \/ PushToken(Job)

\* A database call throws, or the process dies: the worker stops where it is.
Die(w) ==
  /\ Busy(w) /\ Fault /\ Leave(w) /\ Hurt(TokenHurt)
  /\ UNCHANGED <<store, github, clients, fresh, starts>>

HandlerNext(h) ==
  \/ \E task \in {"install", "add"} : Grant(h, task)
  \/ \E task \in {"remove", "uninstall"} : Deny(h, task)
  \/ \E task \in {"init", "reinit", "uninit"} : Ask(h, task)
  \/ \E task \in {"clear", "drop"} : Request(h, task)
  \/ Push(h)
  \/ Upsert(h) \/ Withdraw(h) \/ Select(h) \/ MarkInactive(h)
  \/ FindAndWipe(h) \/ ListClients(h) \/ DeleteClient(h)
  \/ Unsecret(h) \/ Unshare(h) \/ Forget(h) \/ DropRow(h)
  \/ Command(h) \/ CheckInitialized(h) \/ OpenIssue(h)
  \/ ReadToken(h) \/ WriteToken(h) \/ PushToken(h)
  \/ CreateClient(h) \/ ShareSecret(h) \/ KeepSecret(h)
  \/ SetUpBranch(h)

Next == JobNext \/ (\E h \in Handlers : HandlerNext(h)) \/ (\E w \in Workers : Die(w))
Spec == Init /\ [][Next]_vars /\ WF_vars(JobNext)

-----------------------------------------------------------------------------
TypeOK ==
  /\ row \in [id : Nat, active : BOOLEAN, inst : Nat, token : Nat]
  /\ row.id = 0 => row = NoRow
  /\ app \in Nat /\ secret \in Nat /\ branch \in BOOLEAN
  /\ shared \in [Environments -> Nat] /\ kept \in [Environments -> Nat]
  /\ clients \in [Environments -> SUBSET (1..fresh.client)]
  /\ worker \in [Workers -> [at : Points, does : Tasks, id : Nat, inst : Nat,
       token : Nat, left : SUBSET Environments, seen : [Environments -> Nat]]]
  /\ isRunning = Busy(Job)
  /\ fresh \in [row : Nat, inst : Nat, token : Nat, client : Nat]
  /\ starts \in 0..MaxStarts /\ faults \in 0..MaxFaults
  /\ hurt \in Unhurt..TokenHurt

AtRest == \A w \in Workers : ~Busy(w)

(* The token a repository's workflows call the bot with is the one the bot
   accepts: at rest, a row's token is GitHub's secret, unless a push of it
   failed, a worker stopped half way, two workers generated tokens at once, or
   a cleanup ran into a provisioning (repository-tokens.ts:38-62).  The calls
   that may fail without harm are all others. *)
SecretMatches ==
  AtRest /\ hurt < TokenHurt /\ row.token # 0
    => secret = row.token

(* Every Nebula client of the repository is the one whose token the bot and
   GitHub hold, none is left behind a cleanup, and a repository that was
   initialised, not merely given a token by the job, has them: at rest, unless
   a call about clients or their secrets failed, a worker stopped, or two
   handlers crossed (nebula-provisioning.ts:464-703, 714-810). *)
ClientsAccounted ==
  AtRest /\ hurt < ClientHurt =>
    \A e \in Environments :
      /\ clients[e] = {kept[e]} \ {0} /\ shared[e] = kept[e]
      /\ row.token = 0 => kept[e] = 0
      /\ row.token # 0 /\ hurt = Unhurt => kept[e] # 0

(* The job gives every active repository a token, whatever handlers do
   meanwhile or fail to do (repository-token-provisioning.ts:4-9). *)
TokenArrives ==
  (row.active /\ row.token = 0) ~> (row.token # 0 \/ ~row.active)
=============================================================================
