---------------------------- MODULE EventDeploys ----------------------------
(***************************************************************************)
(* The events that deploy: the handlers of pushes, labelled and updated     *)
(* pull requests, releases and /redeploy comments in                        *)
(* src/src/routes/webhooks.ts, with syncRepositoryDeploymentConfigs         *)
(* (github-config-sync.ts) and the deploy rules (deploy-rules.ts).          *)
(*                                                                         *)
(* One configuration file of one repository.  A handler stores the file as  *)
(* the event's commit has it in the one row all events share, reads the row *)
(* back, judges the event by the rules it finds and enqueues a job with     *)
(* that configuration.  Handlers run at once and in any order.              *)
(***************************************************************************)
EXTENDS Integers, FiniteSets

CONSTANTS
  Commits,   \* commits, on the default branch or on a pull request's
  Pulls,     \* open pull requests
  Main,      \* the default branch's name, not a pull request
  Branch,    \* of each commit: Main or one of Pulls
  Rule,      \* the rule in the commit's file: "branch", "label", "release"; "none": no valid file
  Handlers,  \* concurrent handlers
  MaxStarts, \* bound on the events
  MaxFaults  \* bound on failed calls

VARIABLES
  initialized, \* the repository was initialised
  snapshot,    \* table deployment_configs: the commits whose file is stored (at most one)
  labelled,    \* GitHub: the pull requests that bear the deploy label
  handler,     \* what each handler does, and what it has read
  job,         \* the last job enqueued, in a set
  starts, faults,
  slipped      \* history: a label's handler did not get to the other labels

bounds == <<starts, faults>>
vars == <<initialized, snapshot, labelled, handler, job, bounds, slipped>>

Events == {"push", "labeled", "synchronize", "release", "redeploy"}
Points == {"idle", "directory", "sync", "rules", "queue", "unlabel"}
Grounds == {"synced", "unsynced", "crossed"}
SomeCommit == CHOOSE c \in Commits : TRUE
IdleHandler == [at |-> "idle", event |-> "push", commit |-> SomeCommit,
                labels |-> FALSE, ground |-> "unsynced", config |-> {}, left |-> {}]

Busy(h) == handler[h].at # "idle"
At(h, point) == handler[h].at = point
Set(h, r) == handler' = [handler EXCEPT ![h] = r]
Go(h, point) == Set(h, [handler[h] EXCEPT !.at = point])
Stop(h) == Set(h, IdleHandler)
Fault == faults < MaxFaults /\ faults' = faults + 1
OfPull(c) == Branch[c] # Main

Init ==
  /\ initialized \in BOOLEAN
  /\ snapshot = {} /\ labelled = {} /\ job = {}
  /\ handler = [h \in Handlers |-> IdleHandler]
  /\ starts = 0 /\ faults = 0 /\ slipped = FALSE

-----------------------------------------------------------------------------
\* An event arrives.  Only a label put on now changes what GitHub holds.
Receive(h, event, c) ==
  /\ ~Busy(h) /\ starts < MaxStarts
  /\ event \in {"labeled", "synchronize"} => OfPull(c)
  /\ event \in {"release", "redeploy"} => ~OfPull(c)
  /\ event = "labeled" => Branch[c] \notin labelled
  /\ labelled' = IF event = "labeled" THEN labelled \cup {Branch[c]} ELSE labelled
  /\ Set(h, [IdleHandler EXCEPT !.event = event, !.commit = c,
       !.labels = event = "labeled" \/ Branch[c] \in labelled,
       !.at = CASE event = "push" -> "directory"
                [] event = "redeploy" -> "rules"
                [] OTHER -> "sync"])
  /\ starts' = starts + 1
  /\ UNCHANGED <<initialized, snapshot, job, faults, slipped>>

\* A push that brings the directory to a repository that is not initialised
\* initialises it and deploys nothing.
CheckDirectory(h) ==
  /\ At(h, "directory")
  /\ \/ /\ ~initialized /\ Rule[handler[h].commit] # "none"
        /\ initialized' = TRUE /\ Stop(h) /\ UNCHANGED faults
     \/ /\ initialized \/ Rule[handler[h].commit] = "none"
        /\ Go(h, "sync") /\ UNCHANGED <<initialized, faults>>
     \/ Go(h, "sync") /\ Fault /\ UNCHANGED initialized
  /\ UNCHANGED <<snapshot, labelled, job, starts, slipped>>

\* The handlers that read the row after another wrote it.
Stored(h, r) ==
  handler' = [g \in Handlers |->
    IF g = h THEN r
    ELSE IF At(g, "rules") THEN [handler[g] EXCEPT !.ground = "crossed"]
    ELSE handler[g]]

\* Mutant: the row is created, never updated.
SyncConfigOnce(h) ==
  /\ At(h, "sync")
  /\ LET c == handler[h].commit
         rules == [handler[h] EXCEPT !.at = "rules"]
     IN \/ /\ Rule[c] # "none"
           /\ snapshot' = IF snapshot = {} THEN {c} ELSE snapshot
           /\ Stored(h, [rules EXCEPT !.ground = "synced"])
           /\ UNCHANGED faults
        \/ /\ Rule[c] = "none" /\ Set(h, rules) /\ UNCHANGED <<snapshot, faults>>
        \/ Set(h, rules) /\ Fault /\ UNCHANGED snapshot
  /\ UNCHANGED <<initialized, labelled, job, starts, slipped>>

\* A valid file of the commit is stored; a file that is gone leaves the row.
SyncConfig(h) ==
  /\ At(h, "sync")
  /\ LET c == handler[h].commit
         rules == [handler[h] EXCEPT !.at = "rules"]
     IN \/ /\ Rule[c] # "none" /\ snapshot' = {c}
           /\ Stored(h, [rules EXCEPT !.ground = "synced"])
           /\ UNCHANGED faults
        \/ /\ Rule[c] = "none" /\ Set(h, rules) /\ UNCHANGED <<snapshot, faults>>
        \/ Set(h, rules) /\ Fault /\ UNCHANGED snapshot
  /\ UNCHANGED <<initialized, labelled, job, starts, slipped>>

\* matchesDeployRules, getDeployLabels, matchesReleaseRules: what the rule asks.
\* A push asks GitHub for the labels of its branch's pull request.
Matches(h, rule, labels) ==
  CASE handler[h].event = "redeploy" -> TRUE
    [] handler[h].event = "release" -> rule = "release"
    [] handler[h].event = "push" ->
         IF rule = "label" THEN labels
         ELSE rule = "branch" /\ ~OfPull(handler[h].commit)
    [] OTHER -> rule = "label" /\ handler[h].labels

Judge(h) ==
  /\ At(h, "rules")
  /\ \E labels \in {Branch[handler[h].commit] \in labelled, FALSE} :
       /\ IF labels = (Branch[handler[h].commit] \in labelled)
          THEN UNCHANGED faults ELSE Fault
       /\ IF \E c \in snapshot : Matches(h, Rule[c], labels)
          THEN /\ Set(h, [handler[h] EXCEPT !.at = "queue", !.config = snapshot])
               /\ UNCHANGED slipped
          ELSE /\ Stop(h)
               /\ slipped' = (slipped \/ handler[h].event = "labeled")
  /\ UNCHANGED <<initialized, snapshot, labelled, job, starts>>

\* Mutant: the two events are swapped.
TakesLabelsSwapped(event) == event = "synchronize"

\* A label put on one pull request is taken from the others; an update is not.
TakesLabels(event) == event = "labeled"

Enqueue(h) ==
  /\ At(h, "queue")
  /\ \/ /\ job' = {[commit |-> handler[h].commit, config |-> handler[h].config,
                  ground |-> handler[h].ground]}
        /\ IF TakesLabels(handler[h].event)
           THEN Set(h, [handler[h] EXCEPT !.at = "unlabel",
                          !.left = labelled \ {Branch[handler[h].commit]}])
           ELSE Stop(h)
        /\ UNCHANGED <<faults, slipped>>
     \/ /\ Fault /\ Stop(h) /\ UNCHANGED job
        /\ slipped' = (slipped \/ handler[h].event = "labeled")
  /\ UNCHANGED <<initialized, snapshot, labelled, starts>>

\* The label goes from the pull requests the list named, until a call fails.
Unlabel(h) ==
  /\ At(h, "unlabel")
  /\ \/ /\ handler[h].left = {} /\ Stop(h)
        /\ UNCHANGED <<labelled, faults, slipped>>
     \/ \E p \in handler[h].left :
          /\ labelled' = labelled \ {p}
          /\ Set(h, [handler[h] EXCEPT !.left = @ \ {p}])
          /\ UNCHANGED <<faults, slipped>>
     \/ Fault /\ Stop(h) /\ slipped' = TRUE /\ UNCHANGED labelled
  /\ UNCHANGED <<initialized, snapshot, job, starts>>

\* A cleanup of the repository deletes its configurations and lets it be
\* initialised again.
Cleanup ==
  /\ initialized /\ initialized' = FALSE
  /\ snapshot' = {}
  /\ UNCHANGED <<labelled, handler, job, bounds, slipped>>

Next ==
  \/ Cleanup
  \/ \E h \in Handlers :
       \/ \E event \in Events, c \in Commits : Receive(h, event, c)
       \/ CheckDirectory(h) \/ SyncConfig(h) \/ Judge(h) \/ Enqueue(h) \/ Unlabel(h)
Spec == Init /\ [][Next]_vars

TypeOK ==
  /\ initialized \in BOOLEAN /\ slipped \in BOOLEAN
  /\ snapshot \in SUBSET Commits /\ Cardinality(snapshot) <= 1
  /\ labelled \subseteq Pulls
  /\ handler \in [Handlers -> [at : Points, event : Events, commit : Commits,
       labels : BOOLEAN, ground : Grounds, config : SUBSET Commits, left : SUBSET Pulls]]
  /\ job \subseteq [commit : Commits, config : SUBSET Commits, ground : Grounds]
  /\ starts \in 0..MaxStarts /\ faults \in 0..MaxFaults

(* A job deploys a commit with that commit's own configuration, whatever other
   events did to the shared row before, unless the commit's file was not
   stored (the sync failed, the file is gone, a /redeploy never syncs) or
   another event stored its own between the handler's store and its read
   (webhooks.ts:180-214). *)
JobConfigMatches ==
  \A j \in job : j.ground = "synced" => j.config = {j.commit}

(* At rest at most one pull request bears the deploy label, in whatever order
   the labels' handlers ran, unless one of them did not come to the removal
   (webhooks.ts:1634-1680). *)
OneLabelled ==
  (\A h \in Handlers : ~Busy(h)) /\ ~slipped => Cardinality(labelled) <= 1
=============================================================================
