-------------------------- MODULE RepositoryEvents --------------------------
(***************************************************************************)
(* The parts that follow a repository side by side: its life                *)
(* (RepositoryLifecycle), the events that deploy it, and the administrators *)
(* of its VM, each with parameters and state of its own.  In the models     *)
(* they share no state, so no step of one is a step of another.             *)
(***************************************************************************)
EXTENDS RepositoryLifecycle

CONSTANTS
  \* the events
  Commits, Pulls, Main, Branch, Rule, EventHandlers, MaxEvents, MaxEventFaults,
  \* the administrators
  Users, Lists, Syncs, MaxSyncStarts, MaxSyncFaults, MaxMoves

\* A commit is on the default branch or on a pull request's; the lists of a
\* configuration name users; bounds are numbers.
EventsConfigured ==
  /\ Commits # {} /\ Branch \in [Commits -> Pulls \cup {Main}] /\ Main \notin Pulls
  /\ MaxEvents \in Nat /\ MaxEventFaults \in Nat
SyncsConfigured ==
  /\ Lists \subseteq SUBSET Users
  /\ MaxSyncStarts \in Nat /\ MaxSyncFaults \in Nat /\ MaxMoves \in Nat
ASSUME EventsAssumption == EventsConfigured /\ SyncsConfigured

VARIABLES
  \* the events
  initialized, snapshot, labelled, handler, job, events, eventFaults, slipped,
  \* the administrators
  team, accounts, grouped, admins, sync, syncs, syncFaults, moves, last,
  crossed

Deploys == INSTANCE EventDeploys WITH
  Handlers <- EventHandlers, MaxStarts <- MaxEvents,
  MaxFaults <- MaxEventFaults, starts <- events, faults <- eventFaults

Admins == INSTANCE VmUsers WITH
  MaxStarts <- MaxSyncStarts, MaxFaults <- MaxSyncFaults,
  starts <- syncs, faults <- syncFaults

eventVars == <<initialized, snapshot, labelled, handler, job, events,
  eventFaults, slipped>>
adminVars == <<team, accounts, grouped, admins, sync, syncs, syncFaults, moves,
  last, crossed>>

-----------------------------------------------------------------------------
\* Every variable of every part has its type.
TypesOK == TypeOK /\ Deploys!TypeOK /\ Admins!TypeOK

\* The properties of the parts, stated in their modules.
\* EventDeploys: a job deploys a commit with the commit's own configuration.
JobConfigMatches == Deploys!JobConfigMatches
\* EventDeploys: at rest one pull request at most bears the deploy label.
OneLabelled == Deploys!OneLabelled
\* VmUsers: a sync that succeeds alone leaves exactly the authorised admins.
AdminsSynced == Admins!AdminsSynced
=============================================================================
