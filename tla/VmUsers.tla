------------------------------ MODULE VmUsers ------------------------------
(***************************************************************************)
(* syncAuthorizedAdminsToVm in src/src/services/vm-user-management.ts: the  *)
(* members of the group bot-admin on one VM follow the configuration's      *)
(* authorized_admins, plain names and a group of GitHub whose members       *)
(* change.                                                                  *)
(*                                                                         *)
(* Every command goes over SSH and may fail for good after its retries.  A  *)
(* question whose command failed is answered no, or with nobody; a change   *)
(* whose command failed ends the sync, whether or not it took effect.       *)
(***************************************************************************)
EXTENDS Integers, FiniteSets

CONSTANTS
  Users,
  Lists,     \* the lists of plain names a configuration may have
  Syncs,     \* concurrent deployments to the VM
  MaxStarts, \* bound on the syncs
  MaxFaults, \* bound on failed calls
  MaxMoves   \* bound on the changes of the GitHub group

VARIABLES
  team,     \* GitHub: the members of the group
  accounts, \* VM: users that exist
  grouped,  \* VM: bot-admin exists
  admins,   \* VM: its members
  sync,     \* what each sync does, and what it has read
  starts, faults, moves,
  last,     \* history: how the sync that ended last ended
  crossed   \* history: the syncs now or last at work ran at once

vm == <<accounts, grouped, admins>>
bounds == <<starts, faults, moves>>
vars == <<team, vm, sync, bounds, last, crossed>>

Points == {"idle", "expand", "group", "users", "join", "members", "remove"}
IdleSync == [at |-> "idle", want |-> {}, left |-> {}, user |-> {}, read |-> TRUE]
Busy(s) == sync[s].at # "idle"
At(s, point) == sync[s].at = point
Set(s, r) == sync' = [sync EXCEPT ![s] = r]

Init ==
  /\ team \in SUBSET Users
  /\ accounts = {} /\ grouped = FALSE /\ admins = {}
  /\ sync = [s \in Syncs |-> IdleSync]
  /\ starts = 0 /\ faults = 0 /\ moves = 0
  /\ last = [ok |-> FALSE, want |-> {}, read |-> FALSE] /\ crossed = FALSE

Fault == faults < MaxFaults /\ faults' = faults + 1

Ends(s, ok) ==
  /\ Set(s, IdleSync)
  /\ last' = [ok |-> ok, want |-> sync[s].want, read |-> sync[s].read]

\* A change that failed, made or not, ends the sync with an error.
Throws(s) == Fault /\ Ends(s, FALSE)

Start(s) ==
  /\ ~Busy(s) /\ starts < MaxStarts
  /\ \E names \in Lists : Set(s, [IdleSync EXCEPT !.at = "expand", !.want = names])
  /\ starts' = starts + 1
  /\ crossed' = \E r \in Syncs : Busy(r)
  /\ UNCHANGED <<team, vm, faults, moves, last>>

\* A group that cannot be expanded is skipped; with nobody left, the sync ends.
ExpandSmartGroups(s) ==
  /\ At(s, "expand")
  /\ \E found \in {sync[s].want \cup team, sync[s].want} :
       /\ IF found = sync[s].want \cup team THEN UNCHANGED faults ELSE Fault
       /\ IF found = {} THEN Ends(s, FALSE)
          ELSE /\ Set(s, [sync[s] EXCEPT !.at = "group", !.want = found])
               /\ UNCHANGED last
  /\ UNCHANGED <<team, vm, starts, moves, crossed>>

EnsureGroup(s) ==
  /\ At(s, "group")
  /\ LET users == [sync[s] EXCEPT !.at = "users", !.left = sync[s].want]
     IN \/ /\ grouped' = TRUE /\ Set(s, users) /\ UNCHANGED <<faults, last>>
        \/ /\ Throws(s) /\ grouped' \in {grouped, TRUE}
  /\ UNCHANGED <<team, accounts, admins, starts, moves, crossed>>

EnsureUser(s) ==
  /\ At(s, "users")
  /\ \/ /\ sync[s].left = {}
        /\ Set(s, [sync[s] EXCEPT !.at = "members"])
        /\ UNCHANGED <<accounts, faults, last>>
     \/ \E u \in sync[s].left :
          LET join == [sync[s] EXCEPT !.at = "join", !.left = @ \ {u}, !.user = {u}]
          IN \/ /\ accounts' = accounts \cup {u} /\ Set(s, join)
                /\ UNCHANGED <<faults, last>>
             \/ Throws(s) /\ accounts' \in {accounts, accounts \cup {u}}
  /\ UNCHANGED <<team, grouped, admins, starts, moves, crossed>>

\* Mutant: it counts as a member.
JoinTrusting(s) ==
  /\ At(s, "join")
  /\ LET next == [sync[s] EXCEPT !.at = "users", !.user = {}]
     IN \/ /\ admins' = admins \cup sync[s].user /\ Set(s, next)
           /\ UNCHANGED <<faults, last>>
        \/ Fault /\ Set(s, next) /\ UNCHANGED <<admins, last>>
  /\ UNCHANGED <<team, accounts, grouped, starts, moves, crossed>>

\* A failed look at the user's groups counts as not a member: added again.
Join(s) ==
  /\ At(s, "join")
  /\ LET next == [sync[s] EXCEPT !.at = "users", !.user = {}]
     IN \/ /\ admins' = admins \cup sync[s].user /\ Set(s, next)
           /\ UNCHANGED <<faults, last>>
        \/ Throws(s) /\ admins' \in {admins, admins \cup sync[s].user}
  /\ UNCHANGED <<team, accounts, grouped, starts, moves, crossed>>

\* The members are read once; a read that fails finds none.
ReadMembers(s) ==
  /\ At(s, "members")
  /\ \/ /\ Set(s, [sync[s] EXCEPT !.at = "remove", !.left = admins \ sync[s].want])
        /\ UNCHANGED faults
     \/ Set(s, [sync[s] EXCEPT !.at = "remove", !.read = FALSE]) /\ Fault
  /\ UNCHANGED <<team, vm, starts, moves, last, crossed>>

RemoveMembers(s) ==
  /\ At(s, "remove")
  /\ \/ sync[s].left = {} /\ Ends(s, TRUE) /\ UNCHANGED <<admins, faults>>
     \/ \E u \in sync[s].left :
          \/ /\ u \in admins /\ admins' = admins \ {u}
             /\ Set(s, [sync[s] EXCEPT !.left = @ \ {u}])
             /\ UNCHANGED <<faults, last>>
          \/ /\ u \notin admins /\ Ends(s, FALSE) /\ UNCHANGED <<admins, faults>>
          \/ Throws(s) /\ admins' \in {admins, admins \ {u}}
  /\ UNCHANGED <<team, accounts, grouped, starts, moves, crossed>>

\* GitHub: somebody joins or leaves the group.
TeamMoves ==
  /\ moves < MaxMoves /\ moves' = moves + 1
  /\ \E u \in Users : team' = IF u \in team THEN team \ {u} ELSE team \cup {u}
  /\ UNCHANGED <<vm, sync, starts, faults, last, crossed>>

Next ==
  \/ TeamMoves
  \/ \E s \in Syncs :
       Start(s) \/ ExpandSmartGroups(s) \/ EnsureGroup(s) \/ EnsureUser(s)
         \/ Join(s) \/ ReadMembers(s) \/ RemoveMembers(s)
Spec == Init /\ [][Next]_vars

TypeOK ==
  /\ team \subseteq Users /\ accounts \subseteq Users /\ admins \subseteq accounts
  /\ grouped \in BOOLEAN /\ (admins # {} => grouped)
  /\ sync \in [Syncs -> [at : Points, want : SUBSET Users, left : SUBSET Users,
                         user : SUBSET Users, read : BOOLEAN]]
  /\ starts \in 0..MaxStarts /\ faults \in 0..MaxFaults /\ moves \in 0..MaxMoves
  /\ last \in [ok : BOOLEAN, want : SUBSET Users, read : BOOLEAN]
  /\ crossed \in BOOLEAN

(* Whatever earlier syncs left half done, one that succeeds alone settles the
   group: all it found authorised are members, and nobody else is, unless the
   members could not be read, which no error tells
   (vm-user-management.ts:513-616). *)
AdminsSynced ==
  (\A s \in Syncs : ~Busy(s)) /\ last.ok /\ ~crossed =>
    last.want \subseteq admins /\ (last.read => admins \subseteq last.want)
=============================================================================
