--------------------------- MODULE VmProvisioning ---------------------------
(***************************************************************************)
(* Virtual machines: src/src/services/virtualizor.ts, the quota check of    *)
(* the deployment runner and the two ways a machine's row is removed.       *)
(*                                                                         *)
(* A call of ensureVirtualizorVm (mode "api") for a target, that is, an     *)
(* environment of a repository, reuses the machine its row in table vms     *)
(* names, or asks the hypervisor for a new one: it lists the hostnames,     *)
(* takes a free address, creates the machine, stores the row and waits for  *)
(* SSH.  Each of these is a call of its own to the hypervisor or the        *)
(* database, so the calls of two deployments interleave between them, and   *)
(* the answer of any of them may be lost.  The hypervisor is external: it   *)
(* may refuse a machine, but nothing here relies on its refusing one.       *)
(***************************************************************************)
EXTENDS Integers, FiniteSets

CONSTANTS
  Targets,      \* environments of repositories
  Owner,        \* the user a target is assigned to
  Hosts,        \* the hostnames the configurations of a target ask for
  MaxVms,       \* a user's limit
  Addresses,    \* the pool of addresses, in the order the hypervisor lists it
  Calls,        \* concurrent deployments
  Removers,     \* deletions being handled
  MaxMachines,  \* bound on the machines ever made
  MaxStarts,    \* bound on the deployments and the bot's deletions
  MaxFaults     \* bound on lost answers, failed or crashed calls, panel deletions

None == 0
Users == {Owner[t] : t \in Targets}
Hostnames == UNION {Hosts[t] : t \in Targets}
Machines == 1..MaxMachines

ASSUME VmAssumption ==
  /\ Targets # {} /\ IsFiniteSet(Targets)
  /\ \A t \in Targets : Hosts[t] # {} /\ MaxVms[Owner[t]] \in Nat
  /\ Addresses \subseteq Nat \ {None}
  /\ MaxMachines \in Nat /\ MaxStarts \in Nat /\ MaxFaults \in Nat

VARIABLES
  machine,  \* the hypervisor's machines, by id
  row,      \* table vms, by target; id 0 is no row
  rowIds,   \* rows stored so far
  call,     \* the calls of ensureVirtualizorVm
  remover,  \* the deletions
  notices,  \* machines whose vm-deleted webhook is still to come
  starts, faults,
  lost,     \* history: machines whose call ended before a row named them
  raced     \* history: what two calls were after at the same time

vars == <<machine, row, rowIds, call, remover, notices, starts, faults, lost, raced>>
counters == <<starts, faults>>

Pc == {"idle", "count", "find", "rename", "renameRow", "list", "address",
       "create", "adopt", "store", "poll", "mark"}
SomeTarget == CHOOSE t \in Targets : TRUE
SomeHost == CHOOSE h \in Hostnames : TRUE

Machine == [state : {"none", "up", "down"}, host : Hostnames, ip : Addresses \cup {None}]
Row == [id : Nat, vm : Machines \cup {None}, host : Hostnames,
        ip : Addresses \cup {None}, state : {"provisioning", "running"}]
Call == [pc : Pc, target : Targets, host : Hostnames, reuse : BOOLEAN, id : Nat,
         vm : Machines \cup {None}, made : Machines \cup {None},
         ip : Addresses \cup {None}]
Remover == [pc : {"idle", "api", "row"}, target : Targets, id : Nat,
            vm : Machines \cup {None}]

NoMachine == [state |-> "none", host |-> SomeHost, ip |-> None]
NoRow == [id |-> 0, vm |-> None, host |-> SomeHost, ip |-> None, state |-> "running"]
IdleCall == [pc |-> "idle", target |-> SomeTarget, host |-> SomeHost, reuse |-> FALSE,
             id |-> 0, vm |-> None, made |-> None, ip |-> None]
IdleRemover == [pc |-> "idle", target |-> SomeTarget, id |-> 0, vm |-> None]

Up(m) == machine[m].state = "up"
HasRow(t) == row[t].id # 0
RowsOf(u) == {t \in Targets : Owner[t] = u /\ HasRow(t)}
Active(c) == call[c].pc # "idle"
Least(S) == CHOOSE n \in S : \A m \in S : n <= m

Init ==
  /\ machine = [m \in Machines |-> NoMachine]
  /\ row = [t \in Targets |-> NoRow]
  /\ rowIds = 0
  /\ call = [c \in Calls |-> IdleCall]
  /\ remover = [r \in Removers |-> IdleRemover]
  /\ notices = {}
  /\ starts = 0 /\ faults = 0
  /\ lost = {} /\ raced = {}

Goto(c, pc) == call' = [call EXCEPT ![c].pc = pc]

\* The call ends, with the machine and address of the row or with an error.
End(c) == call' = [call EXCEPT ![c] = IdleCall]

\* The call throws: what it made and no row names is lost.
Throw(c) ==
  /\ End(c)
  /\ lost' = lost \cup ({call[c].made} \ {None})

-----------------------------------------------------------------------------
(* The quota of the deployment runner.                                      *)

\* executeDeployment asks whether the target has a machine, ...
FindVm(c, t, h) ==
  /\ call[c].pc = "idle" /\ starts < MaxStarts
  /\ starts' = starts + 1
  /\ call' = [call EXCEPT ![c] = [IdleCall EXCEPT !.pc = "count", !.target = t,
                                                  !.host = h, !.reuse = HasRow(t)]]
  /\ raced' = IF \E d \in Calls \ {c} : Active(d) /\ call[d].target = t
              THEN raced \cup {t} ELSE raced
  /\ UNCHANGED <<machine, row, rowIds, remover, notices, faults, lost>>

\* A call that has read table vms for its quota and not stored its row yet.
Asking(c) == call[c].pc \in {"count", "find", "list", "address", "create", "adopt", "store"}

\* Mutant: the limit is compared before the new machine is added.
WithinLimitOff(n, reuse, u) == (IF reuse THEN n - 1 ELSE n) <= MaxVms[u]

\* The limit, the target's own machine not counted twice.
WithinLimit(n, reuse, u) == (IF reuse THEN n - 1 ELSE n) + 1 <= MaxVms[u]

\* ... counts the user's machines and rejects one too many.
CountVms(c) ==
  LET u == Owner[call[c].target]
  IN  /\ call[c].pc = "count"
      /\ IF WithinLimit(Cardinality(RowsOf(u)), call[c].reuse, u)
         THEN /\ Goto(c, "find")
              /\ raced' = IF \E d \in Calls \ {c} : Asking(d) /\ Owner[call[d].target] = u
                          THEN raced \cup {u} ELSE raced
         ELSE End(c) /\ UNCHANGED raced
      /\ UNCHANGED <<machine, row, rowIds, remover, notices, counters, lost>>

-----------------------------------------------------------------------------
(* ensureViaApi, when the database names a machine.                         *)

FindRow(c) ==
  LET t == call[c].target
      r == row[t]
  IN  /\ call[c].pc = "find"
      /\ \/ /\ ~HasRow(t)
            /\ Goto(c, "list")
         \/ /\ HasRow(t) /\ r.state = "provisioning"
            /\ call' = [call EXCEPT ![c] = [@ EXCEPT !.pc = "poll", !.id = r.id,
                                                     !.vm = r.vm, !.ip = r.ip]]
         \/ /\ HasRow(t) /\ r.state = "running" /\ r.host # call[c].host
            /\ call' = [call EXCEPT ![c] = [@ EXCEPT !.pc = "rename", !.id = r.id,
                                                     !.vm = r.vm, !.ip = r.ip]]
         \/ /\ HasRow(t) /\ r.state = "running" /\ r.host = call[c].host
            /\ End(c)
      /\ UNCHANGED <<machine, row, rowIds, remover, notices, counters, lost, raced>>

\* A call between finding its hostname free and having a machine of its own.
Naming(c, h) == call[c].pc \in {"address", "create", "adopt"} /\ call[c].host = h

\* updateVmHostname: the hypervisor renames, or the error is only logged.
RenameMachine(c) ==
  LET h == call[c].host
      m == call[c].vm
  IN  /\ call[c].pc = "rename"
      /\ Goto(c, "renameRow")
      /\ \/ /\ Up(m)
            /\ machine' = [machine EXCEPT ![m].host = h]
            /\ raced' = IF \/ \E n \in Machines \ {m} : Up(n) /\ machine[n].host = h
                           \/ \E d \in Calls : Naming(d, h)
                        THEN raced \cup {h} ELSE raced
         \/ UNCHANGED <<machine, raced>>
      /\ UNCHANGED <<row, rowIds, remover, notices, counters, lost>>

\* Either way the row gets the new name; a row that is gone is an error.
RenameRow(c) ==
  LET t == call[c].target
  IN  /\ call[c].pc = "renameRow"
      /\ IF row[t].id = call[c].id
         THEN /\ row' = [row EXCEPT ![t].host = call[c].host]
              /\ End(c)
         ELSE End(c) /\ UNCHANGED row
      /\ UNCHANGED <<machine, rowIds, remover, notices, counters, lost, raced>>

-----------------------------------------------------------------------------
(* ensureViaApi, when there is no row.                                      *)

\* Mutant: nobody looks for a machine of that name.
ListHostsBlind(c) ==
  LET h == call[c].host
  IN  /\ call[c].pc = "list"
      /\ Goto(c, "address")
      /\ raced' = IF \E d \in Calls \ {c} : Naming(d, h)
                  THEN raced \cup {h} ELSE raced
      /\ UNCHANGED <<machine, row, rowIds, remover, notices, counters, lost>>

\* A machine of that name is not taken over.
ListHosts(c) ==
  LET h == call[c].host
  IN  /\ call[c].pc = "list"
      /\ IF \E m \in Machines : Up(m) /\ machine[m].host = h
         THEN End(c) /\ UNCHANGED raced
         ELSE /\ Goto(c, "address")
              /\ raced' = IF \E d \in Calls \ {c} : Naming(d, h)
                          THEN raced \cup {h} ELSE raced
      /\ UNCHANGED <<machine, row, rowIds, remover, notices, counters, lost>>

\* Mutant: only the addresses of machines that have a row count as assigned.
AssignedInDb == {row[t].ip : t \in Targets}

\* The addresses of the hypervisor's machines.
Assigned == {machine[m].ip : m \in {n \in Machines : Up(n)}}
\* getAvailableIp: the first address of the pool that no machine has.
TakeAddress(c) ==
  LET free == Addresses \ Assigned
  IN  /\ call[c].pc = "address"
      /\ IF free = {}
         THEN End(c) /\ UNCHANGED raced
         ELSE /\ call' = [call EXCEPT ![c] = [@ EXCEPT !.pc = "create", !.ip = Least(free)]]
              /\ raced' = IF \E d \in Calls \ {c} : call[d].pc = "create"
                                                    /\ call[d].ip = Least(free)
                          THEN raced \cup {Least(free)} ELSE raced
      /\ UNCHANGED <<machine, row, rowIds, remover, notices, counters, lost>>

NewMachine == Least({m \in Machines : machine[m].state = "none"})
CanCreate == \E m \in Machines : machine[m].state = "none"

Created(c) ==
  [machine EXCEPT ![NewMachine] =
     [state |-> "up", host |-> call[c].host, ip |-> call[c].ip]]

\* The hypervisor creates the machine; its answer names it, or does not.
CreateMachine(c) ==
  /\ call[c].pc = "create" /\ CanCreate
  /\ machine' = Created(c)
  /\ \/ call' = [call EXCEPT ![c] = [@ EXCEPT !.pc = "store", !.vm = NewMachine,
                                              !.made = NewMachine]]
     \/ call' = [call EXCEPT ![c] = [@ EXCEPT !.pc = "adopt", !.made = NewMachine]]
  /\ UNCHANGED <<row, rowIds, remover, notices, counters, lost, raced>>

\* The hypervisor creates the machine and its answer does not arrive in time.
CreateAnswerLost(c) ==
  /\ call[c].pc = "create" /\ CanCreate /\ faults < MaxFaults
  /\ faults' = faults + 1
  /\ machine' = Created(c)
  /\ End(c)
  /\ lost' = lost \cup {NewMachine}
  /\ UNCHANGED <<row, rowIds, remover, notices, starts, raced>>

\* Mutant: the first machine of the list is taken, whatever its name.
AdoptFirst(c) ==
  LET up == {m \in Machines : Up(m)}
  IN  /\ call[c].pc = "adopt"
      /\ IF up = {}
         THEN Throw(c)
         ELSE call' = [call EXCEPT ![c].pc = "store", ![c].vm = Least(up)]
              /\ UNCHANGED lost
      /\ UNCHANGED <<machine, row, rowIds, remover, notices, counters, raced>>

\* Without an id in the answer, the first machine of that name is the one.
AdoptMachine(c) ==
  LET named == {m \in Machines : Up(m) /\ machine[m].host = call[c].host}
  IN  /\ call[c].pc = "adopt"
      /\ IF named = {}
         THEN Throw(c)
         ELSE call' = [call EXCEPT ![c].pc = "store", ![c].vm = Least(named)]
              /\ UNCHANGED lost
      /\ UNCHANGED <<machine, row, rowIds, remover, notices, counters, raced>>

NewRow(c) == [id |-> rowIds + 1, vm |-> call[c].vm, host |-> call[c].host,
              ip |-> call[c].ip, state |-> "provisioning"]

\* Mutant: the row is stored once SSH answers.
StoreRowLate(c) ==
  /\ call[c].pc = "store"
  /\ IF \E m \in Machines : Up(m) /\ machine[m].ip = call[c].ip
     THEN LET t == call[c].target
          IN  /\ row' = [row EXCEPT ![t] = NewRow(c)]
              /\ rowIds' = rowIds + 1
              /\ call' = [call EXCEPT ![c].pc = "poll", ![c].made = None]
     ELSE End(c) /\ UNCHANGED <<row, rowIds>>
  /\ UNCHANGED <<machine, remover, notices, counters, lost, raced>>

\* The row is stored before SSH is tried; a second row of a target is refused.
StoreRow(c) ==
  LET t == call[c].target
  IN  /\ call[c].pc = "store"
      /\ IF HasRow(t)
         THEN Throw(c) /\ UNCHANGED <<row, rowIds>>
         ELSE /\ row' = [row EXCEPT ![t] = NewRow(c)]
              /\ rowIds' = rowIds + 1
              /\ call' = [call EXCEPT ![c].pc = "poll", ![c].made = None]
              /\ lost' = lost \cup ({call[c].made} \ {call[c].vm})
      /\ UNCHANGED <<machine, remover, notices, counters, raced>>

\* pollVmReady: whatever machine answers SSH at the address is the machine.
Poll(c) ==
  /\ call[c].pc = "poll"
  /\ \E m \in Machines : Up(m) /\ machine[m].ip = call[c].ip
  /\ Goto(c, "mark")
  /\ UNCHANGED <<machine, row, rowIds, remover, notices, counters, lost, raced>>

\* The call that created the row marks the row of its target, whichever it
\* is by now; a call that resumed a row marks that one.
MarkRunning(c) ==
  LET t == call[c].target
  IN  /\ call[c].pc = "mark"
      /\ IF HasRow(t) /\ call[c].id \in {0, row[t].id}
         THEN /\ row' = [row EXCEPT ![t].state = "running", ![t].ip = call[c].ip]
              /\ End(c)
         ELSE End(c) /\ UNCHANGED row
      /\ UNCHANGED <<machine, rowIds, remover, notices, counters, lost, raced>>

\* An API or database error, SSH that never answers, or the process dies.
CallFails(c) ==
  /\ Active(c) /\ faults < MaxFaults
  /\ faults' = faults + 1
  /\ Throw(c)
  /\ UNCHANGED <<machine, row, rowIds, remover, notices, starts, raced>>

-----------------------------------------------------------------------------
(* Deletion: the bot command delete-vm, and the hypervisor's webhook.       *)

BotDelete(r, t) ==
  /\ remover[r].pc = "idle" /\ HasRow(t) /\ starts < MaxStarts
  /\ starts' = starts + 1
  /\ remover' = [remover EXCEPT ![r] =
                   [pc |-> "api", target |-> t, id |-> row[t].id, vm |-> row[t].vm]]
  /\ UNCHANGED <<machine, row, rowIds, call, notices, faults, lost, raced>>

Destroyed(m) == [machine EXCEPT ![m].state = "down"]

\* deleteVirtualizorVm: only an answer that says so lets the deletion go on.
ApiDelete(r) ==
  LET m == remover[r].vm
      answered == remover' = [remover EXCEPT ![r].pc = "row"]
      failed == remover' = [remover EXCEPT ![r] = IdleRemover]
  IN  /\ remover[r].pc = "api"
      /\ \/ /\ Up(m)
            /\ machine' = Destroyed(m)
            /\ notices' = notices \cup {m}
            /\ answered \/ failed
         \/ /\ ~Up(m)
            /\ answered \/ failed
            /\ UNCHANGED <<machine, notices>>
         \/ Up(m) /\ failed /\ UNCHANGED <<machine, notices>>
      /\ UNCHANGED <<row, rowIds, call, counters, lost, raced>>

\* Someone deletes the machine in the hypervisor's panel.
PanelDelete(m) ==
  /\ Up(m) /\ faults < MaxFaults
  /\ faults' = faults + 1
  /\ machine' = Destroyed(m)
  /\ notices' = notices \cup {m}
  /\ UNCHANGED <<row, rowIds, call, remover, starts, lost, raced>>

\* The webhook vm-deleted looks the row up by the machine.
Notice(r, m) ==
  LET named == {t \in Targets : HasRow(t) /\ row[t].vm = m}
  IN  /\ m \in notices /\ remover[r].pc = "idle"
      /\ notices' = notices \ {m}
      /\ \/ named = {} /\ UNCHANGED remover
         \/ \E t \in named :
              remover' = [remover EXCEPT ![r] =
                            [pc |-> "row", target |-> t, id |-> row[t].id, vm |-> m]]
      /\ UNCHANGED <<machine, row, rowIds, call, counters, lost, raced>>

\* The webhook is not delivered.
NoticeLost(m) ==
  /\ m \in notices /\ faults < MaxFaults
  /\ faults' = faults + 1
  /\ notices' = notices \ {m}
  /\ UNCHANGED <<machine, row, rowIds, call, remover, starts, lost, raced>>

\* Mutant: the row of the target is deleted, whichever it is by now.
DeleteRowOfTarget(r) ==
  /\ remover[r].pc = "row"
  /\ row' = [row EXCEPT ![remover[r].target] = NoRow]
  /\ remover' = [remover EXCEPT ![r] = IdleRemover]
  /\ UNCHANGED <<machine, rowIds, call, notices, counters, lost, raced>>

\* vm.delete by id; a row that is gone already is an error, which is logged.
DeleteRow(r) ==
  LET t == remover[r].target
  IN  /\ remover[r].pc = "row"
      /\ row' = IF row[t].id = remover[r].id THEN [row EXCEPT ![t] = NoRow] ELSE row
      /\ remover' = [remover EXCEPT ![r] = IdleRemover]
      /\ UNCHANGED <<machine, rowIds, call, notices, counters, lost, raced>>

-----------------------------------------------------------------------------
CallStep(c) ==
  \/ \E t \in Targets : \E h \in Hosts[t] : FindVm(c, t, h)
  \/ CountVms(c) \/ FindRow(c) \/ RenameMachine(c) \/ RenameRow(c)
  \/ ListHosts(c) \/ TakeAddress(c) \/ CreateMachine(c) \/ CreateAnswerLost(c)
  \/ AdoptMachine(c) \/ StoreRow(c) \/ Poll(c) \/ MarkRunning(c)
  \/ CallFails(c)

RemoverStep(r) ==
  \/ \E t \in Targets : BotDelete(r, t)
  \/ ApiDelete(r) \/ DeleteRow(r)
  \/ \E m \in Machines : Notice(r, m)

Next ==
  \/ \E c \in Calls : CallStep(c)
  \/ \E r \in Removers : RemoverStep(r)
  \/ \E m \in Machines : PanelDelete(m) \/ NoticeLost(m)

Spec == Init /\ [][Next]_vars

-----------------------------------------------------------------------------
(* Properties.                                                              *)

TypeOK ==
  /\ machine \in [Machines -> Machine]
  /\ row \in [Targets -> Row]
  /\ \A t \in Targets : HasRow(t) => row[t].vm \in Machines
  /\ rowIds \in Nat
  /\ call \in [Calls -> Call]
  /\ remover \in [Removers -> Remover]
  /\ notices \subseteq Machines
  /\ starts \in Nat /\ faults \in Nat
  /\ lost \subseteq Machines
  /\ raced \subseteq Targets \cup Users \cup Hostnames \cup Addresses

Held(m) == \E c \in Calls : call[c].made = m
InDatabase(m) == \E t \in Targets : HasRow(t) /\ row[t].vm = m

\* Every running machine is named by a row, or by a call about to store one,
\* or the call that made it was cut off or refused its row: a VM that never
\* answers SSH, a rename or a deletion orphans no machine (the comment
\* "Persist VM to database IMMEDIATELY after creation", virtualizor.ts:823).
AccountedFor ==
  \A m \in Machines : Up(m) => InDatabase(m) \/ Held(m) \/ m \in lost

\* Two running machines have one name only if two calls that wanted it
\* listed and created at the same time (virtualizor.ts:685).
NoDuplicateVm ==
  \A m, n \in Machines :
    m # n /\ Up(m) /\ Up(n) /\ machine[m].host = machine[n].host
      => machine[m].host \in raced

\* Two running machines have one address only if two calls took it from the
\* pool before either had used it (virtualizor.ts:735).
NoSharedAddress ==
  \A m, n \in Machines :
    m # n /\ Up(m) /\ Up(n) /\ machine[m].ip = machine[n].ip
      => machine[m].ip \in raced

\* A user whose deployments did not overlap between reading vms and storing a row
\* never has more machines than allowed (deployment-runner.ts:442).
WithinQuota ==
  \A u \in Users \ raced : Cardinality(RowsOf(u)) <= MaxVms[u]

\* The address a target's row gives, and every deployment goes to, is the
\* address of the machine the row names: a machine that was deleted and
\* whose address went to another does not leak into a row, unless two calls
\* of the target overlapped or a machine was adopted by a contested name.
RowsPointHome ==
  \A t \in Targets :
    HasRow(t) /\ t \notin raced /\ Hosts[t] \cap raced = {}
      => row[t].ip = machine[row[t].vm].ip

\* A row goes only when its machine is gone: no deletion, whether asked for
\* twice or racing a new deployment of the target, removes the row of a
\* running machine.
RowsOutliveMachines ==
  [][\A t \in Targets :
       HasRow(t) /\ row'[t].id = 0 => ~Up(row[t].vm)]_vars
=============================================================================
