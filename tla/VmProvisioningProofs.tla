------------------------ MODULE VmProvisioningProofs ------------------------
(***************************************************************************)
(* No machine is orphaned, no row goes before its machine, and names and    *)
(* addresses are shared only by calls that raced for them, proved for every *)
(* number of targets, machines, addresses, calls, deletions and faults.     *)
(* The arguments need each other: a deletion knows its machine by a row's   *)
(* id, a row its machine by a creation, and a creation is alone with its    *)
(* name and address unless another call had them in mind.                   *)
(***************************************************************************)
EXTENDS VmProvisioning, FiniteSetTheorems, WellFoundedInduction, TLAPS

\* A machine that the hypervisor has, or had.
Exists(m) == m \in Machines /\ machine[m].state # "none"

\* A call holds a machine only between creating it and storing a row, and
\* stores the row of a machine that exists.
CallOK(r) ==
  /\ r.made # None <=> r.pc \in {"adopt", "store"}
  /\ r.pc = "store" => Exists(r.vm)
CallInv == \A c \in Calls : CallOK(call[c])

RowInv == \A t \in Targets : HasRow(t) => row[t].id <= rowIds /\ Exists(row[t].vm)

\* A deletion's machine is the one of the row it will delete, and is gone
\* when it comes to the row.
RemoverOK(q) ==
  q.pc # "idle" =>
    /\ q.id \in 1..rowIds /\ Exists(q.vm)
    /\ row[q.target].id = q.id => row[q.target].vm = q.vm
    /\ q.pc = "row" => machine[q.vm].state = "down"
RemoverInv == \A r \in Removers : RemoverOK(remover[r])

NoticeInv == \A m \in notices : machine[m].state = "down"

\* Between finding a name free and creating, a call is the only one of that
\* name, and there is no machine of that name; the same for an address.
Wants(r) == r.pc \in {"address", "create"}
NameInv ==
  /\ \A c, d \in Calls :
       c # d /\ Wants(call[c]) /\ Wants(call[d]) /\ call[c].host = call[d].host
         => call[c].host \in raced
  /\ \A c \in Calls : \A m \in Machines :
       Wants(call[c]) /\ Up(m) /\ machine[m].host = call[c].host => call[c].host \in raced
  /\ NoDuplicateVm

AddressInv ==
  /\ \A c, d \in Calls :
       c # d /\ call[c].pc = "create" /\ call[d].pc = "create" /\ call[c].ip = call[d].ip
         => call[c].ip \in raced
  /\ \A c \in Calls : \A m \in Machines :
       call[c].pc = "create" /\ Up(m) /\ machine[m].ip = call[c].ip => call[c].ip \in raced
  /\ NoSharedAddress

IInv ==
  /\ TypeOK /\ CallInv /\ RowInv /\ RemoverInv /\ NoticeInv
  /\ NameInv /\ AddressInv /\ AccountedFor

-----------------------------------------------------------------------------
(* Constants and records.                                                   *)

\* Least yields a member of every nonempty set of naturals.
LEMMA LeastIn ==
  ASSUME NEW S \in SUBSET Nat, S # {}
  PROVE  Least(S) \in S
<1> DEFINE R == OpToRel(<, Nat)
<1>1. IsWellFoundedOn(R, Nat)
  BY NatLessThanWellFounded, Zenon
<1>2. \A x, y \in Nat : x < y => <<x, y>> \in R
  BY Zenon DEF OpToRel
<1> HIDE DEF R
<1>3. PICK n \in S : \A m \in S : ~(<<m, n>> \in R)
  BY <1>1, WFMin
<1>4. ASSUME NEW m \in S
      PROVE  n <= m
  <2>1. m \in Nat /\ n \in Nat /\ ~(m < n)
    BY <1>2, <1>3
  <2> QED BY <2>1
<1>5. \E k \in S : \A m \in S : k <= m
  BY <1>4
<1> QED BY <1>5 DEF Least

LEMMA IdleTyped ==
  /\ SomeTarget \in Targets /\ SomeHost \in Hostnames
  /\ IdleCall \in Call /\ IdleCall.pc = "idle" /\ IdleCall.made = None
  /\ IdleRemover \in Remover /\ IdleRemover.pc = "idle"
  /\ NoMachine \in Machine /\ NoMachine.state = "none"
  /\ NoRow \in Row /\ NoRow.id = 0
<1>1. SomeTarget \in Targets
  BY VmAssumption DEF SomeTarget
<1>2. SomeHost \in Hostnames
  <2>1. Hosts[SomeTarget] \subseteq Hostnames /\ Hosts[SomeTarget] # {}
    BY <1>1, VmAssumption DEF Hostnames
  <2> QED BY <2>1 DEF SomeHost
<1>3. IdleCall \in Call /\ IdleCall.pc = "idle" /\ IdleCall.made = None
  BY <1>1, <1>2 DEF IdleCall, Call, Pc
<1>4. IdleRemover \in Remover /\ IdleRemover.pc = "idle"
  BY <1>1 DEF IdleRemover, Remover
<1>5. NoMachine \in Machine /\ NoMachine.state = "none"
  BY <1>2 DEF NoMachine, Machine
<1>6. NoRow \in Row /\ NoRow.id = 0
  BY <1>2 DEF NoRow, Row
<1> QED BY <1>1, <1>2, <1>3, <1>4, <1>5, <1>6

LEMMA MachinesAreNaturals ==
  Machines \subseteq Nat \ {None}
BY VmAssumption DEF Machines, None

LEMMA InitInv ==
  ASSUME Init
  PROVE  IInv
<1> USE IdleTyped
<1>1. TypeOK
  BY DEF Init, TypeOK, HasRow
<1>2. CallInv /\ RowInv /\ RemoverInv /\ NoticeInv
  BY DEF Init, CallInv, CallOK, RowInv, RemoverInv, RemoverOK, NoticeInv, HasRow
<1>3. NameInv /\ AddressInv /\ AccountedFor
  BY DEF Init, NameInv, NoDuplicateVm, Wants, AddressInv, NoSharedAddress, AccountedFor, Up
<1> QED BY <1>1, <1>2, <1>3 DEF IInv

-----------------------------------------------------------------------------
(* A call moves on, and nothing else but what it raced for or lost.         *)

LEMMA CallMoves ==
  ASSUME IInv, NEW c \in Calls, NEW r \in Call, call' = [call EXCEPT ![c] = r],
         UNCHANGED <<machine, row, rowIds, remover, notices>>,
         starts' \in Nat, faults' \in Nat,
         raced \subseteq raced', raced' \subseteq Targets \cup Users \cup Hostnames \cup Addresses,
         lost \subseteq lost', lost' \subseteq Machines,
         CallOK(r),
         call[c].made \in lost' \cup {None, r.made},
         Wants(r) /\ r.host \notin raced' =>
           /\ \A d \in Calls \ {c} : ~(Wants(call[d]) /\ call[d].host = r.host)
           /\ \A m \in Machines : ~(Up(m) /\ machine[m].host = r.host),
         r.pc = "create" /\ r.ip \notin raced' =>
           /\ \A d \in Calls \ {c} : ~(call[d].pc = "create" /\ call[d].ip = r.ip)
           /\ \A m \in Machines : ~(Up(m) /\ machine[m].ip = r.ip)
  PROVE  IInv'
<1> USE DEF IInv
<1>1. /\ call' \in [Calls -> Call] /\ call'[c] = r
      /\ \A d \in Calls \ {c} : call'[d] = call[d]
  BY DEF TypeOK
<1>2. TypeOK'
  BY <1>1 DEF TypeOK, HasRow
<1>3. CallInv'
  BY <1>1 DEF CallInv, CallOK, Exists
<1>4. RowInv' /\ RemoverInv' /\ NoticeInv'
  BY DEF RowInv, RemoverInv, RemoverOK, NoticeInv, HasRow, Exists
<1>5. NameInv'
  <2>1. NoDuplicateVm'
    BY DEF NameInv, NoDuplicateVm, Up
  <2>2. ASSUME NEW a \in Calls, NEW b \in Calls, a # b, Wants(call'[a]), Wants(call'[b]),
               call'[a].host = call'[b].host
        PROVE  call'[a].host \in raced'
    BY <1>1, <2>2 DEF NameInv
  <2>3. ASSUME NEW a \in Calls, NEW m \in Machines, Wants(call'[a]), Up(m)',
               machine'[m].host = call'[a].host
        PROVE  call'[a].host \in raced'
    BY <1>1, <2>3 DEF NameInv, Up
  <2> QED BY <2>1, <2>2, <2>3 DEF NameInv, Wants
<1>6. AddressInv'
  <2>1. NoSharedAddress'
    BY DEF AddressInv, NoSharedAddress, Up
  <2>2. ASSUME NEW a \in Calls, NEW b \in Calls, a # b, call'[a].pc = "create",
               call'[b].pc = "create", call'[a].ip = call'[b].ip
        PROVE  call'[a].ip \in raced'
    BY <1>1, <2>2 DEF AddressInv
  <2>3. ASSUME NEW a \in Calls, NEW m \in Machines, call'[a].pc = "create", Up(m)',
               machine'[m].ip = call'[a].ip
        PROVE  call'[a].ip \in raced'
    BY <1>1, <2>3 DEF AddressInv, Up
  <2> QED BY <2>1, <2>2, <2>3 DEF AddressInv
<1>7. AccountedFor'
  <2> SUFFICES ASSUME NEW m \in Machines, Up(m)', m \notin lost'
               PROVE  InDatabase(m)' \/ Held(m)'
    BY DEF AccountedFor
  <2>1. Up(m) /\ m \notin lost /\ m # None
    BY MachinesAreNaturals DEF Up
  <2>2. InDatabase(m) \/ Held(m)
    BY <2>1 DEF AccountedFor
  <2>3. InDatabase(m) => InDatabase(m)'
    BY DEF InDatabase, HasRow
  <2>4. Held(m) => Held(m)'
    BY <1>1, <2>1 DEF Held
  <2> QED BY <2>2, <2>3, <2>4
<1> QED BY <1>2, <1>3, <1>4, <1>5, <1>6, <1>7

\* A call that ends, or goes where it has neither a name nor an address in mind.
LEMMA CallGoesOn ==
  ASSUME IInv, NEW c \in Calls, NEW r \in Call, call' = [call EXCEPT ![c] = r],
         UNCHANGED <<machine, row, rowIds, remover, notices>>,
         starts' \in Nat, faults' \in Nat,
         raced \subseteq raced', raced' \subseteq Targets \cup Users \cup Hostnames \cup Addresses,
         lost \subseteq lost', lost' \subseteq Machines,
         CallOK(r), ~Wants(r),
         call[c].made \in lost' \cup {None, r.made}
  PROVE  IInv'
BY CallMoves DEF Wants

\* A call without a machine of its own ends.
LEMMA CallEnds ==
  ASSUME IInv, NEW c \in Calls, End(c), call[c].pc \notin {"adopt", "store"},
         UNCHANGED <<machine, row, rowIds, remover, notices, counters, lost, raced>>
  PROVE  IInv'
<1>1. call[c].made = None
  BY DEF IInv, CallInv, CallOK
<1>2. starts' \in Nat /\ faults' \in Nat /\ raced \subseteq Targets \cup Users \cup Hostnames \cup Addresses
      /\ lost \subseteq Machines
  BY DEF IInv, TypeOK, counters
<1> QED BY <1>1, <1>2, IdleTyped, CallGoesOn DEF End, CallOK, Wants

-----------------------------------------------------------------------------
(* The steps of a call that write neither machines nor rows.                *)

LEMMA FindVmStep ==
  ASSUME IInv, NEW c \in Calls, NEW t \in Targets, NEW h \in Hosts[t], FindVm(c, t, h)
  PROVE  IInv'
<1> DEFINE has == HasRow(t)
           r == [IdleCall EXCEPT !.pc = "count", !.target = t, !.host = h, !.reuse = has]
<1>1. has \in BOOLEAN /\ h \in Hostnames
  BY DEF HasRow, Hostnames
<1> HIDE DEF has
<1>2. r \in Call /\ r.pc = "count" /\ r.made = None
  BY <1>1, IdleTyped DEF IdleCall, Call, Pc
<1>3. /\ call' = [call EXCEPT ![c] = r]
      /\ UNCHANGED <<machine, row, rowIds, remover, notices, lost, faults>>
      /\ starts' = starts + 1 /\ call[c].pc = "idle"
      /\ raced' \in {raced, raced \cup {t}}
  BY DEF FindVm, has
<1> HIDE DEF r
<1>4. /\ starts' \in Nat /\ faults' \in Nat /\ lost \subseteq Machines
      /\ raced \subseteq raced'
      /\ raced' \subseteq Targets \cup Users \cup Hostnames \cup Addresses
  BY <1>3 DEF IInv, TypeOK
<1>5. call[c].made = None
  BY <1>3 DEF IInv, CallInv, CallOK
<1>6. CallOK(r) /\ ~Wants(r)
  BY <1>2 DEF CallOK, Wants
<1> QED BY <1>2, <1>3, <1>4, <1>5, <1>6, CallGoesOn

LEMMA CountVmsStep ==
  ASSUME IInv, NEW c \in Calls, CountVms(c)
  PROVE  IInv'
<1> DEFINE r == [call[c] EXCEPT !.pc = "find"]
           u == Owner[call[c].target]
<1>1. /\ call[c].pc = "count" /\ call[c].made = None /\ call[c] \in Call
      /\ u \in Users
  BY DEF CountVms, IInv, TypeOK, CallInv, CallOK, Call, Users
<1>2. /\ UNCHANGED <<machine, row, rowIds, remover, notices, counters, lost>>
      /\ \/ call' = [call EXCEPT ![c] = r] /\ raced' \in {raced, raced \cup {u}}
         \/ End(c) /\ UNCHANGED raced
  BY DEF CountVms, Goto
<1>3. CASE End(c) /\ UNCHANGED raced
  BY <1>1, <1>2, <1>3, CallEnds
<1>4. CASE call' = [call EXCEPT ![c] = r] /\ raced' \in {raced, raced \cup {u}}
  <2>1. r \in Call /\ CallOK(r) /\ ~Wants(r) /\ r.made = None
    BY <1>1 DEF Call, Pc, CallOK, Wants
  <2>2. /\ starts' \in Nat /\ faults' \in Nat /\ lost' \subseteq Machines /\ lost' = lost
        /\ raced \subseteq raced'
        /\ raced' \subseteq Targets \cup Users \cup Hostnames \cup Addresses
    BY <1>1, <1>2, <1>4 DEF IInv, TypeOK, counters
  <2> HIDE DEF r
  <2> QED BY <1>1, <1>2, <1>4, <2>1, <2>2, CallGoesOn
<1> QED BY <1>2, <1>3, <1>4

\* A call at work keeps its record but for its point, and its machine.
LEMMA PlainGoto ==
  ASSUME IInv, NEW c \in Calls, NEW r \in Call, call' = [call EXCEPT ![c] = r],
         UNCHANGED <<machine, row, rowIds, remover, notices, counters, lost, raced>>,
         CallOK(r), ~Wants(r), call[c].made \in {None, r.made}
  PROVE  IInv'
<1>1. /\ starts' \in Nat /\ faults' \in Nat /\ lost' \subseteq Machines
      /\ raced' \subseteq Targets \cup Users \cup Hostnames \cup Addresses
      /\ raced' = raced /\ lost' = lost
  BY DEF IInv, TypeOK, counters
<1> QED BY <1>1, CallGoesOn

LEMMA FindRowStep ==
  ASSUME IInv, NEW c \in Calls, FindRow(c)
  PROVE  IInv'
<1> DEFINE t == call[c].target
           l == [call[c] EXCEPT !.pc = "list"]
           p == [call[c] EXCEPT !.pc = "poll", !.id = row[t].id, !.vm = row[t].vm,
                                !.ip = row[t].ip]
           n == [call[c] EXCEPT !.pc = "rename", !.id = row[t].id, !.vm = row[t].vm,
                                !.ip = row[t].ip]
<1>1. /\ call[c].pc = "find" /\ call[c].made = None /\ call[c] \in Call
      /\ row[t] \in Row
  BY DEF FindRow, IInv, TypeOK, CallInv, CallOK, Call
<1>2. UNCHANGED <<machine, row, rowIds, remover, notices, counters, lost, raced>>
  BY DEF FindRow
<1>3. \/ call' = [call EXCEPT ![c] = l] \/ call' = [call EXCEPT ![c] = p]
      \/ call' = [call EXCEPT ![c] = n] \/ End(c)
  BY DEF FindRow, Goto
<1>4. /\ l \in Call /\ l.pc = "list" /\ l.made = None
      /\ p \in Call /\ p.pc = "poll" /\ p.made = None
      /\ n \in Call /\ n.pc = "rename" /\ n.made = None
  BY <1>1 DEF Call, Pc, Row
<1> HIDE DEF l, p, n
<1>5. CASE End(c)
  BY <1>1, <1>2, <1>5, CallEnds
<1>6. ASSUME NEW r \in {l, p, n}, call' = [call EXCEPT ![c] = r]
      PROVE  IInv'
  <2>1. CallOK(r) /\ ~Wants(r) /\ r \in Call
    BY <1>4 DEF CallOK, Wants
  <2> QED BY <1>1, <1>2, <1>6, <2>1, PlainGoto
<1> QED BY <1>3, <1>5, <1>6

LEMMA PollStep ==
  ASSUME IInv, NEW c \in Calls, Poll(c)
  PROVE  IInv'
<1> DEFINE r == [call[c] EXCEPT !.pc = "mark"]
<1>1. /\ call[c].pc = "poll" /\ call[c].made = None /\ call[c] \in Call
  BY DEF Poll, IInv, TypeOK, CallInv, CallOK
<1>2. r \in Call /\ r.pc = "mark" /\ r.made = None
  BY <1>1 DEF Call, Pc
<1>3. /\ call' = [call EXCEPT ![c] = r]
      /\ UNCHANGED <<machine, row, rowIds, remover, notices, counters, lost, raced>>
  BY DEF Poll, Goto
<1> HIDE DEF r
<1>4. CallOK(r) /\ ~Wants(r)
  BY <1>2 DEF CallOK, Wants
<1> QED BY <1>1, <1>2, <1>3, <1>4, PlainGoto

LEMMA ListHostsStep ==
  ASSUME IInv, NEW c \in Calls, ListHosts(c)
  PROVE  IInv'
<1> DEFINE h == call[c].host
           r == [call[c] EXCEPT !.pc = "address"]
<1>1. /\ call[c].pc = "list" /\ call[c].made = None /\ call[c] \in Call
      /\ h \in Hostnames
  BY DEF ListHosts, IInv, TypeOK, CallInv, CallOK, Call
<1>2. UNCHANGED <<machine, row, rowIds, remover, notices, counters, lost>>
  BY DEF ListHosts
<1>3. r \in Call /\ r.pc = "address" /\ r.made = None /\ r.host = h
  BY <1>1 DEF Call, Pc
<1>4. \/ End(c) /\ UNCHANGED raced
      \/ /\ \A m \in Machines : ~(Up(m) /\ machine[m].host = h)
         /\ call' = [call EXCEPT ![c] = r]
         /\ raced' = IF \E d \in Calls \ {c} : Naming(d, h)
                     THEN raced \cup {h} ELSE raced
  BY DEF ListHosts, Goto
<1> HIDE DEF r
<1>5. CASE End(c) /\ UNCHANGED raced
  BY <1>1, <1>2, <1>5, CallEnds
<1>6. CASE ~(End(c) /\ UNCHANGED raced)
  <2>1. raced' \in {raced, raced \cup {h}}
    BY <1>4, <1>6
  <2>2. /\ raced \subseteq raced'
        /\ raced' \subseteq Targets \cup Users \cup Hostnames \cup Addresses
        /\ starts' \in Nat /\ faults' \in Nat /\ lost' \subseteq Machines /\ lost' = lost
    BY <1>1, <1>2, <2>1 DEF IInv, TypeOK, counters
  <2>3. h \notin raced' => \A d \in Calls \ {c} : ~(Wants(call[d]) /\ call[d].host = h)
    BY <1>4, <1>6 DEF Naming, Wants
  <2>4. CallOK(r) /\ r.pc # "create"
    BY <1>3 DEF CallOK
  <2> HIDE DEF h
  <2> QED BY <1>1, <1>2, <1>3, <1>4, <1>6, <2>2, <2>3, <2>4, CallMoves
<1> QED BY <1>5, <1>6

LEMMA TakeAddressStep ==
  ASSUME IInv, NEW c \in Calls, TakeAddress(c)
  PROVE  IInv'
<1> DEFINE a == Least(Addresses \ Assigned)
           h == call[c].host
           r == [call[c] EXCEPT !.pc = "create", !.ip = a]
<1>1. /\ call[c].pc = "address" /\ call[c].made = None /\ call[c] \in Call
  BY DEF TakeAddress, IInv, TypeOK, CallInv, CallOK
<1>2. UNCHANGED <<machine, row, rowIds, remover, notices, counters, lost>>
  BY DEF TakeAddress
<1>3. \/ End(c) /\ UNCHANGED raced
      \/ /\ Addresses \ Assigned # {}
         /\ call' = [call EXCEPT ![c] = r]
         /\ raced' = IF \E d \in Calls \ {c} : call[d].pc = "create" /\ call[d].ip = a
                     THEN raced \cup {a} ELSE raced
  BY DEF TakeAddress
<1>4. CASE End(c) /\ UNCHANGED raced
  BY <1>1, <1>2, <1>4, CallEnds
<1>5. CASE ~(End(c) /\ UNCHANGED raced)
  <2>1. a \in Addresses /\ a \notin Assigned
    <3>1. Addresses \ Assigned \in SUBSET Nat
      BY VmAssumption
    <3> QED BY <1>3, <1>5, <3>1, LeastIn
  <2>2. \A m \in Machines : ~(Up(m) /\ machine[m].ip = a)
    BY <2>1 DEF Assigned
  <2> HIDE DEF a
  <2>3. r \in Call /\ r.pc = "create" /\ r.made = None /\ r.host = h /\ r.ip = a
    BY <1>1, <2>1 DEF Call, Pc
  <2>4. raced' \in {raced, raced \cup {a}}
    BY <1>3, <1>5
  <2>5. /\ raced \subseteq raced'
        /\ raced' \subseteq Targets \cup Users \cup Hostnames \cup Addresses
        /\ starts' \in Nat /\ faults' \in Nat /\ lost' \subseteq Machines /\ lost' = lost
    BY <1>2, <2>1, <2>4 DEF IInv, TypeOK, counters
  <2>6. h \notin raced' =>
          /\ \A d \in Calls \ {c} : ~(Wants(call[d]) /\ call[d].host = h)
          /\ \A m \in Machines : ~(Up(m) /\ machine[m].host = h)
    BY <1>1, <2>5 DEF IInv, NameInv, Wants
  <2>7. a \notin raced' =>
          \A d \in Calls \ {c} : ~(call[d].pc = "create" /\ call[d].ip = a)
    BY <1>3, <1>5
  <2>8. CallOK(r)
    BY <2>3 DEF CallOK
  <2>9. call' = [call EXCEPT ![c] = r]
    BY <1>3, <1>5
  <2> HIDE DEF r, h
  <2> QED BY <1>1, <1>2, <2>2, <2>3, <2>5, <2>6, <2>7, <2>8, <2>9, CallMoves
<1> QED BY <1>4, <1>5

\* A call is cut off; the machine it made is lost to the database.
LEMMA ThrowStep ==
  ASSUME IInv, NEW c \in Calls, Throw(c),
         UNCHANGED <<machine, row, rowIds, remover, notices, raced>>,
         starts' \in Nat, faults' \in Nat
  PROVE  IInv'
<1>1. /\ call' = [call EXCEPT ![c] = IdleCall]
      /\ lost' = lost \cup ({call[c].made} \ {None})
  BY DEF Throw, End
<1>2. call[c].made \in Machines \cup {None}
  BY DEF IInv, TypeOK, Call
<1>3. /\ lost \subseteq lost' /\ lost' \subseteq Machines
      /\ raced \subseteq raced'
      /\ raced' \subseteq Targets \cup Users \cup Hostnames \cup Addresses
  BY <1>1, <1>2 DEF IInv, TypeOK
<1>4. call[c].made \in lost' \cup {None, IdleCall.made}
  BY <1>1
<1>5. CallOK(IdleCall) /\ ~Wants(IdleCall)
  BY IdleTyped DEF CallOK, Wants
<1> QED BY <1>1, <1>3, <1>4, <1>5, IdleTyped, CallGoesOn

LEMMA CallFailsStep ==
  ASSUME IInv, NEW c \in Calls, CallFails(c)
  PROVE  IInv'
<1>1. starts' \in Nat /\ faults' \in Nat
  BY DEF CallFails, IInv, TypeOK
<1> QED BY <1>1, ThrowStep DEF CallFails

LEMMA AdoptMachineStep ==
  ASSUME IInv, NEW c \in Calls, AdoptMachine(c)
  PROVE  IInv'
<1> DEFINE named == {m \in Machines : Up(m) /\ machine[m].host = call[c].host}
           r == [call[c] EXCEPT !.pc = "store", !.vm = Least(named)]
<1>1. call[c].pc = "adopt" /\ call[c] \in Call
  BY DEF AdoptMachine, IInv, TypeOK
<1>2. UNCHANGED <<machine, row, rowIds, remover, notices, counters, raced>>
  BY DEF AdoptMachine
<1>3. \/ Throw(c)
      \/ named # {} /\ UNCHANGED lost /\ call' = [call EXCEPT ![c] = r]
  BY <1>1 DEF AdoptMachine, IInv, TypeOK
<1>4. starts' \in Nat /\ faults' \in Nat
  BY <1>2 DEF IInv, TypeOK, counters
<1>5. CASE Throw(c)
  BY <1>2, <1>4, <1>5, ThrowStep
<1>6. CASE named # {} /\ UNCHANGED lost /\ call' = [call EXCEPT ![c] = r]
  <2>1. named \in SUBSET Nat
    BY MachinesAreNaturals
  <2>2. Least(named) \in named
    BY <1>6, <2>1, LeastIn
  <2>3. Exists(Least(named))
    BY <2>2 DEF Exists, Up
  <2> HIDE DEF named
  <2>4. Least(named) \in Machines
    BY <2>3 DEF Exists
  <2>5. r \in Call /\ r.pc = "store" /\ r.vm = Least(named) /\ r.made = call[c].made
    BY <1>1, <2>4 DEF Call, Pc
  <2>6. CallOK(r) /\ ~Wants(r)
    BY <1>1, <2>3, <2>5 DEF IInv, CallInv, CallOK, Wants
  <2>7. /\ lost \subseteq lost' /\ lost' \subseteq Machines
        /\ raced \subseteq raced'
        /\ raced' \subseteq Targets \cup Users \cup Hostnames \cup Addresses
    BY <1>2, <1>6 DEF IInv, TypeOK
  <2> HIDE DEF r
  <2> QED BY <1>2, <1>4, <1>6, <2>5, <2>6, <2>7, CallGoesOn
<1> QED BY <1>3, <1>5, <1>6

-----------------------------------------------------------------------------
(* The steps of a call that write machines.                                 *)

LEMMA RenameMachineStep ==
  ASSUME IInv, NEW c \in Calls, RenameMachine(c)
  PROVE  IInv'
<1> DEFINE h == call[c].host
           m == call[c].vm
           r == [call[c] EXCEPT !.pc = "renameRow"]
<1>1. /\ call[c].pc = "rename" /\ call[c].made = None /\ call[c] \in Call
      /\ h \in Hostnames
  BY DEF RenameMachine, IInv, TypeOK, CallInv, CallOK, Call
<1>2. /\ UNCHANGED <<row, rowIds, remover, notices, counters, lost>>
      /\ call' = [call EXCEPT ![c] = r]
      /\ \/ /\ Up(m) /\ machine' = [machine EXCEPT ![m].host = h]
            /\ raced' = IF \/ \E n \in Machines \ {m} : Up(n) /\ machine[n].host = h
                           \/ \E d \in Calls : Naming(d, h)
                        THEN raced \cup {h} ELSE raced
         \/ UNCHANGED <<machine, raced>>
  BY DEF RenameMachine, Goto
<1>3. r \in Call /\ r.pc = "renameRow" /\ r.made = None
  BY <1>1 DEF Call, Pc
<1> HIDE DEF r
<1>4. CallOK(r) /\ ~Wants(r)
  BY <1>3 DEF CallOK, Wants
<1>5. CASE UNCHANGED <<machine, raced>>
  BY <1>1, <1>2, <1>3, <1>4, <1>5, PlainGoto
<1>6. CASE ~UNCHANGED <<machine, raced>>
  <2>1. /\ machine' = [machine EXCEPT ![m].host = h]
        /\ raced' \in {raced, raced \cup {h}}
        /\ h \notin raced' => /\ \A n \in Machines \ {m} : ~(Up(n) /\ machine[n].host = h)
                              /\ \A d \in Calls : ~Naming(d, h)
    BY <1>2, <1>6
  <2>2. /\ machine' \in [Machines -> Machine]
        /\ \A n \in Machines :
             /\ machine'[n].state = machine[n].state /\ machine'[n].ip = machine[n].ip
             /\ machine'[n].host = IF n = m THEN h ELSE machine[n].host
    BY <1>1, <2>1 DEF IInv, TypeOK, Machine
  <2>3. /\ raced \subseteq raced'
        /\ raced' \subseteq Targets \cup Users \cup Hostnames \cup Addresses
    BY <1>1, <2>1 DEF IInv, TypeOK
  <2>4. /\ call' \in [Calls -> Call] /\ call'[c] = r
        /\ \A d \in Calls \ {c} : call'[d] = call[d]
    BY <1>2, <1>3 DEF IInv, TypeOK
  <2>5. \A n \in Machines : Up(n)' <=> Up(n)
    BY <2>2 DEF Up
  <2> HIDE DEF h, m
  <2>6. TypeOK'
    BY <1>2, <2>2, <2>3, <2>4 DEF IInv, TypeOK, HasRow, counters
  <2>7. CallInv'
    BY <1>4, <2>2, <2>4 DEF IInv, CallInv, CallOK, Exists
  <2>8. RowInv' /\ RemoverInv' /\ NoticeInv'
    BY <1>2, <2>2 DEF IInv, TypeOK, RowInv, RemoverInv, RemoverOK, NoticeInv, HasRow, Exists
  <2>9. NameInv'
    <3>1. \A n, k \in Machines :
            n # k /\ Up(n)' /\ Up(k)' /\ machine'[n].host = machine'[k].host
              => machine'[n].host \in raced'
      BY <2>1, <2>2, <2>3, <2>5 DEF IInv, NameInv, NoDuplicateVm
    <3>2. \A d \in Calls : Wants(call'[d]) => d # c /\ Wants(call[d]) /\ call'[d] = call[d]
      BY <1>4, <2>4
    <3>3. \A d \in Calls, n \in Machines :
            Wants(call'[d]) /\ Up(n)' /\ machine'[n].host = call'[d].host
              => call'[d].host \in raced'
      BY <2>1, <2>2, <2>3, <2>5, <3>2 DEF IInv, NameInv, Naming, Wants
    <3>4. \A a, b \in Calls :
            a # b /\ Wants(call'[a]) /\ Wants(call'[b]) /\ call'[a].host = call'[b].host
              => call'[a].host \in raced'
      BY <2>3, <3>2 DEF IInv, NameInv
    <3> QED BY <3>1, <3>3, <3>4 DEF NameInv, NoDuplicateVm, Wants
  <2>10. AddressInv'
    <3>1. \A d \in Calls : call'[d].pc = "create" => d # c /\ call'[d] = call[d]
      BY <1>3, <2>4
    <3> QED BY <2>2, <2>3, <2>5, <3>1 DEF IInv, AddressInv, NoSharedAddress
  <2>11. AccountedFor'
    <3>1. \A d \in Calls : call'[d].made = call[d].made
      BY <1>1, <1>3, <2>4
    <3> QED BY <1>2, <2>5, <3>1 DEF IInv, AccountedFor, InDatabase, Held, HasRow
  <2> QED BY <2>6, <2>7, <2>8, <2>9, <2>10, <2>11 DEF IInv
<1> QED BY <1>5, <1>6

\* What a new machine of a call brings, whatever becomes of the call's record.
LEMMA Creation ==
  ASSUME IInv, NEW c \in Calls, call[c].pc = "create", CanCreate,
         machine' = Created(c),
         NEW r \in Call, call' = [call EXCEPT ![c] = r], ~Wants(r), CallOK(r)',
         UNCHANGED <<row, rowIds, remover, notices, raced>>,
         lost \subseteq lost', lost' \subseteq Machines, starts' \in Nat, faults' \in Nat,
         NewMachine = r.made \/ NewMachine \in lost'
  PROVE  IInv'
<1> DEFINE k == NewMachine
<1>1. k \in Machines /\ machine[k].state = "none"
  <2>1. /\ {m \in Machines : machine[m].state = "none"} \in SUBSET Nat
        /\ {m \in Machines : machine[m].state = "none"} # {}
    BY MachinesAreNaturals DEF CanCreate
  <2> QED BY <2>1, LeastIn DEF NewMachine
<1>2. /\ machine'[k].state = "up" /\ machine'[k].host = call[c].host
      /\ machine'[k].ip = call[c].ip
      /\ \A m \in Machines \ {k} : machine'[m] = machine[m]
      /\ machine' \in [Machines -> Machine]
  BY <1>1 DEF Created, IInv, TypeOK, Machine, Call
<1> HIDE DEF k
<1>3. /\ call' \in [Calls -> Call] /\ call'[c] = r
      /\ \A d \in Calls \ {c} : call'[d] = call[d]
  BY DEF IInv, TypeOK
<1>4. \A m \in Machines : Up(m)' <=> (m = k \/ (m # k /\ Up(m)))
  BY <1>2 DEF Up
<1>5. \A m : Exists(m) => m # k /\ machine'[m] = machine[m]
  BY <1>1, <1>2 DEF Exists
<1>6. TypeOK'
  BY <1>2, <1>3 DEF IInv, TypeOK, HasRow
<1>7. CallInv'
  <2>1. ASSUME NEW d \in Calls, d # c
        PROVE  CallOK(call[d])'
    BY <1>3, <1>5, <2>1 DEF IInv, CallInv, CallOK, Exists
  <2>2. CallOK(call[c])'
    BY <1>3 DEF CallOK, Exists
  <2> QED BY <2>1, <2>2 DEF CallInv
<1>8. RowInv' /\ RemoverInv'
  BY <1>5 DEF IInv, RowInv, RemoverInv, RemoverOK, HasRow, Exists
<1>9. NoticeInv'
  BY <1>1, <1>2 DEF IInv, NoticeInv, TypeOK
<1>10. NameInv'
  <2>1. \A d \in Calls : Wants(call'[d]) => d # c /\ Wants(call[d]) /\ call'[d] = call[d]
    BY <1>3
  <2>2. Wants(call[c])
    BY DEF Wants
  <2>3. \A m, n \in Machines :
          m # n /\ Up(m)' /\ Up(n)' /\ machine'[m].host = machine'[n].host
            => machine'[m].host \in raced'
    <3> SUFFICES ASSUME NEW m \in Machines, NEW n \in Machines, m # n, Up(m)', Up(n)',
                        machine'[m].host = machine'[n].host
                 PROVE  machine'[m].host \in raced
      OBVIOUS
    <3>1. CASE m # k /\ n # k
      BY <1>2, <1>4, <3>1 DEF IInv, NameInv, NoDuplicateVm
    <3>2. CASE m = k
      BY <1>2, <1>4, <2>2, <3>2 DEF IInv, NameInv
    <3>3. CASE n = k
      BY <1>2, <1>4, <2>2, <3>3 DEF IInv, NameInv
    <3> QED BY <3>1, <3>2, <3>3
  <2>4. \A d \in Calls, m \in Machines :
          Wants(call'[d]) /\ Up(m)' /\ machine'[m].host = call'[d].host
            => call'[d].host \in raced'
    <3> SUFFICES ASSUME NEW d \in Calls, NEW m \in Machines, Wants(call'[d]), Up(m)',
                        machine'[m].host = call'[d].host
                 PROVE  call[d].host \in raced
      BY <2>1
    <3>1. CASE m = k
      BY <1>2, <2>1, <2>2, <3>1 DEF IInv, NameInv
    <3>2. CASE m # k
      BY <1>2, <1>4, <2>1, <3>2 DEF IInv, NameInv
    <3> QED BY <3>1, <3>2
  <2>5. \A a, b \in Calls :
          a # b /\ Wants(call'[a]) /\ Wants(call'[b]) /\ call'[a].host = call'[b].host
            => call'[a].host \in raced'
    BY <2>1 DEF IInv, NameInv
  <2> QED BY <2>3, <2>4, <2>5 DEF NameInv, NoDuplicateVm, Wants
<1>11. AddressInv'
  <2>1. \A d \in Calls : call'[d].pc = "create" => d # c /\ call'[d] = call[d]
    BY <1>3 DEF Wants
  <2>2. \A m, n \in Machines :
          m # n /\ Up(m)' /\ Up(n)' /\ machine'[m].ip = machine'[n].ip
            => machine'[m].ip \in raced'
    <3> SUFFICES ASSUME NEW m \in Machines, NEW n \in Machines, m # n, Up(m)', Up(n)',
                        machine'[m].ip = machine'[n].ip
                 PROVE  machine'[m].ip \in raced
      OBVIOUS
    <3>1. CASE m # k /\ n # k
      BY <1>2, <1>4, <3>1 DEF IInv, AddressInv, NoSharedAddress
    <3>2. CASE m = k
      BY <1>2, <1>4, <3>2 DEF IInv, AddressInv
    <3>3. CASE n = k
      BY <1>2, <1>4, <3>3 DEF IInv, AddressInv
    <3> QED BY <3>1, <3>2, <3>3
  <2>3. \A d \in Calls, m \in Machines :
          call'[d].pc = "create" /\ Up(m)' /\ machine'[m].ip = call'[d].ip
            => call'[d].ip \in raced'
    <3> SUFFICES ASSUME NEW d \in Calls, NEW m \in Machines, call'[d].pc = "create", Up(m)',
                        machine'[m].ip = call'[d].ip
                 PROVE  call[d].ip \in raced
      BY <2>1
    <3>1. CASE m = k
      BY <1>2, <2>1, <3>1 DEF IInv, AddressInv
    <3>2. CASE m # k
      BY <1>2, <1>4, <2>1, <3>2 DEF IInv, AddressInv
    <3> QED BY <3>1, <3>2
  <2>4. \A a, b \in Calls :
          a # b /\ call'[a].pc = "create" /\ call'[b].pc = "create" /\ call'[a].ip = call'[b].ip
            => call'[a].ip \in raced'
    BY <2>1 DEF IInv, AddressInv
  <2> QED BY <2>2, <2>3, <2>4 DEF AddressInv, NoSharedAddress
<1>12. AccountedFor'
  <2> SUFFICES ASSUME NEW m \in Machines, Up(m)'
               PROVE  InDatabase(m)' \/ Held(m)' \/ m \in lost'
    BY DEF AccountedFor
  <2>1. CASE m = k
    BY <1>3, <2>1 DEF Held, k
  <2>2. CASE m # k
    <3>1. InDatabase(m) \/ Held(m) \/ m \in lost
      BY <1>4, <2>2 DEF IInv, AccountedFor
    <3>2. InDatabase(m) => InDatabase(m)'
      BY DEF InDatabase, HasRow
    <3>3. call[c].made = None /\ m # None
      BY MachinesAreNaturals DEF IInv, CallInv, CallOK
    <3>4. Held(m) => Held(m)'
      BY <1>3, <3>3 DEF Held
    <3> QED BY <3>1, <3>2, <3>4
  <2> QED BY <2>1, <2>2
<1> QED BY <1>6, <1>7, <1>8, <1>9, <1>10, <1>11, <1>12 DEF IInv

LEMMA NewMachineExists ==
  ASSUME IInv, NEW c \in Calls, CanCreate, machine' = Created(c)
  PROVE  NewMachine \in Machines /\ machine'[NewMachine].state = "up"
<1>1. /\ {m \in Machines : machine[m].state = "none"} \in SUBSET Nat
      /\ {m \in Machines : machine[m].state = "none"} # {}
  BY MachinesAreNaturals DEF CanCreate
<1>2. NewMachine \in Machines
  BY <1>1, LeastIn DEF NewMachine
<1> QED BY <1>2 DEF Created, IInv, TypeOK

LEMMA CreateMachineStep ==
  ASSUME IInv, NEW c \in Calls, CreateMachine(c)
  PROVE  IInv'
<1> DEFINE s == [call[c] EXCEPT !.pc = "store", !.vm = NewMachine, !.made = NewMachine]
           a == [call[c] EXCEPT !.pc = "adopt", !.made = NewMachine]
<1>1. /\ call[c].pc = "create" /\ CanCreate /\ machine' = Created(c)
      /\ UNCHANGED <<row, rowIds, remover, notices, counters, lost, raced>>
      /\ call' = [call EXCEPT ![c] = s] \/ call' = [call EXCEPT ![c] = a]
  BY DEF CreateMachine
<1>2. NewMachine \in Machines /\ machine'[NewMachine].state = "up"
  BY <1>1, NewMachineExists
<1>3. call[c] \in Call
  BY DEF IInv, TypeOK
<1>4. /\ s \in Call /\ s.pc = "store" /\ s.made = NewMachine /\ s.vm = NewMachine
      /\ a \in Call /\ a.pc = "adopt" /\ a.made = NewMachine
  <2> HIDE DEF Machines
  <2> QED BY <1>2, <1>3 DEF Call, Pc
<1> HIDE DEF s, a
<1>5. /\ lost \subseteq lost' /\ lost' \subseteq Machines /\ starts' \in Nat /\ faults' \in Nat
  BY <1>1 DEF IInv, TypeOK, counters
<1>6. ASSUME NEW r \in {s, a}, call' = [call EXCEPT ![c] = r]
      PROVE  IInv'
  <2>1. r \in Call /\ ~Wants(r) /\ NewMachine = r.made
    BY <1>4 DEF Wants
  <2>2. CallOK(r)'
    BY <1>2, <1>4, MachinesAreNaturals DEF CallOK, Exists
  <2> QED BY <1>1, <1>5, <1>6, <2>1, <2>2, Creation
<1> QED BY <1>1, <1>6

LEMMA CreateAnswerLostStep ==
  ASSUME IInv, NEW c \in Calls, CreateAnswerLost(c)
  PROVE  IInv'
<1>1. /\ call[c].pc = "create" /\ CanCreate /\ machine' = Created(c)
      /\ UNCHANGED <<row, rowIds, remover, notices, starts, raced>>
      /\ call' = [call EXCEPT ![c] = IdleCall] /\ faults' = faults + 1
      /\ lost' = lost \cup {NewMachine}
  BY DEF CreateAnswerLost, End
<1>2. NewMachine \in Machines
  BY <1>1, NewMachineExists
<1>3. /\ lost \subseteq lost' /\ lost' \subseteq Machines /\ starts' \in Nat /\ faults' \in Nat
      /\ NewMachine \in lost'
  BY <1>1, <1>2 DEF IInv, TypeOK
<1>4. IdleCall \in Call /\ ~Wants(IdleCall) /\ CallOK(IdleCall)'
  BY IdleTyped DEF CallOK, Wants, IdleCall
<1> QED BY <1>1, <1>3, <1>4, Creation

-----------------------------------------------------------------------------
(* The steps that write rows.                                               *)

\* A call ends and rewrites its target's row, which names the machine it named.
LEMMA RowRewritten ==
  ASSUME IInv, NEW c \in Calls, End(c), call[c].pc \notin {"adopt", "store"},
         UNCHANGED <<machine, rowIds, remover, notices, counters, lost, raced>>,
         row' \in [Targets -> Row],
         \A t \in Targets : row'[t].id = row[t].id /\ row'[t].vm = row[t].vm
  PROVE  IInv'
<1>1. /\ call' \in [Calls -> Call] /\ call'[c] = IdleCall
      /\ \A d \in Calls \ {c} : call'[d] = call[d]
  BY IdleTyped DEF End, IInv, TypeOK
<1>2. call[c].made = None
  BY DEF IInv, CallInv, CallOK
<1>3. TypeOK'
  BY <1>1 DEF IInv, TypeOK, HasRow, counters
<1>4. CallInv' /\ RowInv' /\ RemoverInv' /\ NoticeInv'
  <2>1. CallInv'
    BY <1>1, IdleTyped DEF IInv, CallInv, CallOK, Exists
  <2>2. RowInv' /\ NoticeInv'
    BY DEF IInv, RowInv, NoticeInv, HasRow, Exists
  <2>3. RemoverInv'
    BY DEF IInv, TypeOK, Remover, RemoverInv, RemoverOK, Exists
  <2> QED BY <2>1, <2>2, <2>3
<1>5. NameInv'
  <2>1. \A d \in Calls : Wants(call'[d]) => Wants(call[d]) /\ call'[d] = call[d]
    BY <1>1, IdleTyped DEF Wants
  <2> QED BY <2>1 DEF IInv, NameInv, NoDuplicateVm, Up, Wants
<1>6. AddressInv'
  <2>1. \A d \in Calls : call'[d].pc = "create" => call'[d] = call[d]
    BY <1>1, IdleTyped
  <2> QED BY <2>1 DEF IInv, AddressInv, NoSharedAddress, Up
<1>7. AccountedFor'
  <2> SUFFICES ASSUME NEW m \in Machines, Up(m)', m \notin lost
               PROVE  InDatabase(m)' \/ Held(m)'
    BY DEF AccountedFor
  <2>1. Up(m) /\ m # None
    BY MachinesAreNaturals DEF Up
  <2>2. InDatabase(m) => InDatabase(m)'
    BY DEF InDatabase, HasRow
  <2>3. Held(m) => Held(m)'
    BY <1>1, <1>2, <2>1 DEF Held
  <2> QED BY <2>1, <2>2, <2>3 DEF IInv, AccountedFor
<1> QED BY <1>3, <1>4, <1>5, <1>6, <1>7 DEF IInv

LEMMA RenameRowStep ==
  ASSUME IInv, NEW c \in Calls, RenameRow(c)
  PROVE  IInv'
<1> DEFINE t == call[c].target
<1>1. /\ call[c].pc = "renameRow" /\ End(c) /\ call[c].host \in Hostnames
      /\ UNCHANGED <<machine, rowIds, remover, notices, counters, lost, raced>>
      /\ row' \in {row, [row EXCEPT ![t].host = call[c].host]}
  BY DEF RenameRow, IInv, TypeOK, Call
<1>2. /\ row' \in [Targets -> Row]
      /\ \A u \in Targets : row'[u].id = row[u].id /\ row'[u].vm = row[u].vm
  BY <1>1 DEF IInv, TypeOK, Row
<1> QED BY <1>1, <1>2, RowRewritten

LEMMA MarkRunningStep ==
  ASSUME IInv, NEW c \in Calls, MarkRunning(c)
  PROVE  IInv'
<1> DEFINE t == call[c].target
<1>1. /\ call[c].pc = "mark" /\ End(c) /\ call[c].ip \in Addresses \cup {None}
      /\ UNCHANGED <<machine, rowIds, remover, notices, counters, lost, raced>>
      /\ row' \in {row, [row EXCEPT ![t].state = "running", ![t].ip = call[c].ip]}
  BY DEF MarkRunning, IInv, TypeOK, Call
<1>2. /\ row' \in [Targets -> Row]
      /\ \A u \in Targets : row'[u].id = row[u].id /\ row'[u].vm = row[u].vm
  BY <1>1 DEF IInv, TypeOK, Row
<1> QED BY <1>1, <1>2, RowRewritten

LEMMA StoreRowStep ==
  ASSUME IInv, NEW c \in Calls, StoreRow(c)
  PROVE  IInv'
<1> DEFINE t == call[c].target
           r == [call[c] EXCEPT !.pc = "poll", !.made = None]
<1>1. call[c].pc = "store" /\ call[c] \in Call /\ t \in Targets
  BY DEF StoreRow, IInv, TypeOK, Call
<1>2. Exists(call[c].vm)
  BY <1>1 DEF IInv, CallInv, CallOK
<1>3. CASE HasRow(t)
  <2>1. /\ Throw(c)
        /\ UNCHANGED <<machine, row, rowIds, remover, notices, raced, counters>>
    BY <1>3 DEF StoreRow
  <2>2. starts' \in Nat /\ faults' \in Nat
    BY <2>1 DEF IInv, TypeOK, counters
  <2> QED BY <2>1, <2>2, ThrowStep
<1>4. CASE ~HasRow(t)
  <2>1. /\ row' = [row EXCEPT ![t] = NewRow(c)] /\ rowIds' = rowIds + 1
        /\ call' = [call EXCEPT ![c] = r]
        /\ lost' = lost \cup ({call[c].made} \ {call[c].vm})
        /\ UNCHANGED <<machine, remover, notices, counters, raced>>
    BY <1>1, <1>4 DEF StoreRow, IInv, TypeOK
  <2>2. r \in Call /\ r.pc = "poll" /\ r.made = None
    BY <1>1 DEF Call, Pc
  <2> HIDE DEF r
  <2>3. /\ NewRow(c) \in Row /\ NewRow(c).id = rowIds + 1 /\ NewRow(c).vm = call[c].vm
    BY <1>1 DEF IInv, TypeOK, NewRow, Row, Call
  <2>4. /\ row' \in [Targets -> Row] /\ row'[t] = NewRow(c)
        /\ \A u \in Targets \ {t} : row'[u] = row[u]
    BY <1>1, <2>1, <2>3 DEF IInv, TypeOK
  <2>5. /\ call' \in [Calls -> Call] /\ call'[c] = r
        /\ \A d \in Calls \ {c} : call'[d] = call[d]
    BY <2>1, <2>2 DEF IInv, TypeOK
  <2>6. call[c].made \in Machines \cup {None} /\ call[c].vm \in Machines
    BY <1>1, <1>2 DEF Call, Exists
  <2> HIDE DEF t
  <2>7. TypeOK'
    <3>1. call[c].made # None => lost' \subseteq Machines
      BY <2>1, <2>6 DEF IInv, TypeOK
    <3>2. call[c].made # None
      BY <1>1 DEF IInv, CallInv, CallOK
    <3> QED BY <2>1, <2>3, <2>4, <2>5, <2>6, <3>1, <3>2 DEF IInv, TypeOK, HasRow, counters
  <2>8. CallInv'
    BY <2>1, <2>2, <2>5 DEF IInv, CallInv, CallOK, Exists
  <2>9. RowInv' /\ NoticeInv'
    BY <1>2, <2>1, <2>3, <2>4 DEF IInv, TypeOK, Row, RowInv, NoticeInv, HasRow, Exists
  <2>10. RemoverInv'
    <3> SUFFICES ASSUME NEW q \in Removers
                 PROVE  RemoverOK(remover[q])'
      BY DEF RemoverInv
    <3>1. RemoverOK(remover[q]) /\ remover[q] \in Remover
      BY DEF IInv, RemoverInv, TypeOK
    <3>2. remover[q].target \in Targets /\ rowIds \in Nat /\ remover' = remover
      BY <2>1, <3>1 DEF Remover, IInv, TypeOK
    <3> QED BY <2>1, <2>3, <2>4, <3>1, <3>2 DEF RemoverOK, Exists
  <2>11. NameInv'
    <3>1. \A d \in Calls : Wants(call'[d]) => Wants(call[d]) /\ call'[d] = call[d]
      BY <2>2, <2>5 DEF Wants
    <3> QED BY <2>1, <3>1 DEF IInv, NameInv, NoDuplicateVm, Up, Wants
  <2>12. AddressInv'
    <3>1. \A d \in Calls : call'[d].pc = "create" => call'[d] = call[d]
      BY <2>2, <2>5
    <3> QED BY <2>1, <3>1 DEF IInv, AddressInv, NoSharedAddress, Up
  <2>13. AccountedFor'
    <3> SUFFICES ASSUME NEW m \in Machines, Up(m)', m \notin lost'
                 PROVE  InDatabase(m)' \/ Held(m)'
      BY DEF AccountedFor
    <3>1. Up(m) /\ m \notin lost
      BY <2>1 DEF Up
    <3>2. InDatabase(m) => InDatabase(m)'
      BY <1>4, <2>4 DEF InDatabase, HasRow
    <3>3. Held(m) => Held(m)' \/ m = call[c].made
      BY <2>5 DEF Held
    <3>4. m = call[c].made => InDatabase(m)'
      <4>1. m = call[c].made => m = row'[t].vm
        BY <2>1, <2>3, <2>4
      <4>2. row'[t].id # 0
        BY <2>3, <2>4 DEF IInv, TypeOK
      <4> QED BY <1>1, <4>1, <4>2 DEF InDatabase, HasRow, t
    <3> QED BY <3>1, <3>2, <3>3, <3>4 DEF IInv, AccountedFor
  <2> QED BY <2>1, <2>7, <2>8, <2>9, <2>10, <2>11, <2>12, <2>13 DEF IInv
<1> QED BY <1>3, <1>4

-----------------------------------------------------------------------------
(* Deletions.  A machine may go down; calls and what they raced for stay.    *)

LEMMA DeletionMoves ==
  ASSUME IInv,
         UNCHANGED <<row, rowIds, call, raced, lost>>,
         machine' \in [Machines -> Machine],
         \A m \in Machines :
           \/ machine'[m] = machine[m]
           \/ /\ Up(m) /\ machine'[m].state = "down"
              /\ machine'[m].host = machine[m].host /\ machine'[m].ip = machine[m].ip,
         notices' \subseteq Machines, \A m \in notices' : machine'[m].state = "down",
         remover' \in [Removers -> Remover], \A r \in Removers : RemoverOK(remover[r])',
         starts' \in Nat, faults' \in Nat
  PROVE  IInv'
<1>1. \A m \in Machines : Up(m)' => Up(m) /\ machine'[m] = machine[m]
  BY DEF Up
<1>2. TypeOK'
  BY DEF IInv, TypeOK, HasRow
<1>3. \A m : Exists(m) => Exists(m)'
  BY DEF Exists
<1>4. CallInv' /\ RowInv'
  BY <1>3 DEF IInv, CallInv, CallOK, RowInv, HasRow
<1>5. RemoverInv' /\ NoticeInv'
  BY DEF RemoverInv, NoticeInv
<1>6. NameInv' /\ AddressInv'
  BY <1>1 DEF IInv, NameInv, NoDuplicateVm, Wants, AddressInv, NoSharedAddress
<1>7. AccountedFor'
  BY <1>1 DEF IInv, AccountedFor, InDatabase, Held, HasRow
<1> QED BY <1>2, <1>4, <1>5, <1>6, <1>7 DEF IInv

\* A machine that is up is destroyed.
LEMMA Destruction ==
  ASSUME IInv, NEW m \in Machines, Up(m), machine' = Destroyed(m)
  PROVE  /\ machine' \in [Machines -> Machine] /\ machine'[m].state = "down"
         /\ \A n \in Machines : machine[n].state = "down" => machine'[n].state = "down"
         /\ \A n \in Machines : machine[n].state # "none" => machine'[n].state # "none"
         /\ \A n \in Machines :
              \/ machine'[n] = machine[n]
              \/ /\ Up(n) /\ machine'[n].state = "down"
                 /\ machine'[n].host = machine[n].host /\ machine'[n].ip = machine[n].ip
BY DEF IInv, TypeOK, Machine, Destroyed, Up

LEMMA BotDeleteStep ==
  ASSUME IInv, NEW r \in Removers, NEW t \in Targets, BotDelete(r, t)
  PROVE  IInv'
<1> DEFINE q == [pc |-> "api", target |-> t, id |-> row[t].id, vm |-> row[t].vm]
<1>1. /\ HasRow(t) /\ starts' = starts + 1 /\ remover' = [remover EXCEPT ![r] = q]
      /\ UNCHANGED <<machine, row, rowIds, call, notices, faults, lost, raced>>
  BY DEF BotDelete
<1>2. q \in Remover /\ RemoverOK(q)
  <2>1. /\ row[t].id \in Nat /\ row[t].vm \in Machines /\ rowIds \in Nat
        /\ row[t].id # 0 /\ row[t].id <= rowIds /\ Exists(row[t].vm)
    BY <1>1 DEF IInv, TypeOK, RowInv, HasRow, Row
  <2> QED BY <2>1 DEF Remover, RemoverOK
<1> HIDE DEF q
<1>3. /\ remover' \in [Removers -> Remover] /\ remover'[r] = q
      /\ \A s \in Removers \ {r} : remover'[s] = remover[s]
  BY <1>1, <1>2 DEF IInv, TypeOK
<1>4. \A s \in Removers : RemoverOK(remover[s])'
  BY <1>1, <1>2, <1>3 DEF IInv, RemoverInv, RemoverOK, Exists
<1>5. /\ machine' \in [Machines -> Machine] /\ notices' \subseteq Machines
      /\ starts' \in Nat /\ faults' \in Nat
      /\ \A m \in notices' : machine'[m].state = "down"
  BY <1>1 DEF IInv, TypeOK, NoticeInv
<1> QED BY <1>1, <1>3, <1>4, <1>5, DeletionMoves

LEMMA ApiDeleteStep ==
  ASSUME IInv, NEW r \in Removers, ApiDelete(r)
  PROVE  IInv'
<1> DEFINE m == remover[r].vm
           q == [remover[r] EXCEPT !.pc = "row"]
<1>1. /\ remover[r].pc = "api" /\ remover[r] \in Remover
      /\ RemoverOK(remover[r]) /\ Exists(m) /\ m \in Machines
  BY DEF ApiDelete, IInv, TypeOK, RemoverInv, RemoverOK, Exists
<1>2. /\ UNCHANGED <<row, rowIds, call, counters, lost, raced>>
      /\ remover' \in {[remover EXCEPT ![r] = q], [remover EXCEPT ![r] = IdleRemover]}
      /\ \/ Up(m) /\ machine' = Destroyed(m) /\ notices' = notices \cup {m}
         \/ UNCHANGED <<machine, notices>>
      /\ remover' = [remover EXCEPT ![r] = q] => ~Up(m) \/ machine' = Destroyed(m)
                                                 \/ q = IdleRemover
  BY <1>1, IdleTyped DEF ApiDelete, IInv, TypeOK, Remover
<1>3. q \in Remover /\ q.pc = "row" /\ q.vm = m /\ q.id = remover[r].id
      /\ q.target = remover[r].target
  BY <1>1 DEF Remover
<1>4. /\ machine' \in [Machines -> Machine]
      /\ \A n \in Machines : machine[n].state = "down" => machine'[n].state = "down"
      /\ \A n \in Machines : machine[n].state # "none" => machine'[n].state # "none"
      /\ \A n \in Machines :
           \/ machine'[n] = machine[n]
           \/ /\ Up(n) /\ machine'[n].state = "down"
              /\ machine'[n].host = machine[n].host /\ machine'[n].ip = machine[n].ip
  <2>1. CASE Up(m) /\ machine' = Destroyed(m)
    BY <1>1, <2>1, Destruction
  <2>2. CASE UNCHANGED machine
    BY <2>2 DEF IInv, TypeOK
  <2> QED BY <1>2, <2>1, <2>2
<1>5. notices' \subseteq Machines /\ \A n \in notices' : machine'[n].state = "down"
  <2>1. CASE Up(m) /\ machine' = Destroyed(m) /\ notices' = notices \cup {m}
    <3>1. machine'[m].state = "down"
      BY <1>1, <2>1, Destruction
    <3> QED BY <1>1, <1>4, <2>1, <3>1 DEF IInv, TypeOK, NoticeInv
  <2>2. CASE UNCHANGED <<machine, notices>>
    BY <2>2 DEF IInv, TypeOK, NoticeInv
  <2> QED BY <1>2, <2>1, <2>2
<1>6. remover' = [remover EXCEPT ![r] = q] => machine'[m].state = "down"
  <2> SUFFICES ASSUME remover' = [remover EXCEPT ![r] = q]
               PROVE  machine'[m].state = "down"
    OBVIOUS
  <2>1. q # IdleRemover
    BY <1>3, IdleTyped
  <2>2. CASE Up(m)
    BY <1>1, <1>2, <2>1, <2>2, Destruction
  <2>3. CASE ~Up(m)
    BY <1>1, <1>4, <2>3 DEF IInv, TypeOK, Machine, Up, Exists
  <2> QED BY <2>2, <2>3
<1> HIDE DEF q
<1>7. remover' \in [Removers -> Remover]
  BY <1>2, <1>3, IdleTyped DEF IInv, TypeOK
<1>8. ASSUME NEW s \in Removers
      PROVE  RemoverOK(remover[s])'
  <2>1. CASE s # r
    <3>1. remover'[s] = remover[s]
      BY <1>2, <2>1 DEF IInv, TypeOK
    <3>2. RemoverOK(remover[s])
      BY DEF IInv, RemoverInv
    <3> QED BY <1>2, <1>4, <3>1, <3>2 DEF RemoverOK, Exists
  <2>2. CASE s = r /\ remover' = [remover EXCEPT ![r] = q]
    <3>1. remover'[s] = q
      BY <2>2 DEF IInv, TypeOK
    <3> QED BY <1>1, <1>2, <1>3, <1>4, <1>6, <2>2, <3>1 DEF RemoverOK, Exists
  <2>3. CASE s = r /\ remover' = [remover EXCEPT ![r] = IdleRemover]
    <3>1. remover'[s].pc = "idle"
      BY <2>3, IdleTyped DEF IInv, TypeOK
    <3> QED BY <3>1 DEF RemoverOK
  <2> QED BY <1>2, <2>1, <2>2, <2>3
<1>9. starts' \in Nat /\ faults' \in Nat
  BY <1>2 DEF IInv, TypeOK, counters
<1> QED BY <1>2, <1>4, <1>5, <1>7, <1>8, <1>9, DeletionMoves

LEMMA PanelDeleteStep ==
  ASSUME IInv, NEW m \in Machines, PanelDelete(m)
  PROVE  IInv'
<1>1. /\ Up(m) /\ machine' = Destroyed(m) /\ notices' = notices \cup {m}
      /\ UNCHANGED <<row, rowIds, call, remover, starts, lost, raced>>
      /\ starts' \in Nat /\ faults' \in Nat
  BY DEF PanelDelete, IInv, TypeOK
<1>2. /\ machine' \in [Machines -> Machine] /\ machine'[m].state = "down"
      /\ \A n \in Machines : machine[n].state = "down" => machine'[n].state = "down"
      /\ \A n \in Machines : machine[n].state # "none" => machine'[n].state # "none"
      /\ \A n \in Machines :
           \/ machine'[n] = machine[n]
           \/ /\ Up(n) /\ machine'[n].state = "down"
              /\ machine'[n].host = machine[n].host /\ machine'[n].ip = machine[n].ip
  BY <1>1, Destruction
<1>3. notices' \subseteq Machines /\ \A n \in notices' : machine'[n].state = "down"
  BY <1>1, <1>2 DEF IInv, TypeOK, NoticeInv
<1>4. remover' \in [Removers -> Remover] /\ \A r \in Removers : RemoverOK(remover[r])'
  BY <1>1, <1>2 DEF IInv, TypeOK, RemoverInv, RemoverOK, Exists
<1> QED BY <1>1, <1>2, <1>3, <1>4, DeletionMoves

LEMMA NoticeStep ==
  ASSUME IInv, NEW r \in Removers, NEW m \in Machines, Notice(r, m)
  PROVE  IInv'
<1> DEFINE q(t) == [pc |-> "row", target |-> t, id |-> row[t].id, vm |-> m]
<1>1. /\ m \in notices /\ notices' = notices \ {m}
      /\ UNCHANGED <<machine, row, rowIds, call, counters, lost, raced>>
      /\ \/ UNCHANGED remover
         \/ \E t \in Targets : /\ HasRow(t) /\ row[t].vm = m
                               /\ remover' = [remover EXCEPT ![r] = q(t)]
  BY DEF Notice
<1>2. /\ machine' \in [Machines -> Machine] /\ notices' \subseteq Machines
      /\ starts' \in Nat /\ faults' \in Nat
      /\ \A n \in notices' : machine'[n].state = "down"
  BY <1>1 DEF IInv, TypeOK, NoticeInv, counters
<1>3. CASE UNCHANGED remover
  <2>1. remover' \in [Removers -> Remover] /\ \A s \in Removers : RemoverOK(remover[s])'
    BY <1>1, <1>3 DEF IInv, TypeOK, RemoverInv, RemoverOK, Exists
  <2> QED BY <1>1, <1>2, <2>1, DeletionMoves
<1>4. ASSUME NEW t \in Targets, HasRow(t), row[t].vm = m,
             remover' = [remover EXCEPT ![r] = q(t)]
      PROVE  IInv'
  <2>1. /\ row[t].id \in 1..rowIds /\ Exists(m) /\ machine[m].state = "down"
        /\ row[t].id \in Nat
    BY <1>1, <1>4 DEF IInv, TypeOK, RowInv, HasRow, Row, NoticeInv
  <2>2. q(t) \in Remover /\ RemoverOK(q(t))
    BY <1>4, <2>1 DEF Remover, RemoverOK
  <2> HIDE DEF q
  <2>3. /\ remover' \in [Removers -> Remover] /\ remover'[r] = q(t)
        /\ \A s \in Removers \ {r} : remover'[s] = remover[s]
    BY <1>4, <2>2 DEF IInv, TypeOK
  <2>4. \A s \in Removers : RemoverOK(remover[s])'
    BY <1>1, <2>2, <2>3 DEF IInv, RemoverInv, RemoverOK, Exists
  <2> QED BY <1>1, <1>2, <2>3, <2>4, DeletionMoves
<1> QED BY <1>1, <1>3, <1>4

LEMMA NoticeLostStep ==
  ASSUME IInv, NEW m \in Machines, NoticeLost(m)
  PROVE  IInv'
<1>1. /\ notices' \subseteq notices
      /\ UNCHANGED <<machine, row, rowIds, call, remover, starts, lost, raced>>
      /\ starts' \in Nat /\ faults' \in Nat
  BY DEF NoticeLost, IInv, TypeOK
<1>2. /\ machine' \in [Machines -> Machine] /\ notices' \subseteq Machines
      /\ \A n \in notices' : machine'[n].state = "down"
      /\ remover' \in [Removers -> Remover] /\ \A r \in Removers : RemoverOK(remover[r])'
  BY <1>1 DEF IInv, TypeOK, NoticeInv, RemoverInv, RemoverOK, Exists
<1> QED BY <1>1, <1>2, DeletionMoves

\* The row a deletion removes names a machine that is down.
LEMMA DeletedIsDown ==
  ASSUME IInv, NEW r \in Removers, remover[r].pc = "row",
         row[remover[r].target].id = remover[r].id
  PROVE  ~Up(row[remover[r].target].vm)
BY DEF IInv, RemoverInv, RemoverOK, Up

LEMMA DeleteRowStep ==
  ASSUME IInv, NEW r \in Removers, DeleteRow(r)
  PROVE  IInv'
<1> DEFINE t == remover[r].target
<1>1. /\ remover[r].pc = "row" /\ t \in Targets
      /\ row' = IF row[t].id = remover[r].id THEN [row EXCEPT ![t] = NoRow] ELSE row
      /\ remover' = [remover EXCEPT ![r] = IdleRemover]
      /\ UNCHANGED <<machine, rowIds, call, notices, counters, lost, raced>>
  BY DEF DeleteRow, IInv, TypeOK, Remover
<1>2. /\ row' \in [Targets -> Row]
      /\ \A u \in Targets :
           \/ row'[u] = row[u]
           \/ row'[u].id = 0 /\ (HasRow(u) => ~Up(row[u].vm))
  BY <1>1, IdleTyped, DeletedIsDown DEF IInv, TypeOK
<1>3. /\ remover' \in [Removers -> Remover] /\ remover'[r].pc = "idle"
      /\ \A s \in Removers \ {r} : remover'[s] = remover[s]
  BY <1>1, IdleTyped DEF IInv, TypeOK
<1> HIDE DEF t
<1>4. TypeOK'
  BY <1>1, <1>2, <1>3 DEF IInv, TypeOK, HasRow, counters
<1>5. CallInv' /\ NoticeInv' /\ NameInv' /\ AddressInv'
  BY <1>1 DEF IInv, CallInv, CallOK, Exists, NoticeInv, NameInv, NoDuplicateVm, Wants,
              AddressInv, NoSharedAddress, Up
<1>6. RowInv'
  BY <1>1, <1>2 DEF IInv, RowInv, HasRow, Exists
<1>7. RemoverInv'
  <2> SUFFICES ASSUME NEW s \in Removers
               PROVE  RemoverOK(remover[s])'
    BY DEF RemoverInv
  <2>1. remover'[s].pc = "idle" \/ remover'[s] = remover[s]
    BY <1>3
  <2>2. RemoverOK(remover[s]) /\ remover[s] \in Remover
    BY DEF IInv, RemoverInv, TypeOK
  <2> QED BY <1>1, <1>2, <2>1, <2>2 DEF RemoverOK, Remover, Exists
<1>8. AccountedFor'
  <2> SUFFICES ASSUME NEW m \in Machines, Up(m)', m \notin lost'
               PROVE  InDatabase(m)' \/ Held(m)'
    BY DEF AccountedFor
  <2>1. Up(m) /\ m \notin lost
    BY <1>1 DEF Up
  <2>2. Held(m) => Held(m)'
    BY <1>1 DEF Held
  <2>3. InDatabase(m) => InDatabase(m)'
    BY <1>2, <2>1 DEF InDatabase, HasRow
  <2> QED BY <2>1, <2>2, <2>3 DEF IInv, AccountedFor
<1> QED BY <1>4, <1>5, <1>6, <1>7, <1>8 DEF IInv

-----------------------------------------------------------------------------
LEMMA NextInv ==
  ASSUME IInv, [Next]_vars
  PROVE  IInv'
<1>1. CASE UNCHANGED vars
  BY <1>1 DEF vars, IInv, TypeOK, HasRow, CallInv, CallOK, Exists, RowInv, RemoverInv,
              RemoverOK, NoticeInv, NameInv, NoDuplicateVm, Wants, Up, AddressInv,
              NoSharedAddress, AccountedFor, InDatabase, Held
<1>2. ASSUME NEW c \in Calls, CallStep(c)
      PROVE  IInv'
  <2>1. CASE \E t \in Targets : \E h \in Hosts[t] : FindVm(c, t, h)
    BY <2>1, FindVmStep
  <2>2. CASE CountVms(c) \/ FindRow(c) \/ ListHosts(c) \/ TakeAddress(c) \/ Poll(c)
    BY <2>2, CountVmsStep, FindRowStep, ListHostsStep, TakeAddressStep, PollStep
  <2>3. CASE RenameMachine(c) \/ RenameRow(c) \/ CreateMachine(c) \/ CreateAnswerLost(c)
    BY <2>3, RenameMachineStep, RenameRowStep, CreateMachineStep, CreateAnswerLostStep
  <2>4. CASE AdoptMachine(c) \/ StoreRow(c) \/ MarkRunning(c) \/ CallFails(c)
    BY <2>4, AdoptMachineStep, StoreRowStep, MarkRunningStep, CallFailsStep
  <2> QED BY <1>2, <2>1, <2>2, <2>3, <2>4 DEF CallStep
<1>3. ASSUME NEW r \in Removers, RemoverStep(r)
      PROVE  IInv'
  BY <1>3, BotDeleteStep, ApiDeleteStep, DeleteRowStep, NoticeStep DEF RemoverStep
<1>4. ASSUME NEW m \in Machines, PanelDelete(m) \/ NoticeLost(m)
      PROVE  IInv'
  BY <1>4, PanelDeleteStep, NoticeLostStep
<1> QED BY <1>1, <1>2, <1>3, <1>4 DEF Next

LEMMA Invariance == Spec => []IInv
<1> QED BY InitInv, NextInv, PTL DEF Spec

(* No machine is orphaned: every running one has a row, or a call about to
   store one, or the call that made it was cut off or refused its row
   (virtualizor.ts:823-860).  For every number of everything. *)
THEOREM NoOrphans == Spec => []AccountedFor
<1>1. IInv => AccountedFor
  BY DEF IInv
<1> QED BY <1>1, Invariance, PTL

(* Two running machines have one name only if calls raced for it
   (virtualizor.ts:685). *)
THEOREM NamesAreUnique == Spec => []NoDuplicateVm
<1>1. IInv => NoDuplicateVm
  BY DEF IInv, NameInv
<1> QED BY <1>1, Invariance, PTL

(* Two running machines have one address only if calls raced for it
   (virtualizor.ts:735). *)
THEOREM AddressesAreUnique == Spec => []NoSharedAddress
<1>1. IInv => NoSharedAddress
  BY DEF IInv, AddressInv
<1> QED BY <1>1, Invariance, PTL

\* The only step that removes a row is the last of a deletion.
LEMMA RowGoesLast ==
  ASSUME IInv, [Next]_vars, NEW t \in Targets, HasRow(t), row'[t].id = 0
  PROVE  ~Up(row[t].vm)
<1>1. CASE UNCHANGED row
  BY <1>1 DEF HasRow
<1>2. ASSUME NEW c \in Calls, RenameRow(c) \/ MarkRunning(c)
      PROVE  FALSE
  <2>1. row'[t].id = row[t].id
    BY <1>2 DEF RenameRow, MarkRunning, IInv, TypeOK, Row
  <2> QED BY <2>1 DEF HasRow
<1>3. ASSUME NEW c \in Calls, StoreRow(c)
      PROVE  FALSE
  <2>1. rowIds \in Nat /\ NewRow(c).id = rowIds + 1
    BY DEF IInv, TypeOK, NewRow
  <2>2. row'[t] = row[t] \/ row'[t] = NewRow(c)
    BY <1>3 DEF StoreRow, IInv, TypeOK
  <2> QED BY <2>1, <2>2 DEF HasRow
<1>4. ASSUME NEW r \in Removers, DeleteRow(r)
      PROVE  ~Up(row[t].vm)
  <2>1. /\ remover[r].pc = "row"
        /\ row' = IF row[remover[r].target].id = remover[r].id
                  THEN [row EXCEPT ![remover[r].target] = NoRow] ELSE row
    BY <1>4 DEF DeleteRow
  <2>2. t = remover[r].target /\ row[t].id = remover[r].id
    BY <2>1 DEF HasRow, IInv, TypeOK
  <2> QED BY <2>1, <2>2, DeletedIsDown
<1>5. \/ UNCHANGED row
      \/ \E c \in Calls : RenameRow(c) \/ MarkRunning(c) \/ StoreRow(c)
      \/ \E r \in Removers : DeleteRow(r)
  BY DEF Next, vars, CallStep, RemoverStep, FindVm, CountVms, FindRow, RenameMachine,
         ListHosts, TakeAddress, CreateMachine, CreateAnswerLost, AdoptMachine, Poll,
         CallFails, BotDelete, ApiDelete, Notice, PanelDelete, NoticeLost
<1> QED BY <1>1, <1>2, <1>3, <1>4, <1>5

(* A row goes only when its machine is gone, however deletions and
   deployments interleave (webhooks.ts:1451 and 2160, both by the row's id). *)
THEOREM RowsGoLast == Spec => RowsOutliveMachines
<1>1. IInv /\ [Next]_vars =>
        [\A t \in Targets : HasRow(t) /\ row'[t].id = 0 => ~Up(row[t].vm)]_vars
  BY RowGoesLast
<1> QED BY <1>1, Invariance, PTL DEF Spec, RowsOutliveMachines

-----------------------------------------------------------------------------
(* The quota.  A call that was let past it stands for a machine of its      *)
(* target until it stores the row, and so does one whose target had a       *)
(* machine when it asked.                                                   *)

Promising(r) ==
  \/ r.pc \in {"find", "list", "address", "create", "adopt", "store"}
  \/ r.pc = "count" /\ r.reuse
Claimed(t) == HasRow(t) \/ \E c \in Calls : Promising(call[c]) /\ call[c].target = t
Claims(u) == {t \in Targets : Owner[t] = u /\ Claimed(t)}

\* A user's machines and those still to come are within the limit.
QuotaInv == \A u \in Users \ raced : Cardinality(Claims(u)) <= MaxVms[u]

\* A smaller set of targets is finite and has no more members.
LEMMA FewerTargets ==
  ASSUME NEW S, NEW T \in SUBSET Targets, S \subseteq T
  PROVE  /\ IsFiniteSet(S) /\ Cardinality(S) \in Nat /\ Cardinality(T) \in Nat
         /\ Cardinality(S) <= Cardinality(T)
<1>1. IsFiniteSet(T)
  BY VmAssumption, FS_Subset
<1> QED BY <1>1, FS_Subset, FS_CardinalityType

LEMMA UserLimits ==
  ASSUME NEW u \in Users
  PROVE  MaxVms[u] \in Nat
BY VmAssumption DEF Users

\* A step that lets no other target of the user in keeps the quota.
LEMMA NoNewClaim ==
  ASSUME QuotaInv, raced \subseteq raced', \A t \in Targets : Claimed(t)' => Claimed(t)
  PROVE  QuotaInv'
<1> SUFFICES ASSUME NEW u \in Users \ raced'
             PROVE  Cardinality(Claims(u)') <= MaxVms[u]
  BY DEF QuotaInv
<1>1. Cardinality(Claims(u)) <= MaxVms[u] /\ MaxVms[u] \in Nat
  BY UserLimits DEF QuotaInv
<1>2. Claims(u)' \subseteq Claims(u) /\ Claims(u) \in SUBSET Targets
  BY DEF Claims
<1>3. Cardinality(Claims(u)') <= Cardinality(Claims(u)) /\ Cardinality(Claims(u)') \in Nat
      /\ Cardinality(Claims(u)) \in Nat
  BY <1>2, FewerTargets
<1> QED BY <1>1, <1>3

\* The steps of a call but its quota check, which alone gives a call more
\* than it had: a target, or a promise.
Walk(c) ==
  \/ FindRow(c) \/ RenameMachine(c) \/ RenameRow(c) \/ ListHosts(c)
  \/ TakeAddress(c) \/ CreateMachine(c) \/ CreateAnswerLost(c)
  \/ AdoptMachine(c) \/ StoreRow(c) \/ Poll(c) \/ MarkRunning(c) \/ CallFails(c)

\* A call at work keeps its target and hostname to its end.
LEMMA CallWalks ==
  ASSUME IInv, NEW c \in Calls, Walk(c)
  PROVE  /\ Active(c)
         /\ \A d \in Calls \ {c} : call'[d] = call[d]
         /\ \/ call'[c] = IdleCall
            \/ /\ call'[c].target = call[c].target /\ call'[c].host = call[c].host
               /\ Promising(call'[c]) => Promising(call[c])
<1>1. call \in [Calls -> Call] /\ call[c] \in Call
  BY DEF IInv, TypeOK
<1>2. CASE FindRow(c)
  <2> DEFINE t == call[c].target
             k == row[t].id
             n == row[t].vm
             a == row[t].ip
  <2>1. /\ call[c].pc = "find"
        /\ \/ call' = [call EXCEPT ![c].pc = "list"]
           \/ call' = [call EXCEPT ![c] = [@ EXCEPT !.pc = "poll", !.id = k, !.vm = n, !.ip = a]]
           \/ call' = [call EXCEPT ![c] = [@ EXCEPT !.pc = "rename", !.id = k, !.vm = n, !.ip = a]]
           \/ call' = [call EXCEPT ![c] = IdleCall]
    BY <1>2 DEF FindRow, Goto, End
  <2> HIDE DEF k, n, a
  <2>2. /\ \A d \in Calls \ {c} : call'[d] = call[d]
        /\ \/ call'[c] = [call[c] EXCEPT !.pc = "list"]
           \/ call'[c] = [call[c] EXCEPT !.pc = "poll", !.id = k, !.vm = n, !.ip = a]
           \/ call'[c] = [call[c] EXCEPT !.pc = "rename", !.id = k, !.vm = n, !.ip = a]
           \/ call'[c] = IdleCall
    BY <1>1, <2>1
  <2> QED BY <1>1, <2>1, <2>2 DEF Call, Active, Promising
<1>3. CASE RenameMachine(c)
  <2>1. call[c].pc = "rename" /\ call' = [call EXCEPT ![c].pc = "renameRow"]
    BY <1>3 DEF RenameMachine, Goto
  <2> QED BY <1>1, <2>1 DEF Call, Active, Promising
<1>4. CASE RenameRow(c) \/ MarkRunning(c)
  BY <1>1, <1>4 DEF RenameRow, MarkRunning, End, Call, Active, Promising
<1>5. CASE ListHosts(c)
  BY <1>1, <1>5 DEF ListHosts, Goto, End, Call, Active, Promising
<1>6. CASE TakeAddress(c)
  BY <1>1, <1>6 DEF TakeAddress, End, Call, Active, Promising
<1>7. CASE CreateMachine(c) \/ CreateAnswerLost(c)
  <2> DEFINE n == NewMachine
  <2>1. /\ call[c].pc = "create"
        /\ \/ call' = [call EXCEPT ![c] = [@ EXCEPT !.pc = "store", !.vm = n, !.made = n]]
           \/ call' = [call EXCEPT ![c] = [@ EXCEPT !.pc = "adopt", !.made = n]]
           \/ call' = [call EXCEPT ![c] = IdleCall]
    BY <1>7 DEF CreateMachine, CreateAnswerLost, End
  <2> HIDE DEF n
  <2>2. /\ \A d \in Calls \ {c} : call'[d] = call[d]
        /\ \/ call'[c] = [call[c] EXCEPT !.pc = "store", !.vm = n, !.made = n]
           \/ call'[c] = [call[c] EXCEPT !.pc = "adopt", !.made = n]
           \/ call'[c] = IdleCall
    BY <1>1, <2>1
  <2> QED BY <1>1, <2>1, <2>2 DEF Call, Active, Promising
<1>8. CASE AdoptMachine(c)
  <2> DEFINE n == Least({m \in Machines : Up(m) /\ machine[m].host = call[c].host})
  <2>1. /\ call[c].pc = "adopt"
        /\ \/ call' = [call EXCEPT ![c].pc = "store", ![c].vm = n]
           \/ call' = [call EXCEPT ![c] = IdleCall]
    BY <1>8 DEF AdoptMachine, Throw, End
  <2> HIDE DEF n
  <2>2. /\ \A d \in Calls \ {c} : call'[d] = call[d]
        /\ \/ call'[c] = [call[c] EXCEPT !.pc = "store", !.vm = n]
           \/ call'[c] = IdleCall
    BY <1>1, <2>1 DEF Call
  <2> QED BY <1>1, <2>1, <2>2 DEF Call, Active, Promising
<1>9. CASE StoreRow(c)
  BY <1>1, <1>9 DEF StoreRow, Throw, End, Call, Active, Promising
<1>10. CASE Poll(c) \/ CallFails(c)
  BY <1>1, <1>10 DEF Poll, CallFails, Goto, Throw, End, Call, Active, Promising
<1> QED BY <1>2, <1>3, <1>4, <1>5, <1>6, <1>7, <1>8, <1>9, <1>10 DEF Walk

\* What calls raced for is never forgotten.
LEMMA RacedGrows ==
  ASSUME [Next]_vars
  PROVE  raced \subseteq raced'
<1>1. ASSUME NEW c \in Calls, CallStep(c)
      PROVE  raced \subseteq raced'
  <2>1. CASE \E t \in Targets : \E h \in Hosts[t] : FindVm(c, t, h)
    BY <2>1 DEF FindVm
  <2>2. CASE CountVms(c) \/ FindRow(c) \/ RenameMachine(c) \/ RenameRow(c)
    BY <2>2 DEF CountVms, FindRow, RenameMachine, RenameRow
  <2>3. CASE ListHosts(c) \/ TakeAddress(c) \/ CreateMachine(c) \/ CreateAnswerLost(c)
    BY <2>3 DEF ListHosts, TakeAddress, CreateMachine, CreateAnswerLost
  <2>4. CASE AdoptMachine(c) \/ StoreRow(c) \/ Poll(c) \/ MarkRunning(c) \/ CallFails(c)
    BY <2>4 DEF AdoptMachine, StoreRow, Poll, MarkRunning, CallFails
  <2> QED BY <1>1, <2>1, <2>2, <2>3, <2>4 DEF CallStep
<1>2. CASE \E r \in Removers : RemoverStep(r)
  BY <1>2 DEF RemoverStep, BotDelete, ApiDelete, DeleteRow, Notice
<1>3. CASE \E m \in Machines : PanelDelete(m) \/ NoticeLost(m)
  BY <1>3 DEF PanelDelete, NoticeLost
<1> QED BY <1>1, <1>2, <1>3 DEF Next, vars

\* A step of a call gives no target a row but its own, and that from a store.
LEMMA OwnRowOnly ==
  ASSUME IInv, NEW c \in Calls, Walk(c), NEW t \in Targets, HasRow(t)', ~HasRow(t)
  PROVE  StoreRow(c) /\ call[c].pc = "store" /\ t = call[c].target
<1>1. call[c] \in Call /\ row \in [Targets -> Row]
  BY DEF IInv, TypeOK
<1>2. CASE RenameRow(c) \/ MarkRunning(c)
  BY <1>1, <1>2 DEF RenameRow, MarkRunning, HasRow, Row
<1>3. CASE StoreRow(c)
  BY <1>1, <1>3 DEF StoreRow, HasRow
<1>4. CASE UNCHANGED row
  BY <1>4 DEF HasRow
<1> QED BY <1>2, <1>3, <1>4 DEF Walk, FindRow, RenameMachine, ListHosts, TakeAddress,
         CreateMachine, CreateAnswerLost, AdoptMachine, Poll, CallFails

LEMMA WalkQuota ==
  ASSUME IInv, QuotaInv, NEW c \in Calls, Walk(c), raced \subseteq raced'
  PROVE  QuotaInv'
<1>1. ASSUME NEW t \in Targets, Claimed(t)'
      PROVE  Claimed(t)
  <2>1. CASE HasRow(t)'
    BY <2>1, OwnRowOnly DEF Claimed, Promising
  <2>2. ASSUME NEW d \in Calls, Promising(call'[d]), call'[d].target = t
        PROVE  Claimed(t)
    <3>1. ~Promising(IdleCall)
      BY IdleTyped DEF Promising
    <3>2. Promising(call[d]) /\ call[d].target = t
      BY <2>2, <3>1, CallWalks
    <3> QED BY <3>2 DEF Claimed
  <2> QED BY <1>1, <2>1, <2>2 DEF Claimed, Promising
<1> QED BY <1>1, NoNewClaim

LEMMA FindVmQuota ==
  ASSUME IInv, QuotaInv, NEW c \in Calls, NEW t \in Targets, NEW h \in Hosts[t],
         FindVm(c, t, h), raced \subseteq raced'
  PROVE  QuotaInv'
<1>1. /\ call \in [Calls -> Call] /\ UNCHANGED row
      /\ call' = [call EXCEPT ![c] = [IdleCall EXCEPT !.pc = "count", !.target = t,
                                                      !.host = h, !.reuse = HasRow(t)]]
  BY DEF FindVm, IInv, TypeOK
<1>2. call'[c].pc = "count" /\ call'[c].target = t /\ (call'[c].reuse <=> HasRow(t))
  BY <1>1 DEF IdleCall
<1>3. \A d \in Calls \ {c} : call'[d] = call[d]
  BY <1>1
<1>4. ASSUME NEW v \in Targets, Claimed(v)'
      PROVE  Claimed(v)
  <2>1. CASE HasRow(v)'
    BY <1>1, <2>1 DEF Claimed, HasRow
  <2>2. ASSUME NEW d \in Calls, Promising(call'[d]), call'[d].target = v
        PROVE  Claimed(v)
    BY <1>2, <1>3, <2>2 DEF Claimed, Promising
  <2> QED BY <1>4, <2>1, <2>2 DEF Claimed, Promising
<1> QED BY <1>4, NoNewClaim

\* The check: a call let through with nobody else asking leaves the user
\* with the machines counted, and the one it is about to make.
LEMMA CountVmsQuota ==
  ASSUME IInv, QuotaInv, NEW c \in Calls, CountVms(c), raced \subseteq raced'
  PROVE  QuotaInv'
<1> DEFINE t == call[c].target
           u == Owner[t]
<1>1. /\ call \in [Calls -> Call] /\ call[c] \in Call /\ call[c].pc = "count" /\ UNCHANGED row
      /\ t \in Targets /\ u \in Users /\ call[c].reuse \in BOOLEAN
  BY DEF CountVms, IInv, TypeOK, Call, Users
<1>2. CASE End(c)
  <2>1. \A d \in Calls : Promising(call'[d]) => call'[d] = call[d]
    BY <1>1, <1>2, IdleTyped DEF End, Promising
  <2>2. \A v \in Targets : Claimed(v)' => Claimed(v)
    BY <1>1, <2>1 DEF Claimed, HasRow, Promising
  <2> QED BY <2>2, NoNewClaim
<1>3. CASE ~End(c)
  <2>1. /\ WithinLimit(Cardinality(RowsOf(u)), call[c].reuse, u)
        /\ call' = [call EXCEPT ![c].pc = "find"]
        /\ raced' = IF \E d \in Calls \ {c} : Asking(d) /\ Owner[call[d].target] = u
                    THEN raced \cup {u} ELSE raced
    BY <1>3 DEF CountVms, Goto
  <2>2. /\ call'[c].pc = "find" /\ call'[c].target = t
        /\ \A d \in Calls \ {c} : call'[d] = call[d]
    BY <1>1, <2>1 DEF Call
  <2>3. \A v \in Targets \ {t} : Claimed(v)' => Claimed(v)
    BY <1>1, <2>2 DEF Claimed, HasRow, Promising
  <2>4. CASE call[c].reuse
    <3>1. Claimed(t)
      BY <1>1, <2>4 DEF Claimed, Promising
    <3> QED BY <2>3, <3>1, NoNewClaim
  <2>5. CASE ~call[c].reuse
    <3> SUFFICES ASSUME NEW v \in Users \ raced'
                 PROVE  Cardinality(Claims(v)') <= MaxVms[v]
      BY DEF QuotaInv
    <3>1. CASE v # u
      <4>1. Claims(v)' \subseteq Claims(v) /\ Claims(v) \in SUBSET Targets
        BY <2>3, <3>1 DEF Claims
      <4>2. /\ Cardinality(Claims(v)') <= Cardinality(Claims(v))
            /\ Cardinality(Claims(v)') \in Nat /\ Cardinality(Claims(v)) \in Nat
        BY <4>1, FewerTargets
      <4>3. Cardinality(Claims(v)) <= MaxVms[v] /\ MaxVms[v] \in Nat
        BY UserLimits DEF QuotaInv
      <4> QED BY <4>2, <4>3
    <3>2. CASE v = u
      <4>1. \A d \in Calls \ {c} : ~(Asking(d) /\ Owner[call[d].target] = u)
        BY <2>1, <3>2
      <4>2. Claims(v)' \subseteq RowsOf(u) \cup {t}
        <5> SUFFICES ASSUME NEW w \in Targets, Owner[w] = u, Claimed(w)', w # t
                     PROVE  HasRow(w)
          BY <3>2 DEF Claims, RowsOf
        <5>1. ASSUME NEW d \in Calls, Promising(call'[d]), call'[d].target = w
              PROVE  FALSE
          <6>1. d # c /\ call'[d] = call[d]
            BY <2>2, <5>1
          <6> QED BY <4>1, <5>1, <6>1 DEF Asking, Promising
        <5> QED BY <1>1, <5>1 DEF Claimed, HasRow, Promising
      <4>3. RowsOf(u) \in SUBSET Targets /\ RowsOf(u) \cup {t} \in SUBSET Targets
        BY <1>1 DEF RowsOf
      <4>4. /\ IsFiniteSet(RowsOf(u)) /\ Cardinality(RowsOf(u)) \in Nat
            /\ Cardinality(Claims(v)') <= Cardinality(RowsOf(u) \cup {t})
            /\ Cardinality(Claims(v)') \in Nat /\ Cardinality(RowsOf(u) \cup {t}) \in Nat
        BY <4>2, <4>3, FewerTargets
      <4>5. Cardinality(RowsOf(u) \cup {t}) <= Cardinality(RowsOf(u)) + 1
        <5> HIDE DEF t, u
        <5>1. Cardinality(RowsOf(u) \cup {t}) = IF t \in RowsOf(u) THEN Cardinality(RowsOf(u))
                                                ELSE Cardinality(RowsOf(u)) + 1
          BY <4>4, FS_AddElement, Zenon
        <5> HIDE DEF RowsOf
        <5> QED BY <4>4, <5>1
      <4>6. Cardinality(RowsOf(u)) + 1 <= MaxVms[u] /\ MaxVms[u] \in Nat
        BY <1>1, <2>1, <2>5, UserLimits DEF WithinLimit
      <4> HIDE DEF u, t
      <4> QED BY <3>2, <4>4, <4>5, <4>6
    <3> QED BY <3>1, <3>2
  <2> QED BY <1>1, <2>4, <2>5
<1> QED BY <1>2, <1>3

\* A deletion claims nothing.
LEMMA RemovalQuota ==
  ASSUME IInv, QuotaInv, UNCHANGED call, raced \subseteq raced',
         \A t \in Targets : HasRow(t)' => HasRow(t)
  PROVE  QuotaInv'
<1>1. \A t \in Targets : Claimed(t)' => Claimed(t)
  BY DEF Claimed, Promising
<1> QED BY <1>1, NoNewClaim

LEMMA QuotaStep ==
  ASSUME IInv, QuotaInv, [Next]_vars
  PROVE  QuotaInv'
<1>1. raced \subseteq raced'
  BY RacedGrows
<1>2. ASSUME NEW c \in Calls, CallStep(c)
      PROVE  QuotaInv'
  <2>1. \/ \E t \in Targets : \E h \in Hosts[t] : FindVm(c, t, h)
        \/ CountVms(c) \/ Walk(c)
    BY <1>2 DEF CallStep, Walk
  <2> QED BY <1>1, <2>1, FindVmQuota, CountVmsQuota, WalkQuota
<1>3. ASSUME NEW r \in Removers, RemoverStep(r)
      PROVE  QuotaInv'
  <2>1. UNCHANGED call
    BY <1>3 DEF RemoverStep, BotDelete, ApiDelete, DeleteRow, Notice
  <2>2. \A t \in Targets : HasRow(t)' => HasRow(t)
    <3>1. CASE DeleteRow(r)
      BY <3>1, IdleTyped DEF DeleteRow, HasRow, IInv, TypeOK
    <3>2. CASE UNCHANGED row
      BY <3>2 DEF HasRow
    <3> QED BY <1>3, <3>1, <3>2 DEF RemoverStep, BotDelete, ApiDelete, Notice
  <2> QED BY <1>1, <2>1, <2>2, RemovalQuota
<1>4. CASE UNCHANGED vars \/ \E m \in Machines : PanelDelete(m) \/ NoticeLost(m)
  <2>1. UNCHANGED <<call, row>>
    BY <1>4 DEF vars, PanelDelete, NoticeLost
  <2>2. \A t \in Targets : HasRow(t)' => HasRow(t)
    BY <2>1 DEF HasRow
  <2> QED BY <1>1, <2>1, <2>2, RemovalQuota
<1> QED BY <1>2, <1>3, <1>4 DEF Next

(* A user whose deployments do not overlap between reading table vms and
   storing a row never has more machines than allowed
   (deployment-runner.ts:442), whatever is deleted meanwhile. *)
THEOREM QuotaHolds == Spec => []WithinQuota
<1>1. Init => QuotaInv
  <2> SUFFICES ASSUME Init, NEW u \in Users
               PROVE  Cardinality(Claims(u)) <= MaxVms[u]
    BY DEF QuotaInv
  <2>1. Claims(u) = {}
    BY IdleTyped DEF Init, Claims, Claimed, HasRow, Promising
  <2> QED BY <2>1, FS_EmptySet, UserLimits
<1>2. IInv /\ QuotaInv => WithinQuota
  <2> SUFFICES ASSUME QuotaInv, NEW u \in Users \ raced
               PROVE  Cardinality(RowsOf(u)) <= MaxVms[u]
    BY DEF WithinQuota
  <2>1. RowsOf(u) \subseteq Claims(u) /\ Claims(u) \in SUBSET Targets
    BY DEF RowsOf, Claims, Claimed
  <2>2. /\ Cardinality(RowsOf(u)) <= Cardinality(Claims(u))
        /\ Cardinality(RowsOf(u)) \in Nat /\ Cardinality(Claims(u)) \in Nat
    BY <2>1, FewerTargets
  <2>3. Cardinality(Claims(u)) <= MaxVms[u] /\ MaxVms[u] \in Nat
    BY UserLimits DEF QuotaInv
  <2> QED BY <2>2, <2>3
<1> QED BY <1>1, <1>2, Invariance, QuotaStep, PTL DEF Spec

-----------------------------------------------------------------------------
(* The address a row gives.  Machines keep theirs; what a call carries from *)
(* creating to storing and on to marking is the address of the machine its  *)
(* row names, unless somebody else was after the target or the name.        *)

Settled(t) == t \notin raced /\ Hosts[t] \cap raced = {}

\* A call knows the machine it made; adopting, it will find no other.
MadeOK(r) ==
  r.pc \in {"adopt", "store"} =>
    /\ Exists(r.made) /\ machine[r.made].ip = r.ip
    /\ r.host \notin raced =>
         /\ r.pc = "adopt" =>
              \A m \in Machines : Up(m) /\ machine[m].host = r.host => m = r.made
         /\ r.pc = "store" => machine[r.vm].ip = r.ip

\* A call that will mark a row has the address of the row's machine.
MarkOK(r) ==
  /\ r.pc \in {"poll", "mark"} /\ HasRow(r.target) /\ r.id \in {0, row[r.target].id}
  /\ Settled(r.target)
  => machine[row[r.target].vm].ip = r.ip

Named(r) == r.pc \in {"address", "create", "adopt"}

HomeInv ==
  /\ \A c \in Calls : Active(c) => call[c].host \in Hosts[call[c].target]
  /\ \A c, d \in Calls :
       c # d /\ Active(c) /\ Active(d) /\ call[c].target = call[d].target
         => call[c].target \in raced
  /\ \A c, d \in Calls :
       c # d /\ Named(call[c]) /\ Named(call[d]) /\ call[c].host = call[d].host
         => call[c].host \in raced
  /\ \A c \in Calls : MadeOK(call[c]) /\ MarkOK(call[c])
  /\ RowsPointHome

\* A machine keeps its address.
LEMMA AddressKept ==
  ASSUME IInv, [Next]_vars
  PROVE  \A m \in Machines : Exists(m) => Exists(m)' /\ machine'[m].ip = machine[m].ip
<1> DEFINE Kept == \A m \in Machines :
                     Exists(m) => Exists(m)' /\ machine'[m].ip = machine[m].ip
<1>1. CASE UNCHANGED machine
  BY <1>1 DEF Exists
<1>2. ASSUME NEW c \in Calls, RenameMachine(c)
      PROVE  Kept
  <2>1. UNCHANGED machine \/ machine' = [machine EXCEPT ![call[c].vm].host = call[c].host]
    BY <1>2 DEF RenameMachine
  <2> QED BY <2>1 DEF IInv, TypeOK, Machine, Exists
<1>3. ASSUME NEW c \in Calls, CreateMachine(c) \/ CreateAnswerLost(c)
      PROVE  Kept
  <2>1. CanCreate /\ machine' = Created(c)
    BY <1>3 DEF CreateMachine, CreateAnswerLost
  <2>2. /\ {m \in Machines : machine[m].state = "none"} \in SUBSET Nat
        /\ {m \in Machines : machine[m].state = "none"} # {}
    BY <2>1, MachinesAreNaturals DEF CanCreate
  <2>3. NewMachine \in Machines /\ machine[NewMachine].state = "none"
    BY <2>2, LeastIn DEF NewMachine
  <2>4. \A m \in Machines : Exists(m) => machine'[m] = machine[m]
    BY <2>1, <2>3 DEF Created, Exists, IInv, TypeOK
  <2> QED BY <2>4 DEF Exists
<1>4. ASSUME NEW m \in Machines, machine' = Destroyed(m)
      PROVE  Kept
  BY <1>4 DEF Destroyed, Exists, IInv, TypeOK, Machine
<1>5. ASSUME NEW r \in Removers, ApiDelete(r)
      PROVE  Kept
  <2>1. remover[r].vm \in Machines
    BY <1>5 DEF ApiDelete, IInv, RemoverInv, RemoverOK, Exists
  <2>2. UNCHANGED machine \/ machine' = Destroyed(remover[r].vm)
    BY <1>5 DEF ApiDelete
  <2> QED BY <1>1, <1>4, <2>1, <2>2
<1>6. ASSUME NEW c \in Calls, CallStep(c)
      PROVE  UNCHANGED machine \/ RenameMachine(c) \/ CreateMachine(c) \/ CreateAnswerLost(c)
  BY <1>6 DEF CallStep, FindVm, CountVms, FindRow, RenameRow, ListHosts, TakeAddress,
              AdoptMachine, StoreRow, Poll, MarkRunning, CallFails
<1>7. ASSUME NEW r \in Removers, RemoverStep(r)
      PROVE  UNCHANGED machine \/ ApiDelete(r)
  BY <1>7 DEF RemoverStep, BotDelete, DeleteRow, Notice
<1>8. ASSUME NEW m \in Machines, PanelDelete(m) \/ NoticeLost(m)
      PROVE  UNCHANGED machine \/ machine' = Destroyed(m)
  BY <1>8 DEF PanelDelete, NoticeLost
<1>9. CASE UNCHANGED vars
  BY <1>1, <1>9 DEF vars
<1> QED BY <1>1, <1>2, <1>3, <1>4, <1>5, <1>6, <1>7, <1>8, <1>9 DEF Next

\* The other calls, and the rows, when a call moves to the record r.
LEMMA HomeMoves ==
  ASSUME IInv, HomeInv, IInv', NEW c \in Calls, NEW r, call'[c] = r,
         \A d \in Calls \ {c} : call'[d] = call[d],
         raced \subseteq raced',
         \A m \in Machines : Exists(m) => Exists(m)' /\ machine'[m].ip = machine[m].ip,
         \A d \in Calls \ {c}, m \in Machines :
           call[d].pc = "adopt" /\ Up(m)' /\ machine'[m].host = call[d].host
           /\ call[d].host \notin raced'
             => Up(m) /\ machine[m].host = call[d].host,
         \A t \in Targets :
           \/ row'[t].id = 0
           \/ row'[t].id = row[t].id /\ row'[t].vm = row[t].vm
           \/ Active(c) /\ t = call[c].target,
         r.pc # "idle" =>
           /\ r.host \in Hosts[r.target]
           /\ r.target \notin raced' =>
                \A d \in Calls \ {c} : ~(Active(d) /\ call[d].target = r.target)
           /\ Named(r) /\ r.host \notin raced' =>
                \A d \in Calls \ {c} : ~(Named(call[d]) /\ call[d].host = r.host),
         MadeOK(r)', MarkOK(r)', RowsPointHome'
  PROVE  HomeInv'
<1>1. \A d \in Calls : Active(d)' => call'[d].host \in Hosts[call'[d].target]
  BY DEF HomeInv, Active
<1>2. \A a, b \in Calls :
        a # b /\ Active(a)' /\ Active(b)' /\ call'[a].target = call'[b].target
          => call'[a].target \in raced'
  BY DEF HomeInv, Active
<1>3. \A a, b \in Calls :
        a # b /\ Named(call'[a]) /\ Named(call'[b]) /\ call'[a].host = call'[b].host
          => call'[a].host \in raced'
  BY DEF HomeInv, Named
<1>4. ASSUME NEW d \in Calls
      PROVE  MadeOK(call[d])'
  <2>1. CASE d = c
    BY <2>1 DEF MadeOK
  <2>2. CASE d # c
    <3>1. MadeOK(call[d]) /\ CallOK(call[d]) /\ call'[d] = call[d]
      BY <2>2 DEF HomeInv, IInv, CallInv
    <3> SUFFICES ASSUME call[d].pc \in {"adopt", "store"}
                 PROVE  /\ Exists(call[d].made)' /\ machine'[call[d].made].ip = call[d].ip
                        /\ call[d].host \notin raced' =>
                             /\ call[d].pc = "adopt" =>
                                  \A m \in Machines :
                                    Up(m)' /\ machine'[m].host = call[d].host
                                      => m = call[d].made
                             /\ call[d].pc = "store" => machine'[call[d].vm].ip = call[d].ip
      BY <3>1 DEF MadeOK, Exists, Up
    <3>2. Exists(call[d].made)' /\ machine'[call[d].made].ip = call[d].ip
      BY <3>1 DEF MadeOK, Exists
    <3>3. ASSUME call[d].host \notin raced', call[d].pc = "adopt", NEW m \in Machines,
                 Up(m)', machine'[m].host = call[d].host
          PROVE  m = call[d].made
      <4>1. Up(m) /\ machine[m].host = call[d].host
        BY <2>2, <3>3
      <4> QED BY <3>1, <3>3, <4>1 DEF MadeOK
    <3>4. call[d].host \notin raced' /\ call[d].pc = "store"
            => machine'[call[d].vm].ip = call[d].ip
      BY <3>1 DEF MadeOK, CallOK, Exists
    <3> QED BY <3>2, <3>3, <3>4
  <2> QED BY <2>1, <2>2
<1>5. ASSUME NEW d \in Calls
      PROVE  MarkOK(call[d])'
  <2>1. CASE d = c
    BY <2>1 DEF MarkOK
  <2>2. CASE d # c
    <3>0. PICK t \in Targets : t = call[d].target
      BY DEF IInv, TypeOK, Call
    <3>1. MarkOK(call[d]) /\ call'[d] = call[d] /\ call'[d].target = t
      BY <2>2, <3>0 DEF HomeInv
    <3> SUFFICES ASSUME call[d].pc \in {"poll", "mark"}, row'[t].id # 0,
                        call[d].id \in {0, row'[t].id},
                        t \notin raced', Hosts[t] \cap raced' = {}
                 PROVE  machine'[row'[t].vm].ip = call[d].ip
      BY <3>1 DEF MarkOK, HasRow, Settled
    <3>2. Active(d) /\ Settled(t)
      BY DEF Active, Settled
    <3>3. ~(Active(c) /\ t = call[c].target)
      BY <2>2, <3>0, <3>2 DEF HomeInv, Settled
    <3>4. row'[t].id = row[t].id /\ row'[t].vm = row[t].vm /\ HasRow(t)
      BY <3>3 DEF HasRow
    <3>5. machine[row[t].vm].ip = call[d].ip
      BY <3>0, <3>1, <3>2, <3>4 DEF MarkOK
    <3>6. Exists(row[t].vm)
      BY <3>4 DEF IInv, RowInv
    <3> QED BY <3>4, <3>5, <3>6 DEF Exists
  <2> QED BY <2>1, <2>2
<1> QED BY <1>1, <1>2, <1>3, <1>4, <1>5 DEF HomeInv, MadeOK, MarkOK, Named, Active

\* Rows that keep their machine and address still point home.
LEMMA RowsStayHome ==
  ASSUME IInv, HomeInv, raced \subseteq raced',
         \A m \in Machines : Exists(m) => Exists(m)' /\ machine'[m].ip = machine[m].ip,
         NEW t \in Targets, HasRow(t)', Settled(t)',
         row'[t].id = row[t].id, row'[t].vm = row[t].vm, row'[t].ip = row[t].ip
  PROVE  row'[t].ip = machine'[row'[t].vm].ip
<1>1. HasRow(t) /\ Settled(t)
  BY DEF HasRow, Settled
<1>2. Exists(row[t].vm)
  BY <1>1 DEF IInv, RowInv
<1>3. row[t].ip = machine[row[t].vm].ip
  BY <1>1 DEF HomeInv, RowsPointHome, Settled
<1> QED BY <1>2, <1>3 DEF Exists

LEMMA SameRowsHome ==
  ASSUME IInv, HomeInv, [Next]_vars, UNCHANGED row
  PROVE  RowsPointHome'
<1>1. ASSUME NEW t \in Targets, HasRow(t)', Settled(t)'
      PROVE  row'[t].ip = machine'[row'[t].vm].ip
  BY <1>1, RacedGrows, AddressKept, RowsStayHome
<1> QED BY <1>1 DEF RowsPointHome, Settled

\* A call at work moves on, or ends, with the target and hostname it has.
LEMMA WalkHome ==
  ASSUME IInv, HomeInv, IInv', [Next]_vars, NEW c \in Calls, Active(c),
         NEW r, call'[c] = r,
         \A d \in Calls \ {c} : call'[d] = call[d],
         r.pc = "idle" \/ (r.target = call[c].target /\ r.host = call[c].host),
         \A d \in Calls \ {c}, m \in Machines :
           call[d].pc = "adopt" /\ Up(m)' /\ machine'[m].host = call[d].host
           /\ call[d].host \notin raced'
             => Up(m) /\ machine[m].host = call[d].host,
         \A t \in Targets :
           \/ row'[t].id = 0
           \/ row'[t].id = row[t].id /\ row'[t].vm = row[t].vm
           \/ t = call[c].target,
         Named(r) /\ r.host \notin raced' =>
           \/ Named(call[c])
           \/ \A d \in Calls \ {c} : ~(Named(call[d]) /\ call[d].host = r.host),
         MadeOK(r)', MarkOK(r)', RowsPointHome'
  PROVE  HomeInv'
<1>1. raced \subseteq raced'
  BY RacedGrows
<1>2. r.pc # "idle" =>
        /\ r.host \in Hosts[r.target]
        /\ r.target \notin raced' =>
             \A d \in Calls \ {c} : ~(Active(d) /\ call[d].target = r.target)
        /\ Named(r) /\ r.host \notin raced' =>
             \A d \in Calls \ {c} : ~(Named(call[d]) /\ call[d].host = r.host)
  BY <1>1 DEF HomeInv
<1>3. \A m \in Machines : Exists(m) => Exists(m)' /\ machine'[m].ip = machine[m].ip
  BY AddressKept
<1> QED BY <1>1, <1>2, <1>3, HomeMoves

\* The same, when neither machines nor rows change.
LEMMA QuietHome ==
  ASSUME IInv, HomeInv, IInv', [Next]_vars, NEW c \in Calls, Active(c),
         UNCHANGED <<machine, row>>,
         NEW r, call'[c] = r,
         \A d \in Calls \ {c} : call'[d] = call[d],
         r.pc = "idle" \/ (r.target = call[c].target /\ r.host = call[c].host),
         Named(r) /\ r.host \notin raced' =>
           \/ Named(call[c])
           \/ \A d \in Calls \ {c} : ~(Named(call[d]) /\ call[d].host = r.host),
         MadeOK(r)', MarkOK(r)'
  PROVE  HomeInv'
<1>1. \A m \in Machines : Up(m)' => Up(m) /\ machine' = machine
  BY DEF Up
<1>2. RowsPointHome'
  BY SameRowsHome
<1> QED BY <1>1, <1>2, WalkHome

\* A call that is neither storing nor marking carries no address.
LEMMA NothingCarried ==
  ASSUME NEW r, r.pc \notin {"adopt", "store", "poll", "mark"}
  PROVE  MadeOK(r)' /\ MarkOK(r)'
BY DEF MadeOK, MarkOK

LEMMA FindVmHome ==
  ASSUME IInv, HomeInv, IInv', [Next]_vars, NEW c \in Calls,
         NEW t \in Targets, NEW h \in Hosts[t], FindVm(c, t, h)
  PROVE  HomeInv'
<1>1. PICK r : r = [IdleCall EXCEPT !.pc = "count", !.target = t, !.host = h,
                                    !.reuse = HasRow(t)]
  OBVIOUS
<1>2. /\ call' = [call EXCEPT ![c] = r] /\ UNCHANGED <<machine, row>>
      /\ raced' = IF \E d \in Calls \ {c} : Active(d) /\ call[d].target = t
                  THEN raced \cup {t} ELSE raced
  BY <1>1 DEF FindVm
<1>3. r.pc = "count" /\ r.target = t /\ r.host = h
  BY <1>1 DEF IdleCall
<1>4. call'[c] = r /\ \A d \in Calls \ {c} : call'[d] = call[d]
  BY <1>2 DEF IInv, TypeOK
<1>5. MadeOK(r)' /\ MarkOK(r)' /\ ~Named(r)
  BY <1>3, NothingCarried DEF Named
<1>6. RowsPointHome'
  BY <1>2, SameRowsHome
<1>7. \A m \in Machines : Up(m)' => Up(m)
  BY <1>2 DEF Up
<1>8. r.target \notin raced' =>
        \A d \in Calls \ {c} : ~(Active(d) /\ call[d].target = r.target)
  BY <1>2, <1>3
<1>9. /\ raced \subseteq raced'
      /\ \A m \in Machines : Exists(m) => Exists(m)' /\ machine'[m].ip = machine[m].ip
  BY RacedGrows, AddressKept
<1> HIDE DEF HomeInv
<1> QED BY <1>2, <1>3, <1>4, <1>5, <1>6, <1>7, <1>8, <1>9, HomeMoves

LEMMA CountVmsHome ==
  ASSUME IInv, HomeInv, IInv', [Next]_vars, NEW c \in Calls, CountVms(c)
  PROVE  HomeInv'
<1>1. PICK r : r = call'[c]
  OBVIOUS
<1>2. /\ call[c].pc = "count" /\ UNCHANGED <<machine, row>>
      /\ call' = [call EXCEPT ![c].pc = "find"] \/ call' = [call EXCEPT ![c] = IdleCall]
  BY DEF CountVms, Goto, End
<1>3. call \in [Calls -> Call] /\ call[c] \in Call
  BY DEF IInv, TypeOK
<1>4. /\ \A d \in Calls \ {c} : call'[d] = call[d]
      /\ \/ r.pc = "idle"
         \/ r.pc = "find" /\ r.target = call[c].target /\ r.host = call[c].host
  BY <1>1, <1>2, <1>3, IdleTyped DEF Call
<1>5. MadeOK(r)' /\ MarkOK(r)' /\ ~Named(r) /\ Active(c)
  BY <1>2, <1>4, NothingCarried DEF Named, Active
<1> QED BY <1>1, <1>2, <1>4, <1>5, QuietHome

LEMMA FindRowHome ==
  ASSUME IInv, HomeInv, IInv', [Next]_vars, NEW c \in Calls, FindRow(c)
  PROVE  HomeInv'
<1>1. PICK r : r = call'[c]
  OBVIOUS
<1>2. PICK t \in Targets : t = call[c].target
  BY DEF IInv, TypeOK, Call
<1>3. PICK a, i, v : a = row[t].ip /\ i = row[t].id /\ v = row[t].vm
  OBVIOUS
<1>4. /\ call[c].pc = "find" /\ UNCHANGED <<machine, row>>
      /\ \/ call' = [call EXCEPT ![c].pc = "list"]
         \/ call' = [call EXCEPT ![c] = [@ EXCEPT !.pc = "poll", !.id = i, !.vm = v, !.ip = a]]
         \/ call' = [call EXCEPT ![c] = [@ EXCEPT !.pc = "rename", !.id = i, !.vm = v, !.ip = a]]
         \/ call' = [call EXCEPT ![c] = IdleCall]
  BY <1>2, <1>3 DEF FindRow, Goto, End
<1>5. call \in [Calls -> Call] /\ call[c] \in Call
  BY DEF IInv, TypeOK
<1>6. /\ \A d \in Calls \ {c} : call'[d] = call[d]
      /\ \/ r = [call[c] EXCEPT !.pc = "list"]
         \/ r = [call[c] EXCEPT !.pc = "poll", !.id = i, !.vm = v, !.ip = a]
         \/ r = [call[c] EXCEPT !.pc = "rename", !.id = i, !.vm = v, !.ip = a]
         \/ r = IdleCall
  BY <1>1, <1>4, <1>5
<1>7. \/ r.pc = "idle"
      \/ /\ r.target = call[c].target /\ r.host = call[c].host
         /\ r.pc \in {"list", "poll", "rename"} /\ (r.pc = "poll" => r.ip = a)
  BY <1>5, <1>6, IdleTyped DEF Call
<1>8. MadeOK(r)' /\ ~Named(r) /\ Active(c)
  BY <1>4, <1>7 DEF MadeOK, Named, Active
<1>9. MarkOK(r)'
  <2> SUFFICES ASSUME r.pc = "poll", HasRow(t), t \notin raced', Hosts[t] \cap raced' = {}
               PROVE  machine[row[t].vm].ip = a
    BY <1>2, <1>4, <1>7 DEF MarkOK, HasRow, Settled
  <2>1. t \notin raced /\ Hosts[t] \cap raced = {}
    BY RacedGrows
  <2> QED BY <1>3, <2>1 DEF HomeInv, RowsPointHome
<1> QED BY <1>1, <1>4, <1>6, <1>7, <1>8, <1>9, QuietHome

LEMMA RenameMachineHome ==
  ASSUME IInv, HomeInv, IInv', [Next]_vars, NEW c \in Calls, RenameMachine(c)
  PROVE  HomeInv'
<1>1. PICK r : r = call'[c]
  OBVIOUS
<1>2. PICK h, k : h = call[c].host /\ k = call[c].vm
  OBVIOUS
<1>3. /\ call[c].pc = "rename" /\ call' = [call EXCEPT ![c].pc = "renameRow"] /\ UNCHANGED row
      /\ \/ /\ Up(k) /\ machine' = [machine EXCEPT ![k].host = h]
            /\ (\E d \in Calls : Naming(d, h)) => h \in raced'
         \/ UNCHANGED machine
  BY <1>2 DEF RenameMachine, Goto
<1>4. /\ call \in [Calls -> Call] /\ call[c] \in Call /\ machine \in [Machines -> Machine]
  BY DEF IInv, TypeOK
<1>5. /\ \A d \in Calls \ {c} : call'[d] = call[d]
      /\ r.pc = "renameRow" /\ r.target = call[c].target /\ r.host = call[c].host
  BY <1>1, <1>3, <1>4 DEF Call
<1>6. MadeOK(r)' /\ MarkOK(r)' /\ ~Named(r) /\ Active(c)
  BY <1>3, <1>5, NothingCarried DEF Named, Active
<1>7. ASSUME NEW d \in Calls \ {c}, NEW m \in Machines, call[d].pc = "adopt", Up(m)',
             machine'[m].host = call[d].host, call[d].host \notin raced'
      PROVE  Up(m) /\ machine[m].host = call[d].host
  <2>1. CASE UNCHANGED machine
    BY <1>7, <2>1 DEF Up
  <2>2. CASE /\ Up(k) /\ machine' = [machine EXCEPT ![k].host = h]
             /\ (\E e \in Calls : Naming(e, h)) => h \in raced'
    <3>1. h # call[d].host
      BY <1>7, <2>2 DEF Naming
    <3> QED BY <1>4, <1>7, <2>2, <3>1 DEF Up, Machine
  <2> QED BY <1>3, <2>1, <2>2
<1>8. RowsPointHome'
  BY <1>3, SameRowsHome
<1> QED BY <1>1, <1>3, <1>5, <1>6, <1>7, <1>8, WalkHome

\* A call that ends, its target's row kept but for the name or the state.
LEMMA RenameRowHome ==
  ASSUME IInv, HomeInv, IInv', [Next]_vars, NEW c \in Calls, RenameRow(c)
  PROVE  HomeInv'
<1>1. PICK r : r = call'[c]
  OBVIOUS
<1>2. /\ call[c].pc = "renameRow" /\ call' = [call EXCEPT ![c] = IdleCall]
      /\ UNCHANGED machine
      /\ \/ UNCHANGED row
         \/ row' = [row EXCEPT ![call[c].target].host = call[c].host]
  BY DEF RenameRow, End
<1>3. /\ \A d \in Calls \ {c} : call'[d] = call[d]
      /\ r.pc = "idle"
  BY <1>1, <1>2, IdleTyped DEF IInv, TypeOK
<1>4. \A t \in Targets :
        row'[t].id = row[t].id /\ row'[t].vm = row[t].vm /\ row'[t].ip = row[t].ip
  BY <1>2 DEF IInv, TypeOK, Row
<1>5. RowsPointHome'
  <2>1. ASSUME NEW t \in Targets, HasRow(t)', Settled(t)'
        PROVE  row'[t].ip = machine'[row'[t].vm].ip
    BY <1>4, <2>1, RacedGrows, AddressKept, RowsStayHome
  <2> QED BY <2>1 DEF RowsPointHome, Settled
<1>6. MadeOK(r)' /\ MarkOK(r)' /\ ~Named(r) /\ Active(c)
  BY <1>2, <1>3, NothingCarried DEF Named, Active
<1>7. \A m \in Machines : Up(m)' => Up(m)
  BY <1>2 DEF Up
<1> QED BY <1>1, <1>2, <1>3, <1>4, <1>5, <1>6, <1>7, WalkHome

LEMMA ListHostsHome ==
  ASSUME IInv, HomeInv, IInv', [Next]_vars, NEW c \in Calls, ListHosts(c)
  PROVE  HomeInv'
<1>1. PICK r : r = call'[c]
  OBVIOUS
<1>2. /\ call[c].pc = "list" /\ UNCHANGED <<machine, row>>
      /\ \/ call' = [call EXCEPT ![c] = IdleCall]
         \/ /\ call' = [call EXCEPT ![c].pc = "address"]
            /\ (\E d \in Calls \ {c} : Naming(d, call[c].host)) => call[c].host \in raced'
  BY DEF ListHosts, Goto, End
<1>3. call \in [Calls -> Call] /\ call[c] \in Call
  BY DEF IInv, TypeOK
<1>4. /\ \A d \in Calls \ {c} : call'[d] = call[d]
      /\ \/ r.pc = "idle"
         \/ /\ r.pc = "address" /\ r.target = call[c].target /\ r.host = call[c].host
            /\ (\E d \in Calls \ {c} : Naming(d, r.host)) => r.host \in raced'
  BY <1>1, <1>2, <1>3, IdleTyped DEF Call
<1>5. MadeOK(r)' /\ MarkOK(r)' /\ Active(c)
  BY <1>2, <1>4, NothingCarried DEF Active
<1>6. Named(r) /\ r.host \notin raced' =>
        \A d \in Calls \ {c} : ~(Named(call[d]) /\ call[d].host = r.host)
  BY <1>4 DEF Named, Naming
<1> QED BY <1>1, <1>2, <1>4, <1>5, <1>6, QuietHome

LEMMA TakeAddressHome ==
  ASSUME IInv, HomeInv, IInv', [Next]_vars, NEW c \in Calls, TakeAddress(c)
  PROVE  HomeInv'
<1>1. PICK r : r = call'[c]
  OBVIOUS
<1>2. /\ call[c].pc = "address" /\ UNCHANGED <<machine, row>>
      /\ \/ call' = [call EXCEPT ![c] = IdleCall]
         \/ \E a : call' = [call EXCEPT ![c] = [@ EXCEPT !.pc = "create", !.ip = a]]
  BY DEF TakeAddress, End
<1>3. call \in [Calls -> Call] /\ call[c] \in Call
  BY DEF IInv, TypeOK
<1>4. /\ \A d \in Calls \ {c} : call'[d] = call[d]
      /\ r = IdleCall \/ \E a : r = [call[c] EXCEPT !.pc = "create", !.ip = a]
  BY <1>1, <1>2, <1>3
<1>5. \/ r.pc = "idle"
      \/ r.pc = "create" /\ r.target = call[c].target /\ r.host = call[c].host
  BY <1>3, <1>4, IdleTyped DEF Call
<1>6. MadeOK(r)' /\ MarkOK(r)' /\ Active(c) /\ Named(call[c])
  BY <1>2, <1>5, NothingCarried DEF Active, Named
<1> QED BY <1>1, <1>2, <1>4, <1>5, <1>6, QuietHome

\* A machine is created with the name and address of its call, alone with both.
LEMMA CreationHome ==
  ASSUME IInv, HomeInv, NEW c \in Calls, call[c].pc = "create", CanCreate,
         machine' = Created(c), UNCHANGED raced
  PROVE  /\ NewMachine \in Machines
         /\ machine'[NewMachine].state = "up" /\ machine'[NewMachine].host = call[c].host
         /\ machine'[NewMachine].ip = call[c].ip
         /\ \A m \in Machines \ {NewMachine} : machine'[m] = machine[m]
         /\ call[c].host \notin raced =>
              \A m \in Machines : Up(m)' /\ machine'[m].host = call[c].host => m = NewMachine
         /\ \A d \in Calls \ {c}, m \in Machines :
              call[d].pc = "adopt" /\ Up(m)' /\ machine'[m].host = call[d].host
              /\ call[d].host \notin raced
                => Up(m) /\ machine[m].host = call[d].host
<1>1. NewMachine \in Machines
  BY NewMachineExists
<1>2. /\ machine'[NewMachine].state = "up" /\ machine'[NewMachine].host = call[c].host
      /\ machine'[NewMachine].ip = call[c].ip
      /\ \A m \in Machines \ {NewMachine} : machine'[m] = machine[m]
  BY <1>1 DEF Created, IInv, TypeOK
<1>3. ASSUME call[c].host \notin raced, NEW m \in Machines, Up(m)',
             machine'[m].host = call[c].host, m # NewMachine
      PROVE  FALSE
  <2>1. Up(m) /\ machine[m].host = call[c].host
    BY <1>2, <1>3 DEF Up
  <2> QED BY <1>3, <2>1 DEF IInv, NameInv, Wants
<1>4. ASSUME NEW d \in Calls \ {c}, NEW m \in Machines, call[d].pc = "adopt", Up(m)',
             machine'[m].host = call[d].host, call[d].host \notin raced
      PROVE  Up(m) /\ machine[m].host = call[d].host
  <2>1. m # NewMachine
    BY <1>2, <1>4 DEF HomeInv, Named
  <2> QED BY <1>2, <1>4, <2>1 DEF Up
<1> QED BY <1>1, <1>2, <1>3, <1>4

LEMMA CreateMachineHome ==
  ASSUME IInv, HomeInv, IInv', [Next]_vars, NEW c \in Calls, CreateMachine(c)
  PROVE  HomeInv'
<1>1. PICK r : r = call'[c]
  OBVIOUS
<1>2. PICK k : k = NewMachine
  OBVIOUS
<1>3. /\ call[c].pc = "create" /\ CanCreate /\ machine' = Created(c) /\ UNCHANGED <<row, raced>>
      /\ \/ call' = [call EXCEPT ![c] = [@ EXCEPT !.pc = "store", !.vm = k, !.made = k]]
         \/ call' = [call EXCEPT ![c] = [@ EXCEPT !.pc = "adopt", !.made = k]]
  BY <1>2 DEF CreateMachine
<1>4. call \in [Calls -> Call] /\ call[c] \in Call
  BY DEF IInv, TypeOK
<1>5. /\ \A d \in Calls \ {c} : call'[d] = call[d]
      /\ \/ r = [call[c] EXCEPT !.pc = "store", !.vm = k, !.made = k]
         \/ r = [call[c] EXCEPT !.pc = "adopt", !.made = k]
  BY <1>1, <1>3, <1>4
<1>6. /\ r.target = call[c].target /\ r.host = call[c].host /\ r.made = k /\ r.ip = call[c].ip
      /\ r.pc = "adopt" \/ (r.pc = "store" /\ r.vm = k)
  BY <1>4, <1>5 DEF Call
<1>7. /\ k \in Machines /\ machine'[k].state = "up" /\ machine'[k].ip = call[c].ip
      /\ call[c].host \notin raced =>
           \A m \in Machines : Up(m)' /\ machine'[m].host = call[c].host => m = k
      /\ \A d \in Calls \ {c}, m \in Machines :
           call[d].pc = "adopt" /\ Up(m)' /\ machine'[m].host = call[d].host
           /\ call[d].host \notin raced
             => Up(m) /\ machine[m].host = call[d].host
  BY <1>2, <1>3, CreationHome
<1>8. MadeOK(r)' /\ MarkOK(r)'
  BY <1>3, <1>6, <1>7 DEF MadeOK, MarkOK, Exists, Up
<1>9. RowsPointHome' /\ Active(c) /\ Named(call[c])
  BY <1>3, SameRowsHome DEF Active, Named
<1> QED BY <1>1, <1>3, <1>5, <1>6, <1>7, <1>8, <1>9, WalkHome

LEMMA CreateAnswerLostHome ==
  ASSUME IInv, HomeInv, IInv', [Next]_vars, NEW c \in Calls, CreateAnswerLost(c)
  PROVE  HomeInv'
<1>1. PICK r : r = call'[c]
  OBVIOUS
<1>2. /\ call[c].pc = "create" /\ CanCreate /\ machine' = Created(c) /\ UNCHANGED <<row, raced>>
      /\ call' = [call EXCEPT ![c] = IdleCall]
  BY DEF CreateAnswerLost, End
<1>3. /\ \A d \in Calls \ {c} : call'[d] = call[d]
      /\ r.pc = "idle"
  BY <1>1, <1>2, IdleTyped DEF IInv, TypeOK
<1>4. \A d \in Calls \ {c}, m \in Machines :
        call[d].pc = "adopt" /\ Up(m)' /\ machine'[m].host = call[d].host
        /\ call[d].host \notin raced
          => Up(m) /\ machine[m].host = call[d].host
  BY <1>2, CreationHome
<1>5. MadeOK(r)' /\ MarkOK(r)' /\ ~Named(r) /\ Active(c) /\ RowsPointHome'
  BY <1>2, <1>3, NothingCarried, SameRowsHome DEF Named, Active
<1> QED BY <1>1, <1>2, <1>3, <1>4, <1>5, WalkHome

\* A call that ends with machines and rows as they are.
LEMMA EndHome ==
  ASSUME IInv, HomeInv, IInv', [Next]_vars, NEW c \in Calls, Active(c), End(c),
         UNCHANGED <<machine, row>>
  PROVE  HomeInv'
<1>1. PICK r : r = call'[c]
  OBVIOUS
<1>2. /\ \A d \in Calls \ {c} : call'[d] = call[d]
      /\ r.pc = "idle"
  BY <1>1, IdleTyped DEF End, IInv, TypeOK
<1>3. MadeOK(r)' /\ MarkOK(r)' /\ ~Named(r)
  BY <1>2, NothingCarried DEF Named
<1> QED BY <1>1, <1>2, <1>3, QuietHome

LEMMA AdoptMachineHome ==
  ASSUME IInv, HomeInv, IInv', [Next]_vars, NEW c \in Calls, AdoptMachine(c)
  PROVE  HomeInv'
<1> DEFINE named == {m \in Machines : Up(m) /\ machine[m].host = call[c].host}
<1>1. PICK r : r = call'[c]
  OBVIOUS
<1>2. PICK k : k = Least(named)
  OBVIOUS
<1>3. /\ call[c].pc = "adopt" /\ UNCHANGED <<machine, row, raced>>
      /\ \/ End(c)
         \/ named # {} /\ call' = [call EXCEPT ![c].pc = "store", ![c].vm = k]
  BY <1>2 DEF AdoptMachine, Throw
<1>4. CASE End(c)
  BY <1>3, <1>4, EndHome DEF Active
<1>5. CASE named # {} /\ call' = [call EXCEPT ![c].pc = "store", ![c].vm = k]
  <2>1. k \in named
    <3>1. named \in SUBSET Nat
      BY MachinesAreNaturals
    <3> QED BY <1>2, <1>5, <3>1, LeastIn
  <2>2. k \in Machines /\ Up(k) /\ machine[k].host = call[c].host
    BY <2>1
  <2> HIDE DEF named
  <2>3. call \in [Calls -> Call] /\ call[c] \in Call
    BY DEF IInv, TypeOK
  <2>4. /\ \A d \in Calls \ {c} : call'[d] = call[d]
        /\ r = [call[c] EXCEPT !.pc = "store", !.vm = k]
    BY <1>1, <1>5, <2>3
  <2>5. /\ r.pc = "store" /\ r.vm = k /\ r.target = call[c].target /\ r.host = call[c].host
        /\ r.made = call[c].made /\ r.ip = call[c].ip
    BY <2>3, <2>4 DEF Call
  <2>6. MadeOK(call[c])
    BY DEF HomeInv
  <2>7. MadeOK(r)' /\ MarkOK(r)' /\ ~Named(r)
    BY <1>3, <2>2, <2>5, <2>6 DEF MadeOK, MarkOK, Exists, Named
  <2> QED BY <1>1, <1>3, <2>4, <2>5, <2>7, QuietHome DEF Active
<1> QED BY <1>3, <1>4, <1>5

LEMMA StoreRowHome ==
  ASSUME IInv, HomeInv, IInv', [Next]_vars, NEW c \in Calls, StoreRow(c)
  PROVE  HomeInv'
<1>1. PICK r : r = call'[c]
  OBVIOUS
<1>2. PICK t \in Targets : t = call[c].target
  BY DEF IInv, TypeOK, Call
<1>3. call \in [Calls -> Call] /\ call[c] \in Call /\ row \in [Targets -> Row]
      /\ call[c].pc = "store" /\ UNCHANGED <<machine, raced>>
  BY DEF IInv, TypeOK, StoreRow
<1>4. CASE HasRow(t)
  BY <1>2, <1>3, <1>4, EndHome DEF StoreRow, Throw, Active
<1>5. CASE ~HasRow(t)
  <2>1. /\ row' = [row EXCEPT ![t] = NewRow(c)]
        /\ call' = [call EXCEPT ![c].pc = "poll", ![c].made = None]
    BY <1>2, <1>5 DEF StoreRow
  <2>2. /\ \A d \in Calls \ {c} : call'[d] = call[d]
        /\ r = [call[c] EXCEPT !.pc = "poll", !.made = None]
    BY <1>1, <1>3, <2>1
  <2>3. r.pc = "poll" /\ r.target = t /\ r.host = call[c].host /\ r.ip = call[c].ip
    BY <1>2, <1>3, <2>2 DEF Call
  <2>4. /\ row'[t].vm = call[c].vm /\ row'[t].ip = call[c].ip
        /\ \A v \in Targets \ {t} : row'[v] = row[v]
    BY <1>3, <2>1 DEF NewRow
  <2>5. ASSUME t \notin raced, Hosts[t] \cap raced = {}
        PROVE  machine[call[c].vm].ip = call[c].ip
    <3>1. call[c].host \in Hosts[t]
      BY <1>2, <1>3 DEF HomeInv, Active
    <3> QED BY <1>3, <2>5, <3>1 DEF HomeInv, MadeOK
  <2>6. MarkOK(r)'
    BY <1>3, <2>3, <2>4, <2>5 DEF MarkOK, Settled
  <2>7. MadeOK(r)' /\ ~Named(r) /\ Active(c)
    BY <1>3, <2>3 DEF MadeOK, Named, Active
  <2>8. RowsPointHome'
    <3>1. ASSUME NEW v \in Targets, HasRow(v)', Settled(v)'
          PROVE  row'[v].ip = machine'[row'[v].vm].ip
      <4>1. CASE v = t
        BY <1>3, <2>4, <2>5, <3>1, <4>1 DEF Settled
      <4>2. CASE v # t
        BY <2>4, <3>1, <4>2, RacedGrows, AddressKept, RowsStayHome
      <4> QED BY <4>1, <4>2
    <3> QED BY <3>1 DEF RowsPointHome, Settled
  <2>9. \A m \in Machines : Up(m)' => Up(m)
    BY <1>3 DEF Up
  <2> QED BY <1>1, <1>2, <1>3, <2>2, <2>3, <2>4, <2>6, <2>7, <2>8, <2>9, WalkHome
<1> QED BY <1>4, <1>5

LEMMA PollHome ==
  ASSUME IInv, HomeInv, IInv', [Next]_vars, NEW c \in Calls, Poll(c)
  PROVE  HomeInv'
<1>1. PICK r : r = call'[c]
  OBVIOUS
<1>2. call \in [Calls -> Call] /\ call[c] \in Call
  BY DEF IInv, TypeOK
<1>3. /\ call[c].pc = "poll" /\ UNCHANGED <<machine, row, raced>>
      /\ \A d \in Calls \ {c} : call'[d] = call[d]
      /\ r = [call[c] EXCEPT !.pc = "mark"]
  BY <1>1, <1>2 DEF Poll, Goto
<1>4. /\ r.pc = "mark" /\ r.target = call[c].target /\ r.host = call[c].host
      /\ r.id = call[c].id /\ r.ip = call[c].ip
  BY <1>2, <1>3 DEF Call
<1>5. MarkOK(call[c])
  BY DEF HomeInv
<1>6. MarkOK(r)' /\ MadeOK(r)' /\ ~Named(r) /\ Active(c)
  BY <1>3, <1>4, <1>5 DEF MarkOK, MadeOK, HasRow, Settled, Named, Active
<1> QED BY <1>1, <1>3, <1>4, <1>6, QuietHome

LEMMA MarkRunningHome ==
  ASSUME IInv, HomeInv, IInv', [Next]_vars, NEW c \in Calls, MarkRunning(c)
  PROVE  HomeInv'
<1>1. PICK r : r = call'[c]
  OBVIOUS
<1>2. PICK t \in Targets : t = call[c].target
  BY DEF IInv, TypeOK, Call
<1>3. call \in [Calls -> Call] /\ call[c] \in Call /\ row \in [Targets -> Row]
      /\ call[c].pc = "mark" /\ UNCHANGED <<machine, raced>> /\ End(c) /\ Active(c)
  BY DEF IInv, TypeOK, MarkRunning, Active
<1>4. CASE UNCHANGED row
  BY <1>3, <1>4, EndHome
<1>5. CASE ~UNCHANGED row
  <2>1. /\ HasRow(t) /\ call[c].id \in {0, row[t].id}
        /\ row' = [row EXCEPT ![t].state = "running", ![t].ip = call[c].ip]
    BY <1>2, <1>5 DEF MarkRunning
  <2>2. /\ row'[t].ip = call[c].ip
        /\ \A v \in Targets : row'[v].id = row[v].id /\ row'[v].vm = row[v].vm
        /\ \A v \in Targets \ {t} : row'[v].ip = row[v].ip
    BY <1>3, <2>1 DEF Row
  <2>3. ASSUME t \notin raced, Hosts[t] \cap raced = {}
        PROVE  machine[row[t].vm].ip = call[c].ip
    BY <1>2, <1>3, <2>1, <2>3 DEF HomeInv, MarkOK, Settled
  <2>4. RowsPointHome'
    <3>1. ASSUME NEW v \in Targets, HasRow(v)', Settled(v)'
          PROVE  row'[v].ip = machine'[row'[v].vm].ip
      <4>1. CASE v = t
        BY <1>3, <2>2, <2>3, <3>1, <4>1 DEF Settled
      <4>2. CASE v # t
        BY <2>2, <3>1, <4>2, RacedGrows, AddressKept, RowsStayHome
      <4> QED BY <4>1, <4>2
    <3> QED BY <3>1 DEF RowsPointHome, Settled
  <2>5. /\ \A d \in Calls \ {c} : call'[d] = call[d]
        /\ r.pc = "idle"
    BY <1>1, <1>3, IdleTyped DEF End
  <2>6. MadeOK(r)' /\ MarkOK(r)' /\ ~Named(r)
    BY <2>5, NothingCarried DEF Named
  <2>7. \A m \in Machines : Up(m)' => Up(m)
    BY <1>3 DEF Up
  <2> QED BY <1>1, <1>3, <2>2, <2>4, <2>5, <2>6, <2>7, WalkHome
<1> QED BY <1>4, <1>5

\* A deletion: machines go down, rows go.
LEMMA RemovalHome ==
  ASSUME IInv, HomeInv, [Next]_vars, UNCHANGED <<call, raced>>,
         \A m \in Machines : Up(m)' => Up(m) /\ machine'[m].host = machine[m].host,
         \A t \in Targets : row'[t] = row[t] \/ row'[t].id = 0
  PROVE  HomeInv'
<1>1. \A m \in Machines : Exists(m) => Exists(m)' /\ machine'[m].ip = machine[m].ip
  BY AddressKept
<1>2. ASSUME NEW c \in Calls
      PROVE  MadeOK(call[c])' /\ MarkOK(call[c])'
  <2>1. MadeOK(call[c]) /\ MarkOK(call[c]) /\ CallOK(call[c])
    BY DEF HomeInv, IInv, CallInv
  <2>2. MadeOK(call[c])'
    BY <1>1, <2>1 DEF MadeOK, CallOK, Exists
  <2>3. PICK t \in Targets : t = call[c].target
    BY DEF IInv, TypeOK, Call
  <2>4. MarkOK(call[c])'
    <3> SUFFICES ASSUME call[c].pc \in {"poll", "mark"}, row'[t].id # 0,
                        call[c].id \in {0, row'[t].id}, Settled(t)
                 PROVE  machine'[row'[t].vm].ip = call[c].ip
      BY <2>3 DEF MarkOK, HasRow, Settled
    <3>1. row'[t] = row[t] /\ HasRow(t)
      BY DEF HasRow
    <3>2. machine[row[t].vm].ip = call[c].ip /\ Exists(row[t].vm)
      BY <2>1, <2>3, <3>1 DEF MarkOK, IInv, RowInv
    <3> QED BY <1>1, <3>1, <3>2 DEF Exists
  <2> QED BY <2>2, <2>4
<1>3. RowsPointHome'
  <2>1. ASSUME NEW t \in Targets, HasRow(t)', Settled(t)'
        PROVE  row'[t].ip = machine'[row'[t].vm].ip
    <3>1. row'[t] = row[t]
      BY <2>1 DEF HasRow
    <3> QED BY <1>1, <2>1, <3>1, RacedGrows, RowsStayHome
  <2> QED BY <2>1 DEF RowsPointHome, Settled
<1> QED BY <1>2, <1>3 DEF HomeInv, Active, Named

LEMMA HomeStep ==
  ASSUME IInv, HomeInv, IInv', [Next]_vars
  PROVE  HomeInv'
<1>1. ASSUME NEW c \in Calls, CallStep(c)
      PROVE  HomeInv'
  <2>1. CASE \E t \in Targets : \E h \in Hosts[t] : FindVm(c, t, h)
    BY <2>1, FindVmHome
  <2>2. CASE CountVms(c) \/ FindRow(c) \/ RenameMachine(c) \/ RenameRow(c)
    BY <2>2, CountVmsHome, FindRowHome, RenameMachineHome, RenameRowHome
  <2>3. CASE ListHosts(c) \/ TakeAddress(c) \/ CreateMachine(c) \/ CreateAnswerLost(c)
    BY <2>3, ListHostsHome, TakeAddressHome, CreateMachineHome, CreateAnswerLostHome
  <2>4. CASE AdoptMachine(c) \/ StoreRow(c) \/ Poll(c) \/ MarkRunning(c)
    BY <2>4, AdoptMachineHome, StoreRowHome, PollHome, MarkRunningHome
  <2>5. CASE CallFails(c)
    BY <2>5, EndHome DEF CallFails, Throw
  <2> QED BY <1>1, <2>1, <2>2, <2>3, <2>4, <2>5 DEF CallStep
<1>2. ASSUME NEW r \in Removers, RemoverStep(r)
      PROVE  HomeInv'
  <2>1. UNCHANGED <<call, raced>>
    BY <1>2 DEF RemoverStep, BotDelete, ApiDelete, DeleteRow, Notice
  <2>2. \A m \in Machines : Up(m)' => Up(m) /\ machine'[m].host = machine[m].host
    <3>1. CASE ApiDelete(r)
      <4>1. UNCHANGED machine \/ machine' = Destroyed(remover[r].vm)
        BY <3>1 DEF ApiDelete
      <4> QED BY <4>1 DEF Destroyed, Up, IInv, TypeOK, Machine
    <3>2. CASE UNCHANGED machine
      BY <3>2 DEF Up
    <3> QED BY <1>2, <3>1, <3>2 DEF RemoverStep, BotDelete, DeleteRow, Notice
  <2>3. \A t \in Targets : row'[t] = row[t] \/ row'[t].id = 0
    <3>1. CASE DeleteRow(r)
      BY <3>1, IdleTyped DEF DeleteRow, IInv, TypeOK
    <3> QED BY <1>2, <3>1 DEF RemoverStep, BotDelete, ApiDelete, Notice
  <2> QED BY <2>1, <2>2, <2>3, RemovalHome
<1>3. ASSUME NEW m \in Machines, PanelDelete(m) \/ NoticeLost(m)
      PROVE  HomeInv'
  <2>1. UNCHANGED <<call, raced, row>> /\ (UNCHANGED machine \/ machine' = Destroyed(m))
    BY <1>3 DEF PanelDelete, NoticeLost
  <2>2. \A n \in Machines : Up(n)' => Up(n) /\ machine'[n].host = machine[n].host
    BY <2>1 DEF Destroyed, Up, IInv, TypeOK, Machine
  <2> QED BY <2>1, <2>2, RemovalHome
<1>4. CASE UNCHANGED vars
  <2>1. UNCHANGED <<call, raced, row, machine>>
    BY <1>4 DEF vars
  <2> QED BY <2>1, RemovalHome DEF Up
<1> QED BY <1>1, <1>2, <1>3, <1>4 DEF Next

(* The address a target's row gives is the address of the machine the row
   names: adopted by name (virtualizor.ts:896), stored before SSH answers
   (virtualizor.ts:835 and 913), marked by whoever polled it (870 and 944),
   deleted and made again, unless two calls of the target overlapped or its
   name was contested. *)
THEOREM RowsLeadHome == Spec => []RowsPointHome
<1>1. Init => HomeInv
  BY IdleTyped DEF Init, HomeInv, Active, Named, MadeOK, MarkOK, RowsPointHome, HasRow
<1>2. IInv /\ HomeInv /\ IInv' /\ [Next]_vars => HomeInv'
  BY HomeStep
<1>3. IInv /\ HomeInv => RowsPointHome
  BY DEF HomeInv
<1> QED BY <1>1, <1>2, <1>3, Invariance, PTL DEF Spec

(* Every variable keeps its type. *)
THEOREM ProvisioningTypeCorrect == Spec => []TypeOK
<1>1. IInv => TypeOK
  BY DEF IInv
<1> QED BY <1>1, Invariance, PTL

=============================================================================
