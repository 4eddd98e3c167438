----------------------- MODULE RepositoryEventsProofs -----------------------
(***************************************************************************)
(* What deploys with which configuration, which pull request bears the      *)
(* label and who administers the VM, proved for every number of handlers,   *)
(* commits, pull requests, events, syncs, users and failed calls:           *)
(* JobConfigMatches, OneLabelled and AdminsSynced.                          *)
(*                                                                         *)
(* The first speaks of the shared row between a handler's store and its     *)
(* read, the second of labels whose handlers are still to take them from    *)
(* others.  For the third, what a sync has still to add or to remove must   *)
(* account for what the group is short of.  Last come the types of all      *)
(* parts.                                                                   *)
(***************************************************************************)
EXTENDS RepositoryEvents, RepositoryLifecycleProofs, FiniteSetTheorems, TLAPS

-----------------------------------------------------------------------------
(* The events that deploy.                                                  *)

HandlerType ==
  [at : Deploys!Points, event : Deploys!Events, commit : Commits, labels : BOOLEAN, ground : Deploys!Grounds,
   config : SUBSET Commits, left : SUBSET Pulls]
JobType == [commit : Commits, config : SUBSET Commits, ground : Deploys!Grounds]

EventsTyped ==
  /\ initialized \in BOOLEAN /\ slipped \in BOOLEAN
  /\ snapshot \subseteq Commits /\ (\A c, d \in snapshot : c = d)
  /\ labelled \subseteq Pulls
  /\ handler \in [EventHandlers -> HandlerType]
  /\ job \subseteq JobType
  /\ events \in 0..MaxEvents /\ eventFaults \in 0..MaxEventFaults

\* A handler that stored its commit's file finds it, or nothing, in the row, as
\* long as no other stored.
HandlerOK(r, snap) ==
  /\ r.at \in {"directory", "sync"} => r.ground = "unsynced"
  /\ r.at = "rules" /\ r.ground = "synced" => snap \subseteq {r.commit}
  /\ r.at = "queue" /\ r.ground = "synced" => r.config = {r.commit}
GroundInv == (\A h \in EventHandlers : HandlerOK(handler[h], snapshot)) /\ Deploys!JobConfigMatches

\* The handler of label p will still take it from q.
Covers(r, p, q) ==
  /\ r.event = "labeled" /\ Branch[r.commit] = p
  /\ r.at \in {"sync", "rules", "queue"} \/ (r.at = "unlabel" /\ q \in r.left)
LabelInv ==
  ~slipped => \A p, q \in labelled : p # q =>
    \E h \in EventHandlers : Covers(handler[h], p, q) \/ Covers(handler[h], q, p)

EventsInv == EventsTyped /\ GroundInv /\ LabelInv

-----------------------------------------------------------------------------
LEMMA IdleTyped ==
  /\ Deploys!IdleHandler \in HandlerType
         /\ Deploys!IdleHandler.at = "idle" /\ Deploys!IdleHandler.event = "push"
         /\ Deploys!IdleHandler.ground = "unsynced"
         /\ Deploys!SomeCommit \in Commits
<1>1. Deploys!SomeCommit \in Commits
  BY EventsAssumption DEF EventsConfigured, Deploys!SomeCommit
<1> QED BY <1>1 DEF Deploys!IdleHandler, HandlerType, Deploys!Points,
    Deploys!Events, Deploys!Grounds

LEMMA EventsStart ==
  ASSUME Deploys!Init
  PROVE  EventsInv
<1>1. EventsTyped
  <2>1. 0 \in 0..MaxEvents /\ 0 \in 0..MaxEventFaults
    BY EventsAssumption DEF EventsConfigured
  <2>2. Deploys!IdleHandler \in HandlerType
    BY IdleTyped
  <2> QED BY <2>1, <2>2 DEF Deploys!Init, EventsTyped
<1>2. GroundInv
  BY IdleTyped DEF Deploys!Init, GroundInv, HandlerOK, Deploys!JobConfigMatches
<1>3. LabelInv
  BY DEF Deploys!Init, LabelInv
<1> QED BY <1>1, <1>2, <1>3 DEF EventsInv

\* The record of one handler is written.
LEMMA OneHandler ==
  ASSUME EventsTyped, NEW h \in EventHandlers, NEW r \in HandlerType, Deploys!Set(h, r)
  PROVE  /\ handler' \in [EventHandlers -> HandlerType]
         /\ handler'[h] = r
         /\ \A g \in EventHandlers : g # h => handler'[g] = handler[g]
BY DEF EventsTyped, Deploys!Set

LEMMA FaultTyped ==
  ASSUME EventsTyped, Deploys!Fault \/ UNCHANGED eventFaults
  PROVE  eventFaults' \in 0..MaxEventFaults
<1>1. CASE UNCHANGED eventFaults
  BY <1>1 DEF EventsTyped
<1>2. CASE Deploys!Fault
  <2>1. /\ eventFaults \in 0..MaxEventFaults /\ MaxEventFaults \in Nat
        /\ eventFaults < MaxEventFaults /\ eventFaults' = eventFaults + 1
    BY <1>2, EventsAssumption DEF Deploys!Fault, EventsTyped, EventsConfigured
  <2> QED BY <2>1
<1> QED BY <1>1, <1>2

\* Nothing new is labelled, and what a handler covered it still covers.
LEMMA LabelFrame ==
  ASSUME LabelInv, labelled' \subseteq labelled, slipped => slipped',
         \A g \in EventHandlers : \A p, q \in labelled' :
           Covers(handler[g], p, q) => Covers(handler'[g], p, q)
  PROVE  LabelInv'
BY DEF LabelInv, Covers

\* One handler moves on, the row and the job stay.
LEMMA GroundFrame ==
  ASSUME GroundInv, NEW h \in EventHandlers, UNCHANGED <<snapshot, job>>,
         \A g \in EventHandlers : g # h => handler'[g] = handler[g],
         HandlerOK(handler'[h], snapshot)
  PROVE  GroundInv'
BY DEF GroundInv, Deploys!JobConfigMatches, HandlerOK

-----------------------------------------------------------------------------
LEMMA ReceiveStep ==
  ASSUME EventsInv, NEW h \in EventHandlers, NEW e \in Deploys!Events, NEW c \in Commits,
         Deploys!Receive(h, e, c)
  PROVE  EventsInv'
<1> USE DEF EventsInv
<1> DEFINE point == CASE e = "push" -> "directory"
                      [] e = "redeploy" -> "rules"
                      [] OTHER -> "sync"
           has == e = "labeled" \/ Branch[c] \in labelled
           r == [Deploys!IdleHandler EXCEPT !.event = e, !.commit = c, !.labels = has, !.at = point]
<1>1. point \in {"directory", "rules", "sync"} /\ (e = "labeled" => point = "sync")
  BY DEF Deploys!Events
<1>2. has \in BOOLEAN
  OBVIOUS
<1>3. Deploys!Set(h, r)
  BY DEF Deploys!Receive
<1> HIDE DEF point, has
<1>4. /\ r \in HandlerType /\ r.at = point /\ r.event = e /\ r.commit = c
      /\ r.ground = "unsynced"
  BY <1>1, <1>2, IdleTyped DEF HandlerType, Deploys!Points, Deploys!IdleHandler,
     Deploys!Grounds
<1> HIDE DEF r
<1>5. /\ handler' \in [EventHandlers -> HandlerType] /\ handler'[h] = r
      /\ \A g \in EventHandlers : g # h => handler'[g] = handler[g]
  BY <1>3, <1>4, OneHandler
<1>6. /\ UNCHANGED <<initialized, snapshot, job, eventFaults, slipped>>
      /\ handler[h].at = "idle"
      /\ events < MaxEvents /\ events' = events + 1
      /\ labelled' = IF e = "labeled" THEN labelled \cup {Branch[c]} ELSE labelled
  BY DEF Deploys!Receive, Deploys!Busy
<1>7. labelled' \subseteq Pulls
  <2>1. e = "labeled" => Branch[c] \in Pulls
    BY EventsAssumption DEF Deploys!Receive, Deploys!OfPull, EventsConfigured
  <2> QED BY <1>6, <2>1 DEF EventsTyped
<1>8. events' \in 0..MaxEvents
  <2>1. events \in 0..MaxEvents /\ MaxEvents \in Nat
    BY EventsAssumption DEF EventsTyped, EventsConfigured
  <2> QED BY <1>6, <2>1
<1>9. EventsTyped'
  BY <1>5, <1>6, <1>7, <1>8 DEF EventsTyped
<1>10. HandlerOK(handler'[h], snapshot)
  BY <1>1, <1>4, <1>5 DEF HandlerOK
<1>11. GroundInv'
  BY <1>5, <1>6, <1>10, GroundFrame
<1>12. LabelInv'
  <2> SUFFICES ASSUME ~slipped, NEW p \in labelled', NEW q \in labelled', p # q
               PROVE  \E g \in EventHandlers : Covers(handler'[g], p, q) \/ Covers(handler'[g], q, p)
    BY <1>6 DEF LabelInv, Covers
  <2>1. CASE p \in labelled /\ q \in labelled
    <3>1. PICK g \in EventHandlers : Covers(handler[g], p, q) \/ Covers(handler[g], q, p)
      BY <2>1 DEF LabelInv
    <3>2. g # h
      BY <1>6, <3>1 DEF Covers
    <3> QED BY <1>5, <3>1, <3>2
  <2>2. CASE p \notin labelled \/ q \notin labelled
    <3>1. e = "labeled" /\ (p = Branch[c] \/ q = Branch[c])
      BY <1>6, <2>2
    <3>2. Covers(r, p, q) \/ Covers(r, q, p)
      BY <1>1, <1>4, <3>1 DEF Covers
    <3> QED BY <1>5, <3>2
  <2> QED BY <2>1, <2>2
<1> QED BY <1>9, <1>11, <1>12

\* A handler that is not at a label's work moves to another point.
LEMMA CheckDirectoryStep ==
  ASSUME EventsInv, NEW h \in EventHandlers, Deploys!CheckDirectory(h)
  PROVE  EventsInv'
<1> USE DEF EventsInv
<1> DEFINE s == [handler[h] EXCEPT !.at = "sync"]
<1>1. /\ handler[h].at = "directory" /\ UNCHANGED <<snapshot, labelled, job, events, slipped>>
      /\ initialized' \in BOOLEAN /\ (Deploys!Fault \/ UNCHANGED eventFaults)
      /\ Deploys!Set(h, Deploys!IdleHandler) \/ Deploys!Set(h, s)
  BY DEF Deploys!CheckDirectory, Deploys!At, Deploys!Stop, Deploys!Go, EventsTyped
<1>2. handler[h] \in HandlerType /\ handler[h].ground = "unsynced"
  BY <1>1 DEF EventsTyped, GroundInv, HandlerOK
<1>3. s \in HandlerType /\ s.at = "sync" /\ s.ground = "unsynced"
  BY <1>2 DEF HandlerType, Deploys!Points
<1> HIDE DEF s
<1>4. PICK r \in {Deploys!IdleHandler, s} : Deploys!Set(h, r)
  BY <1>1
<1>5. r \in HandlerType /\ r.at \in {"idle", "sync"} /\ r.ground = "unsynced"
  BY <1>3, <1>4, IdleTyped
<1>6. /\ handler' \in [EventHandlers -> HandlerType] /\ handler'[h] = r
      /\ \A g \in EventHandlers : g # h => handler'[g] = handler[g]
  BY <1>4, <1>5, OneHandler
<1>7. eventFaults' \in 0..MaxEventFaults
  BY <1>1, FaultTyped
<1>8. EventsTyped'
  BY <1>1, <1>6, <1>7 DEF EventsTyped
<1>9. HandlerOK(handler'[h], snapshot)
  BY <1>5, <1>6 DEF HandlerOK
<1>10. GroundInv'
  BY <1>1, <1>6, <1>9, GroundFrame
<1>11. LabelInv'
  <2>1. \A p, q : ~Covers(handler[h], p, q)
    BY <1>1 DEF Covers
  <2> QED BY <1>1, <1>6, <2>1, LabelFrame
<1> QED BY <1>8, <1>10, <1>11

\* The row becomes the commit's, and who is about to read it counts as crossed.
LEMMA SyncConfigStep ==
  ASSUME EventsInv, NEW h \in EventHandlers, Deploys!SyncConfig(h)
  PROVE  EventsInv'
<1> USE DEF EventsInv
<1> DEFINE c == handler[h].commit
           r == [handler[h] EXCEPT !.at = "rules"]
           s == [r EXCEPT !.ground = "synced"]
<1>1. /\ handler[h].at = "sync" /\ handler[h] \in HandlerType
      /\ handler[h].ground = "unsynced"
      /\ UNCHANGED <<initialized, labelled, job, events, slipped>>
  BY DEF Deploys!SyncConfig, Deploys!At, EventsTyped, GroundInv, HandlerOK
<1>2. /\ r \in HandlerType /\ r.at = "rules" /\ r.event = handler[h].event /\ r.commit = c
      /\ r.ground = "unsynced"
  BY <1>1 DEF HandlerType, Deploys!Points
<1>3. /\ s \in HandlerType /\ s.at = "rules" /\ s.event = handler[h].event /\ s.commit = c
      /\ s.ground = "synced"
  <2> HIDE DEF r
  <2> QED BY <1>2 DEF HandlerType, Deploys!Points, Deploys!Grounds
<1>4. eventFaults' \in 0..MaxEventFaults
  BY FaultTyped DEF Deploys!SyncConfig
<1>5. CASE snapshot' = {c} /\ Deploys!Stored(h, s)
  <2> HIDE DEF s, r
  <2> DEFINE x(g) == IF g = h THEN s
                     ELSE IF Deploys!At(g, "rules") THEN [handler[g] EXCEPT !.ground = "crossed"]
                     ELSE handler[g]
  <2>1. handler' = [g \in EventHandlers |-> x(g)]
    BY <1>5 DEF Deploys!Stored
  <2>2. ASSUME NEW g \in EventHandlers
        PROVE  /\ x(g) \in HandlerType /\ x(g).event = handler[g].event
               /\ x(g).commit = handler[g].commit /\ x(g).left = handler[g].left
               /\ x(g).config = handler[g].config
               /\ g # h => x(g).at = handler[g].at
               /\ g # h /\ handler[g].at # "rules" => x(g) = handler[g]
               /\ g # h /\ handler[g].at = "rules" => x(g).ground = "crossed"
    <3>1. CASE g = h
      <4>1. x(g) = s
        BY <3>1
      <4>2. s.left = handler[h].left /\ s.config = handler[h].config
        BY <1>1 DEF s, r, HandlerType
      <4> HIDE DEF x
      <4> QED BY <1>3, <3>1, <4>1, <4>2
    <3>2. CASE g # h /\ handler[g].at = "rules"
      <4> DEFINE y == [handler[g] EXCEPT !.ground = "crossed"]
      <4>1. x(g) = y
        BY <3>2 DEF Deploys!At
      <4>2. /\ y \in HandlerType /\ y.event = handler[g].event /\ y.at = handler[g].at
            /\ y.commit = handler[g].commit /\ y.left = handler[g].left
            /\ y.config = handler[g].config /\ y.ground = "crossed"
        BY DEF EventsTyped, HandlerType, Deploys!Grounds
      <4> HIDE DEF x, y
      <4> QED BY <3>2, <4>1, <4>2
    <3>3. CASE g # h /\ handler[g].at # "rules"
      <4>1. x(g) = handler[g]
        BY <3>3 DEF Deploys!At
      <4> HIDE DEF x
      <4> QED BY <3>3, <4>1 DEF EventsTyped
    <3> QED BY <3>1, <3>2, <3>3
  <2>3. x(h) = s
    OBVIOUS
  <2> HIDE DEF x
  <2>4. EventsTyped'
    <3>1. handler' \in [EventHandlers -> HandlerType]
      BY <2>1, <2>2
    <3>2. c \in Commits
      BY <1>1 DEF HandlerType
    <3>3. snapshot' \subseteq Commits /\ \A a, b \in snapshot' : a = b
      BY <1>5, <3>2
    <3> QED BY <1>1, <1>4, <3>1, <3>3 DEF EventsTyped
  <2>5. ASSUME NEW g \in EventHandlers PROVE HandlerOK(handler'[g], snapshot')
    <3>1. CASE g = h
      BY <1>3, <1>5, <2>1, <2>3, <3>1 DEF HandlerOK
    <3>2. CASE g # h /\ handler[g].at = "rules"
      BY <2>1, <2>2, <3>2 DEF HandlerOK
    <3>3. CASE g # h /\ handler[g].at # "rules"
      <4>1. handler'[g] = handler[g]
        BY <2>1, <2>2, <3>3
      <4>2. HandlerOK(handler[g], snapshot)
        BY DEF GroundInv
      <4> QED BY <3>3, <4>1, <4>2 DEF HandlerOK
    <3> QED BY <3>1, <3>2, <3>3
  <2>6. GroundInv'
    BY <1>1, <2>5 DEF GroundInv, Deploys!JobConfigMatches
  <2>7. LabelInv'
    <3>1. ASSUME NEW g \in EventHandlers, NEW p, NEW q, Covers(handler[g], p, q)
          PROVE  Covers(handler'[g], p, q)
      <4>1. CASE g = h
        BY <1>3, <2>1, <2>2, <2>3, <3>1, <4>1 DEF Covers
      <4>2. CASE g # h
        BY <2>1, <2>2, <3>1, <4>2 DEF Covers
      <4> QED BY <4>1, <4>2
    <3> QED BY <1>1, <3>1, LabelFrame
  <2> QED BY <2>4, <2>6, <2>7
<1>6. CASE UNCHANGED snapshot /\ Deploys!Set(h, r)
  <2> HIDE DEF r
  <2>1. /\ handler' \in [EventHandlers -> HandlerType] /\ handler'[h] = r
        /\ \A g \in EventHandlers : g # h => handler'[g] = handler[g]
    BY <1>2, <1>6, OneHandler
  <2>2. EventsTyped'
    BY <1>1, <1>4, <1>6, <2>1 DEF EventsTyped
  <2>3. GroundInv'
    <3>1. HandlerOK(handler'[h], snapshot)
      BY <1>2, <2>1 DEF HandlerOK
    <3> QED BY <1>1, <1>6, <2>1, <3>1, GroundFrame
  <2>4. LabelInv'
    <3>1. \A p, q : Covers(handler[h], p, q) => Covers(r, p, q)
      BY <1>1, <1>2 DEF Covers
    <3> QED BY <1>1, <2>1, <3>1, LabelFrame
  <2> QED BY <2>2, <2>3, <2>4
<1> QED BY <1>5, <1>6 DEF Deploys!SyncConfig

\* What a handler takes from the row is, if it stored its own, its commit's.
LEMMA JudgeStep ==
  ASSUME EventsInv, NEW h \in EventHandlers, Deploys!Judge(h)
  PROVE  EventsInv'
<1> USE DEF EventsInv
<1> DEFINE r == [handler[h] EXCEPT !.at = "queue", !.config = snapshot]
<1>1. /\ handler[h].at = "rules" /\ handler[h] \in HandlerType
      /\ HandlerOK(handler[h], snapshot)
      /\ UNCHANGED <<initialized, snapshot, labelled, job, events>>
  BY DEF Deploys!Judge, Deploys!At, EventsTyped, GroundInv
<1>2. /\ \/ Deploys!Set(h, r) /\ snapshot # {} /\ UNCHANGED slipped
         \/ Deploys!Set(h, Deploys!IdleHandler) /\ slipped' = (slipped \/ handler[h].event = "labeled")
      /\ eventFaults' = eventFaults \/ Deploys!Fault
  <2>1. PICK labels \in {Branch[handler[h].commit] \in labelled, FALSE} :
          /\ IF labels = (Branch[handler[h].commit] \in labelled)
             THEN UNCHANGED eventFaults ELSE Deploys!Fault
          /\ IF \E c \in snapshot : Deploys!Matches(h, Rule[c], labels)
             THEN /\ Deploys!Set(h, r)
                  /\ UNCHANGED slipped
             ELSE /\ Deploys!Stop(h)
                  /\ slipped' = (slipped \/ handler[h].event = "labeled")
    BY DEF Deploys!Judge
  <2> HIDE DEF r
  <2> QED BY <2>1 DEF Deploys!Stop
<1>3. /\ r \in HandlerType /\ r.at = "queue" /\ r.event = handler[h].event
      /\ r.commit = handler[h].commit /\ r.ground = handler[h].ground /\ r.config = snapshot
  BY <1>1 DEF HandlerType, Deploys!Points, EventsTyped
<1> HIDE DEF r
<1>4. eventFaults' \in 0..MaxEventFaults
  BY <1>2, FaultTyped
<1>5. CASE Deploys!Set(h, r) /\ snapshot # {} /\ UNCHANGED slipped
  <2>1. /\ handler' \in [EventHandlers -> HandlerType] /\ handler'[h] = r
        /\ \A g \in EventHandlers : g # h => handler'[g] = handler[g]
    BY <1>3, <1>5, OneHandler
  <2>2. EventsTyped'
    BY <1>1, <1>4, <1>5, <2>1 DEF EventsTyped
  <2>3. HandlerOK(r, snapshot)
    <3>1. r.ground = "synced" => snapshot = {handler[h].commit}
      BY <1>1, <1>3, <1>5 DEF HandlerOK
    <3> QED BY <1>3, <3>1 DEF HandlerOK
  <2>4. GroundInv'
    BY <1>1, <2>1, <2>3, GroundFrame
  <2>5. LabelInv'
    <3>1. \A p, q : Covers(handler[h], p, q) => Covers(r, p, q)
      BY <1>1, <1>3 DEF Covers
    <3> QED BY <1>1, <1>5, <2>1, <3>1, LabelFrame
  <2> QED BY <2>2, <2>4, <2>5
<1>6. CASE Deploys!Set(h, Deploys!IdleHandler) /\ slipped' = (slipped \/ handler[h].event = "labeled")
  <2>1. /\ handler' \in [EventHandlers -> HandlerType] /\ handler'[h] = Deploys!IdleHandler
        /\ \A g \in EventHandlers : g # h => handler'[g] = handler[g]
    BY <1>6, IdleTyped, OneHandler
  <2>2. EventsTyped'
    BY <1>1, <1>4, <1>6, <2>1 DEF EventsTyped
  <2>3. HandlerOK(Deploys!IdleHandler, snapshot)
    BY IdleTyped DEF HandlerOK
  <2>4. GroundInv'
    BY <1>1, <2>1, <2>3, GroundFrame
  <2>5. LabelInv'
    <3>1. CASE slipped'
      BY <3>1 DEF LabelInv
    <3>2. CASE ~slipped'
      <4>1. \A p, q : ~Covers(handler[h], p, q)
        BY <1>6, <3>2 DEF Covers
      <4> QED BY <1>1, <1>6, <2>1, <4>1, LabelFrame
    <3> QED BY <3>1, <3>2
  <2> QED BY <2>2, <2>4, <2>5
<1> QED BY <1>2, <1>5, <1>6

\* A handler stops: its record says nothing of labels any more.
LEMMA StopFrame ==
  ASSUME EventsInv, NEW h \in EventHandlers, Deploys!Set(h, Deploys!IdleHandler),
         UNCHANGED <<snapshot, labelled>>, slipped => slipped', slipped' \in BOOLEAN,
         ~slipped' => \A p, q \in labelled : p # q => ~Covers(handler[h], p, q)
  PROVE  /\ handler' \in [EventHandlers -> HandlerType]
         /\ \A g \in EventHandlers : HandlerOK(handler'[g], snapshot')
         /\ LabelInv'
<1> USE DEF EventsInv
<1>1. /\ handler' \in [EventHandlers -> HandlerType] /\ handler'[h] = Deploys!IdleHandler
      /\ \A g \in EventHandlers : g # h => handler'[g] = handler[g]
  BY IdleTyped, OneHandler
<1>2. HandlerOK(Deploys!IdleHandler, snapshot)
  BY IdleTyped DEF HandlerOK
<1>3. \A g \in EventHandlers : HandlerOK(handler'[g], snapshot')
  BY <1>1, <1>2 DEF GroundInv, HandlerOK
<1>4. LabelInv'
  <2> SUFFICES ASSUME ~slipped', NEW p \in labelled, NEW q \in labelled, p # q
               PROVE  \E g \in EventHandlers : Covers(handler'[g], p, q) \/ Covers(handler'[g], q, p)
    BY DEF LabelInv, Covers
  <2>1. PICK g \in EventHandlers : Covers(handler[g], p, q) \/ Covers(handler[g], q, p)
    BY DEF LabelInv
  <2>2. g # h
    BY <2>1
  <2> QED BY <1>1, <2>1, <2>2
<1> QED BY <1>1, <1>3, <1>4

\* The job takes its configuration from the handler; a label's handler sets
\* out with the labels there are.
LEMMA EnqueueStep ==
  ASSUME EventsInv, NEW h \in EventHandlers, Deploys!Enqueue(h)
  PROVE  EventsInv'
<1> USE DEF EventsInv
<1> DEFINE j == [commit |-> handler[h].commit, config |-> handler[h].config,
                 ground |-> handler[h].ground]
           others == labelled \ {Branch[handler[h].commit]}
           r == [handler[h] EXCEPT !.at = "unlabel", !.left = others]
<1>1. /\ handler[h].at = "queue" /\ handler[h] \in HandlerType
      /\ HandlerOK(handler[h], snapshot)
      /\ UNCHANGED <<initialized, snapshot, labelled, events>>
  BY DEF Deploys!Enqueue, Deploys!At, EventsTyped, GroundInv
<1>2. others \subseteq Pulls
  BY DEF EventsTyped
<1>3. /\ r \in HandlerType /\ r.at = "unlabel" /\ r.event = handler[h].event
      /\ r.commit = handler[h].commit /\ r.left = others
  <2> HIDE DEF others
  <2> QED BY <1>1, <1>2 DEF HandlerType, Deploys!Points
<1>4. /\ j \in JobType /\ j.commit = handler[h].commit /\ j.config = handler[h].config
      /\ j.ground = handler[h].ground
  BY <1>1 DEF HandlerType, JobType
<1>5. j.ground = "synced" => j.config = {j.commit}
  BY <1>1, <1>4 DEF HandlerOK
<1> HIDE DEF r, j
<1>6. eventFaults' \in 0..MaxEventFaults
  BY FaultTyped DEF Deploys!Enqueue
<1>7. CASE job' = {j} /\ handler[h].event = "labeled" /\ Deploys!Set(h, r) /\ UNCHANGED slipped
  <2>1. /\ handler' \in [EventHandlers -> HandlerType] /\ handler'[h] = r
        /\ \A g \in EventHandlers : g # h => handler'[g] = handler[g]
    BY <1>3, <1>7, OneHandler
  <2>2. EventsTyped'
    BY <1>1, <1>4, <1>6, <1>7, <2>1 DEF EventsTyped
  <2>3. GroundInv'
    <3>1. HandlerOK(r, snapshot)
      BY <1>3 DEF HandlerOK
    <3>2. \A g \in EventHandlers : HandlerOK(handler'[g], snapshot')
      BY <1>1, <2>1, <3>1 DEF GroundInv, HandlerOK
    <3> QED BY <1>5, <1>7, <3>2 DEF GroundInv, Deploys!JobConfigMatches
  <2>4. LabelInv'
    <3>1. ASSUME NEW p \in labelled, NEW q \in labelled, p # q, Covers(handler[h], p, q)
          PROVE  Covers(r, p, q)
      BY <1>3, <3>1 DEF Covers
    <3>2. ASSUME ~slipped, NEW p \in labelled, NEW q \in labelled, p # q
          PROVE  \E g \in EventHandlers : Covers(handler'[g], p, q) \/ Covers(handler'[g], q, p)
      <4>1. PICK g \in EventHandlers : Covers(handler[g], p, q) \/ Covers(handler[g], q, p)
        BY <3>2 DEF LabelInv
      <4> QED BY <2>1, <3>1, <3>2, <4>1
    <3> QED BY <1>1, <1>7, <3>2 DEF LabelInv, Covers
  <2> QED BY <2>2, <2>3, <2>4
<1>8. CASE job' = {j} /\ handler[h].event # "labeled" /\ Deploys!Set(h, Deploys!IdleHandler) /\ UNCHANGED slipped
  <2>1. \A p, q : ~Covers(handler[h], p, q)
    BY <1>8 DEF Covers
  <2>2. /\ handler' \in [EventHandlers -> HandlerType]
        /\ \A g \in EventHandlers : HandlerOK(handler'[g], snapshot')
        /\ LabelInv'
    BY <1>1, <1>8, <2>1, StopFrame DEF EventsTyped
  <2>3. EventsTyped'
    BY <1>1, <1>4, <1>6, <1>8, <2>2 DEF EventsTyped
  <2>4. GroundInv'
    BY <1>5, <1>8, <2>2 DEF GroundInv, Deploys!JobConfigMatches
  <2> QED BY <2>2, <2>3, <2>4
<1>9. CASE UNCHANGED job /\ Deploys!Set(h, Deploys!IdleHandler)
           /\ slipped' = (slipped \/ handler[h].event = "labeled")
  <2>1. ~slipped' => \A p, q \in labelled : p # q => ~Covers(handler[h], p, q)
    BY <1>9 DEF Covers
  <2>2. /\ handler' \in [EventHandlers -> HandlerType]
        /\ \A g \in EventHandlers : HandlerOK(handler'[g], snapshot')
        /\ LabelInv'
    BY <1>1, <1>9, <2>1, StopFrame DEF EventsTyped
  <2>3. EventsTyped'
    BY <1>1, <1>6, <1>9, <2>2 DEF EventsTyped
  <2>4. GroundInv'
    BY <1>9, <2>2 DEF GroundInv, Deploys!JobConfigMatches
  <2> QED BY <2>2, <2>3, <2>4
<1> QED BY <1>7, <1>8, <1>9, Zenon DEF Deploys!Enqueue, Deploys!TakesLabels,
    Deploys!Stop, j, r

\* The label goes from one pull request that was covered; with none left the
\* handler covers nothing.
LEMMA UnlabelStep ==
  ASSUME EventsInv, NEW h \in EventHandlers, Deploys!Unlabel(h)
  PROVE  EventsInv'
<1> USE DEF EventsInv
<1>1. /\ handler[h].at = "unlabel" /\ handler[h] \in HandlerType
      /\ UNCHANGED <<initialized, snapshot, job, events>>
  BY DEF Deploys!Unlabel, Deploys!At, EventsTyped
<1>2. eventFaults' \in 0..MaxEventFaults
  BY FaultTyped DEF Deploys!Unlabel
<1>3. CASE handler[h].left = {} /\ Deploys!Set(h, Deploys!IdleHandler) /\ UNCHANGED <<labelled, slipped>>
  <2>1. \A p, q : ~Covers(handler[h], p, q)
    BY <1>1, <1>3 DEF Covers
  <2>2. /\ handler' \in [EventHandlers -> HandlerType]
        /\ \A g \in EventHandlers : HandlerOK(handler'[g], snapshot')
        /\ LabelInv'
    BY <1>1, <1>3, <2>1, StopFrame DEF EventsTyped
  <2>3. EventsTyped'
    BY <1>1, <1>2, <1>3, <2>2 DEF EventsTyped
  <2>4. GroundInv'
    BY <1>1, <2>2 DEF GroundInv, Deploys!JobConfigMatches
  <2> QED BY <2>2, <2>3, <2>4
<1>4. ASSUME NEW p \in handler[h].left, labelled' = labelled \ {p}, UNCHANGED slipped,
             Deploys!Set(h, [handler[h] EXCEPT !.left = @ \ {p}])
      PROVE  EventsInv'
  <2> DEFINE r == [handler[h] EXCEPT !.left = @ \ {p}]
  <2>1. /\ r \in HandlerType /\ r.at = "unlabel" /\ r.event = handler[h].event
        /\ r.commit = handler[h].commit /\ r.left = handler[h].left \ {p}
    BY <1>1 DEF HandlerType
  <2>2. Deploys!Set(h, r)
    BY <1>4
  <2> HIDE DEF r
  <2>3. /\ handler' \in [EventHandlers -> HandlerType] /\ handler'[h] = r
        /\ \A g \in EventHandlers : g # h => handler'[g] = handler[g]
    BY <2>1, <2>2, OneHandler
  <2>4. EventsTyped'
    BY <1>1, <1>2, <1>4, <2>3 DEF EventsTyped
  <2>5. HandlerOK(r, snapshot)
    BY <2>1 DEF HandlerOK
  <2>6. GroundInv'
    BY <1>1, <2>3, <2>5, GroundFrame
  <2>7. ASSUME NEW a, NEW b \in labelled', Covers(handler[h], a, b)
        PROVE  Covers(r, a, b)
    BY <1>1, <1>4, <2>1, <2>7 DEF Covers
  <2>8. LabelInv'
    <3>1. labelled' \subseteq labelled
      BY <1>4
    <3> QED BY <1>4, <2>3, <2>7, <3>1, LabelFrame
  <2> QED BY <2>4, <2>6, <2>8
<1>5. CASE Deploys!Set(h, Deploys!IdleHandler) /\ slipped' = TRUE /\ UNCHANGED labelled
  <2>1. /\ handler' \in [EventHandlers -> HandlerType]
        /\ \A g \in EventHandlers : HandlerOK(handler'[g], snapshot')
        /\ LabelInv'
    BY <1>1, <1>5, StopFrame DEF EventsTyped
  <2>2. EventsTyped'
    BY <1>1, <1>2, <1>5, <2>1 DEF EventsTyped
  <2>3. GroundInv'
    BY <1>1, <2>1 DEF GroundInv, Deploys!JobConfigMatches
  <2> QED BY <2>1, <2>2, <2>3
<1> QED BY <1>3, <1>4, <1>5, Zenon DEF Deploys!Unlabel, Deploys!Stop

LEMMA CleanupStep ==
  ASSUME EventsInv, Deploys!Cleanup
  PROVE  EventsInv'
<1>1. /\ initialized' = FALSE /\ snapshot' = {}
      /\ UNCHANGED <<labelled, handler, job, events, eventFaults, slipped>>
  BY DEF Deploys!Cleanup, Deploys!bounds
<1>2. EventsTyped'
  BY <1>1 DEF EventsInv, EventsTyped
<1>3. GroundInv'
  <2>1. ASSUME NEW h \in EventHandlers PROVE HandlerOK(handler'[h], snapshot')
    <3>1. HandlerOK(handler[h], snapshot)
      BY DEF EventsInv, GroundInv
    <3> QED BY <1>1, <3>1 DEF HandlerOK
  <2> QED BY <1>1, <2>1 DEF EventsInv, GroundInv, Deploys!JobConfigMatches
<1>4. LabelInv'
  BY <1>1 DEF EventsInv, LabelInv, Covers
<1> QED BY <1>2, <1>3, <1>4 DEF EventsInv

LEMMA EventsStep ==
  ASSUME EventsInv, [Deploys!Next]_(Deploys!vars)
  PROVE  EventsInv'
<1>1. CASE UNCHANGED Deploys!vars
  BY <1>1 DEF Deploys!vars, Deploys!bounds, EventsInv, EventsTyped, GroundInv,
     LabelInv,
     Covers, HandlerOK, Deploys!JobConfigMatches
<1>2. CASE Deploys!Cleanup
  BY <1>2, CleanupStep
<1>3. ASSUME NEW h \in EventHandlers,
             \/ \E event \in Deploys!Events, c \in Commits : Deploys!Receive(h, event, c)
             \/ Deploys!CheckDirectory(h) \/ Deploys!SyncConfig(h) \/ Deploys!Judge(h) \/ Deploys!Enqueue(h) \/ Deploys!Unlabel(h)
      PROVE  EventsInv'
  BY <1>3, ReceiveStep, CheckDirectoryStep, SyncConfigStep, JudgeStep, EnqueueStep,
     UnlabelStep
<1> QED BY <1>1, <1>2, <1>3 DEF Deploys!Next

LEMMA EventsInvariant == Deploys!Spec => []EventsInv
<1>1. Deploys!Init => EventsInv
  BY EventsStart
<1>2. EventsInv /\ [Deploys!Next]_(Deploys!vars) => EventsInv'
  BY EventsStep
<1> QED BY <1>1, <1>2, PTL DEF Deploys!Spec

\* Every job deploys its commit with the commit's own configuration, however
\* many events store theirs in the one row, unless the handler did not store
\* its own or another stored between its store and its read
\* (webhooks.ts:180-214).
THEOREM OwnConfiguration == Deploys!Spec => []JobConfigMatches
<1>1. EventsInv => JobConfigMatches
  BY DEF EventsInv, GroundInv, JobConfigMatches
<1> QED BY EventsInvariant, <1>1, PTL

\* At rest one pull request at most bears the deploy label, however many
\* handlers took it from the others and in whatever order, unless one of them
\* did not get to it (webhooks.ts:1634-1680).
THEOREM OneDeployLabel == Deploys!Spec => []OneLabelled
<1>1. EventsInv => OneLabelled
  <2> SUFFICES ASSUME EventsInv, \A h \in EventHandlers : ~Deploys!Busy(h), ~slipped
               PROVE  Cardinality(labelled) <= 1
    <3>1. Deploys!Cardinality(labelled) = Cardinality(labelled)
      BY DEF Deploys!Cardinality, Cardinality
    <3> QED BY <3>1 DEF OneLabelled, Deploys!OneLabelled
  <2>1. \A p, q \in labelled : p = q
    BY DEF EventsInv, LabelInv, Covers, Deploys!Busy
  <2>2. CASE labelled = {}
    BY <2>2, FS_EmptySet
  <2>3. CASE labelled # {}
    <3>1. PICK p \in labelled : labelled = {p}
      BY <2>1, <2>3
    <3>2. Cardinality({p}) = 1
      BY FS_Singleton
    <3> QED BY <3>1, <3>2
  <2> QED BY <2>2, <2>3
<1> QED BY EventsInvariant, <1>1, PTL

-----------------------------------------------------------------------------
(* The administrators of the VM.                                            *)

SyncType == [at : Admins!Points, want : SUBSET Users, left : SUBSET Users,
             user : SUBSET Users, read : BOOLEAN]
LastType == [ok : BOOLEAN, want : SUBSET Users, read : BOOLEAN]

SyncTyped ==
  /\ team \subseteq Users /\ admins \subseteq Users
  /\ sync \in [Syncs -> SyncType] /\ last \in LastType /\ crossed \in BOOLEAN

\* What a sync that is alone has achieved: who is not left to be added is a
\* member; later, whoever is a member and not authorised is left to be removed.
Achieved(r, members) ==
  /\ r.at \notin {"idle", "remove"} => r.read
  /\ r.at = "users" => r.want \ r.left \subseteq members
  /\ r.at = "join" => r.want \ (r.left \cup r.user) \subseteq members
  /\ r.at = "members" => r.want \subseteq members /\ r.left = {}
  /\ r.at = "remove" =>
       /\ r.want \subseteq members /\ r.left \cap r.want = {}
       /\ r.read => members \ r.left \subseteq r.want

OneSyncInv ==
  ~crossed =>
    /\ \A r, s \in Syncs : Admins!Busy(r) /\ Admins!Busy(s) => r = s
    /\ \A s \in Syncs : Achieved(sync[s], admins)

SyncInv == SyncTyped /\ OneSyncInv /\ Admins!AdminsSynced

LEMMA IdleSyncTyped ==
  Admins!IdleSync \in SyncType /\ Admins!IdleSync.at = "idle"
BY DEF Admins!IdleSync, SyncType, Admins!Points

LEMMA SyncStarts ==
  ASSUME Admins!Init
  PROVE  SyncInv
<1>1. last \in LastType /\ last.ok = FALSE
  BY DEF Admins!Init, LastType
<1>2. SyncTyped
  BY <1>1, IdleSyncTyped DEF Admins!Init, SyncTyped
<1>3. OneSyncInv
  BY IdleSyncTyped DEF Admins!Init, OneSyncInv, Admins!Busy, Achieved
<1>4. Admins!AdminsSynced
  BY <1>1 DEF Admins!AdminsSynced
<1> QED BY <1>2, <1>3, <1>4 DEF SyncInv

-----------------------------------------------------------------------------
LEMMA OneSync ==
  ASSUME SyncTyped, NEW s \in Syncs, NEW r \in SyncType, Admins!Set(s, r)
  PROVE  /\ sync' \in [Syncs -> SyncType] /\ sync'[s] = r
         /\ \A q \in Syncs : q # s => sync'[q] = sync[q]
BY DEF SyncTyped, Admins!Set

\* A sync at work goes on: alone, it has achieved what its record says.
LEMMA GoesOn ==
  ASSUME SyncInv, NEW s \in Syncs, Admins!Busy(s), NEW r \in SyncType, Admins!Set(s, r), r.at # "idle",
         admins' \subseteq Users, UNCHANGED <<team, last, crossed>>,
         ~crossed => Achieved(r, admins')
  PROVE  SyncInv'
<1> USE DEF SyncInv
<1>1. /\ sync' \in [Syncs -> SyncType] /\ sync'[s] = r
      /\ \A q \in Syncs : q # s => sync'[q] = sync[q]
  BY OneSync
<1>2. SyncTyped'
  BY <1>1 DEF SyncTyped
<1>3. OneSyncInv'
  <2> SUFFICES ASSUME ~crossed PROVE OneSyncInv'
    BY DEF OneSyncInv
  <2>1. \A q \in Syncs : q # s => sync[q].at = "idle"
    BY DEF OneSyncInv, Admins!Busy
  <2>2. \A q \in Syncs : q # s => Achieved(sync'[q], admins')
    BY <1>1, <2>1 DEF Achieved
  <2> QED BY <1>1, <2>1, <2>2 DEF OneSyncInv, Admins!Busy
<1>4. Admins!AdminsSynced'
  BY <1>1 DEF Admins!AdminsSynced, Admins!Busy
<1> QED BY <1>2, <1>3, <1>4

\* A sync ends; what it reports of its success is so when it was alone.
LEMMA Ended ==
  ASSUME SyncInv, NEW s \in Syncs, Admins!Busy(s), NEW ok \in BOOLEAN, Admins!Ends(s, ok),
         admins' \subseteq Users, UNCHANGED <<team, crossed>>,
         ok /\ ~crossed => /\ sync[s].want \subseteq admins'
                           /\ sync[s].read => admins' \subseteq sync[s].want
  PROVE  SyncInv'
<1> USE DEF SyncInv
<1>1. /\ sync' \in [Syncs -> SyncType] /\ sync'[s] = Admins!IdleSync
      /\ \A q \in Syncs : q # s => sync'[q] = sync[q]
  BY OneSync, IdleSyncTyped DEF Admins!Ends
<1>2. /\ last' \in LastType /\ last'.ok = ok /\ last'.want = sync[s].want
      /\ last'.read = sync[s].read
  <2>1. sync[s] \in SyncType
    BY DEF SyncTyped
  <2> QED BY <2>1 DEF Admins!Ends, SyncType, LastType
<1>3. SyncTyped'
  BY <1>1, <1>2 DEF SyncTyped
<1>4. OneSyncInv'
  <2> SUFFICES ASSUME ~crossed PROVE OneSyncInv'
    BY DEF OneSyncInv
  <2>1. \A q \in Syncs : q # s => sync[q].at = "idle"
    BY DEF OneSyncInv, Admins!Busy
  <2>2. \A q \in Syncs : sync'[q].at = "idle"
    BY <1>1, <2>1, IdleSyncTyped
  <2> QED BY <2>2 DEF OneSyncInv, Admins!Busy, Achieved
<1>5. Admins!AdminsSynced'
  BY <1>2 DEF Admins!AdminsSynced
<1> QED BY <1>3, <1>4, <1>5

LEMMA ThrowsFrame ==
  ASSUME SyncInv, NEW s \in Syncs, Admins!Busy(s), Admins!Throws(s), admins' \subseteq Users,
         UNCHANGED <<team, crossed>>
  PROVE  SyncInv'
BY Ended DEF Admins!Throws

-----------------------------------------------------------------------------
LEMMA StartStep ==
  ASSUME SyncInv, NEW s \in Syncs, Admins!Start(s)
  PROVE  SyncInv'
<1> USE DEF SyncInv
<1>1. PICK names \in Lists : Admins!Set(s, [Admins!IdleSync EXCEPT !.at = "expand", !.want = names])
  BY DEF Admins!Start
<1> DEFINE r == [Admins!IdleSync EXCEPT !.at = "expand", !.want = names]
<1>2. /\ ~Admins!Busy(s) /\ crossed' = (\E q \in Syncs : Admins!Busy(q))
      /\ UNCHANGED <<team, admins, last>>
  BY DEF Admins!Start, Admins!vm
<1>3. r \in SyncType /\ r.at = "expand" /\ r.read
  BY EventsAssumption DEF SyncsConfigured, Admins!IdleSync, SyncType, Admins!Points
<1> HIDE DEF r
<1>4. /\ sync' \in [Syncs -> SyncType] /\ sync'[s] = r
      /\ \A q \in Syncs : q # s => sync'[q] = sync[q]
  BY <1>1, <1>3, OneSync DEF r
<1>5. SyncTyped'
  BY <1>2, <1>4 DEF SyncTyped
<1>6. OneSyncInv'
  <2> SUFFICES ASSUME \A q \in Syncs : ~Admins!Busy(q) PROVE OneSyncInv'
    BY <1>2 DEF OneSyncInv
  <2> QED BY <1>3, <1>4 DEF OneSyncInv, Admins!Busy, Achieved
<1>7. Admins!AdminsSynced'
  BY <1>3, <1>4 DEF Admins!AdminsSynced, Admins!Busy
<1> QED BY <1>5, <1>6, <1>7

LEMMA ExpandStep ==
  ASSUME SyncInv, NEW s \in Syncs, Admins!ExpandSmartGroups(s)
  PROVE  SyncInv'
<1> USE DEF SyncInv
<1>1. PICK found \in {sync[s].want \cup team, sync[s].want} :
        IF found = {} THEN Admins!Ends(s, FALSE)
        ELSE Admins!Set(s, [sync[s] EXCEPT !.at = "group", !.want = found]) /\ UNCHANGED last
  BY DEF Admins!ExpandSmartGroups
<1> DEFINE r == [sync[s] EXCEPT !.at = "group", !.want = found]
<1>2. /\ sync[s].at = "expand" /\ sync[s] \in SyncType
      /\ UNCHANGED <<team, admins, crossed>> /\ admins \subseteq Users /\ team \subseteq Users
  BY DEF Admins!ExpandSmartGroups, Admins!At, Admins!vm, SyncTyped
<1>3. Admins!Busy(s) /\ (~crossed => sync[s].read)
  BY <1>2 DEF Admins!Busy, OneSyncInv, Achieved
<1>4. CASE found = {}
  BY <1>1, <1>2, <1>3, <1>4, Ended
<1>5. CASE found # {}
  <2>1. found \subseteq Users
    BY <1>2 DEF SyncType
  <2>2. r \in SyncType /\ r.at = "group" /\ r.read = sync[s].read
    BY <1>2, <2>1 DEF SyncType, Admins!Points
  <2>3. Admins!Set(s, r) /\ UNCHANGED last
    BY <1>1, <1>5
  <2> HIDE DEF r
  <2>4. ~crossed => Achieved(r, admins')
    BY <1>3, <2>2 DEF Achieved
  <2> QED BY <1>2, <1>3, <2>2, <2>3, <2>4, GoesOn
<1> QED BY <1>4, <1>5

LEMMA GroupStep ==
  ASSUME SyncInv, NEW s \in Syncs, Admins!EnsureGroup(s)
  PROVE  SyncInv'
<1> USE DEF SyncInv
<1> DEFINE r == [sync[s] EXCEPT !.at = "users", !.left = sync[s].want]
<1>1. /\ sync[s].at = "group" /\ sync[s] \in SyncType
      /\ UNCHANGED <<team, admins, crossed>> /\ admins \subseteq Users
      /\ Admins!Throws(s) \/ (Admins!Set(s, r) /\ UNCHANGED last)
  BY DEF Admins!EnsureGroup, Admins!At, SyncTyped
<1>2. Admins!Busy(s) /\ (~crossed => sync[s].read)
  BY <1>1 DEF Admins!Busy, OneSyncInv, Achieved
<1>3. CASE Admins!Throws(s)
  BY <1>1, <1>2, <1>3, ThrowsFrame
<1>4. CASE Admins!Set(s, r) /\ UNCHANGED last
  <2>1. /\ r \in SyncType /\ r.at = "users" /\ r.read = sync[s].read
        /\ r.want = sync[s].want /\ r.left = sync[s].want
    BY <1>1 DEF SyncType, Admins!Points
  <2> HIDE DEF r
  <2>2. ~crossed => Achieved(r, admins')
    BY <1>2, <2>1 DEF Achieved
  <2> QED BY <1>1, <1>2, <1>4, <2>1, <2>2, GoesOn
<1> QED BY <1>1, <1>3, <1>4

LEMMA UserStep ==
  ASSUME SyncInv, NEW s \in Syncs, Admins!EnsureUser(s)
  PROVE  SyncInv'
<1> USE DEF SyncInv
<1> DEFINE m == [sync[s] EXCEPT !.at = "members"]
           j(u) == [sync[s] EXCEPT !.at = "join", !.left = @ \ {u}, !.user = {u}]
<1>1. /\ sync[s].at = "users" /\ sync[s] \in SyncType
      /\ UNCHANGED <<team, admins, crossed>> /\ admins \subseteq Users
  BY DEF Admins!EnsureUser, Admins!At, SyncTyped
<1>2. Admins!Busy(s) /\ (~crossed => Achieved(sync[s], admins))
  BY <1>1 DEF Admins!Busy, OneSyncInv
<1>3. CASE sync[s].left = {} /\ Admins!Set(s, m) /\ UNCHANGED last
  <2>1. /\ m \in SyncType /\ m.at = "members" /\ m.read = sync[s].read
        /\ m.want = sync[s].want /\ m.left = sync[s].left
    BY <1>1 DEF SyncType, Admins!Points
  <2> HIDE DEF m
  <2>2. ~crossed => Achieved(m, admins')
    BY <1>1, <1>2, <1>3, <2>1 DEF Achieved
  <2> QED BY <1>1, <1>2, <1>3, <2>1, <2>2, GoesOn
<1>4. ASSUME NEW u \in sync[s].left, Admins!Set(s, j(u)), UNCHANGED last
      PROVE  SyncInv'
  <2> DEFINE r == j(u)
  <2>1. /\ r \in SyncType /\ r.at = "join" /\ r.read = sync[s].read
        /\ r.want = sync[s].want /\ r.left = sync[s].left \ {u} /\ r.user = {u}
    BY <1>1 DEF SyncType, Admins!Points
  <2>2. Admins!Set(s, r)
    BY <1>4
  <2> HIDE DEF r
  <2>3. ~crossed => Achieved(r, admins')
    BY <1>1, <1>2, <2>1 DEF Achieved
  <2> QED BY <1>1, <1>2, <1>4, <2>1, <2>2, <2>3, GoesOn
<1>5. CASE Admins!Throws(s)
  BY <1>1, <1>2, <1>5, ThrowsFrame
<1> QED BY <1>3, <1>4, <1>5, Zenon DEF Admins!EnsureUser

LEMMA JoinStep ==
  ASSUME SyncInv, NEW s \in Syncs, Admins!Join(s)
  PROVE  SyncInv'
<1> USE DEF SyncInv
<1> DEFINE r == [sync[s] EXCEPT !.at = "users", !.user = {}]
<1>1. /\ sync[s].at = "join" /\ sync[s] \in SyncType
      /\ UNCHANGED <<team, crossed>> /\ admins \subseteq Users
      /\ admins' \in {admins, admins \cup sync[s].user}
      /\ Admins!Throws(s) \/ (Admins!Set(s, r) /\ UNCHANGED last /\ admins' = admins \cup sync[s].user)
  BY DEF Admins!Join, Admins!At, SyncTyped
<1>2. Admins!Busy(s) /\ (~crossed => Achieved(sync[s], admins))
  BY <1>1 DEF Admins!Busy, OneSyncInv
<1>3. admins' \subseteq Users
  BY <1>1 DEF SyncType
<1>4. CASE Admins!Throws(s)
  BY <1>1, <1>2, <1>3, <1>4, ThrowsFrame
<1>5. CASE Admins!Set(s, r) /\ UNCHANGED last /\ admins' = admins \cup sync[s].user
  <2>1. /\ r \in SyncType /\ r.at = "users" /\ r.read = sync[s].read
        /\ r.want = sync[s].want /\ r.left = sync[s].left
    BY <1>1 DEF SyncType, Admins!Points
  <2> HIDE DEF r
  <2>2. ~crossed => Achieved(r, admins')
    BY <1>1, <1>2, <1>5, <2>1 DEF Achieved
  <2> QED BY <1>1, <1>2, <1>3, <1>5, <2>1, <2>2, GoesOn
<1> QED BY <1>1, <1>4, <1>5

LEMMA ReadStep ==
  ASSUME SyncInv, NEW s \in Syncs, Admins!ReadMembers(s)
  PROVE  SyncInv'
<1> USE DEF SyncInv
<1> DEFINE r == [sync[s] EXCEPT !.at = "remove", !.left = admins \ sync[s].want]
           n == [sync[s] EXCEPT !.at = "remove", !.read = FALSE]
<1>1. /\ sync[s].at = "members" /\ sync[s] \in SyncType
      /\ UNCHANGED <<team, admins, last, crossed>> /\ admins \subseteq Users
      /\ Admins!Set(s, r) \/ Admins!Set(s, n)
  BY DEF Admins!ReadMembers, Admins!At, Admins!vm, SyncTyped
<1>2. Admins!Busy(s) /\ (~crossed => Achieved(sync[s], admins))
  BY <1>1 DEF Admins!Busy, OneSyncInv
<1>3. CASE Admins!Set(s, r)
  <2>1. /\ r \in SyncType /\ r.at = "remove" /\ r.read = sync[s].read
        /\ r.want = sync[s].want /\ r.left = admins \ sync[s].want
    BY <1>1 DEF SyncType, Admins!Points
  <2> HIDE DEF r
  <2>2. ~crossed => Achieved(r, admins')
    BY <1>1, <1>2, <2>1 DEF Achieved
  <2> QED BY <1>1, <1>2, <1>3, <2>1, <2>2, GoesOn
<1>4. CASE Admins!Set(s, n)
  <2>1. /\ n \in SyncType /\ n.at = "remove" /\ n.read = FALSE
        /\ n.want = sync[s].want /\ n.left = sync[s].left
    BY <1>1 DEF SyncType, Admins!Points
  <2> HIDE DEF n
  <2>2. ~crossed => Achieved(n, admins')
    BY <1>1, <1>2, <2>1 DEF Achieved
  <2> QED BY <1>1, <1>2, <1>4, <2>1, <2>2, GoesOn
<1> QED BY <1>1, <1>3, <1>4

LEMMA RemoveStep ==
  ASSUME SyncInv, NEW s \in Syncs, Admins!RemoveMembers(s)
  PROVE  SyncInv'
<1> USE DEF SyncInv
<1>1. /\ sync[s].at = "remove" /\ sync[s] \in SyncType
      /\ UNCHANGED <<team, crossed>> /\ admins \subseteq Users
  BY DEF Admins!RemoveMembers, Admins!At, SyncTyped
<1>2. Admins!Busy(s) /\ (~crossed => Achieved(sync[s], admins))
  BY <1>1 DEF Admins!Busy, OneSyncInv
<1>3. CASE sync[s].left = {} /\ Admins!Ends(s, TRUE) /\ UNCHANGED admins
  <2>1. ~crossed => /\ sync[s].want \subseteq admins'
                    /\ sync[s].read => admins' \subseteq sync[s].want
    BY <1>1, <1>2, <1>3 DEF Achieved
  <2> QED BY <1>1, <1>2, <1>3, <2>1, Ended
<1>4. ASSUME NEW u \in sync[s].left, admins' = admins \ {u}, UNCHANGED last,
             Admins!Set(s, [sync[s] EXCEPT !.left = @ \ {u}])
      PROVE  SyncInv'
  <2> DEFINE r == [sync[s] EXCEPT !.left = @ \ {u}]
  <2>1. /\ r \in SyncType /\ r.at = "remove" /\ r.read = sync[s].read
        /\ r.want = sync[s].want /\ r.left = sync[s].left \ {u}
    BY <1>1 DEF SyncType
  <2>2. Admins!Set(s, r)
    BY <1>4
  <2> HIDE DEF r
  <2>3. ~crossed => Achieved(r, admins')
    BY <1>1, <1>2, <1>4, <2>1 DEF Achieved
  <2>4. admins' \subseteq Users
    BY <1>1, <1>4
  <2> QED BY <1>1, <1>2, <1>4, <2>1, <2>2, <2>3, <2>4, GoesOn
<1>5. CASE Admins!Ends(s, FALSE) /\ UNCHANGED admins
  BY <1>1, <1>2, <1>5, Ended
<1>6. ASSUME NEW u, Admins!Throws(s), admins' \in {admins, admins \ {u}}
      PROVE  SyncInv'
  <2>1. admins' \subseteq Users
    BY <1>1, <1>6
  <2> QED BY <1>1, <1>2, <1>6, <2>1, ThrowsFrame
<1> QED BY <1>3, <1>4, <1>5, <1>6, Zenon DEF Admins!RemoveMembers

LEMMA SyncSteps ==
  ASSUME SyncInv, [Admins!Next]_(Admins!vars)
  PROVE  SyncInv'
<1>1. CASE UNCHANGED Admins!vars
  BY <1>1 DEF Admins!vars, Admins!vm, SyncInv, SyncTyped, OneSyncInv, Admins!Busy,
     Achieved, Admins!AdminsSynced
<1>2. CASE Admins!TeamMoves
  BY <1>2 DEF Admins!TeamMoves, Admins!vm, SyncInv, SyncTyped, OneSyncInv,
     Admins!Busy, Achieved, Admins!AdminsSynced
<1>3. ASSUME NEW s \in Syncs,
             \/ Admins!Start(s) \/ Admins!ExpandSmartGroups(s) \/ Admins!EnsureGroup(s) \/ Admins!EnsureUser(s)
             \/ Admins!Join(s) \/ Admins!ReadMembers(s) \/ Admins!RemoveMembers(s)
      PROVE  SyncInv'
  BY <1>3, StartStep, ExpandStep, GroupStep, UserStep, JoinStep, ReadStep,
     RemoveStep
<1> QED BY <1>1, <1>2, <1>3 DEF Admins!Next

\* Whatever earlier syncs left half done and whatever failed, a sync that
\* succeeds alone leaves exactly the administrators it found authorised, unless
\* the members could not be read (vm-user-management.ts:513-616).
THEOREM SyncSettles == Admins!Spec => []AdminsSynced
<1>1. Admins!Init => SyncInv
  BY SyncStarts
<1>2. SyncInv /\ [Admins!Next]_(Admins!vars) => SyncInv'
  BY SyncSteps
<1>3. SyncInv => AdminsSynced
  BY DEF SyncInv, AdminsSynced
<1> QED BY <1>1, <1>2, <1>3, PTL DEF Admins!Spec

-----------------------------------------------------------------------------
(* All parts.                                                               *)

LEMMA EventTypes == Deploys!Spec => []Deploys!TypeOK
<1>1. EventsInv => Deploys!TypeOK
  <2> SUFFICES ASSUME EventsTyped PROVE Deploys!TypeOK
    BY DEF EventsInv
  <2>1. Deploys!Cardinality(snapshot) = Cardinality(snapshot)
    BY DEF Deploys!Cardinality, Cardinality
  <2>2. Cardinality(snapshot) <= 1
    <3>1. CASE snapshot = {}
      BY <3>1, FS_EmptySet
    <3>2. CASE snapshot # {}
      <4>1. PICK c \in snapshot : snapshot = {c}
        BY <3>2 DEF EventsTyped
      <4>2. Cardinality({c}) = 1
        BY FS_Singleton
      <4> QED BY <4>1, <4>2
    <3> QED BY <3>1, <3>2
  <2> QED BY <2>1, <2>2 DEF EventsTyped, Deploys!TypeOK, HandlerType, JobType
<1> QED BY EventsInvariant, <1>1, PTL

\* On the VM, who is to join has an account, and the group is there once it was
\* ensured: neither is ever deleted.
Prepared ==
  /\ accounts \subseteq Users /\ admins \subseteq accounts
  /\ grouped \in BOOLEAN /\ (admins # {} => grouped)
  /\ \A s \in Syncs :
       /\ sync[s].user \subseteq accounts
       /\ sync[s].at \in {"users", "join", "members", "remove"} => grouped
Counted ==
  syncs \in 0..MaxSyncStarts /\ syncFaults \in 0..MaxSyncFaults /\ moves \in 0..MaxMoves

\* One sync moves; accounts, group and members only grow or stay prepared.
LEMMA PreparedMove ==
  ASSUME SyncTyped, Prepared, NEW s \in Syncs, NEW r, Admins!Set(s, r),
         r.user \subseteq accounts', r.at \in {"users", "join", "members", "remove"} => grouped',
         accounts \subseteq accounts', accounts' \subseteq Users, admins' \subseteq accounts',
         grouped' \in {grouped, TRUE}, admins' # {} => grouped'
  PROVE  Prepared'
<1>1. sync'[s] = r /\ \A q \in Syncs : q # s => sync'[q] = sync[q]
  BY DEF SyncTyped, Admins!Set
<1>2. grouped' \in BOOLEAN /\ (grouped => grouped')
  BY DEF Prepared
<1>3. ASSUME NEW q \in Syncs
      PROVE  /\ sync'[q].user \subseteq accounts'
             /\ sync'[q].at \in {"users", "join", "members", "remove"} => grouped'
  <2>1. CASE q = s
    BY <1>1, <2>1
  <2>2. CASE q # s
    <3>1. /\ sync[q].user \subseteq accounts
          /\ sync[q].at \in {"users", "join", "members", "remove"} => grouped
      BY DEF Prepared
    <3> QED BY <1>1, <1>2, <2>2, <3>1
  <2> QED BY <2>1, <2>2
<1> QED BY <1>2, <1>3 DEF Prepared

LEMMA PreparedEnd ==
  ASSUME SyncTyped, Prepared, NEW s \in Syncs, NEW ok, Admins!Ends(s, ok),
         accounts \subseteq accounts', accounts' \subseteq Users, admins' \subseteq accounts',
         grouped' \in {grouped, TRUE}, admins' # {} => grouped'
  PROVE  Prepared'
<1>1. /\ Admins!Set(s, Admins!IdleSync)
      /\ Admins!IdleSync.user = {} /\ Admins!IdleSync.at = "idle"
  BY DEF Admins!Ends, Admins!IdleSync
<1> QED BY <1>1, PreparedMove

LEMMA PreparedStep ==
  ASSUME SyncTyped, Prepared, [Admins!Next]_(Admins!vars)
  PROVE  Prepared'
<1>1. CASE UNCHANGED Admins!vars
  BY <1>1 DEF Admins!vars, Admins!vm, Prepared
<1>2. CASE Admins!TeamMoves
  BY <1>2 DEF Admins!TeamMoves, Admins!vm, Prepared
<1>3. ASSUME NEW s \in Syncs
      PROVE  /\ sync[s] \in SyncType /\ sync[s].user \subseteq accounts
             /\ sync[s].at \in {"users", "join", "members", "remove"} => grouped
             /\ accounts \subseteq Users /\ admins \subseteq accounts
             /\ admins # {} => grouped
  BY DEF SyncTyped, Prepared
<1>4. ASSUME NEW s \in Syncs, Admins!Start(s) PROVE Prepared'
  <2>1. PICK names \in Lists :
          Admins!Set(s, [Admins!IdleSync EXCEPT !.at = "expand", !.want = names])
    BY <1>4 DEF Admins!Start
  <2> DEFINE r == [Admins!IdleSync EXCEPT !.at = "expand", !.want = names]
  <2>2. r.user = {} /\ r.at = "expand"
    BY DEF Admins!IdleSync
  <2>3. UNCHANGED <<accounts, grouped, admins>>
    BY <1>4 DEF Admins!Start, Admins!vm
  <2> HIDE DEF r
  <2> QED BY <1>3, <2>1, <2>2, <2>3, PreparedMove DEF r
<1>5. ASSUME NEW s \in Syncs, Admins!ExpandSmartGroups(s) PROVE Prepared'
  <2>1. UNCHANGED <<accounts, grouped, admins>>
    BY <1>5 DEF Admins!ExpandSmartGroups, Admins!vm
  <2>2. CASE Admins!Ends(s, FALSE)
    BY <1>3, <2>1, <2>2, PreparedEnd
  <2>3. ASSUME NEW found, Admins!Set(s, [sync[s] EXCEPT !.at = "group", !.want = found])
        PROVE  Prepared'
    <3> DEFINE r == [sync[s] EXCEPT !.at = "group", !.want = found]
    <3>1. r.user = sync[s].user /\ r.at = "group"
      BY <1>3 DEF SyncType
    <3> HIDE DEF r
    <3> QED BY <1>3, <2>1, <2>3, <3>1, PreparedMove DEF r
  <2> QED BY <1>5, <2>2, <2>3 DEF Admins!ExpandSmartGroups
<1>6. ASSUME NEW s \in Syncs, Admins!EnsureGroup(s) PROVE Prepared'
  <2> DEFINE r == [sync[s] EXCEPT !.at = "users", !.left = sync[s].want]
  <2>1. r.user = sync[s].user
    BY <1>3 DEF SyncType
  <2>2. UNCHANGED <<accounts, admins>> /\ grouped' \in {grouped, TRUE}
    BY <1>6 DEF Admins!EnsureGroup
  <2>3. (Admins!Set(s, r) /\ grouped' = TRUE) \/ Admins!Ends(s, FALSE)
    BY <1>6 DEF Admins!EnsureGroup, Admins!Throws
  <2> HIDE DEF r
  <2>4. CASE Admins!Set(s, r) /\ grouped' = TRUE
    BY <1>3, <2>1, <2>2, <2>4, PreparedMove
  <2>5. CASE Admins!Ends(s, FALSE)
    <3>1. admins' = admins /\ (grouped => grouped')
      <4>1. grouped' = grouped \/ grouped' = TRUE
        BY <2>2
      <4>2. grouped => grouped'
        BY <4>1, Zenon
      <4> QED BY <2>2, <4>2
    <3>2. admins # {} => grouped
      BY <1>3
    <3> QED BY <1>3, <2>2, <2>5, <3>1, <3>2, PreparedEnd
  <2> QED BY <2>3, <2>4, <2>5
<1>7. ASSUME NEW s \in Syncs, Admins!EnsureUser(s) PROVE Prepared'
  <2>1. UNCHANGED <<grouped, admins>> /\ sync[s].at = "users"
    BY <1>7 DEF Admins!EnsureUser, Admins!At
  <2>2. CASE Admins!Set(s, [sync[s] EXCEPT !.at = "members"]) /\ UNCHANGED accounts
    <3> DEFINE r == [sync[s] EXCEPT !.at = "members"]
    <3>1. r.user = sync[s].user
      BY <1>3 DEF SyncType
    <3> HIDE DEF r
    <3> QED BY <1>3, <2>1, <2>2, <3>1, PreparedMove DEF r
  <2>3. ASSUME NEW u \in sync[s].left, accounts' = accounts \cup {u},
               Admins!Set(s, [sync[s] EXCEPT !.at = "join", !.left = @ \ {u}, !.user = {u}])
        PROVE  Prepared'
    <3> DEFINE r == [sync[s] EXCEPT !.at = "join", !.left = @ \ {u}, !.user = {u}]
    <3>1. r.user = {u} /\ u \in Users
      BY <1>3 DEF SyncType
    <3>2. Admins!Set(s, r)
      BY <2>3
    <3> HIDE DEF r
    <3> QED BY <1>3, <2>1, <2>3, <3>1, <3>2, PreparedMove
  <2>4. ASSUME NEW u \in sync[s].left, accounts' \in {accounts, accounts \cup {u}},
               Admins!Ends(s, FALSE)
        PROVE  Prepared'
    <3>1. u \in Users
      BY <1>3 DEF SyncType
    <3> QED BY <1>3, <2>1, <2>4, <3>1, PreparedEnd
  <2> QED BY <1>7, <2>2, <2>3, <2>4 DEF Admins!EnsureUser, Admins!Throws
<1>8. ASSUME NEW s \in Syncs, Admins!Join(s) PROVE Prepared'
  <2> DEFINE r == [sync[s] EXCEPT !.at = "users", !.user = {}]
  <2>1. r.user = {}
    BY <1>3 DEF SyncType
  <2>2. /\ UNCHANGED <<accounts, grouped>> /\ grouped
        /\ admins' \in {admins, admins \cup sync[s].user}
    BY <1>3, <1>8 DEF Admins!Join, Admins!At
  <2>3. Admins!Set(s, r) \/ Admins!Ends(s, FALSE)
    BY <1>8 DEF Admins!Join, Admins!Throws
  <2> HIDE DEF r
  <2> QED BY <1>3, <2>1, <2>2, <2>3, PreparedMove, PreparedEnd
<1>9. ASSUME NEW s \in Syncs, Admins!ReadMembers(s) PROVE Prepared'
  BY <1>9 DEF Admins!ReadMembers, Admins!vm, Admins!Set, Admins!At, SyncTyped, Prepared, SyncType
<1>10. ASSUME NEW s \in Syncs, Admins!RemoveMembers(s) PROVE Prepared'
  BY <1>10 DEF Admins!RemoveMembers, Admins!Set, Admins!IdleSync, Admins!Throws, Admins!Ends,
     Admins!At, SyncTyped, Prepared, SyncType
<1> QED BY <1>1, <1>2, <1>4, <1>5, <1>6, <1>7, <1>8, <1>9, <1>10 DEF Admins!Next

LEMMA CountedStep ==
  ASSUME Counted, [Admins!Next]_(Admins!vars)
  PROVE  Counted'
<1>1. MaxSyncStarts \in Nat /\ MaxSyncFaults \in Nat /\ MaxMoves \in Nat
  BY EventsAssumption DEF SyncsConfigured
<1>2. CASE UNCHANGED Admins!vars
  BY <1>2 DEF Admins!vars, Admins!bounds, Counted
<1>3. CASE Admins!TeamMoves
  BY <1>1, <1>3 DEF Admins!TeamMoves, Counted
<1>4. ASSUME NEW s \in Syncs, Admins!Start(s) PROVE Counted'
  BY <1>1, <1>4 DEF Admins!Start, Counted
<1>5. ASSUME Admins!Fault \/ UNCHANGED syncFaults, UNCHANGED <<syncs, moves>> PROVE Counted'
  BY <1>1, <1>5 DEF Admins!Fault, Counted
<1>6. ASSUME NEW s \in Syncs,
             \/ Admins!ExpandSmartGroups(s) \/ Admins!EnsureGroup(s) \/ Admins!EnsureUser(s)
             \/ Admins!Join(s) \/ Admins!ReadMembers(s) \/ Admins!RemoveMembers(s)
      PROVE  Counted'
  BY <1>5, <1>6 DEF Admins!ExpandSmartGroups, Admins!EnsureGroup, Admins!EnsureUser,
     Admins!Join, Admins!ReadMembers, Admins!RemoveMembers, Admins!Throws
<1> QED BY <1>2, <1>3, <1>4, <1>6 DEF Admins!Next

LEMMA SyncInvariant == Admins!Spec => []SyncInv
BY SyncStarts, SyncSteps, PTL DEF Admins!Spec

LEMMA AdminTypes == Admins!Spec => []Admins!TypeOK
<1>1. Admins!Init => Prepared /\ Counted
  <2>1. 0 \in 0..MaxSyncStarts /\ 0 \in 0..MaxSyncFaults /\ 0 \in 0..MaxMoves
    BY EventsAssumption DEF SyncsConfigured
  <2>2. Admins!IdleSync.user = {} /\ Admins!IdleSync.at = "idle"
    BY DEF Admins!IdleSync
  <2> QED BY <2>1, <2>2 DEF Admins!Init, Prepared, Counted
<1>2. SyncTyped /\ Prepared /\ [Admins!Next]_(Admins!vars) => Prepared'
  BY PreparedStep
<1>3. Counted /\ [Admins!Next]_(Admins!vars) => Counted'
  BY CountedStep
<1>4. SyncTyped /\ Prepared /\ Counted => Admins!TypeOK
  BY DEF SyncTyped, Prepared, Counted, Admins!TypeOK, SyncType, LastType
<1> QED BY <1>1, <1>2, <1>3, <1>4, SyncInvariant, PTL DEF Admins!Spec, SyncInv

\* Every variable of every part keeps its type: among others, a repository's
\* file has one row at most, and who is in the VM's group has an account.
THEOREM EventsTypeCorrect == Spec /\ Deploys!Spec /\ Admins!Spec => []TypesOK
BY LifeTypeCorrect, EventTypes, AdminTypes, PTL DEF TypesOK
=============================================================================
