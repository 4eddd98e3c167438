--------------------------- MODULE WebhookDelivery ---------------------------
(***************************************************************************)
(* The intake of GitHub webhooks: the route POST /github/webhook of         *)
(* src/src/routes/webhooks.ts, the in-memory queue of                       *)
(* webhook-processing-queue.ts and the replays of webhook-backfill.ts.      *)
(*                                                                         *)
(* GitHub sends a delivery, known by its guid, and sends it again by hand.  *)
(* The route reads the delivery's row, decides whether the request is a     *)
(* duplicate, writes the row, queues the payload in memory and answers 202; *)
(* the queue handles it and writes the result.  GitHub logs a request that  *)
(* is not answered with 2xx in time as failed, and a backfill replays what  *)
(* is in that log past the queue.  What the event's handler does is left    *)
(* out: it succeeds or throws.                                              *)
(***************************************************************************)
EXTENDS Integers, Sequences, FiniteSets

CONSTANTS
  Guids,        \* the deliveries
  Procs,        \* processes with a web server and a backfill timer
  Requests,     \* requests being served
  Items,        \* work items in memory (bound)
  Replays,      \* backfills, each replaying one delivery after the other
  Home,         \* the process of a request, an item or a backfill
  Concurrency,  \* WEBHOOK_PROCESSING_CONCURRENCY
  Lease,        \* WEBHOOK_DELIVERY_IN_PROGRESS_LEASE_MS, in ticks
  HandleTicks,  \* ticks from the queueing of a delivery to its last write
  MaxSends,     \* bound on the times GitHub sends a delivery
  MaxFaults     \* bound on crashes and database errors

ASSUME DeliveryAssumption ==
  /\ Guids # {}
  /\ IsFiniteSet(Items)
  /\ Home \in [Requests \cup Items \cup Replays -> Procs]
  /\ Concurrency \in Nat \ {0}
  /\ Lease \in Nat
  /\ HandleTicks \in Nat
  /\ MaxSends \in [Guids -> Nat]
  /\ MaxFaults \in Nat

VARIABLES
  row,          \* github_webhook_deliveries, by guid
  sent,         \* how often GitHub sent a delivery
  missed,       \* is there a failed request of the delivery in GitHub's log?
  request,      \* the requests being served
  item,         \* the work items
  pending,      \* the queue of each process
  activeCount,  \* the counter of each process
  replay,       \* the backfills
  faults        \* crashes and database errors so far

vars == <<row, sent, missed, request, item, pending, activeCount, replay, faults>>

-----------------------------------------------------------------------------
(* Rows and records.                                                        *)

\* age counts the ticks since lastAttemptAt of a row in progress; the
\* counters of attempts, duplicates and reclaims are left out, nothing reads them.
Row == [status : {"absent", "in_progress", "processed", "failed"},
        age : 0..Lease + 1]
Seen == {"none", "absent", "duplicate", "again", "stale"}
Request == [pc : {"idle", "write", "enqueue"}, guid : Guids, seen : Seen,
            waiting : BOOLEAN]
Outcome == {"none", "ok", "error"}
Item == [phase : {"free", "pending", "handle", "settle"}, guid : Guids,
         outcome : Outcome, elapsed : 0..HandleTicks]
Replay == [pc : {"idle", "write", "handle", "settle"}, guid : Guids,
           seen : {"none", "absent", "known"}, outcome : Outcome]

SomeGuid == CHOOSE g \in Guids : TRUE
IdleRequest == [pc |-> "idle", guid |-> SomeGuid, seen |-> "none", waiting |-> FALSE]
FreeItem == [phase |-> "free", guid |-> SomeGuid, outcome |-> "none", elapsed |-> 0]
IdleReplay == [pc |-> "idle", guid |-> SomeGuid, seen |-> "none", outcome |-> "none"]

InFlight(g) == \/ \E q \in Requests : request[q].pc # "idle" /\ request[q].guid = g
               \/ \E i \in Items : item[i].phase # "free" /\ item[i].guid = g
               \/ \E b \in Replays : replay[b].pc # "idle" /\ replay[b].guid = g

Init ==
  /\ row = [g \in Guids |-> [status |-> "absent", age |-> 0]]
  /\ sent = [g \in Guids |-> 0]
  /\ missed = [g \in Guids |-> FALSE]
  /\ request = [q \in Requests |-> IdleRequest]
  /\ item = [i \in Items |-> FreeItem]
  /\ pending = [p \in Procs |-> <<>>]
  /\ activeCount = [p \in Procs |-> 0]
  /\ replay = [b \in Replays |-> IdleReplay]
  /\ faults = 0

-----------------------------------------------------------------------------
(* The route.                                                               *)

\* Mutant: the lease is not looked at.
StaleAtOnce(r) == r.status = "in_progress"

Stale(r) == r.status = "in_progress" /\ r.age > Lease

\* Mutant: a processed delivery is not a duplicate.
ClassifyAgain(r) ==
  CASE r.status = "absent" -> "absent"
    [] r.status = "processed" -> "again"
    [] r.status = "failed" -> "again"
    [] r.status = "in_progress" -> IF Stale(r) THEN "stale" ELSE "duplicate"

Classify(r) ==
  CASE r.status = "absent" -> "absent"
    [] r.status = "processed" -> "duplicate"
    [] r.status = "failed" -> "again"
    [] r.status = "in_progress" -> IF Stale(r) THEN "stale" ELSE "duplicate"

\* GitHub sends a delivery, again only when it does not wait for an answer.
Sends(g) ==
  /\ sent[g] < MaxSends[g]
  /\ \A q \in Requests : request[q].waiting => request[q].guid # g
  /\ sent' = [sent EXCEPT ![g] = @ + 1]

\* The signature is verified and the row is read.
Receive(q, g) ==
  /\ request[q].pc = "idle"
  /\ Sends(g)
  /\ request' = [request EXCEPT ![q] = [pc |-> "write", guid |-> g,
                                        seen |-> Classify(row[g]),
                                        waiting |-> TRUE]]
  /\ UNCHANGED <<row, missed, item, pending, activeCount, replay, faults>>

LoseDelivery(g) ==
  /\ Sends(g)
  /\ missed' = [missed EXCEPT ![g] = TRUE]
  /\ UNCHANGED <<row, request, item, pending, activeCount, replay, faults>>

\* GitHub stops waiting for the answer; the request is served all the same.
GiveUp(q) ==
  /\ request[q].waiting
  /\ request' = [request EXCEPT ![q].waiting = FALSE]
  /\ missed' = [missed EXCEPT ![request[q].guid] = TRUE]
  /\ UNCHANGED <<row, sent, item, pending, activeCount, replay, faults>>

Answer202(q) ==
  /\ request' = [request EXCEPT ![q] = IdleRequest]
  /\ UNCHANGED missed

Answer500(q) ==
  /\ request' = [request EXCEPT ![q] = IdleRequest]
  /\ missed' = [missed EXCEPT ![request[q].guid] = @ \/ request[q].waiting]

\* A duplicate renews lastAttemptAt.
Suppress(q) ==
  /\ request[q].pc = "write"
  /\ request[q].seen = "duplicate"
  /\ row' = [row EXCEPT ![request[q].guid].age = 0]
  /\ Answer202(q)
  /\ UNCHANGED <<sent, item, pending, activeCount, replay, faults>>

NewRow == [status |-> "in_progress", age |-> 0]

Create(q) ==
  /\ request[q].pc = "write"
  /\ request[q].seen = "absent"
  /\ row[request[q].guid].status = "absent"
  /\ row' = [row EXCEPT ![request[q].guid] = NewRow]
  /\ request' = [request EXCEPT ![q].pc = "enqueue"]
  /\ UNCHANGED <<sent, missed, item, pending, activeCount, replay, faults>>

\* The unique index on delivery_id lets one of two creations through.
CreateClash(q) ==
  /\ request[q].pc = "write"
  /\ request[q].seen = "absent"
  /\ row[request[q].guid].status # "absent"
  /\ Answer500(q)
  /\ UNCHANGED <<row, sent, item, pending, activeCount, replay, faults>>

Retaken(r) == [r EXCEPT !.status = "in_progress", !.age = 0]

\* The update is by id, whatever the row holds now.
Retake(q) ==
  /\ request[q].pc = "write"
  /\ request[q].seen \in {"again", "stale"}
  /\ row' = [row EXCEPT ![request[q].guid] = Retaken(@)]
  /\ request' = [request EXCEPT ![q].pc = "enqueue"]
  /\ UNCHANGED <<sent, missed, item, pending, activeCount, replay, faults>>

RequestError(q) ==
  /\ faults < MaxFaults
  /\ faults' = faults + 1
  /\ request[q].pc = "write"
  /\ Answer500(q)
  /\ UNCHANGED <<row, sent, item, pending, activeCount, replay>>

-----------------------------------------------------------------------------
(* The queue.  drainQueue runs without an await: it is part of its callers. *)

\* Mutant: off by one.
StartableTooMany(n, busy) ==
  LET slots == IF busy <= Concurrency THEN Concurrency + 1 - busy ELSE 0
  IN  IF n < slots THEN n ELSE slots

\* How many items drainQueue takes from a queue of length n.
Startable(n, busy) ==
  LET slots == IF busy < Concurrency THEN Concurrency - busy ELSE 0
  IN  IF n < slots THEN n ELSE slots

\* The queue and the items of process p after drainQueue, given the queue and
\* the items before it and the number of active ones.
DrainQueue(p, queue, items, busy) ==
  LET k == Startable(Len(queue), busy)
      started == {queue[n] : n \in 1..k}
  IN  /\ pending' = [pending EXCEPT ![p] = SubSeq(queue, k + 1, Len(queue))]
      /\ item' = [i \in Items |-> IF i \in started
                                  THEN [items[i] EXCEPT !.phase = "handle"]
                                  ELSE items[i]]
      /\ activeCount' = [activeCount EXCEPT ![p] = busy + k]

\* enqueueWebhookProcessing, and the answer.
Accept(q) ==
  LET p == Home[q]
  IN  /\ request[q].pc = "enqueue"
      /\ \E i \in Items :
           /\ Home[i] = p
           /\ item[i].phase = "free"
           /\ DrainQueue(p, Append(pending[p], i),
                         [item EXCEPT ![i] = [phase |-> "pending",
                                              guid |-> request[q].guid,
                                              outcome |-> "none", elapsed |-> 0]],
                         activeCount[p])
      /\ Answer202(q)
      /\ UNCHANGED <<row, sent, replay, faults>>

HandlerEnds(i) ==
  /\ item[i].phase = "handle"
  /\ \E o \in {"ok", "error"} :
       item' = [item EXCEPT ![i].phase = "settle", ![i].outcome = o]
  /\ UNCHANGED <<row, sent, missed, request, pending, activeCount, replay, faults>>

\* Mutant: a status no reader knows.
SettledUnknown(r, o) ==
  [r EXCEPT !.status = IF o = "ok" THEN "done" ELSE "failed", !.age = 0]

Settled(r, o) ==
  [r EXCEPT !.status = IF o = "ok" THEN "processed" ELSE "failed", !.age = 0]

\* Mutant: the next item is only started by the next request.
EndItemIdle(i) ==
  /\ item' = [item EXCEPT ![i] = FreeItem]
  /\ activeCount' = [activeCount EXCEPT ![Home[i]] = @ - 1]
  /\ UNCHANGED pending

\* The finally block.
EndItem(i) ==
  DrainQueue(Home[i], pending[Home[i]], [item EXCEPT ![i] = FreeItem],
             activeCount[Home[i]] - 1)

SettleItem(i) ==
  /\ item[i].phase = "settle"
  /\ row' = [row EXCEPT ![item[i].guid] = Settled(@, item[i].outcome)]
  /\ EndItem(i)
  /\ UNCHANGED <<sent, missed, request, replay, faults>>

\* The write of a success throws: the catch block goes on to write a failure.
\* The write of a failure throws: it is logged.
SettleItemError(i) ==
  /\ faults < MaxFaults
  /\ faults' = faults + 1
  /\ item[i].phase = "settle"
  /\ \/ /\ item[i].outcome = "ok"
        /\ item' = [item EXCEPT ![i].outcome = "error"]
        /\ UNCHANGED <<pending, activeCount>>
     \/ /\ item[i].outcome = "error"
        /\ EndItem(i)
  /\ UNCHANGED <<row, sent, missed, request, replay>>

-----------------------------------------------------------------------------
(* The backfill, past the queue and its counter.                            *)

\* Mutant: a delivery that has a row is left to the retry scheduler.
ReplayReadNew(b, g) ==
  /\ replay[b].pc = "idle"
  /\ missed[g]
  /\ row[g].status = "absent"
  /\ replay' = [replay EXCEPT ![b] = [pc |-> "write", guid |-> g,
                                      seen |-> "absent", outcome |-> "none"]]
  /\ UNCHANGED <<row, sent, missed, request, item, pending, activeCount, faults>>

\* Only a processed delivery is skipped, one in progress is not.
ReplayRead(b, g) ==
  /\ replay[b].pc = "idle"
  /\ missed[g]
  /\ row[g].status # "processed"
  /\ replay' = [replay EXCEPT ![b] =
                  [pc |-> "write", guid |-> g, outcome |-> "none",
                   seen |-> IF row[g].status = "absent" THEN "absent" ELSE "known"]]
  /\ UNCHANGED <<row, sent, missed, request, item, pending, activeCount, faults>>

ReplayWrite(b) ==
  LET g == replay[b].guid
  IN  /\ replay[b].pc = "write"
      /\ \/ /\ replay[b].seen = "absent"
            /\ row[g].status = "absent"
            /\ row' = [row EXCEPT ![g] = NewRow]
         \/ /\ replay[b].seen = "known"
            /\ row' = [row EXCEPT ![g] = Retaken(@)]
      /\ replay' = [replay EXCEPT ![b].pc = "handle"]
      /\ UNCHANGED <<sent, missed, request, item, pending, activeCount, faults>>

ReplayClash(b) ==
  /\ replay[b].pc = "write"
  /\ replay[b].seen = "absent"
  /\ row[replay[b].guid].status # "absent"
  /\ replay' = [replay EXCEPT ![b] = IdleReplay]
  /\ UNCHANGED <<row, sent, missed, request, item, pending, activeCount, faults>>

ReplayHandlerEnds(b) ==
  /\ replay[b].pc = "handle"
  /\ \E o \in {"ok", "error"} :
       replay' = [replay EXCEPT ![b].pc = "settle", ![b].outcome = o]
  /\ UNCHANGED <<row, sent, missed, request, item, pending, activeCount, faults>>

ReplaySettle(b) ==
  /\ replay[b].pc = "settle"
  /\ row' = [row EXCEPT ![replay[b].guid] = Settled(@, replay[b].outcome)]
  /\ replay' = [replay EXCEPT ![b] = IdleReplay]
  /\ UNCHANGED <<sent, missed, request, item, pending, activeCount, faults>>

\* A query throws: the write of a success is followed by that of a failure,
\* every other error ends the backfill.
ReplayError(b) ==
  /\ faults < MaxFaults
  /\ faults' = faults + 1
  /\ replay[b].pc \in {"write", "settle"}
  /\ replay' = IF replay[b].outcome = "ok"
               THEN [replay EXCEPT ![b].outcome = "error"]
               ELSE [replay EXCEPT ![b] = IdleReplay]
  /\ UNCHANGED <<row, sent, missed, request, item, pending, activeCount>>

-----------------------------------------------------------------------------
(* The retention sweep, time and crashes.                                   *)

\* pruneOldWebhookDeliveries; a retention of days outlasts what is in flight.
Prune(g) ==
  /\ row[g].status \in {"processed", "failed"}
  /\ ~InFlight(g)
  /\ row' = [row EXCEPT ![g] = [status |-> "absent", age |-> 0]]
  /\ UNCHANGED <<sent, missed, request, item, pending, activeCount, replay, faults>>

Older(r) == IF r.status = "in_progress" /\ r.age <= Lease
            THEN [r EXCEPT !.age = @ + 1] ELSE r

\* Time does not pass between the write of a row and the queueing after it, nor
\* beyond the time an item may take.
Tick ==
  /\ \A q \in Requests : request[q].pc # "enqueue"
  /\ \A i \in Items : item[i].phase # "free" => item[i].elapsed < HandleTicks
  /\ row' = [g \in Guids |-> Older(row[g])]
  /\ item' = [i \in Items |-> IF item[i].phase = "free" THEN item[i]
                              ELSE [item[i] EXCEPT !.elapsed = @ + 1]]
  /\ UNCHANGED <<sent, missed, request, pending, activeCount, replay, faults>>

Crash(p) ==
  /\ faults < MaxFaults
  /\ faults' = faults + 1
  /\ missed' = [g \in Guids |->
                  missed[g] \/ \E q \in Requests : /\ Home[q] = p
                                                   /\ request[q].waiting
                                                   /\ request[q].guid = g]
  /\ request' = [q \in Requests |-> IF Home[q] = p THEN IdleRequest ELSE request[q]]
  /\ item' = [i \in Items |-> IF Home[i] = p THEN FreeItem ELSE item[i]]
  /\ replay' = [b \in Replays |-> IF Home[b] = p THEN IdleReplay ELSE replay[b]]
  /\ pending' = [pending EXCEPT ![p] = <<>>]
  /\ activeCount' = [activeCount EXCEPT ![p] = 0]
  /\ UNCHANGED <<row, sent>>

-----------------------------------------------------------------------------
RequestStep(q) ==
  Suppress(q) \/ Create(q) \/ CreateClash(q) \/ Retake(q) \/ Accept(q)
ItemStep(i) == HandlerEnds(i) \/ SettleItem(i)
ReplayStep(b) ==
  \/ ReplayWrite(b) \/ ReplayClash(b) \/ ReplayHandlerEnds(b) \/ ReplaySettle(b)

Next ==
  \/ \E q \in Requests : \/ RequestStep(q) \/ GiveUp(q) \/ RequestError(q)
                         \/ \E g \in Guids : Receive(q, g)
  \/ \E i \in Items : ItemStep(i) \/ SettleItemError(i)
  \/ \E b \in Replays : \/ ReplayStep(b) \/ ReplayError(b)
                        \/ \E g \in Guids : ReplayRead(b, g)
  \/ \E g \in Guids : LoseDelivery(g) \/ Prune(g)
  \/ Tick
  \/ \E p \in Procs : Crash(p)

Spec == Init /\ [][Next]_vars

\* Handlers and queries return, and the backfill's timer fires for ever and
\* walks through all of GitHub's log.  GitHub need not send anything again.
Fairness ==
  /\ \A q \in Requests : WF_vars(RequestStep(q))
  /\ \A i \in Items : WF_vars(ItemStep(i))
  /\ \A b \in Replays : WF_vars(ReplayStep(b))
  /\ \A g \in Guids : \A b \in Replays : SF_vars(ReplayRead(b, g))

FairSpec == Spec /\ Fairness

-----------------------------------------------------------------------------
(* Properties.                                                              *)

\* Type correctness of the rows, the queue and the records in memory.
TypeOK ==
  /\ row \in [Guids -> Row]
  /\ sent \in [Guids -> Nat]
  /\ missed \in [Guids -> BOOLEAN]
  /\ request \in [Requests -> Request]
  /\ item \in [Items -> Item]
  /\ pending \in [Procs -> Seq(Items)]
  /\ activeCount \in [Procs -> Int]
  /\ replay \in [Replays -> Replay]
  /\ faults \in 0..MaxFaults

\* A delivery that GitHub never logged as failed is handled by one handler at a
\* time: whatever GitHub sends again, wherever it lands and whatever crashes,
\* the row keeps a second one out until the first has written its result or
\* its lease has run out.
OneHandler ==
  \A g \in Guids : ~missed[g] =>
    \A i, k \in Items :
      /\ item[i].phase # "free" /\ item[i].guid = g
      /\ item[k].phase # "free" /\ item[k].guid = g
      => i = k

\* A delivery that was processed, and that GitHub never logged as failed, is
\* not handled again and does not become a failure.
ProcessedStays ==
  [][\A g \in Guids : row[g].status = "processed" /\ ~missed'[g] =>
       row'[g].status \in {"processed", "absent"}]_vars

\* A process handles exactly as many deliveries as it counts, never more than
\* WEBHOOK_PROCESSING_CONCURRENCY, and none waits while there is a free slot.
WorkConserving ==
  \A p \in Procs :
    /\ activeCount[p] = Cardinality({i \in Items : /\ Home[i] = p
                                                  /\ item[i].phase \in {"handle", "settle"}})
    /\ activeCount[p] <= Concurrency
    /\ pending[p] # <<>> => activeCount[p] = Concurrency

\* README.md:499: what GitHub logged as failed is replayed, also when a crash
\* left its row in progress.
MissedReplayed ==
  \A g \in Guids : missed[g] ~> row[g].status \in {"processed", "failed"}

\* The queue of a process drains: every end of an item starts the next one.
QueueDrains == \A p \in Procs : pending[p] # <<>> ~> pending[p] = <<>>

\* README.md:495: a duplicate of a processed delivery, or of one in progress,
\* is suppressed.
DuplicatesSuppressed ==
  [][\A q \in Requests :
       request'[q].pc = "enqueue" /\ request[q].pc # "enqueue" =>
         Classify(row[request[q].guid]) # "duplicate"]_vars

\* README.md:497: a delivery in progress that outlasts the lease is reclaimed;
\* README.md:495 lists this under recovery.
StaleReclaimed ==
  \A g \in Guids : Stale(row[g]) ~> ~Stale(row[g])
=============================================================================
