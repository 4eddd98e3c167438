------------------------ MODULE WebhookDeliveryProofs ------------------------
(***************************************************************************)
(* Proofs about WebhookDelivery for every set of deliveries, processes,     *)
(* requests, work items and backfills.                                      *)
(***************************************************************************)
EXTENDS WebhookDelivery, SequenceTheorems, FiniteSetTheorems, TLAPS

LEMMA IdleTypes ==
  /\ IdleRequest \in Request
  /\ FreeItem \in Item
  /\ IdleReplay \in Replay
  <1>1. SomeGuid \in Guids
    BY DeliveryAssumption DEF SomeGuid
  <1> QED
    BY <1>1, DeliveryAssumption
    DEF IdleRequest, FreeItem, IdleReplay, Request, Item, Replay, Seen, Outcome

\* What the route and the writes make of a row.
LEMMA RowTypes ==
  ASSUME NEW r \in Row
  PROVE  /\ Classify(r) \in Seen
         /\ Retaken(r) \in Row
         /\ Older(r) \in Row
         /\ NewRow \in Row
         /\ \A o \in Outcome : Settled(r, o) \in Row
         /\ [r EXCEPT !.age = 0] \in Row
  <1> USE DeliveryAssumption DEF Row
  <1>1. Classify(r) \in Seen
    BY DEF Classify, Stale, Seen
  <1>2. Older(r) \in Row
    <2>1. CASE r.status = "in_progress" /\ r.age <= Lease
      <3>1. r.age + 1 \in 0..Lease + 1
        BY <2>1
      <3> QED
        BY <2>1, <3>1 DEF Older
    <2>2. CASE ~(r.status = "in_progress" /\ r.age <= Lease)
      BY <2>2 DEF Older
    <2> QED
      BY <2>1, <2>2
  <1>3. 0 \in 0..Lease + 1
    OBVIOUS
  <1>4. Retaken(r) \in Row /\ NewRow \in Row /\ [r EXCEPT !.age = 0] \in Row
    BY <1>3 DEF Retaken, NewRow
  <1>5. \A o \in Outcome : Settled(r, o) \in Row
    BY <1>3 DEF Settled
  <1> QED
    BY <1>1, <1>2, <1>4, <1>5

\* The steps of a request, an item and a backfill.
LEMMA RequestTypes ==
  ASSUME NEW r \in Request
  PROVE  /\ r.guid \in Guids
         /\ [r EXCEPT !.pc = "enqueue"] \in Request
         /\ [r EXCEPT !.waiting = FALSE] \in Request
  BY DEF Request

LEMMA ItemTypes ==
  ASSUME NEW r \in Item, NEW o \in Outcome
  PROVE  /\ r.guid \in Guids
         /\ r.outcome \in Outcome
         /\ [r EXCEPT !.phase = "settle", !.outcome = o] \in Item
         /\ [r EXCEPT !.outcome = o] \in Item
  BY DEF Item

LEMMA ReplayTypes ==
  ASSUME NEW r \in Replay, NEW o \in Outcome
  PROVE  /\ r.guid \in Guids
         /\ r.outcome \in Outcome
         /\ [r EXCEPT !.pc = "handle"] \in Replay
         /\ [r EXCEPT !.pc = "settle", !.outcome = o] \in Replay
         /\ [r EXCEPT !.outcome = o] \in Replay
  BY DEF Replay

\* drainQueue takes no more items than there are.
LEMMA StartableBound ==
  ASSUME NEW n \in Nat, NEW busy \in Int
  PROVE  Startable(n, busy) \in 0..n
  BY DeliveryAssumption DEF Startable

LEMMA DrainType ==
  ASSUME NEW p \in Procs, NEW queue \in Seq(Items), NEW items \in [Items -> Item],
         NEW busy \in Int, DrainQueue(p, queue, items, busy),
         pending \in [Procs -> Seq(Items)], activeCount \in [Procs -> Int]
  PROVE  /\ pending' \in [Procs -> Seq(Items)]
         /\ item' \in [Items -> Item]
         /\ activeCount' \in [Procs -> Int]
  <1> DEFINE k == Startable(Len(queue), busy)
  <1>1. k \in 0..Len(queue) /\ Len(queue) \in Nat
    BY StartableBound, LenProperties
  <1>2. SubSeq(queue, k + 1, Len(queue)) \in Seq(Items)
    <2>1. \A n \in (k + 1)..Len(queue) : queue[n] \in Items
      BY <1>1, ElementOfSeq
    <2>2. k + 1 \in Int /\ Len(queue) \in Int
      BY <1>1
    <2> HIDE DEF k
    <2> QED
      BY <2>1, <2>2, SubSeqProperties
  <1>3. pending' \in [Procs -> Seq(Items)]
    BY <1>2 DEF DrainQueue
  <1>4. item' \in [Items -> Item]
    BY DEF DrainQueue, Item
  <1>5. activeCount' \in [Procs -> Int]
    <2>1. busy + k \in Int
      BY <1>1
    <2> QED
      BY <2>1 DEF DrainQueue
  <1> QED
    BY <1>3, <1>4, <1>5

LEMMA TypeInit == Init => TypeOK
  <1>1. \A p \in Procs : << >> \in Seq(Items)
    BY EmptySeq
  <1> QED
    BY <1>1, IdleTypes, DeliveryAssumption DEF Init, TypeOK, Row

LEMMA TypeStep ==
  ASSUME TypeOK, [Next]_vars
  PROVE  TypeOK'
  <1> USE DeliveryAssumption DEF TypeOK
  <1>1. ASSUME NEW q \in Requests, NEW g \in Guids, Receive(q, g)
        PROVE  TypeOK'
    <2>1. request' \in [Requests -> Request]
      BY <1>1, RowTypes DEF Receive, Request
    <2>2. sent' \in [Guids -> Nat]
      BY <1>1 DEF Receive, Sends
    <2> QED
      BY <1>1, <2>1, <2>2 DEF Receive
  <1>2. ASSUME NEW g \in Guids, LoseDelivery(g)
        PROVE  TypeOK'
    BY <1>2 DEF LoseDelivery, Sends
  <1>3. ASSUME NEW q \in Requests, GiveUp(q)
        PROVE  TypeOK'
    BY <1>3, RequestTypes DEF GiveUp
  <1>4. ASSUME NEW q \in Requests, Suppress(q)
        PROVE  TypeOK'
    <2>1. row' \in [Guids -> Row]
      BY <1>4, RowTypes, RequestTypes DEF Suppress
    <2> QED
      BY <1>4, <2>1, IdleTypes DEF Suppress, Answer202
  <1>5. ASSUME NEW q \in Requests, Create(q) \/ Retake(q)
        PROVE  TypeOK'
    <2>1. request' = [request EXCEPT ![q] = [request[q] EXCEPT !.pc = "enqueue"]]
      BY <1>5 DEF Create, Retake
    <2>2. request' \in [Requests -> Request]
      BY <2>1, RequestTypes
    <2>3. \E r \in Row : row' = [row EXCEPT ![request[q].guid] = r]
      <3>1. row[request[q].guid] \in Row
        BY RequestTypes
      <3>2. NewRow \in Row /\ Retaken(row[request[q].guid]) \in Row
        BY <3>1, RowTypes
      <3> QED
        BY <1>5, <3>2 DEF Create, Retake
    <2>4. row' \in [Guids -> Row]
      BY <2>3
    <2> QED
      BY <1>5, <2>2, <2>4 DEF Create, Retake
  <1>6. ASSUME NEW q \in Requests, CreateClash(q) \/ RequestError(q)
        PROVE  TypeOK'
    <2>1. Answer500(q)
      BY <1>6 DEF CreateClash, RequestError
    <2>2. request' \in [Requests -> Request] /\ missed' \in [Guids -> BOOLEAN]
      BY <2>1, IdleTypes DEF Answer500, Request
    <2> QED
      BY <1>6, <2>2 DEF CreateClash, RequestError
  <1>7. ASSUME NEW q \in Requests, Accept(q)
        PROVE  TypeOK'
    <2> DEFINE new == [phase |-> "pending", guid |-> request[q].guid,
                       outcome |-> "none", elapsed |-> 0]
    <2>1. PICK i \in Items :
            DrainQueue(Home[q], Append(pending[Home[q]], i),
                       [item EXCEPT ![i] = new], activeCount[Home[q]])
      BY <1>7 DEF Accept
    <2>2. new \in Item
      BY DEF Item, Request, Outcome
    <2>3. [item EXCEPT ![i] = new] \in [Items -> Item]
      BY <2>2
    <2>4. Append(pending[Home[q]], i) \in Seq(Items)
      BY AppendProperties
    <2> HIDE DEF new
    <2>5. /\ pending' \in [Procs -> Seq(Items)]
          /\ item' \in [Items -> Item]
          /\ activeCount' \in [Procs -> Int]
      BY <2>1, <2>3, <2>4, DrainType
    <2> QED
      BY <1>7, <2>5, IdleTypes DEF Accept, Answer202
  <1>8. ASSUME NEW i \in Items, HandlerEnds(i)
        PROVE  TypeOK'
    <2>1. PICK o \in Outcome :
            item' = [item EXCEPT ![i] = [item[i] EXCEPT !.phase = "settle",
                                                        !.outcome = o]]
      BY <1>8 DEF HandlerEnds, Outcome
    <2>2. item' \in [Items -> Item]
      BY <2>1, ItemTypes
    <2> QED
      BY <1>8, <2>2 DEF HandlerEnds
  <1>9. ASSUME NEW i \in Items, EndItem(i)
        PROVE  /\ pending' \in [Procs -> Seq(Items)]
               /\ item' \in [Items -> Item]
               /\ activeCount' \in [Procs -> Int]
    <2>1. [item EXCEPT ![i] = FreeItem] \in [Items -> Item]
      BY IdleTypes
    <2>2. activeCount[Home[i]] - 1 \in Int
      OBVIOUS
    <2> QED
      BY <1>9, <2>1, <2>2, DrainType DEF EndItem
  <1>10. ASSUME NEW i \in Items, SettleItem(i)
         PROVE  TypeOK'
    <2>1. row' \in [Guids -> Row]
      BY <1>10, RowTypes DEF SettleItem, Item
    <2> QED
      BY <1>9, <1>10, <2>1 DEF SettleItem
  <1>11. ASSUME NEW i \in Items, SettleItemError(i)
         PROVE  TypeOK'
    <2>1. CASE EndItem(i)
      <3>1. faults' \in 0..MaxFaults
        BY <1>11 DEF SettleItemError
      <3> QED
        BY <1>9, <1>11, <2>1, <3>1 DEF SettleItemError
    <2>2. CASE /\ item' = [item EXCEPT ![i].outcome = "error"]
               /\ UNCHANGED <<pending, activeCount>>
      <3>1. item' \in [Items -> Item]
        BY <2>2, ItemTypes DEF Outcome
      <3>2. faults' \in 0..MaxFaults
        BY <1>11 DEF SettleItemError
      <3> QED
        BY <1>11, <2>2, <3>1, <3>2 DEF SettleItemError
    <2> QED
      BY <1>11, <2>1, <2>2 DEF SettleItemError
  <1>12. ASSUME NEW b \in Replays, NEW g \in Guids, ReplayRead(b, g)
         PROVE  TypeOK'
    BY <1>12 DEF ReplayRead, Replay, Outcome
  <1>13. ASSUME NEW b \in Replays, ReplayWrite(b)
         PROVE  TypeOK'
    <2> DEFINE g == replay[b].guid
    <2>1. g \in Guids
      BY ReplayTypes DEF Outcome
    <2>2. \E r \in Row : row' = [row EXCEPT ![g] = r]
      <3>1. row[g] \in Row
        BY <2>1
      <3>2. NewRow \in Row /\ Retaken(row[g]) \in Row
        BY <3>1, RowTypes
      <3> QED
        BY <1>13, <3>2 DEF ReplayWrite
    <2>3. row' \in [Guids -> Row]
      BY <2>2
    <2>4. replay' = [replay EXCEPT ![b] = [replay[b] EXCEPT !.pc = "handle"]]
      BY <1>13 DEF ReplayWrite
    <2>5. replay' \in [Replays -> Replay]
      BY <2>4, ReplayTypes DEF Outcome
    <2> QED
      BY <1>13, <2>3, <2>5 DEF ReplayWrite
  <1>14. ASSUME NEW b \in Replays,
                ReplayClash(b) \/ ReplayHandlerEnds(b) \/ ReplayError(b)
         PROVE  TypeOK'
    <2>1. \E r \in Replay : replay' = [replay EXCEPT ![b] = r]
      <3>1. CASE ReplayHandlerEnds(b)
        <4>1. PICK o \in Outcome :
                replay' = [replay EXCEPT ![b] = [replay[b] EXCEPT !.pc = "settle",
                                                                  !.outcome = o]]
          BY <3>1 DEF ReplayHandlerEnds, Outcome
        <4> QED
          BY <4>1, ReplayTypes
      <3>2. CASE ReplayClash(b)
        BY <3>2, IdleTypes DEF ReplayClash
      <3>3. CASE ReplayError(b)
        <4>1. [replay[b] EXCEPT !.outcome = "error"] \in Replay
          BY ReplayTypes DEF Outcome
        <4> QED
          BY <3>3, <4>1, IdleTypes DEF ReplayError
      <3> QED
        BY <1>14, <3>1, <3>2, <3>3
    <2> QED
      BY <1>14, <2>1 DEF ReplayClash, ReplayHandlerEnds, ReplayError
  <1>15. ASSUME NEW b \in Replays, ReplaySettle(b)
         PROVE  TypeOK'
    <2>1. row' \in [Guids -> Row]
      BY <1>15, RowTypes DEF ReplaySettle, Replay
    <2> QED
      BY <1>15, <2>1, IdleTypes DEF ReplaySettle
  <1>16. ASSUME NEW g \in Guids, Prune(g)
         PROVE  TypeOK'
    BY <1>16 DEF Prune, Row
  <1>17. CASE Tick
    <2>1. row' \in [Guids -> Row]
      BY <1>17, RowTypes DEF Tick
    <2>2. ASSUME NEW i \in Items
          PROVE  item'[i] \in Item
      <3>1. CASE item[i].phase = "free"
        BY <1>17, <3>1 DEF Tick
      <3>2. CASE item[i].phase # "free"
        <4>1. item[i].elapsed + 1 \in 0..HandleTicks
          BY <1>17, <3>2 DEF Tick, Item
        <4> QED
          BY <1>17, <3>2, <4>1 DEF Tick, Item
      <3> QED
        BY <3>1, <3>2
    <2> QED
      BY <1>17, <2>1, <2>2 DEF Tick
  <1>18. ASSUME NEW p \in Procs, Crash(p)
         PROVE  TypeOK'
    <2>1. << >> \in Seq(Items)
      BY EmptySeq
    <2> QED
      BY <1>18, <2>1, IdleTypes DEF Crash
  <1>19. CASE UNCHANGED vars
    BY <1>19 DEF vars
  <1> QED
    BY <1>1, <1>2, <1>3, <1>4, <1>5, <1>6, <1>7, <1>8, <1>10, <1>11, <1>12,
       <1>13, <1>14, <1>15, <1>16, <1>17, <1>18, <1>19
    DEF Next, RequestStep, ItemStep, ReplayStep

\* Every reachable state of the webhook intake is well-typed.
THEOREM DeliveryTypeCorrect == Spec => []TypeOK
  BY TypeInit, TypeStep, PTL DEF Spec

-----------------------------------------------------------------------------
(* One handler at a time.                                                   *)

\* Every item ends within the lease its delivery's row was given.
PromptHandlers == HandleTicks <= Lease

\* The queue of a process holds waiting items of that process, each once.
QueueInv ==
  \A p \in Procs :
    /\ \A n \in 1..Len(pending[p]) : /\ Home[pending[p][n]] = p
                                     /\ item[pending[p][n]].phase = "pending"
    /\ \A m, n \in 1..Len(pending[p]) : pending[p][m] = pending[p][n] => m = n

Live(i, g) == item[i].phase # "free" /\ item[i].guid = g
At(q, g) == request[q].pc # "idle" /\ request[q].guid = g

\* What holds of a delivery that GitHub never logged as failed: no backfill and
\* at most one request is at it; the row of a live item is in progress and no
\* older than the item; a request that will queue the delivery has no live item
\* beside it and its row stays as the request left it.
NoReplay(g) == \A b \in Replays : replay[b].pc # "idle" => replay[b].guid # g
OneRequest(g) ==
  \A q \in Requests : At(q, g) =>
    request[q].waiting /\ \A q2 \in Requests : At(q2, g) => q2 = q
LiveRow(g) ==
  \A i \in Items : Live(i, g) =>
    row[g].status = "in_progress" /\ row[g].age <= item[i].elapsed
OneLive(g) == \A i, k \in Items : Live(i, g) /\ Live(k, g) => i = k
RequestRow(g) ==
  \A q \in Requests : At(q, g) =>
    /\ request[q].pc = "enqueue" =>
         /\ request[q].seen # "duplicate"
         /\ row[g].status = "in_progress" /\ row[g].age = 0
    /\ request[q].seen # "duplicate" =>
         /\ \A i \in Items : ~Live(i, g)
         /\ row[g].status # "processed"

GuidInv(g) ==
  NoReplay(g) /\ OneRequest(g) /\ LiveRow(g) /\ OneLive(g) /\ RequestRow(g)
DeliveryInv == QueueInv /\ \A g \in Guids : ~missed[g] => GuidInv(g)

\* drainQueue changes nothing but the phase of waiting items.
LEMMA DrainFrame ==
  ASSUME NEW p \in Procs, NEW queue \in Seq(Items), NEW items \in [Items -> Item],
         NEW busy \in Int, DrainQueue(p, queue, items, busy),
         \A n \in 1..Len(queue) : items[queue[n]].phase = "pending",
         NEW i \in Items
  PROVE  /\ item'[i].phase = "free" <=> items[i].phase = "free"
         /\ item'[i].guid = items[i].guid
         /\ item'[i].elapsed = items[i].elapsed
  <1> DEFINE k == Startable(Len(queue), busy)
             started == {queue[n] : n \in 1..k}
  <1>1. k \in 0..Len(queue) /\ Len(queue) \in Nat
    BY StartableBound, LenProperties
  <1>2. item'[i] = IF i \in started THEN [items[i] EXCEPT !.phase = "handle"]
                                    ELSE items[i]
    BY DEF DrainQueue
  <1>3. i \in started => items[i].phase = "pending"
    BY <1>1
  <1> HIDE DEF started
  <1> QED
    BY <1>2, <1>3 DEF Item

LEMMA DrainQueueInv ==
  ASSUME NEW p \in Procs, NEW queue \in Seq(Items), NEW items \in [Items -> Item],
         NEW busy \in Int, DrainQueue(p, queue, items, busy), TypeOK,
         \A n \in 1..Len(queue) : /\ Home[queue[n]] = p
                                  /\ items[queue[n]].phase = "pending",
         \A m, n \in 1..Len(queue) : queue[m] = queue[n] => m = n,
         \A p2 \in Procs \ {p} :
           /\ \A n \in 1..Len(pending[p2]) :
                /\ Home[pending[p2][n]] = p2
                /\ items[pending[p2][n]].phase = "pending"
           /\ \A m, n \in 1..Len(pending[p2]) :
                pending[p2][m] = pending[p2][n] => m = n
  PROVE  QueueInv'
  <1> DEFINE k == Startable(Len(queue), busy)
             started == {queue[n] : n \in 1..k}
             rest == SubSeq(queue, k + 1, Len(queue))
  <1>1. k \in 0..Len(queue) /\ Len(queue) \in Nat
    BY StartableBound, LenProperties
  <1>2. \A i \in Items : i \notin started => item'[i] = items[i]
    BY DEF DrainQueue
  <1>3. pending' = [pending EXCEPT ![p] = rest]
    BY DEF DrainQueue
  <1>4. ASSUME NEW p2 \in Procs \ {p}
        PROVE  /\ \A n \in 1..Len(pending'[p2]) :
                    /\ Home[pending'[p2][n]] = p2
                    /\ item'[pending'[p2][n]].phase = "pending"
               /\ \A m, n \in 1..Len(pending'[p2]) :
                    pending'[p2][m] = pending'[p2][n] => m = n
    <2>1. pending'[p2] = pending[p2]
      BY <1>3 DEF TypeOK
    <2>2. \A i \in started : Home[i] = p
      BY <1>1
    <2>3. ASSUME NEW n \in 1..Len(pending[p2])
          PROVE  item'[pending[p2][n]].phase = "pending"
      <3>1. pending[p2][n] \in Items
        BY ElementOfSeq DEF TypeOK
      <3>2. pending[p2][n] \notin started
        BY <2>2
      <3> QED
        BY <1>2, <3>1, <3>2
    <2> QED
      BY <2>1, <2>3
  <1>5. /\ Len(rest) = Len(queue) - k
        /\ \A n \in 1..Len(rest) : rest[n] = queue[k + n] /\ k + n \in 1..Len(queue)
    <2>1. \A n \in (k + 1)..Len(queue) : queue[n] \in Items
      BY <1>1, ElementOfSeq
    <2>2. k + 1 \in Int /\ Len(queue) \in Int
      BY <1>1
    <2>3. /\ Len(rest) = IF k + 1 <= Len(queue) THEN Len(queue) - (k + 1) + 1 ELSE 0
          /\ \A n \in 1..Len(queue) - (k + 1) + 1 : rest[n] = queue[k + 1 + n - 1]
      <3> HIDE DEF k
      <3> QED
        BY <2>1, <2>2, SubSeqProperties
    <2> HIDE DEF k, rest
    <2>4. Len(rest) = Len(queue) - k
      BY <1>1, <2>3
    <2>5. ASSUME NEW n \in 1..Len(rest)
          PROVE  rest[n] = queue[k + n] /\ k + n \in 1..Len(queue)
      <3>1. n \in 1..Len(queue) - (k + 1) + 1 /\ k + 1 + n - 1 = k + n
        BY <1>1, <2>4
      <3> QED
        BY <1>1, <2>3, <2>4, <3>1
    <2> QED
      BY <2>4, <2>5
  <1>6. /\ \A n \in 1..Len(rest) : /\ Home[rest[n]] = p
                                   /\ item'[rest[n]].phase = "pending"
        /\ \A m, n \in 1..Len(rest) : rest[m] = rest[n] => m = n
    <2>1. \A n \in 1..Len(queue) : queue[n] \in Items
      BY ElementOfSeq
    <2>2. \A i \in started : \E m \in 1..k : i = queue[m] /\ m \in 1..Len(queue)
      BY <1>1
    <2> HIDE DEF k, started, rest
    <2>3. ASSUME NEW n \in 1..Len(rest)
          PROVE  Home[rest[n]] = p /\ item'[rest[n]].phase = "pending"
      <3>1. rest[n] = queue[k + n] /\ k + n \in 1..Len(queue)
        BY <1>5
      <3>2. queue[k + n] \in Items
        BY <2>1, <3>1
      <3>3. ASSUME queue[k + n] \in started
            PROVE  FALSE
        <4>1. PICK m \in 1..k : queue[k + n] = queue[m] /\ m \in 1..Len(queue)
          BY <2>2, <3>3
        <4>2. k + n = m
          BY <3>1, <4>1
        <4>3. k \in Int /\ n \in Int /\ n > 0 /\ m <= k
          BY <1>1, <1>5, <4>1
        <4> QED
          BY <4>2, <4>3
      <3>4. item'[queue[k + n]] = items[queue[k + n]]
        BY <1>2, <3>2, <3>3
      <3> QED
        BY <3>1, <3>4
    <2>4. ASSUME NEW m \in 1..Len(rest), NEW n \in 1..Len(rest), rest[m] = rest[n]
          PROVE  m = n
      <3>1. /\ queue[k + m] = queue[k + n]
            /\ k + m \in 1..Len(queue) /\ k + n \in 1..Len(queue)
        BY <1>5, <2>4
      <3>2. k + m = k + n
        BY <3>1
      <3>3. m \in Int /\ n \in Int /\ k \in Int
        BY <1>1
      <3> QED
        BY <3>2, <3>3
    <2> QED
      BY <2>3, <2>4
  <1>7. pending'[p] = rest
    BY <1>3 DEF TypeOK
  <1> HIDE DEF rest, started, k
  <1> QED
    BY <1>4, <1>6, <1>7 DEF QueueInv

\* A step that neither touches a queue nor the phase of a waiting item.
LEMMA QueueInvFrame ==
  ASSUME TypeOK, QueueInv, pending' = pending,
         \A i \in Items : item[i].phase = "pending" => item'[i].phase = "pending"
  PROVE  QueueInv'
  <1>1. \A p \in Procs : \A n \in 1..Len(pending[p]) : pending[p][n] \in Items
    BY ElementOfSeq DEF TypeOK
  <1> QED
    BY <1>1 DEF QueueInv

\* The queueing of an item, and what it means for the other items.
LEMMA AcceptFacts ==
  ASSUME TypeOK, QueueInv, NEW q \in Requests, Accept(q)
  PROVE  /\ QueueInv'
         /\ \E i \in Items :
              /\ item[i].phase = "free"
              /\ item'[i].phase # "free"
              /\ item'[i].guid = request[q].guid
              /\ item'[i].elapsed = 0
              /\ \A j \in Items \ {i} :
                   /\ item'[j].phase = "free" <=> item[j].phase = "free"
                   /\ item'[j].guid = item[j].guid
                   /\ item'[j].elapsed = item[j].elapsed
  <1> DEFINE p == Home[q]
             new == [phase |-> "pending", guid |-> request[q].guid,
                     outcome |-> "none", elapsed |-> 0]
  <1>0. p \in Procs
    BY DeliveryAssumption
  <1>1. PICK i \in Items : /\ Home[i] = p
                           /\ item[i].phase = "free"
                           /\ DrainQueue(p, Append(pending[p], i),
                                         [item EXCEPT ![i] = new], activeCount[p])
    BY DEF Accept
  <1> DEFINE queue == Append(pending[p], i)
             items == [item EXCEPT ![i] = new]
  <1>2. new \in Item
    <2>1. request[q].guid \in Guids
      BY RequestTypes DEF TypeOK
    <2> QED
      BY <2>1, DeliveryAssumption DEF Item, Outcome
  <1>3. items \in [Items -> Item]
    BY <1>2 DEF TypeOK
  <1>4. /\ queue \in Seq(Items)
        /\ Len(queue) = Len(pending[p]) + 1
        /\ \A n \in 1..Len(pending[p]) : queue[n] = pending[p][n]
        /\ queue[Len(queue)] = i
        /\ Len(pending[p]) \in Nat
        /\ \A n \in 1..Len(pending[p]) : pending[p][n] \in Items
    BY <1>0, AppendProperties, LenProperties, ElementOfSeq DEF TypeOK
  <1>5. \A n \in 1..Len(pending[p]) : /\ pending[p][n] # i
                                      /\ Home[pending[p][n]] = p
                                      /\ item[pending[p][n]].phase = "pending"
    BY <1>0, <1>1 DEF QueueInv
  <1>6. \A n \in 1..Len(queue) : n = Len(queue) \/ n \in 1..Len(pending[p])
    BY <1>4
  <1>7. /\ items[i] = new
        /\ \A j \in Items \ {i} : items[j] = item[j]
    BY DEF TypeOK
  <1>8. new.phase = "pending" /\ new.guid = request[q].guid /\ new.elapsed = 0
    OBVIOUS
  <1>9. activeCount[p] \in Int
    BY <1>0 DEF TypeOK
  <1> HIDE DEF new, items, queue
  <1>10. \A n \in 1..Len(queue) : /\ Home[queue[n]] = p
                                  /\ items[queue[n]].phase = "pending"
    BY <1>1, <1>4, <1>5, <1>6, <1>7, <1>8
  <1>11. \A m, n \in 1..Len(queue) : queue[m] = queue[n] => m = n
    BY <1>0, <1>4, <1>5, <1>6 DEF QueueInv
  <1>12. DrainQueue(p, queue, items, activeCount[p])
    BY <1>1 DEF queue, items, new
  <1>13. \A p2 \in Procs \ {p} :
           /\ \A n \in 1..Len(pending[p2]) :
                /\ Home[pending[p2][n]] = p2
                /\ items[pending[p2][n]].phase = "pending"
           /\ \A m, n \in 1..Len(pending[p2]) :
                pending[p2][m] = pending[p2][n] => m = n
    <2>1. \A p2 \in Procs : \A n \in 1..Len(pending[p2]) : pending[p2][n] \in Items
      BY ElementOfSeq DEF TypeOK
    <2> QED
      BY <1>1, <1>7, <2>1 DEF QueueInv
  <1> HIDE DEF p
  <1>14. QueueInv'
    BY <1>0, <1>3, <1>4, <1>9, <1>10, <1>11, <1>12, <1>13, DrainQueueInv
  <1>15. \A j \in Items : /\ item'[j].phase = "free" <=> items[j].phase = "free"
                          /\ item'[j].guid = items[j].guid
                          /\ item'[j].elapsed = items[j].elapsed
    BY <1>0, <1>3, <1>4, <1>9, <1>10, <1>12, DrainFrame
  <1> QED
    BY <1>1, <1>7, <1>8, <1>14, <1>15

\* The end of an item.
LEMMA EndItemFacts ==
  ASSUME TypeOK, QueueInv, NEW i \in Items, EndItem(i),
         item[i].phase \notin {"free", "pending"}
  PROVE  /\ QueueInv'
         /\ item'[i].phase = "free"
         /\ \A j \in Items \ {i} :
              /\ item'[j].phase = "free" <=> item[j].phase = "free"
              /\ item'[j].guid = item[j].guid
              /\ item'[j].elapsed = item[j].elapsed
  <1> DEFINE p == Home[i]
             items == [item EXCEPT ![i] = FreeItem]
             busy == activeCount[p] - 1
  <1>1. p \in Procs
    BY DeliveryAssumption
  <1>2. items \in [Items -> Item]
    BY IdleTypes DEF TypeOK
  <1>3. pending[p] \in Seq(Items) /\ busy \in Int
    BY <1>1 DEF TypeOK
  <1>4. DrainQueue(p, pending[p], items, busy)
    BY DEF EndItem
  <1>5. /\ items[i] = FreeItem /\ FreeItem.phase = "free"
        /\ \A j \in Items \ {i} : items[j] = item[j]
    BY DEF TypeOK, FreeItem
  <1>6. \A p2 \in Procs : \A n \in 1..Len(pending[p2]) :
          pending[p2][n] \in Items /\ pending[p2][n] # i
    BY ElementOfSeq DEF TypeOK, QueueInv
  <1> HIDE DEF p, items, busy
  <1>7. \A p2 \in Procs :
          /\ \A n \in 1..Len(pending[p2]) :
               /\ Home[pending[p2][n]] = p2
               /\ items[pending[p2][n]].phase = "pending"
          /\ \A m, n \in 1..Len(pending[p2]) :
               pending[p2][m] = pending[p2][n] => m = n
    BY <1>5, <1>6 DEF QueueInv
  <1>8. QueueInv'
    BY <1>1, <1>2, <1>3, <1>4, <1>7, DrainQueueInv
  <1>9. \A j \in Items : /\ item'[j].phase = "free" <=> items[j].phase = "free"
                         /\ item'[j].guid = items[j].guid
                         /\ item'[j].elapsed = items[j].elapsed
    BY <1>1, <1>2, <1>3, <1>4, <1>7, DrainFrame
  <1> QED
    BY <1>5, <1>8, <1>9

LEMMA QueueInvStep ==
  ASSUME TypeOK, QueueInv, [Next]_vars
  PROVE  QueueInv'
  <1>1. ASSUME NEW q \in Requests, Accept(q)
        PROVE  QueueInv'
    BY <1>1, AcceptFacts
  <1>2. ASSUME NEW i \in Items, SettleItem(i)
        PROVE  QueueInv'
    BY <1>2, EndItemFacts DEF SettleItem
  <1>3. ASSUME NEW i \in Items, SettleItemError(i)
        PROVE  QueueInv'
    <2>1. CASE EndItem(i)
      BY <1>3, <2>1, EndItemFacts DEF SettleItemError
    <2>2. CASE /\ item' = [item EXCEPT ![i].outcome = "error"]
               /\ pending' = pending
      <3>1. \A j \in Items : item[j].phase = "pending" => item'[j].phase = "pending"
        BY <2>2 DEF TypeOK, Item
      <3> QED
        BY <2>2, <3>1, QueueInvFrame
    <2> QED
      BY <1>3, <2>1, <2>2 DEF SettleItemError
  <1>4. ASSUME NEW i \in Items, HandlerEnds(i)
        PROVE  QueueInv'
    <2>1. \A j \in Items : item[j].phase = "pending" => item'[j].phase = "pending"
      BY <1>4 DEF HandlerEnds, TypeOK, Item
    <2> QED
      BY <1>4, <2>1, QueueInvFrame DEF HandlerEnds
  <1>5. CASE Tick
    <2>1. \A j \in Items : item[j].phase = "pending" => item'[j].phase = "pending"
      BY <1>5 DEF Tick, TypeOK, Item
    <2> QED
      BY <1>5, <2>1, QueueInvFrame DEF Tick
  <1>6. ASSUME NEW p \in Procs, Crash(p)
        PROVE  QueueInv'
    <2>1. pending'[p] = << >> /\ Len(<< >>) = 0
      BY <1>6 DEF Crash, TypeOK
    <2>2. ASSUME NEW p2 \in Procs \ {p}, NEW n \in 1..Len(pending[p2])
          PROVE  item'[pending[p2][n]].phase = "pending"
      <3>1. /\ pending[p2][n] \in Items
            /\ Home[pending[p2][n]] = p2
            /\ item[pending[p2][n]].phase = "pending"
        BY ElementOfSeq DEF TypeOK, QueueInv
      <3> QED
        BY <1>6, <3>1 DEF Crash
    <2>3. \A p2 \in Procs \ {p} : pending'[p2] = pending[p2]
      BY <1>6 DEF Crash, TypeOK
    <2> QED
      BY <2>1, <2>2, <2>3 DEF QueueInv
  <1>7. CASE pending' = pending /\ item' = item
    BY <1>7, QueueInvFrame
  <1> QED
    BY <1>1, <1>2, <1>3, <1>4, <1>5, <1>6, <1>7
    DEF Next, RequestStep, ItemStep, ReplayStep, Receive, LoseDelivery, GiveUp,
        Suppress, Create, CreateClash, Retake, RequestError, ReplayRead,
        ReplayWrite, ReplayClash, ReplayHandlerEnds, ReplaySettle, ReplayError,
        Prune, vars

\* GitHub's log keeps what it holds.
LEMMA MissedMonotone ==
  ASSUME TypeOK, [Next]_vars, NEW g \in Guids, missed[g]
  PROVE  missed'[g]
  BY DEF TypeOK, Next, RequestStep, ItemStep, ReplayStep, Receive, LoseDelivery,
         GiveUp, Suppress, Create, CreateClash, Retake, RequestError, Accept,
         HandlerEnds, SettleItem, SettleItemError, ReplayRead, ReplayWrite,
         ReplayClash, ReplayHandlerEnds, ReplaySettle, ReplayError, Prune, Tick,
         Crash, Answer202, Answer500, vars

\* A step that brings nothing new to a delivery and leaves its row alone.
LEMMA GuidFrame ==
  ASSUME NEW g \in Guids, GuidInv(g), row'[g] = row[g],
         \A q \in Requests : At(q, g)' => At(q, g) /\ request'[q] = request[q],
         \A i \in Items : Live(i, g)' => /\ Live(i, g)
                                         /\ item'[i].elapsed = item[i].elapsed,
         NoReplay(g)'
  PROVE  GuidInv(g)'
  <1>1. OneRequest(g)'
    BY DEF GuidInv, OneRequest
  <1>2. LiveRow(g)' /\ OneLive(g)'
    BY DEF GuidInv, LiveRow, OneLive
  <1>3. RequestRow(g)'
    BY DEF GuidInv, RequestRow
  <1> QED
    BY <1>1, <1>2, <1>3 DEF GuidInv

\* A request is read while nothing else is at its delivery: a row that a live
\* item holds is a duplicate until the lease is over.
LEMMA ReceiveStep ==
  ASSUME TypeOK, PromptHandlers, NEW q \in Requests, NEW g \in Guids,
         GuidInv(g), Receive(q, g)
  PROVE  GuidInv(g)'
  <1>1. \A q2 \in Requests : ~At(q2, g)
    BY DEF Receive, Sends, GuidInv, OneRequest, At
  <1>2. /\ request'[q].pc = "write" /\ request'[q].guid = g
        /\ request'[q].waiting /\ request'[q].seen = Classify(row[g])
        /\ \A q2 \in Requests \ {q} : request'[q2] = request[q2]
    BY DEF Receive, TypeOK
  <1>3. row' = row /\ item' = item /\ replay' = replay
    BY DEF Receive
  <1>4. Classify(row[g]) # "duplicate" =>
          /\ \A i \in Items : ~Live(i, g)
          /\ row[g].status # "processed"
    <2>1. SUFFICES ASSUME Classify(row[g]) # "duplicate"
                   PROVE  /\ \A i \in Items : ~Live(i, g)
                          /\ row[g].status # "processed"
      OBVIOUS
    <2>2. row[g] \in Row
      BY DEF TypeOK
    <2>3. row[g].status # "processed"
      BY <2>1 DEF Classify
    <2>4. row[g].status = "in_progress" => row[g].age > Lease
      BY <2>1, <2>2 DEF Classify, Stale, Row
    <2>5. ASSUME NEW i \in Items, Live(i, g)
          PROVE  FALSE
      <3>1. row[g].status = "in_progress" /\ row[g].age <= item[i].elapsed
        BY <2>5 DEF GuidInv, LiveRow
      <3>2. item[i].elapsed \in 0..HandleTicks
        BY DEF TypeOK, Item
      <3>3. row[g].age \in 0..Lease + 1
        BY <2>2 DEF Row
      <3> QED
        BY <2>4, <3>1, <3>2, <3>3, DeliveryAssumption DEF PromptHandlers
    <2> QED
      BY <2>3, <2>5
  <1>5. \A q2 \in Requests : At(q2, g)' => q2 = q
    BY <1>1, <1>2 DEF At
  <1>6. NoReplay(g)' /\ LiveRow(g)' /\ OneLive(g)'
    BY <1>3 DEF GuidInv, NoReplay, LiveRow, OneLive, Live
  <1>7. OneRequest(g)'
    BY <1>2, <1>5 DEF OneRequest
  <1>8. RequestRow(g)'
    BY <1>2, <1>3, <1>4, <1>5 DEF RequestRow, Live
  <1> QED
    BY <1>6, <1>7, <1>8 DEF GuidInv

\* The only request of a delivery is answered.
LEMMA AnswerStep ==
  ASSUME TypeOK, NEW q \in Requests, NEW g \in Guids, GuidInv(g), At(q, g),
         request' = [request EXCEPT ![q] = IdleRequest]
  PROVE  \A q2 \in Requests : ~At(q2, g)'
  BY DEF TypeOK, At, GuidInv, OneRequest, IdleRequest

LEMMA SuppressStep ==
  ASSUME TypeOK, NEW q \in Requests, NEW g \in Guids, GuidInv(g), At(q, g),
         Suppress(q)
  PROVE  GuidInv(g)'
  <1>1. \A q2 \in Requests : ~At(q2, g)'
    BY AnswerStep DEF Suppress, Answer202
  <1>2. item' = item /\ replay' = replay
    BY DEF Suppress
  <1>3. row'[g].status = row[g].status /\ row'[g].age = 0
    BY DEF Suppress, At, TypeOK, Row
  <1>4. LiveRow(g)'
    <2>1. \A i \in Items : 0 <= item[i].elapsed
      BY DeliveryAssumption DEF TypeOK, Item
    <2> QED
      BY <1>2, <1>3, <2>1 DEF GuidInv, LiveRow, Live
  <1>5. NoReplay(g)' /\ OneLive(g)'
    BY <1>2 DEF GuidInv, NoReplay, OneLive, Live
  <1> QED
    BY <1>1, <1>4, <1>5 DEF GuidInv, OneRequest, RequestRow

\* A request takes the delivery: no item of it is live then.
LEMMA TakeStep ==
  ASSUME TypeOK, NEW q \in Requests, NEW g \in Guids, GuidInv(g), At(q, g),
         Create(q) \/ Retake(q)
  PROVE  GuidInv(g)'
  <1>1. request[q].guid = g /\ request[q].seen # "duplicate"
    BY DEF Create, Retake, At
  <1>2. /\ request'[q].pc = "enqueue" /\ request'[q].guid = g
        /\ request'[q].seen = request[q].seen
        /\ request'[q].waiting = request[q].waiting
        /\ \A q2 \in Requests \ {q} : request'[q2] = request[q2]
    BY <1>1 DEF Create, Retake, TypeOK, Request
  <1>3. row'[g].status = "in_progress" /\ row'[g].age = 0
    <2>1. PICK r \in {NewRow, Retaken(row[g])} : row' = [row EXCEPT ![g] = r]
      BY <1>1 DEF Create, Retake
    <2>2. row[g] \in Row /\ row'[g] = r
      BY <2>1 DEF TypeOK
    <2>3. \A old \in Row :
            Retaken(old).status = "in_progress" /\ Retaken(old).age = 0
      BY DEF Retaken, Row
    <2>4. r.status = "in_progress" /\ r.age = 0
      BY <2>1, <2>2, <2>3 DEF NewRow
    <2> QED
      BY <2>2, <2>4
  <1>4. item' = item /\ replay' = replay
    BY DEF Create, Retake
  <1>5. \A i \in Items : ~Live(i, g)'
    BY <1>1, <1>4 DEF GuidInv, RequestRow, Live
  <1>6. request[q].waiting /\ \A q2 \in Requests : At(q2, g) => q2 = q
    BY DEF GuidInv, OneRequest
  <1>7. \A q2 \in Requests : At(q2, g)' => q2 = q
    BY <1>2, <1>6 DEF At
  <1>8. NoReplay(g)'
    BY <1>4 DEF GuidInv, NoReplay
  <1>9. OneRequest(g)'
    BY <1>2, <1>6, <1>7 DEF OneRequest
  <1>10. LiveRow(g)' /\ OneLive(g)'
    BY <1>5 DEF LiveRow, OneLive
  <1>11. RequestRow(g)'
    BY <1>1, <1>2, <1>3, <1>5, <1>7 DEF RequestRow
  <1> QED
    BY <1>8, <1>9, <1>10, <1>11 DEF GuidInv

\* The delivery is queued: its item is the only one.
LEMMA AcceptStep ==
  ASSUME TypeOK, QueueInv, NEW q \in Requests, NEW g \in Guids, GuidInv(g),
         At(q, g), Accept(q)
  PROVE  GuidInv(g)'
  <1>1. \A q2 \in Requests : ~At(q2, g)'
    BY AnswerStep DEF Accept, Answer202
  <1>2. PICK i \in Items :
          /\ item'[i].phase # "free"
          /\ item'[i].elapsed = 0
          /\ \A j \in Items \ {i} :
               /\ item'[j].phase = "free" <=> item[j].phase = "free"
               /\ item'[j].guid = item[j].guid
    BY AcceptFacts
  <1>3. row' = row /\ replay' = replay
    BY DEF Accept
  <1>4. /\ row[g].status = "in_progress" /\ row[g].age = 0
        /\ \A j \in Items : ~Live(j, g)
    BY DEF Accept, At, GuidInv, RequestRow
  <1>5. \A j \in Items : Live(j, g)' => j = i
    BY <1>2, <1>4 DEF Live
  <1>6. LiveRow(g)' /\ OneLive(g)'
    BY <1>2, <1>3, <1>4, <1>5 DEF LiveRow, OneLive
  <1>7. NoReplay(g)'
    BY <1>3 DEF GuidInv, NoReplay
  <1> QED
    BY <1>1, <1>6, <1>7 DEF GuidInv, OneRequest, RequestRow

\* The result is written by the only item of the delivery.
LEMMA SettleStep ==
  ASSUME TypeOK, QueueInv, NEW i \in Items, NEW g \in Guids, GuidInv(g),
         SettleItem(i), item[i].guid = g
  PROVE  GuidInv(g)'
  <1>1. Live(i, g)
    BY DEF SettleItem, Live
  <1>2. request' = request /\ replay' = replay
    BY DEF SettleItem
  <1>3. \A j \in Items : ~Live(j, g)'
    <2>1. /\ item'[i].phase = "free"
          /\ \A j \in Items \ {i} :
               /\ item'[j].phase = "free" <=> item[j].phase = "free"
               /\ item'[j].guid = item[j].guid
      BY EndItemFacts DEF SettleItem
    <2> QED
      BY <1>1, <2>1 DEF Live, GuidInv, OneLive
  <1>4. \A q \in Requests : At(q, g)' =>
          request'[q].pc # "enqueue" /\ request'[q].seen = "duplicate"
    <2>1. ASSUME NEW q \in Requests, At(q, g)
          PROVE  request[q].pc # "enqueue" /\ request[q].seen = "duplicate"
      BY <1>1, <2>1 DEF GuidInv, RequestRow
    <2> QED
      BY <1>2, <2>1 DEF At
  <1>5. NoReplay(g)' /\ OneRequest(g)'
    BY <1>2 DEF GuidInv, NoReplay, OneRequest, At
  <1>6. LiveRow(g)' /\ OneLive(g)'
    BY <1>3 DEF LiveRow, OneLive
  <1>7. RequestRow(g)'
    BY <1>4 DEF RequestRow
  <1> QED
    BY <1>5, <1>6, <1>7 DEF GuidInv

\* An item ages as fast as its row.
LEMMA TickStep ==
  ASSUME TypeOK, NEW g \in Guids, GuidInv(g), Tick
  PROVE  GuidInv(g)'
  <1>1. request' = request /\ replay' = replay
    BY DEF Tick
  <1>2. row'[g] = Older(row[g]) /\ row[g] \in Row
    BY DEF Tick, TypeOK
  <1>3. row'[g].status = row[g].status
    BY <1>2 DEF Older, Row
  <1>4. \A i \in Items :
          /\ Live(i, g)' => Live(i, g)
          /\ Live(i, g) => item'[i].elapsed = item[i].elapsed + 1
    BY DEF Tick, Live, TypeOK, Item
  <1>5. row'[g].age <= row[g].age + 1
    <2>1. row[g].age \in Int
      BY <1>2, DeliveryAssumption DEF Row
    <2> QED
      BY <1>2, <2>1 DEF Older, Row
  <1>6. NoReplay(g)' /\ OneRequest(g)'
    BY <1>1 DEF GuidInv, NoReplay, OneRequest, At
  <1>7. OneLive(g)'
    BY <1>4 DEF GuidInv, OneLive
  <1>8. LiveRow(g)'
    <2>1. ASSUME NEW i \in Items, Live(i, g)'
          PROVE  row'[g].status = "in_progress" /\ row'[g].age <= item'[i].elapsed
      <3>1. /\ row[g].status = "in_progress" /\ row[g].age <= item[i].elapsed
            /\ item'[i].elapsed = item[i].elapsed + 1
        BY <1>4, <2>1 DEF GuidInv, LiveRow
      <3>2. row'[g] \in Row
        BY <1>2, RowTypes
      <3>3. row[g].age \in Int /\ item[i].elapsed \in Int /\ row'[g].age \in Int
        BY <1>2, <3>2, DeliveryAssumption DEF TypeOK, Row, Item
      <3> QED
        BY <1>3, <1>5, <3>1, <3>3
    <2> QED
      BY <2>1 DEF LiveRow
  <1>9. RequestRow(g)'
    <2>1. \A q \in Requests : request[q].pc # "enqueue"
      BY DEF Tick
    <2> QED
      BY <1>1, <1>3, <1>4, <2>1 DEF GuidInv, RequestRow, At
  <1> QED
    BY <1>6, <1>7, <1>8, <1>9 DEF GuidInv

LEMMA GuidInvStep ==
  ASSUME TypeOK, PromptHandlers, QueueInv, NEW g \in Guids, ~missed[g],
         ~missed'[g], GuidInv(g), [Next]_vars
  PROVE  GuidInv(g)'
  <1>0. NoReplay(g)
    BY DEF GuidInv
  <1>1. ASSUME NEW q \in Requests, NEW h \in Guids, Receive(q, h)
        PROVE  GuidInv(g)'
    <2>1. CASE h = g
      BY <1>1, <2>1, ReceiveStep
    <2>2. CASE h # g
      <3>1. row' = row /\ item' = item /\ replay' = replay
        BY <1>1 DEF Receive
      <3>2. \A q2 \in Requests :
              At(q2, g)' => At(q2, g) /\ request'[q2] = request[q2]
        BY <1>1, <2>2 DEF Receive, At, TypeOK
      <3> QED
        BY <1>0, <3>1, <3>2, GuidFrame DEF Live, NoReplay
    <2> QED
      BY <2>1, <2>2
  <1>2. ASSUME NEW h \in Guids, LoseDelivery(h)
        PROVE  GuidInv(g)'
    BY <1>0, <1>2, GuidFrame DEF LoseDelivery, At, Live, NoReplay
  <1>3. ASSUME NEW q \in Requests, GiveUp(q)
        PROVE  GuidInv(g)'
    <2>1. request[q].guid # g
      BY <1>3 DEF GiveUp, TypeOK
    <2>2. row' = row /\ item' = item /\ replay' = replay
      BY <1>3 DEF GiveUp
    <2>3. \A q2 \in Requests :
            At(q2, g)' => At(q2, g) /\ request'[q2] = request[q2]
      BY <1>3, <2>1 DEF GiveUp, At, TypeOK, Request
    <2> QED
      BY <1>0, <2>2, <2>3, GuidFrame DEF Live, NoReplay
  <1>4. ASSUME NEW q \in Requests, request' = [request EXCEPT ![q] = IdleRequest],
               NEW q2 \in Requests, At(q2, g)'
        PROVE  At(q2, g) /\ request'[q2] = request[q2]
    BY <1>4 DEF At, TypeOK, IdleRequest
  <1>5. ASSUME NEW q \in Requests, Suppress(q)
        PROVE  GuidInv(g)'
    <2>1. CASE request[q].guid = g
      BY <1>5, <2>1, SuppressStep DEF Suppress, At
    <2>2. CASE request[q].guid # g
      <3>1. row'[g] = row[g] /\ item' = item /\ replay' = replay
        BY <1>5, <2>2 DEF Suppress, TypeOK
      <3> QED
        BY <1>0, <1>4, <1>5, <3>1, GuidFrame DEF Suppress, Answer202, Live, NoReplay
    <2> QED
      BY <2>1, <2>2
  <1>6. ASSUME NEW q \in Requests, Create(q) \/ Retake(q)
        PROVE  GuidInv(g)'
    <2>1. CASE request[q].guid = g
      BY <1>6, <2>1, TakeStep DEF Create, Retake, At
    <2>2. CASE request[q].guid # g
      <3>1. row'[g] = row[g] /\ item' = item /\ replay' = replay
        BY <1>6, <2>2 DEF Create, Retake, TypeOK
      <3>2. \A q2 \in Requests :
              At(q2, g)' => At(q2, g) /\ request'[q2] = request[q2]
        BY <1>6, <2>2 DEF Create, Retake, At, TypeOK, Request
      <3> QED
        BY <1>0, <3>1, <3>2, GuidFrame DEF Live, NoReplay
    <2> QED
      BY <2>1, <2>2
  <1>7. ASSUME NEW q \in Requests, CreateClash(q) \/ RequestError(q)
        PROVE  GuidInv(g)'
    BY <1>0, <1>4, <1>7, GuidFrame
    DEF CreateClash, RequestError, Answer500, Live, NoReplay
  <1>8. ASSUME NEW q \in Requests, Accept(q)
        PROVE  GuidInv(g)'
    <2>1. CASE request[q].guid = g
      BY <1>8, <2>1, AcceptStep DEF Accept, At
    <2>2. CASE request[q].guid # g
      <3>1. row' = row /\ replay' = replay
        BY <1>8 DEF Accept
      <3>2. \A j \in Items : Live(j, g)' =>
              Live(j, g) /\ item'[j].elapsed = item[j].elapsed
        BY <1>8, <2>2, AcceptFacts DEF Live
      <3> QED
        BY <1>0, <1>4, <1>8, <3>1, <3>2, GuidFrame DEF Accept, Answer202, NoReplay
    <2> QED
      BY <2>1, <2>2
  <1>9. ASSUME NEW i \in Items, HandlerEnds(i)
        PROVE  GuidInv(g)'
    <2>1. \A j \in Items : Live(j, g)' =>
            Live(j, g) /\ item'[j].elapsed = item[j].elapsed
      BY <1>9 DEF HandlerEnds, Live, TypeOK, Item
    <2> QED
      BY <1>0, <1>9, <2>1, GuidFrame DEF HandlerEnds, At, NoReplay
  <1>10. ASSUME NEW i \in Items, EndItem(i), item[i].phase = "settle",
                NEW j \in Items, Live(j, g)'
         PROVE  Live(j, g) /\ item'[j].elapsed = item[j].elapsed
    BY <1>10, EndItemFacts DEF Live
  <1>11. ASSUME NEW i \in Items, SettleItem(i)
         PROVE  GuidInv(g)'
    <2>1. CASE item[i].guid = g
      BY <1>11, <2>1, SettleStep
    <2>2. CASE item[i].guid # g
      <3>1. row'[g] = row[g] /\ request' = request /\ replay' = replay
        BY <1>11, <2>2 DEF SettleItem, TypeOK
      <3> QED
        BY <1>0, <1>10, <1>11, <3>1, GuidFrame DEF SettleItem, At, NoReplay
    <2> QED
      BY <2>1, <2>2
  <1>12. ASSUME NEW i \in Items, SettleItemError(i)
         PROVE  GuidInv(g)'
    <2>1. \A j \in Items : Live(j, g)' =>
            Live(j, g) /\ item'[j].elapsed = item[j].elapsed
      <3>1. CASE EndItem(i)
        BY <1>10, <1>12, <3>1 DEF SettleItemError
      <3>2. CASE item' = [item EXCEPT ![i].outcome = "error"]
        BY <3>2 DEF Live, TypeOK, Item
      <3> QED
        BY <1>12, <3>1, <3>2 DEF SettleItemError
    <2> QED
      BY <1>0, <1>12, <2>1, GuidFrame DEF SettleItemError, At, NoReplay
  <1>13. ASSUME NEW b \in Replays, NEW h \in Guids, ReplayRead(b, h)
         PROVE  GuidInv(g)'
    <2>1. h # g
      BY <1>13 DEF ReplayRead
    <2>2. NoReplay(g)'
      BY <1>0, <1>13, <2>1 DEF ReplayRead, NoReplay, TypeOK
    <2> QED
      BY <1>13, <2>2, GuidFrame DEF ReplayRead, At, Live
  <1>14. ASSUME NEW b \in Replays, ReplayStep(b) \/ ReplayError(b)
         PROVE  GuidInv(g)'
    <2>1. replay[b].pc # "idle" /\ replay[b].guid # g
      BY <1>0, <1>14
      DEF ReplayStep, ReplayWrite, ReplayClash, ReplayHandlerEnds, ReplaySettle,
          ReplayError, NoReplay
    <2>2. row'[g] = row[g]
      BY <1>14, <2>1
      DEF ReplayStep, ReplayWrite, ReplayClash, ReplayHandlerEnds, ReplaySettle,
          ReplayError, TypeOK
    <2>3. \A b2 \in Replays \ {b} : replay'[b2] = replay[b2]
      BY <1>14
      DEF ReplayStep, ReplayWrite, ReplayClash, ReplayHandlerEnds, ReplaySettle,
          ReplayError, TypeOK
    <2>4. replay'[b].pc # "idle" => replay'[b].guid = replay[b].guid
      <3>1. CASE ReplayWrite(b)
        BY <3>1 DEF ReplayWrite, TypeOK, Replay
      <3>2. CASE ReplayHandlerEnds(b)
        BY <3>2 DEF ReplayHandlerEnds, TypeOK, Replay
      <3>3. CASE ReplayError(b)
        BY <3>3 DEF ReplayError, TypeOK, Replay, IdleReplay
      <3>4. CASE ReplayClash(b) \/ ReplaySettle(b)
        BY <3>4 DEF ReplayClash, ReplaySettle, TypeOK, IdleReplay
      <3> QED
        BY <1>14, <3>1, <3>2, <3>3, <3>4 DEF ReplayStep
    <2>5. NoReplay(g)'
      BY <1>0, <2>1, <2>3, <2>4 DEF NoReplay
    <2>6. request' = request /\ item' = item
      BY <1>14
      DEF ReplayStep, ReplayWrite, ReplayClash, ReplayHandlerEnds, ReplaySettle,
          ReplayError
    <2> QED
      BY <2>2, <2>5, <2>6, GuidFrame DEF At, Live
  <1>15. ASSUME NEW h \in Guids, Prune(h)
         PROVE  GuidInv(g)'
    <2>1. request' = request /\ item' = item /\ replay' = replay
      BY <1>15 DEF Prune
    <2>2. CASE h = g
      <3>1. (\A q \in Requests : ~At(q, g)) /\ (\A i \in Items : ~Live(i, g))
        BY <1>15, <2>2 DEF Prune, InFlight, At, Live
      <3> QED
        BY <1>0, <2>1, <3>1
        DEF GuidInv, NoReplay, OneRequest, LiveRow, OneLive, RequestRow, At, Live
    <2>3. CASE h # g
      <3>1. row'[g] = row[g]
        BY <1>15, <2>3 DEF Prune, TypeOK
      <3> QED
        BY <1>0, <2>1, <3>1, GuidFrame DEF At, Live, NoReplay
    <2> QED
      BY <2>2, <2>3
  <1>16. CASE Tick
    BY <1>16, TickStep
  <1>17. ASSUME NEW p \in Procs, Crash(p)
         PROVE  GuidInv(g)'
    <2>1. \A q \in Requests : At(q, g)' => At(q, g) /\ request'[q] = request[q]
      BY <1>17 DEF Crash, At, IdleRequest
    <2>2. \A j \in Items : Live(j, g)' =>
            Live(j, g) /\ item'[j].elapsed = item[j].elapsed
      BY <1>17 DEF Crash, Live, FreeItem
    <2>3. NoReplay(g)'
      BY <1>0, <1>17 DEF Crash, NoReplay, IdleReplay
    <2> QED
      BY <1>17, <2>1, <2>2, <2>3, GuidFrame DEF Crash
  <1>18. CASE UNCHANGED vars
    BY <1>0, <1>18, GuidFrame DEF vars, At, Live, NoReplay
  <1> QED
    BY <1>1, <1>2, <1>3, <1>5, <1>6, <1>7, <1>8, <1>9, <1>11, <1>12, <1>13,
       <1>14, <1>15, <1>16, <1>17, <1>18
    DEF Next, RequestStep, ItemStep

LEMMA DeliveryInit == Init => DeliveryInv
  <1>1. SUFFICES ASSUME Init
                 PROVE  DeliveryInv
    OBVIOUS
  <1>2. QueueInv
    BY <1>1 DEF Init, QueueInv
  <1>3. ASSUME NEW g \in Guids
        PROVE  GuidInv(g)
    BY <1>1
    DEF Init, IdleRequest, FreeItem, IdleReplay, GuidInv, NoReplay, OneRequest,
        LiveRow, OneLive, RequestRow, At, Live
  <1> QED
    BY <1>2, <1>3 DEF DeliveryInv

LEMMA DeliveryStep ==
  ASSUME PromptHandlers, TypeOK, DeliveryInv, [Next]_vars
  PROVE  DeliveryInv'
  <1>1. QueueInv'
    BY QueueInvStep DEF DeliveryInv
  <1>2. ASSUME NEW g \in Guids, ~missed'[g]
        PROVE  GuidInv(g)'
    <2>1. ~missed[g]
      BY <1>2, MissedMonotone
    <2> QED
      BY <1>2, <2>1, GuidInvStep DEF DeliveryInv
  <1> QED
    BY <1>1, <1>2 DEF DeliveryInv

LEMMA DeliveryInvariant ==
  ASSUME PromptHandlers
  PROVE  Spec => []DeliveryInv
  <1>1. DeliveryInv /\ TypeOK /\ [Next]_vars => DeliveryInv'
    BY DeliveryStep
  <1> QED
    BY <1>1, DeliveryInit, DeliveryTypeCorrect, PTL DEF Spec

\* When every handler ends within the lease, a delivery that GitHub never logged
\* as failed has one handler at a time.
THEOREM SingleHandling ==
  ASSUME PromptHandlers
  PROVE  Spec => []OneHandler
  <1>1. DeliveryInv => OneHandler
    BY DEF DeliveryInv, GuidInv, OneLive, Live, OneHandler
  <1> QED
    BY <1>1, DeliveryInvariant, PTL

\* Who writes the row of a delivery, and what the write leaves of "processed".
LEMMA RowWriters ==
  ASSUME TypeOK, [Next]_vars, NEW g \in Guids, row[g].status = "processed"
  PROVE  \/ row'[g].status \in {"processed", "absent"}
         \/ \E q \in Requests : At(q, g) /\ request[q].seen # "duplicate"
         \/ \E i \in Items : Live(i, g)
         \/ \E b \in Replays : replay[b].pc # "idle" /\ replay[b].guid = g
  <1> DEFINE Goal == \/ row'[g].status \in {"processed", "absent"}
                     \/ \E q \in Requests : At(q, g) /\ request[q].seen # "duplicate"
                     \/ \E i \in Items : Live(i, g)
                     \/ \E b \in Replays : replay[b].pc # "idle" /\ replay[b].guid = g
  <1>1. ASSUME NEW q \in Requests, Suppress(q)
        PROVE  Goal
    BY <1>1 DEF Suppress, TypeOK, Row
  <1>2. ASSUME NEW q \in Requests, Create(q) \/ Retake(q)
        PROVE  Goal
    BY <1>2 DEF Create, Retake, At, TypeOK
  <1>3. ASSUME NEW i \in Items, SettleItem(i)
        PROVE  Goal
    BY <1>3 DEF SettleItem, Live, TypeOK
  <1>4. ASSUME NEW b \in Replays, ReplayWrite(b) \/ ReplaySettle(b)
        PROVE  Goal
    BY <1>4 DEF ReplayWrite, ReplaySettle, TypeOK
  <1>5. ASSUME NEW h \in Guids, Prune(h)
        PROVE  Goal
    BY <1>5 DEF Prune, TypeOK
  <1>6. CASE Tick
    BY <1>6 DEF Tick, Older
  <1>7. CASE row' = row
    BY <1>7
  <1>8. \/ \E q \in Requests : Suppress(q) \/ Create(q) \/ Retake(q)
        \/ \E i \in Items : SettleItem(i)
        \/ \E b \in Replays : ReplayWrite(b) \/ ReplaySettle(b)
        \/ \E h \in Guids : Prune(h)
        \/ Tick
        \/ row' = row
    BY DEF Next, RequestStep, ItemStep, ReplayStep, Receive, LoseDelivery, GiveUp,
        CreateClash, RequestError, Accept, HandlerEnds, SettleItemError,
        ReplayRead, ReplayClash, ReplayHandlerEnds, ReplayError, Crash, vars
  <1> QED
    BY <1>1, <1>2, <1>3, <1>4, <1>5, <1>6, <1>7, <1>8

\* When every handler ends within the lease, a processed delivery that GitHub
\* never logged as failed stays processed until the retention sweep.
THEOREM ProcessedForGood ==
  ASSUME PromptHandlers
  PROVE  Spec => ProcessedStays
  <1> DEFINE Stays == \A g \in Guids : row[g].status = "processed" /\ ~missed'[g] =>
                        row'[g].status \in {"processed", "absent"}
  <1>1. ASSUME TypeOK, DeliveryInv, [Next]_vars
        PROVE  Stays
    <2>1. SUFFICES ASSUME NEW g \in Guids, row[g].status = "processed", ~missed'[g]
                   PROVE  row'[g].status \in {"processed", "absent"}
      OBVIOUS
    <2>2. GuidInv(g)
      BY <1>1, <2>1, MissedMonotone DEF DeliveryInv
    <2>3. /\ \A q \in Requests : At(q, g) => request[q].seen = "duplicate"
          /\ \A i \in Items : ~Live(i, g)
          /\ \A b \in Replays : replay[b].pc # "idle" => replay[b].guid # g
      BY <2>1, <2>2 DEF GuidInv, RequestRow, LiveRow, NoReplay
    <2> QED
      BY <1>1, <2>1, <2>3, RowWriters
  <1>2. TypeOK /\ DeliveryInv /\ [Next]_vars => [Stays]_vars
    BY <1>1
  <1> HIDE DEF Stays
  <1>3. Spec => [][Stays]_vars
    BY <1>2, DeliveryTypeCorrect, DeliveryInvariant, PTL DEF Spec
  <1> QED
    BY <1>3 DEF ProcessedStays, Stays

-----------------------------------------------------------------------------
(* The slots of a process.                                                  *)

\* The items of process p that are being handled, in a table of items.
Active(p, items) ==
  {i \in Items : Home[i] = p /\ items[i].phase \in {"handle", "settle"}}

LEMMA ActiveFinite ==
  ASSUME NEW p, NEW items
  PROVE  IsFiniteSet(Active(p, items)) /\ Cardinality(Active(p, items)) \in Nat
  <1>1. Active(p, items) \in SUBSET Items
    BY DEF Active
  <1> QED
    BY <1>1, FS_Subset, FS_CardinalityType, DeliveryAssumption

\* The first k items of a queue: as many as k if none is there twice.
First(queue, k) == {queue[n] : n \in 1..k}

LEMMA ListedOnce ==
  ASSUME NEW k \in Nat, NEW queue, \A m, n \in 1..k : queue[m] = queue[n] => m = n
  PROVE  /\ IsFiniteSet(First(queue, k))
         /\ Cardinality(First(queue, k)) = k
  <1> DEFINE T == First(queue, k)
             f == [n \in 1..k |-> queue[n]]
  <1>1. f \in Surjection(1..k, T)
    BY DEF Surjection, First
  <1>2. f \in Injection(1..k, T)
    BY DEF Injection, First, IsInjective
  <1>3. IsFiniteSet(1..k) /\ Cardinality(1..k) = k
    BY FS_Interval
  <1> HIDE DEF f, T
  <1>4. IsFiniteSet(T) /\ Cardinality(T) = Cardinality(1..k)
    BY <1>1, <1>2, <1>3, FS_Surjection
  <1> QED
    BY <1>3, <1>4 DEF T

\* WorkConserving for one process.
Conserving(p) ==
  /\ activeCount[p] = Cardinality(Active(p, item))
  /\ activeCount[p] <= Concurrency
  /\ pending[p] # <<>> => activeCount[p] = Concurrency

LEMMA WorkConservingIs == WorkConserving <=> \A p \in Procs : Conserving(p)
  BY DEF WorkConserving, Conserving, Active

\* drainQueue fills the free slots of its process and touches no other.
LEMMA DrainConserves ==
  ASSUME NEW p \in Procs, NEW queue \in Seq(Items), NEW items \in [Items -> Item],
         NEW busy \in Int, DrainQueue(p, queue, items, busy), TypeOK,
         \A n \in 1..Len(queue) : /\ Home[queue[n]] = p
                                  /\ items[queue[n]].phase = "pending",
         \A m, n \in 1..Len(queue) : queue[m] = queue[n] => m = n,
         busy = Cardinality(Active(p, items)), busy <= Concurrency,
         \A p2 \in Procs \ {p} :
           Active(p2, items) = Active(p2, item) /\ Conserving(p2)
  PROVE  \A p2 \in Procs : Conserving(p2)'
  <1> DEFINE k == Startable(Len(queue), busy)
             started == First(queue, k)
             rest == SubSeq(queue, k + 1, Len(queue))
  <1>1. k \in 0..Len(queue) /\ Len(queue) \in Nat
    BY StartableBound, LenProperties
  <1>2. \A n \in 1..Len(queue) : queue[n] \in Items
    BY ElementOfSeq
  <1>3. started \subseteq Items /\ \A i \in started : Home[i] = p
    BY <1>1, <1>2 DEF First
  <1>4. started \cap Active(p, items) = {}
    BY <1>1 DEF Active, First
  <1>5. IsFiniteSet(started) /\ Cardinality(started) = k
    <2>1. k \in Nat /\ \A m, n \in 1..k : queue[m] = queue[n] => m = n
      BY <1>1
    <2> HIDE DEF k
    <2> QED
      BY <2>1, ListedOnce
  <1>6. /\ item' = [i \in Items |-> IF i \in started
                                    THEN [items[i] EXCEPT !.phase = "handle"]
                                    ELSE items[i]]
        /\ pending' = [pending EXCEPT ![p] = rest]
        /\ activeCount' = [activeCount EXCEPT ![p] = busy + k]
    BY DEF DrainQueue, First
  <1>7. rest # <<>> => k < Len(queue)
    <2>1. k + 1 \in Int /\ Len(queue) \in Int
      BY <1>1
    <2>2. \A n \in (k + 1)..Len(queue) : queue[n] \in Items
      BY <1>1, <1>2
    <2>3. /\ rest \in Seq(Items)
          /\ Len(rest) = IF k + 1 <= Len(queue) THEN Len(queue) - (k + 1) + 1 ELSE 0
      <3> HIDE DEF k
      <3> QED
        BY <2>1, <2>2, SubSeqProperties
    <2> HIDE DEF k, rest
    <2>4. k = Len(queue) => Len(rest) = 0
      BY <1>1, <2>3
    <2>5. Len(rest) = 0 => rest = <<>>
      BY <2>3, EmptySeq
    <2> QED
      BY <1>1, <2>4, <2>5
  <1>8. Concurrency \in Nat \ {0}
    BY DeliveryAssumption
  <1>9. /\ busy + k <= Concurrency
        /\ k < Len(queue) => busy + k = Concurrency
    BY <1>1, <1>8 DEF Startable
  <1> HIDE DEF k, started, rest
  <1>10. Active(p, item') = Active(p, items) \cup started
    <2>1. \A i \in Items : item'[i].phase \in {"handle", "settle"} <=>
            i \in started \/ items[i].phase \in {"handle", "settle"}
      BY <1>6 DEF Item
    <2> QED
      BY <1>3, <2>1 DEF Active
  <1>11. Cardinality(Active(p, item')) = busy + k
    <2>1. Cardinality(Active(p, items) \cup started) =
            Cardinality(Active(p, items)) + Cardinality(started)
              - Cardinality(Active(p, items) \cap started)
      BY <1>5, ActiveFinite, FS_Union
    <2>2. Cardinality(Active(p, items) \cap started) = 0
      BY <1>4, FS_EmptySet
    <2> QED
      BY <1>1, <1>5, <1>10, <2>1, <2>2
  <1>12. Conserving(p)'
    <2>1. activeCount'[p] = busy + k /\ pending'[p] = rest
      BY <1>6 DEF TypeOK
    <2> QED
      BY <1>7, <1>9, <1>11, <2>1 DEF Conserving
  <1>13. ASSUME NEW p2 \in Procs \ {p}
         PROVE  Conserving(p2)'
    <2>1. Active(p2, item') = Active(p2, items)
      BY <1>3, <1>6 DEF Active
    <2>2. activeCount'[p2] = activeCount[p2] /\ pending'[p2] = pending[p2]
      BY <1>6 DEF TypeOK
    <2>3. Conserving(p2) /\ Active(p2, items) = Active(p2, item)
      OBVIOUS
    <2> QED
      BY <2>1, <2>2, <2>3 DEF Conserving
  <1> QED
    BY <1>12, <1>13

LEMMA AcceptConserves ==
  ASSUME TypeOK, QueueInv, \A p2 \in Procs : Conserving(p2),
         NEW q \in Requests, Accept(q)
  PROVE  \A p2 \in Procs : Conserving(p2)'
  <1> DEFINE p == Home[q]
             new == [phase |-> "pending", guid |-> request[q].guid,
                     outcome |-> "none", elapsed |-> 0]
  <1>0. p \in Procs
    BY DeliveryAssumption
  <1>1. PICK i \in Items : /\ Home[i] = p
                           /\ item[i].phase = "free"
                           /\ DrainQueue(p, Append(pending[p], i),
                                         [item EXCEPT ![i] = new], activeCount[p])
    BY DEF Accept
  <1> DEFINE queue == Append(pending[p], i)
             items == [item EXCEPT ![i] = new]
  <1>2. new \in Item
    <2>1. request[q].guid \in Guids
      BY RequestTypes DEF TypeOK
    <2> QED
      BY <2>1, DeliveryAssumption DEF Item, Outcome
  <1>3. items \in [Items -> Item]
    BY <1>2 DEF TypeOK
  <1>4. /\ queue \in Seq(Items)
        /\ Len(queue) = Len(pending[p]) + 1
        /\ \A n \in 1..Len(pending[p]) : queue[n] = pending[p][n]
        /\ queue[Len(queue)] = i
        /\ Len(pending[p]) \in Nat
        /\ \A n \in 1..Len(pending[p]) : pending[p][n] \in Items
    BY <1>0, AppendProperties, LenProperties, ElementOfSeq DEF TypeOK
  <1>5. \A n \in 1..Len(pending[p]) : /\ pending[p][n] # i
                                      /\ Home[pending[p][n]] = p
                                      /\ item[pending[p][n]].phase = "pending"
    BY <1>0, <1>1 DEF QueueInv
  <1>6. \A n \in 1..Len(queue) : n = Len(queue) \/ n \in 1..Len(pending[p])
    BY <1>4
  <1>7. /\ items[i] = new /\ new.phase = "pending"
        /\ \A j \in Items \ {i} : items[j] = item[j]
    BY DEF TypeOK
  <1>8. activeCount[p] \in Int
    BY <1>0 DEF TypeOK
  <1>9. DrainQueue(p, queue, items, activeCount[p])
    BY <1>1
  <1> HIDE DEF p, new, items, queue
  <1>10. \A n \in 1..Len(queue) : /\ Home[queue[n]] = p
                                  /\ items[queue[n]].phase = "pending"
    BY <1>1, <1>4, <1>5, <1>6, <1>7
  <1>11. \A m, n \in 1..Len(queue) : queue[m] = queue[n] => m = n
    BY <1>0, <1>4, <1>5, <1>6 DEF QueueInv
  <1>12. \A p2 \in Procs : Active(p2, items) = Active(p2, item)
    BY <1>1, <1>7 DEF Active
  <1>13. activeCount[p] = Cardinality(Active(p, items)) /\ activeCount[p] <= Concurrency
    BY <1>0, <1>12 DEF Conserving
  <1> QED
    BY <1>0, <1>3, <1>4, <1>8, <1>9, <1>10, <1>11, <1>12, <1>13, DrainConserves

LEMMA EndItemConserves ==
  ASSUME TypeOK, QueueInv, \A p2 \in Procs : Conserving(p2),
         NEW i \in Items, EndItem(i), item[i].phase = "settle"
  PROVE  \A p2 \in Procs : Conserving(p2)'
  <1> DEFINE p == Home[i]
             items == [item EXCEPT ![i] = FreeItem]
             busy == activeCount[p] - 1
  <1>1. p \in Procs
    BY DeliveryAssumption
  <1>2. items \in [Items -> Item]
    BY IdleTypes DEF TypeOK
  <1>3. pending[p] \in Seq(Items) /\ busy \in Int /\ activeCount[p] \in Int
    BY <1>1 DEF TypeOK
  <1>4. DrainQueue(p, pending[p], items, busy)
    BY DEF EndItem
  <1>5. /\ items[i] = FreeItem /\ FreeItem.phase = "free"
        /\ \A j \in Items \ {i} : items[j] = item[j]
    BY DEF TypeOK, FreeItem
  <1>6. \A n \in 1..Len(pending[p]) : /\ pending[p][n] \in Items /\ pending[p][n] # i
                                      /\ Home[pending[p][n]] = p
                                      /\ item[pending[p][n]].phase = "pending"
    BY <1>1, ElementOfSeq DEF TypeOK, QueueInv
  <1>7. \A m, n \in 1..Len(pending[p]) : pending[p][m] = pending[p][n] => m = n
    BY <1>1 DEF QueueInv
  <1>8. busy = Cardinality(Active(p, items)) /\ busy <= Concurrency
    <2>1. Active(p, items) = Active(p, item) \ {i} /\ i \in Active(p, item)
      BY <1>5 DEF Active
    <2>2. Cardinality(Active(p, items)) = Cardinality(Active(p, item)) - 1
      BY <2>1, ActiveFinite, FS_RemoveElement
    <2>3. activeCount[p] = Cardinality(Active(p, item)) /\ activeCount[p] <= Concurrency
      BY <1>1 DEF Conserving
    <2>4. Concurrency \in Nat
      BY DeliveryAssumption
    <2> QED
      BY <1>3, <2>2, <2>3, <2>4
  <1>9. \A p2 \in Procs \ {p} : Active(p2, items) = Active(p2, item)
    BY <1>5 DEF Active
  <1> HIDE DEF p, items, busy
  <1>10. \A n \in 1..Len(pending[p]) : /\ Home[pending[p][n]] = p
                                       /\ items[pending[p][n]].phase = "pending"
    BY <1>5, <1>6
  <1> QED
    BY <1>1, <1>2, <1>3, <1>4, <1>7, <1>8, <1>9, <1>10, DrainConserves

\* A step that neither counts nor queues anything, nor starts or ends an item.
LEMMA ConservingFrame ==
  ASSUME \A p2 \in Procs : Conserving(p2),
         pending' = pending, activeCount' = activeCount,
         \A i \in Items : item'[i].phase \in {"handle", "settle"} <=>
                            item[i].phase \in {"handle", "settle"}
  PROVE  \A p2 \in Procs : Conserving(p2)'
  <1>1. \A p : Active(p, item') = Active(p, item)
    BY DEF Active
  <1> QED
    BY <1>1 DEF Conserving

LEMMA ConservingStep ==
  ASSUME TypeOK, QueueInv, \A p2 \in Procs : Conserving(p2), [Next]_vars
  PROVE  \A p2 \in Procs : Conserving(p2)'
  <1>1. ASSUME NEW q \in Requests, Accept(q)
        PROVE  \A p2 \in Procs : Conserving(p2)'
    BY <1>1, AcceptConserves
  <1>2. ASSUME NEW i \in Items, SettleItem(i)
        PROVE  \A p2 \in Procs : Conserving(p2)'
    BY <1>2, EndItemConserves DEF SettleItem
  <1>3. ASSUME NEW i \in Items, SettleItemError(i)
        PROVE  \A p2 \in Procs : Conserving(p2)'
    <2>1. CASE EndItem(i)
      BY <1>3, <2>1, EndItemConserves DEF SettleItemError
    <2>2. CASE /\ item' = [item EXCEPT ![i].outcome = "error"]
               /\ UNCHANGED <<pending, activeCount>>
      <3>1. \A j \in Items : item'[j].phase = item[j].phase
        BY <2>2 DEF TypeOK, Item
      <3> QED
        BY <2>2, <3>1, ConservingFrame
    <2> QED
      BY <1>3, <2>1, <2>2 DEF SettleItemError
  <1>4. ASSUME NEW i \in Items, HandlerEnds(i)
        PROVE  \A p2 \in Procs : Conserving(p2)'
    <2>1. \A j \in Items : item'[j].phase \in {"handle", "settle"} <=>
                             item[j].phase \in {"handle", "settle"}
      BY <1>4 DEF HandlerEnds, TypeOK, Item
    <2> QED
      BY <1>4, <2>1, ConservingFrame DEF HandlerEnds
  <1>5. ASSUME Tick
        PROVE  \A p2 \in Procs : Conserving(p2)'
    <2>1. \A j \in Items : item'[j].phase = item[j].phase
      BY <1>5 DEF Tick, TypeOK, Item
    <2> QED
      BY <1>5, <2>1, ConservingFrame DEF Tick
  <1>6. ASSUME NEW p \in Procs, Crash(p), NEW p2 \in Procs
        PROVE  Conserving(p2)'
    <2>1. CASE p2 = p
      <3>1. Active(p, item') = {}
        BY <1>6 DEF Crash, Active, FreeItem
      <3>2. pending'[p] = <<>> /\ activeCount'[p] = 0
        BY <1>6 DEF Crash, TypeOK
      <3>3. Concurrency \in Nat \ {0}
        BY DeliveryAssumption
      <3> QED
        BY <2>1, <3>1, <3>2, <3>3, FS_EmptySet DEF Conserving
    <2>2. CASE p2 # p
      <3>1. Active(p2, item') = Active(p2, item)
        BY <1>6, <2>2 DEF Crash, Active
      <3>2. pending'[p2] = pending[p2] /\ activeCount'[p2] = activeCount[p2]
        BY <1>6, <2>2 DEF Crash, TypeOK
      <3> QED
        BY <3>1, <3>2 DEF Conserving
    <2> QED
      BY <2>1, <2>2
  <1>7. ASSUME pending' = pending, item' = item, activeCount' = activeCount
        PROVE  \A p2 \in Procs : Conserving(p2)'
    BY <1>7, ConservingFrame
  <1> QED
    BY <1>1, <1>2, <1>3, <1>4, <1>5, <1>6, <1>7
    DEF Next, RequestStep, ItemStep, ReplayStep, Receive, LoseDelivery, GiveUp,
        Suppress, Create, CreateClash, Retake, RequestError, ReplayRead,
        ReplayWrite, ReplayClash, ReplayHandlerEnds, ReplaySettle, ReplayError,
        Prune, vars

\* Whatever fails or crashes, a process counts exactly the deliveries it
\* handles, handles no more than its limit and lets none wait beside a free slot.
THEOREM SlotsAreUsed == Spec => []WorkConserving
  <1>1. Init => QueueInv /\ \A p \in Procs : Conserving(p)
    <2>1. ASSUME Init, NEW p \in Procs
          PROVE  Conserving(p)
      <3>1. Active(p, item) = {} /\ pending[p] = <<>> /\ activeCount[p] = 0
        BY <2>1 DEF Init, Active, FreeItem
      <3> QED
        BY <3>1, FS_EmptySet, DeliveryAssumption DEF Conserving
    <2>2. Init => QueueInv
      BY DeliveryInit DEF DeliveryInv
    <2> QED
      BY <2>1, <2>2
  <1>2. TypeOK /\ QueueInv /\ (\A p \in Procs : Conserving(p)) /\ [Next]_vars =>
          QueueInv' /\ (\A p \in Procs : Conserving(p))'
    BY QueueInvStep, ConservingStep
  <1>3. (\A p \in Procs : Conserving(p)) => WorkConserving
    BY WorkConservingIs
  <1> QED
    BY <1>1, <1>2, <1>3, DeliveryTypeCorrect, PTL DEF Spec
=============================================================================
