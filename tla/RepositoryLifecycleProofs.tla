---------------------- MODULE RepositoryLifecycleProofs ----------------------
(***************************************************************************)
(* Where a repository's life ends up: the token of its row is the secret of *)
(* its workflows (SecretMatches), and its clients are those GitHub and the  *)
(* database hold (ClientsAccounted), proved for every number of handlers,   *)
(* environments, starts and faults.                                         *)
(*                                                                         *)
(* Neither property says anything while somebody is at work, so each needs  *)
(* an invariant of every worker's step: BasicInv of what a worker           *)
(* remembers, TokenInv of the way a token takes from its generation to      *)
(* GitHub, CalmInv of the way a client takes from its creation to the       *)
(* database and back to its deletion.  The last two hold as long as the     *)
(* history records nothing that excepts their property.                     *)
(***************************************************************************)
EXTENDS RepositoryLifecycle, WellFoundedInduction, TLAPS

-----------------------------------------------------------------------------
(* The types, and what workers remember.                                    *)

Hurts == Unhurt..TokenHurt

WorkerType ==
  [at : Points, does : Tasks, id : Nat, inst : Nat, token : Nat,
   left : SUBSET Environments, seen : [Environments -> Nat]]

\* The rest of the types.
DataType ==
  /\ row \in [id : Nat, active : BOOLEAN, inst : Nat, token : Nat]
  /\ row.id = 0 => row = NoRow
  /\ app \in Nat /\ secret \in Nat /\ branch \in BOOLEAN
  /\ shared \in [Environments -> Nat] /\ kept \in [Environments -> Nat]
  /\ clients \in [Environments -> SUBSET (1..fresh.client)]
  /\ fresh \in [row : Nat, inst : Nat, token : Nat, client : Nat]
  /\ starts \in 0..MaxStarts /\ faults \in 0..MaxFaults
  /\ hurt \in Hurts

\* The job provisions tokens and does nothing else.
JobStays == worker[Job].at \in {"idle", "ensure", "write", "token"}

\* What a worker remembers at each point.
Remembers(w) ==
  LET r == worker[w] IN
  /\ r.at = "write" => r.id # 0
  /\ r.at \notin {"delete", "share", "keep"} => r.seen = Nothing
  /\ r.at = "delete" => \A e \in Environments \ r.left : r.seen[e] = 0
  /\ r.at \in {"share", "keep"} =>
       \E e \in r.left : r.seen[e] # 0 /\ \A f \in Environments \ {e} : r.seen[f] = 0

WorkerInv == JobStays /\ \A w \in Workers : Remembers(w)
BasicInv == TypeOK /\ WorkerInv

LEMMA MaxOfTwo ==
  ASSUME NEW a \in Int, NEW b \in Int
  PROVE  Max({a, b}) = IF a >= b THEN a ELSE b
BY DEF Max

LEMMA MinIsLeast ==
  ASSUME NEW S \in SUBSET Nat, S # {}
  PROVE  Min(S) \in S /\ \A y \in S : Min(S) <= y
<1> DEFINE R == {p \in Nat \X Nat : p[1] < p[2]}
<1>1. IsWellFoundedOn(R, Nat)
  BY NatLessThanWellFounded DEF OpToRel
<1>2. PICK x \in S : \A y \in S : ~ (<<y, x>> \in R)
  <2> HIDE DEF R
  <2> QED BY <1>1, WFMin, Zenon
<1>3. ASSUME NEW y \in S PROVE x <= y
  <2>1. x \in Nat /\ y \in Nat
    OBVIOUS
  <2>2. <<y, x>> \notin R
    BY <1>2
  <2>3. y < x => <<y, x>> \in R
    BY <2>1
  <2> QED BY <2>1, <2>2, <2>3
<1> QED BY <1>3 DEF Min

\* The history only grows, and covers what a step adds to it.
LEMMA HurtGrows ==
  ASSUME hurt \in Hurts, NEW harm \in Hurts, Hurt(harm)
  PROVE  hurt' \in Hurts /\ hurt' >= hurt /\ hurt' >= harm
BY MaxOfTwo DEF Hurt, Hurts, Unhurt, TokenHurt

LEMMA SetMoves ==
  ASSUME worker \in [Workers -> WorkerType], NEW w \in Workers, NEW r \in WorkerType, Set(w, r)
  PROVE  /\ worker' \in [Workers -> WorkerType]
         /\ worker'[w] = r
         /\ \A v \in Workers \ {w} : worker'[v] = worker[v]
BY DEF Set

LEMMA GoMoves ==
  ASSUME worker \in [Workers -> WorkerType], NEW w \in Workers, NEW p \in Points, Go(w, p)
  PROVE  /\ worker' \in [Workers -> WorkerType]
         /\ worker'[w] = [worker[w] EXCEPT !.at = p]
         /\ \A v \in Workers \ {w} : worker'[v] = worker[v]
<1>1. [worker[w] EXCEPT !.at = p] \in WorkerType
  BY DEF WorkerType
<1> QED BY <1>1, SetMoves DEF Go

LEMMA IdleType == Idle \in WorkerType
BY DEF Idle, WorkerType, Points, Cleaning, Provisioning, Tasks, Cleanups, Nothing

LEMMA StopMoves ==
  ASSUME worker \in [Workers -> WorkerType], NEW w \in Workers, Stop(w)
  PROVE  /\ worker' \in [Workers -> WorkerType]
         /\ worker'[w] = Idle
         /\ \A v \in Workers \ {w} : worker'[v] = worker[v]
BY IdleType, SetMoves DEF Stop

LEMMA PastType ==
  ASSUME worker \in [Workers -> WorkerType], NEW w \in Workers, NEW e \in Environments, NEW p \in Points
  PROVE  /\ Past(w, e, p) \in WorkerType
         /\ Past(w, e, p).at = IF worker[w].left = {e} THEN p ELSE worker[w].at
         /\ Past(w, e, p).left = worker[w].left \ {e}
         /\ Past(w, e, p).seen = [worker[w].seen EXCEPT ![e] = 0]
         /\ Past(w, e, p).id = worker[w].id /\ Past(w, e, p).token = worker[w].token
         /\ Past(w, e, p).does = worker[w].does /\ Past(w, e, p).inst = worker[w].inst
BY DEF WorkerType, Past

LEMMA TypeParts ==
  TypeOK <=> DataType /\ worker \in [Workers -> WorkerType] /\ isRunning = Busy(Job)
BY DEF TypeOK, DataType, WorkerType, Hurts

LEMMA PastMoves ==
  ASSUME worker \in [Workers -> WorkerType], NEW w \in Workers, NEW e \in worker[w].left, NEW p \in Points,
         Set(w, Past(w, e, p))
  PROVE  /\ worker' \in [Workers -> WorkerType] /\ e \in Environments
         /\ worker'[w].at = (IF worker[w].left = {e} THEN p ELSE worker[w].at)
         /\ worker'[w].left = worker[w].left \ {e}
         /\ worker'[w].seen = [worker[w].seen EXCEPT ![e] = 0]
         /\ worker'[w].id = worker[w].id /\ worker'[w].token = worker[w].token
         /\ \A v \in Workers \ {w} : worker'[v] = worker[v]
<1>1. e \in Environments
  BY DEF WorkerType
<1> QED BY <1>1, PastType, SetMoves

LEMMA InitBasic ==
  ASSUME Init
  PROVE  BasicInv
<1>1. worker = [w \in Workers |-> Idle] /\ Job \in Workers
  BY DEF Init, Workers
<1>2. worker \in [Workers -> WorkerType] /\ \A w \in Workers : worker[w] = Idle
  BY <1>1, IdleType
<1>3. DataType
  <2>1. /\ row \in [id : Nat, active : BOOLEAN, inst : Nat, token : Nat]
        /\ row.id = 0 => row = NoRow
        /\ fresh \in [row : Nat, inst : Nat, token : Nat, client : Nat]
    BY DEF Init, NoRow
  <2>2. /\ app \in Nat /\ secret \in Nat /\ branch \in BOOLEAN
        /\ shared \in [Environments -> Nat] /\ kept \in [Environments -> Nat]
        /\ clients \in [Environments -> SUBSET (1..fresh.client)]
    BY DEF Init, Nothing
  <2>3. starts \in 0..MaxStarts /\ faults \in 0..MaxFaults /\ hurt \in Hurts
    BY LifeAssumption DEF Init, Hurts, Unhurt, TokenHurt
  <2> QED BY <2>1, <2>2, <2>3 DEF DataType
<1>4. isRunning = Busy(Job)
  <2>1. worker[Job].at = "idle"
    BY <1>1, <1>2 DEF Idle
  <2>2. isRunning = FALSE /\ Busy(Job) = FALSE
    BY <2>1 DEF Init, Busy
  <2> QED BY <2>2
<1>5. WorkerInv
  BY <1>1, <1>2 DEF WorkerInv, JobStays, Remembers, Idle
<1> QED BY <1>2, <1>3, <1>4, <1>5, TypeParts DEF BasicInv

\* A worker moves on.
Moved(w, r) ==
  /\ worker' \in [Workers -> WorkerType]
  /\ worker'[w] = r
  /\ \A v \in Workers \ {w} : worker'[v] = worker[v]

\* What a move of one worker must ensure.
LEMMA BasicMove ==
  ASSUME BasicInv, DataType', NEW w \in Workers, NEW r, Moved(w, r),
         Remembers(w)',
         IF w = Job THEN r.at \in {"idle", "ensure", "write", "token"} /\ isRunning' = (r.at # "idle")
                    ELSE isRunning' = isRunning
  PROVE  BasicInv'
<1>1. Job \in Workers
  BY DEF Workers
<1>2. isRunning' = Busy(Job)'
  BY <1>1, Zenon DEF BasicInv, TypeOK, Busy, Moved
<1>3. JobStays'
  BY <1>1 DEF BasicInv, WorkerInv, JobStays, Moved
<1>4. ASSUME NEW v \in Workers, v # w PROVE Remembers(v)'
  BY <1>4 DEF BasicInv, WorkerInv, Remembers, Moved
<1>5. worker' \in [Workers -> WorkerType]
  BY DEF Moved
<1>6. TypeOK'
  BY <1>2, <1>5 DEF TypeOK, DataType, WorkerType, Hurts
<1> QED BY <1>3, <1>4, <1>6 DEF BasicInv, WorkerInv

\* A handler is not the job.
LEMMA HandlerFacts ==
  ASSUME BasicInv, NEW h \in Handlers
  PROVE  /\ h \in Workers /\ h # Job
         /\ DataType /\ worker \in [Workers -> WorkerType] /\ worker[h] \in WorkerType
         /\ Remembers(h)
BY LifeAssumption, TypeParts DEF Workers, BasicInv, WorkerInv

-----------------------------------------------------------------------------
(* Every step keeps the types and what the workers remember.                *)

LEMMA StartBasic ==
  ASSUME BasicInv, NEW h \in Handlers,
         \/ \E task \in {"install", "add"} : Grant(h, task)
         \/ \E task \in {"remove", "uninstall"} : Deny(h, task)
         \/ \E task \in {"init", "reinit", "uninit"} : Ask(h, task)
         \/ \E task \in {"clear", "drop"} : Request(h, task)
         \/ Push(h)
  PROVE  BasicInv' /\ UNCHANGED <<store, secret, shared, clients, hurt>> /\ worker[h].at = "idle"
         /\ \E r \in WorkerType : Moved(h, r) /\ r.at \in {"upsert", "leave", "select", "command", "check", "find"}
<1> USE HandlerFacts
<1>1. PICK r \in WorkerType :
        /\ Set(h, r) /\ r.seen = Nothing
        /\ r.at \in {"upsert", "leave", "select", "command", "check", "find"}
  <2> DEFINE Starts(r) == /\ Set(h, r) /\ r.seen = Nothing
                          /\ r.at \in {"upsert", "leave", "select", "command", "check", "find"}
  <2>1. ASSUME NEW task \in {"install", "add"}, Grant(h, task) PROVE \E r \in WorkerType : Starts(r)
    <3> DEFINE r == [Idle EXCEPT !.at = "upsert", !.does = task, !.inst = fresh'.inst]
    <3>1. fresh'.inst \in Nat
      BY <2>1 DEF Grant, DataType
    <3>2. r \in WorkerType /\ r.seen = Nothing /\ r.at = "upsert"
      BY <3>1, IdleType DEF WorkerType, Idle, Points, Tasks
    <3>3. Set(h, r)
      BY <2>1 DEF Grant
    <3> HIDE DEF r
    <3> QED BY <3>2, <3>3
  <2>2. ASSUME NEW task \in {"remove", "uninstall"}, Deny(h, task) PROVE \E r \in WorkerType : Starts(r)
    <3> DEFINE r == [Idle EXCEPT !.at = IF task = "remove" THEN "leave" ELSE "select",
                                 !.does = task, !.inst = app]
    <3>1. r \in WorkerType /\ r.seen = Nothing /\ r.at \in {"leave", "select"}
      BY IdleType DEF WorkerType, Idle, Points, Tasks, Cleanups, DataType
    <3>2. Set(h, r)
      BY <2>2 DEF Deny
    <3> HIDE DEF r
    <3> QED BY <3>1, <3>2
  <2>3. ASSUME NEW task \in Tasks, NEW point \in {"command", "check", "find"}, Wants(h, task, point)
        PROVE  \E r \in WorkerType : Starts(r)
    <3> DEFINE r == [Idle EXCEPT !.does = task, !.at = point]
    <3>1. r \in WorkerType /\ r.seen = Nothing /\ r.at \in {"command", "check", "find"}
      BY IdleType DEF WorkerType, Idle, Points
    <3>2. Set(h, r)
      BY <2>3 DEF Wants
    <3> HIDE DEF r
    <3> QED BY <3>1, <3>2
  <2>4. {"init", "reinit", "uninit", "clear", "drop", "push"} \subseteq Tasks
    BY DEF Tasks, Cleanups
  <2> HIDE DEF Starts
  <2>5. \E r \in WorkerType : Starts(r)
    BY <2>1, <2>2, <2>3, <2>4 DEF Ask, Request, Push
  <2> QED BY <2>5 DEF Starts
<1>2. Moved(h, r)
  BY <1>1, SetMoves DEF Moved
<1>3. DataType' /\ isRunning' = isRunning /\ UNCHANGED <<store, secret, shared, clients, hurt>> /\ worker[h].at = "idle"
  <2>1. Started(h) /\ app' \in Nat /\ fresh' \in [row : Nat, inst : Nat, token : Nat, client : Nat]
        /\ fresh'.client = fresh.client
    BY DEF Grant, Deny, Ask, Request, Push, Wants, DataType
  <2> QED BY <2>1, LifeAssumption DEF Started, DataType, store, Hurts, Busy
<1>4. Remembers(h)'
  BY <1>1, <1>2 DEF Remembers, Moved
<1> QED BY <1>1, <1>2, <1>3, <1>4, BasicMove

LEMMA GoBasic ==
  ASSUME BasicInv, DataType', NEW h \in Handlers, NEW p \in Points \ {"write", "delete", "share", "keep"},
         Go(h, p), isRunning' = isRunning, worker[h].seen = Nothing
  PROVE  BasicInv'
<1> DEFINE r == [worker[h] EXCEPT !.at = p]
<1>1. h \in Workers /\ h # Job /\ worker[h] \in WorkerType
  BY HandlerFacts
<1>2. Moved(h, r) /\ r.at = p /\ r.seen = Nothing
  BY <1>1, HandlerFacts, GoMoves DEF Moved, WorkerType
<1>3. Remembers(h)'
  BY <1>2 DEF Moved, Remembers
<1> QED BY <1>1, <1>2, <1>3, BasicMove

LEMMA StopBasic ==
  ASSUME BasicInv, DataType', NEW w \in Workers, Stop(w), isRunning' = IF w = Job THEN FALSE ELSE isRunning
  PROVE  BasicInv' /\ Moved(w, Idle)
<1>1. Moved(w, Idle) /\ Idle.at = "idle" /\ Idle.seen = Nothing
  BY StopMoves, TypeParts DEF Moved, BasicInv, Idle
<1>2. Remembers(w)'
  BY <1>1 DEF Moved, Remembers
<1> QED BY <1>1, <1>2, BasicMove

\* Of a handler that is not in the middle of its environments, nothing is remembered.
LEMMA SeenNothing ==
  ASSUME BasicInv, NEW w \in Workers, worker[w].at \notin {"delete", "share", "keep"}
  PROVE  worker[w].seen = Nothing
BY DEF BasicInv, WorkerInv, Remembers

LEMMA PointsIn ==
  /\ Cleaning \cup Provisioning \subseteq Points
  /\ {"idle", "upsert", "leave", "select", "find", "mark", "drop", "command", "check", "issue", "ensure", "setup",
      "list", "delete", "unsecret", "unshare", "forget", "write", "token", "create", "share", "keep"} \subseteq Points
BY DEF Points, Cleaning, Provisioning

LEMMA InstallationBasic ==
  ASSUME BasicInv, NEW h \in Handlers, Upsert(h) \/ Withdraw(h) \/ Select(h) \/ MarkInactive(h) \/ DropRow(h)
  PROVE  BasicInv'
<1>0. h \in Workers /\ h # Job /\ DataType /\ worker[h] \in WorkerType
  BY HandlerFacts
<1>1. /\ UNCHANGED <<app, secret, shared, branch, clients, isRunning, starts, faults>>
      /\ fresh' \in [row : Nat, inst : Nat, token : Nat, client : Nat]
      /\ fresh'.client = fresh.client
  BY <1>0 DEF Upsert, Withdraw, Select, MarkInactive, DropRow, RowStep, github, bounds, DataType
<1>2. kept' \in [Environments -> Nat]
  BY <1>0 DEF Upsert, Withdraw, Select, MarkInactive, DropRow, store, Erase, DataType, Nothing
<1>3. hurt' \in Hurts
  <2>1. \A harm \in Hurts : Hurt(harm) => hurt' \in Hurts
    BY <1>0, HurtGrows DEF DataType
  <2>2. Discard(h) => hurt' \in Hurts
    BY <2>1 DEF Discard, When, Hurts, Unhurt, ClientHurt, TokenHurt
  <2> QED BY <1>0, <2>2 DEF Upsert, Withdraw, Select, MarkInactive, DropRow, Erase, DataType
<1>4. row' \in [id : Nat, active : BOOLEAN, inst : Nat, token : Nat] /\ (row'.id = 0 => row' = NoRow)
  <2>1. CASE Upsert(h)
    BY <1>0, <2>1 DEF Upsert, DataType, WorkerType
  <2>2. CASE Withdraw(h)
    BY <1>0, <2>2 DEF Withdraw, DataType
  <2>3. CASE row' = row
    BY <1>0, <2>3 DEF DataType
  <2>4. CASE row' = NoRow
    BY <2>4 DEF NoRow
  <2> QED BY <2>1, <2>2, <2>3, <2>4 DEF Select, MarkInactive, DropRow, Erase, store
<1>5. DataType'
  BY <1>0, <1>1, <1>2, <1>3, <1>4 DEF DataType
<1>6. CASE Stop(h)
  BY <1>0, <1>1, <1>5, <1>6, StopBasic
<1>7. ASSUME NEW p \in {"find", "mark"}, Go(h, p), At(h, "leave") \/ At(h, "select") PROVE BasicInv'
  <2>1. p \in Points
    BY PointsIn
  <2>2. worker[h].seen = Nothing
    BY <1>0, <1>7, SeenNothing DEF At
  <2> QED BY <1>1, <1>5, <1>7, <2>1, <2>2, GoBasic
<1> QED BY <1>6, <1>7 DEF Upsert, Withdraw, Select, MarkInactive, DropRow

LEMMA WipeBasic ==
  ASSUME BasicInv, NEW h \in Handlers, FindAndWipe(h) \/ Forget(h)
  PROVE  BasicInv'
<1>0. h \in Workers /\ h # Job /\ DataType /\ worker[h] \in WorkerType
  BY HandlerFacts
<1>1. hurt' \in Hurts
  BY <1>0, HurtGrows DEF FindAndWipe, Forget, DataType, Hurts, Unhurt, TokenHurt, When
<1>2. row' \in [id : Nat, active : BOOLEAN, inst : Nat, token : Nat] /\ (row'.id = 0 => row' = NoRow)
  BY <1>0 DEF FindAndWipe, Forget, DataType, NoRow
<1>3. kept' \in [Environments -> Nat]
  BY <1>0 DEF FindAndWipe, Forget, DataType, Nothing
<1>4. DataType' /\ isRunning' = isRunning
  BY <1>0, <1>1, <1>2, <1>3 DEF FindAndWipe, Forget, RowStep, github, bounds, DataType
<1>5. worker[h].seen = Nothing
  BY <1>0, SeenNothing DEF FindAndWipe, Forget, At
<1>6. CASE Stop(h)
  BY <1>0, <1>4, <1>6, StopBasic
<1>7. ASSUME NEW p \in {"mark", "check", "drop"}, Go(h, p) PROVE BasicInv'
  <2>1. p \in Points
    BY PointsIn
  <2> QED BY <1>4, <1>5, <1>7, <2>1, GoBasic
<1>8. CASE Set(h, [worker[h] EXCEPT !.at = "list", !.id = row.id])
  <2> DEFINE r == [worker[h] EXCEPT !.at = "list", !.id = row.id]
  <2>1. r \in WorkerType /\ r.at = "list" /\ r.seen = Nothing
    BY <1>0, <1>5, PointsIn DEF WorkerType, DataType
  <2>2. Moved(h, r)
    BY <1>0, <1>8, <2>1, SetMoves DEF Moved, BasicInv, TypeOK, WorkerType
  <2>3. Remembers(h)'
    BY <2>1, <2>2 DEF Moved, Remembers
  <2> QED BY <1>0, <1>4, <2>1, <2>2, <2>3, BasicMove
<1> QED BY <1>6, <1>7, <1>8 DEF FindAndWipe, Forget

LEMMA ListBasic ==
  ASSUME BasicInv, NEW h \in Handlers, ListClients(h)
  PROVE  BasicInv'
<1>0. h \in Workers /\ h # Job /\ DataType /\ worker[h] \in WorkerType /\ worker \in [Workers -> WorkerType]
  BY HandlerFacts
<1>1. DataType' /\ isRunning' = isRunning
  <2>1. hurt' \in Hurts
    BY <1>0, HurtGrows DEF ListClients, DataType, Hurts, ClientHurt, Unhurt, TokenHurt
  <2>2. faults' \in 0..MaxFaults
    BY <1>0, LifeAssumption DEF ListClients, Fault, DataType
  <2> QED BY <1>0, <2>1, <2>2 DEF ListClients, DataType, store, github
<1>2. worker[h].seen = Nothing
  BY <1>0, SeenNothing DEF ListClients, At
<1>3. CASE Go(h, "unsecret")
  BY <1>1, <1>2, <1>3, GoBasic, PointsIn
<1>4. CASE ~Go(h, "unsecret")
  <2> DEFINE seen == [e \in Environments |-> IF clients[e] = {} THEN 0 ELSE Min(clients[e])]
             r == [worker[h] EXCEPT !.at = "delete", !.left = Environments, !.seen = seen]
  <2>1. seen \in [Environments -> Nat]
    <3>1. ASSUME NEW e \in Environments, clients[e] # {} PROVE Min(clients[e]) \in Nat
      BY <1>0, <3>1, MinIsLeast DEF DataType
    <3> QED BY <3>1
  <2>2. Set(h, r)
    BY <1>4 DEF ListClients
  <2> HIDE DEF seen
  <2>3. r \in WorkerType /\ r.at = "delete" /\ r.left = Environments
    BY <1>0, <2>1, PointsIn DEF WorkerType
  <2> HIDE DEF r
  <2>4. Moved(h, r)
    BY <1>0, <2>2, <2>3, SetMoves DEF Moved
  <2>5. Remembers(h)'
    BY <2>3, <2>4 DEF Moved, Remembers
  <2> QED BY <1>0, <1>1, <2>3, <2>4, <2>5, BasicMove
<1> QED BY <1>3, <1>4

\* One environment is dealt with.
LEMMA PastBasic ==
  ASSUME BasicInv, DataType', NEW h \in Handlers, NEW e \in worker[h].left,
         NEW p \in {"unsecret", "forget", "setup"},
         worker[h].at \in {"delete", "unshare", "create"}, Set(h, Past(h, e, p)), isRunning' = isRunning
  PROVE  BasicInv' /\ Moved(h, Past(h, e, p))
<1>0. /\ h \in Workers /\ h # Job /\ worker[h] \in WorkerType /\ worker \in [Workers -> WorkerType]
      /\ Remembers(h) /\ e \in Environments /\ p \in Points
  BY HandlerFacts, PointsIn DEF WorkerType
<1>1. Moved(h, Past(h, e, p))
  BY <1>0, PastType, SetMoves DEF Moved
<1>2. Remembers(h)'
  <2> DEFINE r == Past(h, e, p)
  <2>1. /\ r.at = IF worker[h].left = {e} THEN p ELSE worker[h].at
        /\ r.left = worker[h].left \ {e} /\ r.seen = [worker[h].seen EXCEPT ![e] = 0]
    BY <1>0, PastType
  <2>2. worker[h].seen \in [Environments -> Nat]
    BY <1>0 DEF WorkerType
  <2>3. worker'[h] = r
    BY <1>1 DEF Moved
  <2> HIDE DEF r
  <2>4. ASSUME r.at # "delete" PROVE r.seen = Nothing
    <3>1. CASE worker[h].at = "delete"
      <4>1. worker[h].left = {e}
        BY <2>1, <2>4, <3>1
      <4>2. \A f \in Environments \ {e} : worker[h].seen[f] = 0
        BY <1>0, <3>1, <4>1 DEF Remembers
      <4> QED BY <2>1, <2>2, <4>2 DEF Nothing
    <3>2. CASE worker[h].at \in {"unshare", "create"}
      BY <1>0, <2>1, <3>2 DEF Remembers, Nothing
    <3> QED BY <3>1, <3>2
  <2>5. ASSUME r.at = "delete" PROVE \A f \in Environments \ r.left : r.seen[f] = 0
    BY <1>0, <2>1, <2>2, <2>5 DEF Remembers
  <2> QED BY <2>1, <2>3, <2>4, <2>5 DEF Remembers
<1> QED BY <1>0, <1>1, <1>2, BasicMove

LEMMA DeleteBasic ==
  ASSUME BasicInv, NEW h \in Handlers, DeleteClient(h) \/ Unshare(h)
  PROVE  BasicInv'
<1>0. h \in Workers /\ h # Job /\ DataType /\ worker[h] \in WorkerType
  BY HandlerFacts
<1>1. PICK e \in worker[h].left : \/ DeleteClient(h) /\ Set(h, Past(h, e, "unsecret"))
                                  \/ Unshare(h) /\ Set(h, Past(h, e, "forget"))
  BY DEF DeleteClient, Unshare
<1>2. hurt' \in Hurts
  BY <1>0, HurtGrows DEF DeleteClient, Unshare, DataType, Hurts, ClientHurt, Unhurt, TokenHurt
<1>3. faults' \in 0..MaxFaults
  BY <1>0, LifeAssumption DEF DeleteClient, Unshare, Fault, DataType
<1>4. clients' \in [Environments -> SUBSET (1..fresh.client)] /\ shared' \in [Environments -> Nat]
  BY <1>0 DEF DeleteClient, Unshare, DataType, store, github
<1>5. DataType' /\ isRunning' = isRunning
  BY <1>0, <1>2, <1>3, <1>4 DEF DeleteClient, Unshare, DataType, store, github
<1> QED BY <1>1, <1>5, PastBasic DEF DeleteClient, Unshare, At

LEMMA UnsecretBasic ==
  ASSUME BasicInv, NEW h \in Handlers, Unsecret(h)
  PROVE  BasicInv'
<1>0. h \in Workers /\ h # Job /\ DataType /\ worker[h] \in WorkerType /\ worker \in [Workers -> WorkerType]
  BY HandlerFacts
<1>1. DataType' /\ isRunning' = isRunning
  BY <1>0, LifeAssumption DEF Unsecret, Fault, DataType, store, github
<1> DEFINE r == [worker[h] EXCEPT !.at = "unshare", !.left = Environments]
<1>2. worker[h].seen = Nothing
  BY <1>0, SeenNothing DEF Unsecret, At
<1>3. r \in WorkerType /\ r.at = "unshare" /\ r.seen = Nothing
  BY <1>0, <1>2, PointsIn DEF WorkerType
<1>4. Moved(h, r)
  BY <1>0, <1>3, SetMoves DEF Moved, Unsecret
<1>5. Remembers(h)'
  BY <1>3, <1>4 DEF Moved, Remembers
<1> QED BY <1>0, <1>1, <1>3, <1>4, <1>5, BasicMove

LEMMA CommandBasic ==
  ASSUME BasicInv, NEW h \in Handlers, Command(h) \/ CheckInitialized(h) \/ OpenIssue(h) \/ SetUpBranch(h)
  PROVE  BasicInv'
<1>0. h \in Workers /\ h # Job /\ DataType /\ worker[h] \in WorkerType
  BY HandlerFacts
<1>1. DataType'
  <2>1. hurt' \in Hurts
    <3>1. CASE CheckInitialized(h)
      BY <1>0, <3>1, HurtGrows DEF CheckInitialized, DataType, Hurts, ClientHurt, Unhurt, TokenHurt, When
    <3> QED BY <1>0, <3>1 DEF Command, CallThen, OpenIssue, SetUpBranch, DataType
  <2>2. faults' \in 0..MaxFaults
    <3>1. faults' = faults \/ Fault
      BY DEF Command, CallThen, CheckInitialized, OpenIssue, SetUpBranch, RowStep, bounds
    <3> QED BY <1>0, <3>1, LifeAssumption DEF Fault, DataType
  <2>3. branch' \in BOOLEAN
    BY <1>0 DEF Command, CallThen, CheckInitialized, OpenIssue, SetUpBranch, DataType, RowStep, github
  <2>4. UNCHANGED <<row, kept, app, secret, shared, clients, fresh, starts>>
    BY DEF Command, CallThen, CheckInitialized, OpenIssue, SetUpBranch, RowStep, github, bounds, store
  <2> QED BY <1>0, <2>1, <2>2, <2>3, <2>4 DEF DataType
<1>2. worker[h].seen = Nothing
  BY <1>0, SeenNothing DEF Command, CheckInitialized, OpenIssue, SetUpBranch, At
<1>3. isRunning' = isRunning
  BY <1>0 DEF Command, CallThen, CheckInitialized, OpenIssue, SetUpBranch, Leave, Released, RowStep
<1>4. CASE Stop(h)
  BY <1>0, <1>1, <1>3, <1>4, StopBasic
<1>5. ASSUME NEW p \in {"check", "find", "issue", "ensure"}, Go(h, p) PROVE BasicInv'
  <2>1. p \in Points
    BY PointsIn
  <2> QED BY <1>1, <1>2, <1>3, <1>5, <2>1, GoBasic
<1> QED BY <1>4, <1>5 DEF Command, CallThen, CheckInitialized, OpenIssue, SetUpBranch, Leave

LEMMA TokenBasic ==
  ASSUME BasicInv, NEW w \in Workers, ReadToken(w) \/ WriteToken(w) \/ PushToken(w)
  PROVE  BasicInv'
<1>0. DataType /\ worker \in [Workers -> WorkerType] /\ worker[w] \in WorkerType /\ isRunning = Busy(Job)
  BY TypeParts DEF BasicInv
<1>1. DataType'
  <2>1. hurt' \in Hurts
    BY <1>0, HurtGrows DEF ReadToken, WriteToken, PushToken, DataType, Hurts, ByJob, ClientHurt, Unhurt, TokenHurt, When
  <2>2. faults' \in 0..MaxFaults
    BY <1>0, LifeAssumption DEF ReadToken, WriteToken, PushToken, Fault, DataType, bounds
  <2>3. secret' \in Nat
    BY <1>0 DEF ReadToken, WriteToken, PushToken, DataType, github, WorkerType
  <2>4. /\ row' \in [id : Nat, active : BOOLEAN, inst : Nat, token : Nat] /\ (row'.id = 0 => row' = NoRow)
        /\ fresh' \in [row : Nat, inst : Nat, token : Nat, client : Nat] /\ fresh'.client = fresh.client
    <3>1. CASE row' = row /\ fresh' = fresh
      BY <1>0, <3>1 DEF DataType
    <3>2. ASSUME At(w, "write"), row.id = worker[w].id, fresh' = [fresh EXCEPT !.token = @ + 1],
                 row' = [row EXCEPT !.token = fresh'.token]
          PROVE  row.id # 0 /\ row' \in [id : Nat, active : BOOLEAN, inst : Nat, token : Nat] /\ row'.id = row.id
                 /\ fresh' \in [row : Nat, inst : Nat, token : Nat, client : Nat] /\ fresh'.client = fresh.client
      BY <1>0, <3>2 DEF DataType, BasicInv, WorkerInv, Remembers, At
    <3> QED BY <3>1, <3>2 DEF ReadToken, WriteToken, PushToken, store
  <2>5. UNCHANGED <<kept, app, shared, branch, clients, starts>>
    BY DEF ReadToken, WriteToken, PushToken, store, github, bounds
  <2> QED BY <1>0, <2>1, <2>2, <2>3, <2>4, <2>5 DEF DataType
<1>2. CASE Leave(w)
  BY <1>1, <1>2, StopBasic DEF Leave, Released
<1>3. ASSUME NEW r \in WorkerType, Set(w, r), isRunning' = isRunning, r.seen = worker[w].seen,
             r.at \in {"write", "token"} \/ (w # Job /\ r.at = "create"), r.at = "write" => r.id # 0
      PROVE  BasicInv'
  <2>1. Moved(w, r)
    BY <1>0, <1>3, SetMoves DEF Moved
  <2>2. worker[w].seen = Nothing /\ worker[w].at # "idle"
    BY <1>0, SeenNothing DEF ReadToken, WriteToken, PushToken, At
  <2>3. Remembers(w)'
    BY <1>3, <2>1, <2>2 DEF Moved, Remembers
  <2>4. w = Job => isRunning' = (r.at # "idle")
    BY <1>0, <1>3, <2>2 DEF Busy
  <2> QED BY <1>1, <1>3, <2>1, <2>3, <2>4, BasicMove
<1>4. CASE ReadToken(w) /\ ~Leave(w)
  <2> DEFINE r == [worker[w] EXCEPT !.id = row.id, !.token = row.token,
                                    !.at = IF row.token = 0 THEN "write" ELSE "token"]
  <2>1. row.id # 0 /\ Set(w, r) /\ isRunning' = isRunning
    BY <1>4 DEF ReadToken
  <2>2. r \in WorkerType /\ r.at \in {"write", "token"} /\ r.id = row.id /\ r.seen = worker[w].seen
    BY <1>0, PointsIn DEF WorkerType, DataType
  <2> HIDE DEF r
  <2> QED BY <1>3, <2>1, <2>2
<1>5. CASE WriteToken(w) /\ ~Leave(w)
  <2> DEFINE r == [worker[w] EXCEPT !.at = "token", !.token = fresh'.token]
  <2>1. Set(w, r) /\ isRunning' = isRunning
    BY <1>5 DEF WriteToken
  <2>2. r \in WorkerType /\ r.at = "token" /\ r.seen = worker[w].seen
    BY <1>0, <1>1, PointsIn DEF WorkerType, DataType
  <2> HIDE DEF r
  <2> QED BY <1>3, <2>1, <2>2
<1>6. CASE PushToken(w) /\ ~Leave(w)
  <2> DEFINE r == [worker[w] EXCEPT !.at = "create", !.left = Environments, !.id = 0, !.token = 0]
  <2>1. w # Job /\ Set(w, r) /\ isRunning' = isRunning
    BY <1>6 DEF PushToken
  <2>2. r \in WorkerType /\ r.at = "create" /\ r.seen = worker[w].seen
    BY <1>0, PointsIn DEF WorkerType
  <2> HIDE DEF r
  <2> QED BY <1>3, <2>1, <2>2
<1> QED BY <1>2, <1>4, <1>5, <1>6

LEMMA CreateBasic ==
  ASSUME BasicInv, NEW h \in Handlers, CreateClient(h)
  PROVE  BasicInv'
<1>0. /\ h \in Workers /\ h # Job /\ DataType /\ worker[h] \in WorkerType /\ worker \in [Workers -> WorkerType]
      /\ worker[h].at = "create" /\ worker[h].seen = Nothing
  BY HandlerFacts, SeenNothing DEF CreateClient, At
<1> DEFINE id == fresh.client + 1
           made(e) == [clients EXCEPT ![e] = @ \cup {id}]
           shares(e) == [worker[h] EXCEPT !.at = "share", !.seen[e] = id]
<1>1. PICK e \in worker[h].left :
        /\ fresh' = [fresh EXCEPT !.client = id]
        /\ \/ /\ clients' = made(e) /\ UNCHANGED faults /\ Set(h, shares(e))
              /\ Hurt(When(Others(h, Cleaning), TokenHurt))
           \/ /\ clients' \in {clients, made(e)} /\ Set(h, Past(h, e, "setup"))
              /\ Fault /\ Hurt(ClientHurt)
  BY DEF CreateClient
<1>2. DataType' /\ isRunning' = isRunning
  <2>1. hurt' \in Hurts
    BY <1>0, <1>1, HurtGrows DEF DataType, Hurts, ClientHurt, Unhurt, TokenHurt, When
  <2>2. faults' \in 0..MaxFaults
    BY <1>0, <1>1, LifeAssumption DEF Fault, DataType
  <2>3. fresh' \in [row : Nat, inst : Nat, token : Nat, client : Nat] /\ fresh'.client = id /\ id \in Nat
    BY <1>0, <1>1 DEF DataType
  <2>4. clients \in [Environments -> SUBSET (1..id)] /\ made(e) \in [Environments -> SUBSET (1..id)]
    <3>1. 1..fresh.client \subseteq 1..id /\ id \in 1..id
      BY <1>0 DEF DataType
    <3>2. clients \in [Environments -> SUBSET (1..fresh.client)]
      BY <1>0 DEF DataType
    <3> HIDE DEF id
    <3> QED BY <3>1, <3>2
  <2>5. UNCHANGED <<row, kept, app, secret, shared, branch, isRunning, starts>>
    BY DEF CreateClient, store, github
  <2>6. clients' \in [Environments -> SUBSET (1..fresh'.client)]
    BY <1>1, <2>3, <2>4
  <2> QED BY <1>0, <2>1, <2>2, <2>3, <2>5, <2>6 DEF DataType
<1>3. CASE Set(h, Past(h, e, "setup"))
  BY <1>0, <1>2, <1>3, PastBasic
<1>4. CASE Set(h, shares(e))
  <2> DEFINE r == shares(e)
  <2>0. id \in Nat /\ id # 0 /\ e \in Environments
    BY <1>0 DEF WorkerType, DataType
  <2>1. /\ r \in WorkerType /\ r.at = "share" /\ r.left = worker[h].left
        /\ r.seen = [worker[h].seen EXCEPT ![e] = id]
    <3> HIDE DEF id
    <3> QED BY <1>0, <2>0, PointsIn DEF WorkerType
  <2>2. Moved(h, r)
    BY <1>0, <1>4, <2>1, SetMoves DEF Moved
  <2>3. r.seen[e] # 0 /\ \A f \in Environments \ {e} : r.seen[f] = 0
    BY <1>0, <2>0, <2>1 DEF Nothing
  <2> HIDE DEF r
  <2>4. Remembers(h)'
    BY <2>1, <2>2, <2>3 DEF Moved, Remembers
  <2> QED BY <1>0, <1>2, <2>1, <2>2, <2>4, BasicMove
<1> QED BY <1>1, <1>3, <1>4

\* The environment whose client a handler holds.
LEMMA CurrentIs ==
  ASSUME BasicInv, NEW h \in Handlers, worker[h].at \in {"share", "keep"}
  PROVE  /\ Current(h) \in worker[h].left /\ Current(h) \in Environments
         /\ worker[h].seen[Current(h)] # 0
         /\ \A f \in Environments \ {Current(h)} : worker[h].seen[f] = 0
BY HandlerFacts DEF Current, Remembers, WorkerType

LEMMA ShareBasic ==
  ASSUME BasicInv, NEW h \in Handlers, ShareSecret(h)
  PROVE  BasicInv'
<1>0. /\ h \in Workers /\ h # Job /\ DataType /\ worker[h] \in WorkerType /\ worker \in [Workers -> WorkerType]
      /\ worker[h].at = "share" /\ Remembers(h)
  BY HandlerFacts DEF ShareSecret, At
<1> DEFINE r == [worker[h] EXCEPT !.at = "keep"]
<1>1. DataType' /\ isRunning' = isRunning
  <2>1. hurt' \in Hurts
    BY <1>0, HurtGrows DEF ShareSecret, DataType, Hurts, ClientHurt, Unhurt, TokenHurt
  <2>2. faults' \in 0..MaxFaults
    BY <1>0, LifeAssumption DEF ShareSecret, Fault, DataType
  <2>3. shared' \in [Environments -> Nat]
    BY <1>0, CurrentIs DEF ShareSecret, DataType, WorkerType
  <2>4. UNCHANGED <<row, kept, app, secret, clients, branch, isRunning, fresh, starts>>
    BY DEF ShareSecret, store
  <2> QED BY <1>0, <2>1, <2>2, <2>3, <2>4 DEF DataType
<1>2. r \in WorkerType /\ r.at = "keep" /\ r.left = worker[h].left /\ r.seen = worker[h].seen
  BY <1>0, PointsIn DEF WorkerType
<1>3. Moved(h, r)
  BY <1>0, GoMoves, PointsIn DEF Moved, ShareSecret
<1>4. Remembers(h)'
  BY <1>0, <1>2, <1>3 DEF Moved, Remembers
<1> QED BY <1>0, <1>1, <1>2, <1>3, <1>4, BasicMove

LEMMA KeepBasic ==
  ASSUME BasicInv, NEW h \in Handlers, KeepSecret(h)
  PROVE  /\ BasicInv' /\ worker'[h].seen = Nothing /\ worker'[h].left = worker[h].left \ {Current(h)}
         /\ worker'[h].at = IF worker[h].left = {Current(h)} THEN "setup" ELSE "create"
         /\ \A w \in Workers \ {h} : worker'[w] = worker[w]
<1>0. /\ h \in Workers /\ h # Job /\ DataType /\ worker[h] \in WorkerType /\ worker \in [Workers -> WorkerType]
      /\ worker[h].at = "keep" /\ Current(h) \in Environments
  BY HandlerFacts, CurrentIs DEF KeepSecret, At
<1> DEFINE done == Past(h, Current(h), "setup")
           r == [done EXCEPT !.at = IF @ = "keep" THEN "create" ELSE @]
<1>1. DataType' /\ isRunning' = isRunning
  <2>1. kept' \in [Environments -> Nat]
    BY <1>0 DEF KeepSecret, DataType, WorkerType
  <2> QED BY <1>0, <2>1 DEF KeepSecret, DataType, RowStep, github, bounds
<1>2. /\ done \in WorkerType /\ done.at = (IF worker[h].left = {Current(h)} THEN "setup" ELSE "keep")
      /\ done.left = worker[h].left \ {Current(h)} /\ done.seen = [worker[h].seen EXCEPT ![Current(h)] = 0]
  BY <1>0, PastType, PointsIn
<1>3. done.seen = Nothing
  BY <1>0, <1>2, CurrentIs DEF Nothing, WorkerType
<1>4. Set(h, r)
  BY DEF KeepSecret
<1> HIDE DEF done
<1>5. /\ r \in WorkerType /\ r.seen = Nothing /\ r.left = worker[h].left \ {Current(h)}
      /\ r.at = IF worker[h].left = {Current(h)} THEN "setup" ELSE "create"
  BY <1>2, <1>3, PointsIn DEF WorkerType
<1> HIDE DEF r
<1>6. Moved(h, r)
  BY <1>0, <1>4, <1>5, SetMoves DEF Moved
<1>7. Remembers(h)'
  BY <1>5, <1>6 DEF Moved, Remembers
<1> QED BY <1>0, <1>1, <1>5, <1>6, <1>7, BasicMove DEF Moved

LEMMA JobBasic ==
  ASSUME BasicInv, StartJob
  PROVE  BasicInv'
<1>0. Job \in Workers /\ DataType /\ worker[Job] \in WorkerType /\ worker \in [Workers -> WorkerType]
  BY TypeParts DEF BasicInv, Workers
<1> DEFINE r == [Idle EXCEPT !.at = "ensure"]
<1>1. DataType' /\ isRunning' = TRUE
  BY <1>0 DEF StartJob, DataType, store, github, bounds
<1>2. r \in WorkerType /\ r.at = "ensure" /\ r.seen = Nothing
  BY IdleType, PointsIn DEF WorkerType, Idle
<1>3. Moved(Job, r)
  BY <1>0, <1>2, SetMoves DEF Moved, StartJob
<1>4. Remembers(Job)'
  BY <1>2, <1>3 DEF Moved, Remembers
<1> QED BY <1>0, <1>1, <1>2, <1>3, <1>4, BasicMove

LEMMA DieBasic ==
  ASSUME BasicInv, NEW w \in Workers, Die(w)
  PROVE  BasicInv' /\ hurt' = TokenHurt
<1>0. DataType
  BY TypeParts DEF BasicInv
<1>1. hurt' \in Hurts /\ hurt' >= TokenHurt
  BY <1>0, HurtGrows DEF Die, DataType, Hurts, Unhurt, TokenHurt
<1>2. DataType'
  BY <1>0, <1>1, LifeAssumption DEF Die, DataType, Fault, store, github
<1>3. hurt' = TokenHurt
  BY <1>1 DEF Hurts, Unhurt, TokenHurt
<1> QED BY <1>2, <1>3, StopBasic DEF Die, Leave, Released

LEMMA BasicStep ==
  ASSUME BasicInv, [Next]_vars
  PROVE  BasicInv'
<1>1. CASE UNCHANGED vars
  BY <1>1 DEF vars, store, github, bounds, BasicInv, TypeOK, WorkerInv, JobStays, Remembers, Busy
<1>2. CASE JobNext
  BY <1>2, JobBasic, TokenBasic DEF JobNext, Workers
<1>3. ASSUME NEW h \in Handlers, HandlerNext(h) PROVE BasicInv'
  BY <1>3, HandlerFacts, StartBasic, InstallationBasic, WipeBasic, ListBasic, DeleteBasic, UnsecretBasic,
     CommandBasic, TokenBasic, CreateBasic, ShareBasic, KeepBasic DEF HandlerNext
<1>4. ASSUME NEW w \in Workers, Die(w) PROVE BasicInv'
  BY <1>4, DieBasic
<1> QED BY <1>1, <1>2, <1>3, <1>4 DEF Next

\* A repository's variables have their types (TypeOK), and a worker remembers
\* what its next step needs, whatever handlers and the job interleave and
\* whichever of their calls fail.
THEOREM LifeTypeCorrect == Spec => []TypeOK
<1>1. Spec => []BasicInv
  BY InitBasic, BasicStep, PTL DEF Spec
<1>2. BasicInv => TypeOK
  BY DEF BasicInv
<1> QED BY <1>1, <1>2, PTL

-----------------------------------------------------------------------------
(* The token.                                                               *)

\* Nothing excepts SecretMatches.
Tame == hurt < TokenHurt
In(w, points) == worker[w].at \in points

\* Nobody provisions a token while somebody cleans up.
Apart == \A v, w \in Workers : ~(In(v, Cleaning) /\ In(w, Provisioning))

\* A provisioning that has issued a token finds the row's, and pushes this one.
HasToken(w) ==
  /\ At(w, "token") => worker[w].token = row.token
  /\ In(w, {"token", "create", "share", "keep"}) => row.token # 0
  /\ At(w, "write") => row.id # 0

\* A cleanup of a row that is no more leaves one without a token.
Replaced(w) == In(w, Cleaning) /\ row.id # worker[w].id => row.token = 0

\* The row's token is GitHub's secret, or somebody is about to push or to clear it.
SecretOnItsWay ==
  row.token # 0 => \/ secret = row.token
                   \/ \E w \in Workers : In(w, {"token", "unshare", "forget"})

\* The invariant of SecretMatches.
TokenInv ==
  Tame => Apart /\ (\A w \in Workers : HasToken(w) /\ Replaced(w)) /\ SecretOnItsWay

LEMMA InitToken ==
  ASSUME Init
  PROVE  TokenInv
BY DEF Init, TokenInv, Apart, HasToken, Replaced, SecretOnItsWay, In, At, Idle, NoRow, Cleaning, Provisioning

\* A worker moves and the row keeps its token.
LEMMA TokenMove ==
  ASSUME TokenInv, hurt \in Nat, hurt' \in Nat, hurt' >= hurt, NEW w \in Workers,
         \A v \in Workers \ {w} : worker'[v] = worker[v],
         row'.id = row.id, row'.token = row.token,
         Tame' => /\ In(w, Cleaning)' => In(w, Cleaning) \/ ~Others(w, Provisioning)
                  /\ In(w, Provisioning)' => In(w, Provisioning) \/ ~Others(w, Cleaning)
                  /\ HasToken(w)' /\ Replaced(w)' /\ SecretOnItsWay'
  PROVE  TokenInv'
<1> SUFFICES ASSUME Tame' PROVE TokenInv'
  BY DEF TokenInv
<1>1. Tame
  BY DEF Tame, TokenHurt
<1>2. Apart /\ (\A v \in Workers : HasToken(v) /\ Replaced(v))
  BY <1>1 DEF TokenInv
<1>3. ~(In(w, Cleaning)' /\ In(w, Provisioning)')
  BY DEF In, Cleaning, Provisioning
<1>4. Apart'
  BY <1>2, <1>3 DEF Apart, In, Others
<1>5. ASSUME NEW v \in Workers PROVE HasToken(v)' /\ Replaced(v)'
  BY <1>2, <1>5 DEF HasToken, Replaced, In, At
<1> QED BY <1>4, <1>5 DEF TokenInv

\* A worker moves outside cleanups and provisionings.
LEMMA TokenQuiet ==
  ASSUME TokenInv, hurt \in Nat, hurt' \in Nat, hurt' >= hurt, NEW w \in Workers,
         \A v \in Workers \ {w} : worker'[v] = worker[v],
         row'.id = row.id, row'.token = row.token, secret' = secret,
         ~In(w, {"token", "unshare", "forget"}), ~In(w, Cleaning \cup Provisioning)'
  PROVE  TokenInv'
<1>1. HasToken(w)' /\ Replaced(w)'
  BY DEF HasToken, Replaced, In, At, Provisioning
<1>2. Tame' => SecretOnItsWay'
  <2> SUFFICES ASSUME Tame' PROVE SecretOnItsWay'
    OBVIOUS
  <2>1. SecretOnItsWay
    BY DEF TokenInv, Tame, TokenHurt
  <2>2. ASSUME NEW v \in Workers, In(v, {"token", "unshare", "forget"}) PROVE In(v, {"token", "unshare", "forget"})'
    BY <2>2 DEF In
  <2> QED BY <2>1, <2>2 DEF SecretOnItsWay
<1>3. ~In(w, Cleaning)' /\ ~In(w, Provisioning)'
  BY DEF In
<1> QED BY <1>1, <1>2, <1>3, TokenMove

\* The row has no token after a step that no provisioning shall meet.
LEMMA TokenGone ==
  ASSUME TokenInv, hurt \in Nat, hurt' \in Nat, hurt' >= hurt, NEW w \in Workers,
         \A v \in Workers \ {w} : worker'[v] = worker[v],
         row'.token = 0, Tame' => ~Others(w, Provisioning), ~In(w, Cleaning \cup Provisioning)'
  PROVE  TokenInv'
<1> SUFFICES ASSUME Tame' PROVE TokenInv'
  BY DEF TokenInv
<1>1. \A v \in Workers : ~In(v, Provisioning)'
  BY DEF In, Others
<1> QED BY <1>1 DEF TokenInv, Apart, HasToken, Replaced, SecretOnItsWay, In, At, Provisioning

LEMMA HarmIn == {Unhurt, ByJob, ClientHurt, TokenHurt} \subseteq Hurts
BY DEF Hurts, Unhurt, ByJob, ClientHurt, TokenHurt

\* The history is one of its values.
LEMMA HurtNat ==
  ASSUME BasicInv, BasicInv'
  PROVE  hurt \in Nat /\ hurt' \in Nat /\ hurt \in Hurts /\ hurt' \in Hurts
BY DEF BasicInv, TypeOK, Hurts, Unhurt, TokenHurt

LEMMA HurtsBy ==
  ASSUME hurt \in Hurts
  PROVE  /\ UNCHANGED hurt \/ Hurt(Unhurt) => hurt' >= hurt
         /\ Hurt(ClientHurt) => hurt' >= hurt /\ hurt' >= ClientHurt
         /\ Hurt(TokenHurt) => hurt' >= hurt /\ hurt' >= TokenHurt
<1>1. UNCHANGED hurt => hurt' >= hurt
  BY DEF Hurts, Unhurt, TokenHurt
<1>2. Hurt(Unhurt) => hurt' >= hurt
  BY HurtGrows, HarmIn
<1>3. Hurt(ClientHurt) => hurt' >= hurt /\ hurt' >= ClientHurt
  BY HurtGrows, HarmIn
<1>4. Hurt(TokenHurt) => hurt' >= hurt /\ hurt' >= TokenHurt
  BY HurtGrows, HarmIn
<1> QED BY <1>1, <1>2, <1>3, <1>4

\* A step that remembers that others are at some points.
LEMMA CrossHurts ==
  ASSUME hurt \in Hurts, NEW w, NEW points, Hurt(When(Others(w, points), TokenHurt))
  PROVE  hurt' >= hurt /\ (hurt' < TokenHurt => ~Others(w, points))
<1>1. CASE Others(w, points)
  <2>1. Hurt(TokenHurt)
    BY <1>1 DEF When
  <2> QED BY <2>1, HurtGrows, HarmIn DEF Hurts, Unhurt, TokenHurt
<1>2. CASE ~Others(w, points)
  <2>1. Hurt(Unhurt)
    BY <1>2 DEF When
  <2> QED BY <1>2, <2>1, HurtGrows, HarmIn
<1> QED BY <1>1, <1>2

LEMMA DiscardHurts ==
  ASSUME hurt \in Hurts, NEW h \in Handlers, Discard(h)
  PROVE  /\ hurt' >= hurt
         /\ hurt' < TokenHurt => ~Others(h, Provisioning)
         /\ hurt' < ClientHurt => row.token = 0 /\ kept = Nothing
<1> DEFINE harm == IF Others(h, Provisioning) THEN TokenHurt
                   ELSE When(row.token # 0 \/ kept # Nothing, ClientHurt)
<1>1. harm \in Hurts
  BY HarmIn DEF When
<1>2. hurt' >= hurt /\ hurt' >= harm
  BY <1>1, HurtGrows DEF Discard
<1>3. /\ Others(h, Provisioning) => harm = TokenHurt
      /\ ~Others(h, Provisioning) /\ (row.token # 0 \/ kept # Nothing) => harm = ClientHurt
  BY DEF When
<1>4. TokenHurt = 3 /\ ClientHurt = 2 /\ hurt' \in Nat
  BY <1>1, HurtGrows DEF Discard, TokenHurt, ClientHurt, Hurts, Unhurt
<1> HIDE DEF harm
<1> QED BY <1>2, <1>3, <1>4

\* Where a worker goes when it is no longer at a cleanup or a provisioning.
LEMMA AsideMoves ==
  ASSUME worker \in [Workers -> WorkerType], NEW w \in Workers,
         Stop(w) \/ \E p \in {"find", "mark", "check", "drop", "issue", "ensure"} : Go(w, p)
  PROVE  /\ \A v \in Workers \ {w} : worker'[v] = worker[v]
         /\ ~In(w, Cleaning \cup Provisioning)'
         /\ ~Go(w, "issue") /\ ~Go(w, "ensure") => ~In(w, Cleaning \cup Initializing)'
<1>1. CASE Stop(w)
  BY <1>1, StopMoves DEF In, Idle, Cleaning, Provisioning, Initializing
<1>2. ASSUME NEW p \in {"find", "mark", "check", "drop", "issue", "ensure"}, Go(w, p)
      PROVE  (\A v \in Workers \ {w} : worker'[v] = worker[v]) /\ worker'[w].at = p
  <2>1. (\A v \in Workers \ {w} : worker'[v] = worker[v]) /\ worker'[w] = [worker[w] EXCEPT !.at = p]
    BY <1>2, GoMoves, PointsIn
  <2>2. worker[w] \in WorkerType
    OBVIOUS
  <2> QED BY <2>1, <2>2 DEF WorkerType
<1> QED BY <1>1, <1>2 DEF In, Cleaning, Provisioning, Initializing

LEMMA StartToken ==
  ASSUME BasicInv, BasicInv', TokenInv, NEW h \in Handlers,
         \/ \E task \in {"install", "add"} : Grant(h, task)
         \/ \E task \in {"remove", "uninstall"} : Deny(h, task)
         \/ \E task \in {"init", "reinit", "uninit"} : Ask(h, task)
         \/ \E task \in {"clear", "drop"} : Request(h, task)
         \/ Push(h)
  PROVE  TokenInv'
<1>0. h \in Workers /\ hurt \in Nat /\ hurt' \in Nat
  BY HandlerFacts, HurtNat
<1>1. UNCHANGED <<store, secret, hurt>> /\ worker[h].at = "idle"
      /\ \E r : Moved(h, r) /\ r.at \in {"upsert", "leave", "select", "command", "check", "find"}
  BY StartBasic
<1> QED BY <1>0, <1>1, TokenQuiet DEF Moved, In, Cleaning, Provisioning, store

LEMMA InstallationToken ==
  ASSUME BasicInv, BasicInv', TokenInv, NEW h \in Handlers,
         Upsert(h) \/ Withdraw(h) \/ Select(h) \/ MarkInactive(h) \/ DropRow(h)
  PROVE  TokenInv'
<1>0. /\ h \in Workers /\ h # Job /\ DataType /\ worker[h] \in WorkerType /\ worker \in [Workers -> WorkerType]
      /\ hurt \in Nat /\ hurt' \in Nat /\ hurt \in Hurts
  BY HandlerFacts, HurtNat
<1>1. /\ \A v \in Workers \ {h} : worker'[v] = worker[v]
      /\ ~In(h, {"token", "unshare", "forget"}) /\ ~In(h, Cleaning \cup Provisioning)'
  <2>1. Stop(h) \/ Go(h, "find") \/ Go(h, "mark")
    BY DEF Upsert, Withdraw, Select, MarkInactive, DropRow
  <2>2. ~In(h, {"token", "unshare", "forget"})
    BY DEF Upsert, Withdraw, Select, MarkInactive, DropRow, At, In
  <2> QED BY <1>0, <2>1, <2>2, AsideMoves
<1>2. secret' = secret
  BY DEF Upsert, Withdraw, Select, MarkInactive, DropRow, RowStep, github
<1>3. CASE row'.id = row.id /\ row'.token = row.token /\ UNCHANGED hurt
  BY <1>0, <1>1, <1>2, <1>3, TokenQuiet
<1>4. CASE row'.token = 0 /\ Discard(h)
  BY <1>0, <1>1, <1>4, DiscardHurts, TokenGone DEF Tame
<1>5. CASE Upsert(h) /\ row.id # 0
  BY <1>0, <1>3, <1>4, <1>5 DEF Upsert, DataType
<1>6. CASE Upsert(h) /\ row.id = 0
  <2>1. row = NoRow /\ (row'.token = 0) /\ row.token = 0 /\ row'.id # 0
    BY <1>0, <1>6 DEF Upsert, DataType, NoRow
  <2>2. CASE Discard(h)
    BY <1>4, <2>1, <2>2
  <2>3. CASE UNCHANGED hurt
    <3> SUFFICES ASSUME Tame' PROVE TokenInv'
      BY DEF TokenInv
    <3>1. Apart /\ \A v \in Workers : HasToken(v)
      BY <2>3 DEF TokenInv, Tame
    <3>2. \A v \in Workers : HasToken(v)' /\ Replaced(v)'
      BY <1>1, <2>1, <3>1 DEF HasToken, Replaced, In, At, Provisioning
    <3>3. Apart'
      BY <1>1, <3>1 DEF Apart, In
    <3> QED BY <2>1, <3>2, <3>3 DEF TokenInv, SecretOnItsWay
  <2> QED BY <1>6, <2>2, <2>3 DEF Upsert
<1>7. CASE Withdraw(h)
  BY <1>0, <1>3, <1>7 DEF Withdraw, DataType
<1>8. CASE Select(h)
  BY <1>3, <1>8 DEF Select, store
<1>9. CASE MarkInactive(h) \/ DropRow(h)
  BY <1>3, <1>4, <1>9 DEF MarkInactive, DropRow, Erase, NoRow, store
<1> QED BY <1>5, <1>6, <1>7, <1>8, <1>9

LEMMA WipeToken ==
  ASSUME BasicInv, BasicInv', TokenInv, NEW h \in Handlers, FindAndWipe(h)
  PROVE  TokenInv'
<1>0. /\ h \in Workers /\ worker \in [Workers -> WorkerType] /\ worker[h] \in WorkerType
      /\ hurt \in Nat /\ hurt' \in Nat /\ hurt \in Hurts /\ worker[h].at = "find" /\ row' = row /\ secret' = secret
  BY HandlerFacts, HurtNat DEF FindAndWipe, At, RowStep, github
<1>1. CASE row.id = 0
  <2>1. hurt' = hurt /\ (Stop(h) \/ \E p \in {"mark", "check"} : Go(h, p))
    BY <1>1 DEF FindAndWipe
  <2> QED BY <1>0, <2>1, AsideMoves, TokenQuiet DEF In
<1>2. CASE row.id # 0
  <2> DEFINE r == [worker[h] EXCEPT !.at = "list", !.id = row.id]
  <2>1. Set(h, r) /\ Hurt(When(Others(h, Provisioning), TokenHurt))
    BY <1>2 DEF FindAndWipe
  <2>2. r.at = "list" /\ r.id = row.id /\ r \in WorkerType
    BY <1>0, PointsIn DEF WorkerType, BasicInv, TypeOK
  <2> HIDE DEF r
  <2>3. Moved(h, r)
    BY <1>0, <2>1, <2>2, SetMoves DEF Moved
  <2>4. hurt' >= hurt /\ (Tame' => ~Others(h, Provisioning))
    BY <1>0, <2>1, CrossHurts DEF Tame
  <2>5. HasToken(h)' /\ Replaced(h)' /\ ~In(h, Provisioning)'
    BY <1>0, <2>2, <2>3 DEF Moved, HasToken, Replaced, In, At, Provisioning
  <2>6. Tame' => SecretOnItsWay'
    <3> SUFFICES ASSUME Tame' PROVE SecretOnItsWay'
      OBVIOUS
    <3>1. SecretOnItsWay
      BY <1>0, <2>4 DEF TokenInv, Tame, TokenHurt
    <3>2. ASSUME NEW v \in Workers, In(v, {"token", "unshare", "forget"}) PROVE In(v, {"token", "unshare", "forget"})'
      BY <1>0, <2>3, <3>2 DEF In, Moved
    <3> QED BY <1>0, <3>1, <3>2 DEF SecretOnItsWay
  <2> QED BY <1>0, <2>3, <2>4, <2>5, <2>6, TokenMove DEF Moved
<1> QED BY <1>1, <1>2

LEMMA CleanMoves ==
  ASSUME BasicInv, NEW h \in Handlers, ListClients(h) \/ DeleteClient(h) \/ Unsecret(h) \/ Unshare(h)
  PROVE  /\ \A v \in Workers \ {h} : worker'[v] = worker[v]
         /\ worker[h].at \in Cleaning /\ worker'[h].at \in Cleaning /\ worker'[h].id = worker[h].id
         /\ Unsecret(h) => worker'[h].at = "unshare"
         /\ Unshare(h) => worker'[h].at \in {"unshare", "forget"}
         /\ worker[h].at \in {"unshare", "forget"} => Unshare(h)
         /\ hurt' >= hurt /\ row' = row /\ kept' = kept
<1>0. /\ h \in Workers /\ worker \in [Workers -> WorkerType] /\ worker[h] \in WorkerType
      /\ hurt \in Hurts /\ hurt \in Nat
  BY HandlerFacts DEF DataType, Hurts, Unhurt, TokenHurt
<1>1. hurt' >= hurt
  BY <1>0, HurtGrows, HarmIn DEF ListClients, DeleteClient, Unsecret, Unshare
<1>2. CASE ListClients(h)
  <2>1. worker[h].at = "list" /\ row' = row /\ kept' = kept
    BY <1>2 DEF ListClients, At, store
  <2>2. \/ \E s : worker' = [worker EXCEPT ![h] = [worker[h] EXCEPT !.at = "delete", !.left = Environments, !.seen = s]]
        \/ worker' = [worker EXCEPT ![h] = [worker[h] EXCEPT !.at = "unsecret"]]
    BY <1>2 DEF ListClients, Set, Go
  <2>3. /\ \A v \in Workers \ {h} : worker'[v] = worker[v]
        /\ worker'[h].id = worker[h].id /\ worker'[h].at \in {"delete", "unsecret"}
    BY <1>0, <2>2 DEF WorkerType
  <2> QED BY <1>1, <2>1, <2>3 DEF Unsecret, Unshare, At, Cleaning
<1>3. CASE DeleteClient(h)
  <2>1. PICK e \in worker[h].left : Set(h, Past(h, e, "unsecret"))
    BY <1>3 DEF DeleteClient
  <2>2. worker[h].at = "delete" /\ row' = row /\ kept' = kept
    BY <1>3 DEF DeleteClient, At, store
  <2>3. /\ \A v \in Workers \ {h} : worker'[v] = worker[v]
        /\ worker'[h].id = worker[h].id /\ worker'[h].at \in {"delete", "unsecret"}
    BY <1>0, <2>1, <2>2, PastMoves, PointsIn
  <2> QED BY <1>1, <2>2, <2>3 DEF Unsecret, Unshare, At, Cleaning
<1>4. CASE Unsecret(h)
  BY <1>0, <1>1, <1>4 DEF Unsecret, Unshare, At, Set, Cleaning, WorkerType, store
<1>5. CASE Unshare(h)
  <2>1. PICK e \in worker[h].left : Set(h, Past(h, e, "forget"))
    BY <1>5 DEF Unshare
  <2>2. worker[h].at = "unshare" /\ row' = row /\ kept' = kept
    BY <1>5 DEF Unshare, At, store
  <2>3. /\ \A v \in Workers \ {h} : worker'[v] = worker[v]
        /\ worker'[h].id = worker[h].id /\ worker'[h].at \in {"unshare", "forget"}
    BY <1>0, <2>1, <2>2, PastMoves, PointsIn
  <2> QED BY <1>1, <1>5, <2>2, <2>3 DEF Unsecret, At, Cleaning
<1> QED BY <1>2, <1>3, <1>4, <1>5

LEMMA CleanToken ==
  ASSUME BasicInv, BasicInv', TokenInv, NEW h \in Handlers,
         ListClients(h) \/ DeleteClient(h) \/ Unsecret(h) \/ Unshare(h)
  PROVE  TokenInv'
<1>0. h \in Workers /\ hurt \in Nat /\ hurt' \in Nat
  BY HandlerFacts, HurtNat
<1>1. /\ \A v \in Workers \ {h} : worker'[v] = worker[v]
      /\ worker[h].at \in Cleaning /\ worker'[h].at \in Cleaning /\ worker'[h].id = worker[h].id
      /\ hurt' >= hurt /\ row' = row
  BY CleanMoves
<1> SUFFICES ASSUME Tame' PROVE TokenInv'
  BY DEF TokenInv
<1>2. Apart /\ (\A v \in Workers : HasToken(v) /\ Replaced(v)) /\ SecretOnItsWay
  BY <1>0, <1>1 DEF TokenInv, Tame, TokenHurt
<1>3. HasToken(h)' /\ Replaced(h)'
  <2>1. Replaced(h)'
    BY <1>0, <1>1, <1>2 DEF Replaced, In
  <2>2. HasToken(h)'
    BY <1>1 DEF HasToken, In, At, Cleaning
  <2> QED BY <2>1, <2>2
<1>4. SecretOnItsWay'
  <2>1. CASE In(h, {"unshare", "forget"})'
    BY <1>0, <2>1 DEF SecretOnItsWay, In
  <2>2. CASE ~In(h, {"unshare", "forget"})'
    <3>1. secret' = secret /\ ~In(h, {"token", "unshare", "forget"})
      BY <1>1, <2>2, CleanMoves DEF In, ListClients, DeleteClient, Unsecret, Unshare, github, Cleaning
    <3>2. ASSUME NEW v \in Workers, In(v, {"token", "unshare", "forget"}) PROVE In(v, {"token", "unshare", "forget"})'
      BY <1>1, <3>1, <3>2 DEF In
    <3> QED BY <1>1, <1>2, <3>1, <3>2 DEF SecretOnItsWay
  <2> QED BY <2>1, <2>2
<1> QED BY <1>0, <1>1, <1>3, <1>4, TokenMove DEF In, Cleaning, Provisioning

LEMMA ForgetToken ==
  ASSUME BasicInv, BasicInv', TokenInv, NEW h \in Handlers, Forget(h)
  PROVE  TokenInv'
<1>0. /\ h \in Workers /\ worker \in [Workers -> WorkerType] /\ hurt \in Nat /\ hurt' \in Nat /\ hurt \in Hurts
      /\ worker[h].at = "forget" /\ secret' = secret /\ DataType
  BY HandlerFacts, HurtNat DEF Forget, At, RowStep, github
<1>1. (\A v \in Workers \ {h} : worker'[v] = worker[v]) /\ ~In(h, Cleaning \cup Provisioning)'
  <2>1. Stop(h) \/ \E p \in {"mark", "check", "drop"} : Go(h, p)
    BY DEF Forget
  <2> QED BY <1>0, <2>1, AsideMoves
<1> SUFFICES ASSUME Tame' PROVE TokenInv'
  BY DEF TokenInv
<1>2. hurt' >= hurt
  BY <1>0, CrossHurts DEF Forget
<1>3. Apart /\ Replaced(h)
  BY <1>0, <1>2 DEF TokenInv, Tame, TokenHurt
<1>4. row'.token = 0
  BY <1>0, <1>3 DEF Forget, Replaced, In, Cleaning, DataType
<1>5. ~Others(h, Provisioning)
  BY <1>0, <1>3 DEF Apart, Others, In, Cleaning
<1> QED BY <1>0, <1>1, <1>2, <1>4, <1>5, TokenGone

LEMMA CommandToken ==
  ASSUME BasicInv, BasicInv', TokenInv, NEW h \in Handlers,
         Command(h) \/ CheckInitialized(h) \/ OpenIssue(h) \/ SetUpBranch(h)
  PROVE  TokenInv'
<1>0. /\ h \in Workers /\ worker \in [Workers -> WorkerType] /\ hurt \in Nat /\ hurt' \in Nat /\ hurt \in Hurts
      /\ secret' = secret /\ row' = row
  BY HandlerFacts, HurtNat DEF Command, CallThen, CheckInitialized, OpenIssue, SetUpBranch, RowStep, github, store
<1>1. (\A v \in Workers \ {h} : worker'[v] = worker[v]) /\ ~In(h, Cleaning \cup Provisioning)'
  <2>1. Stop(h) \/ \E p \in {"check", "find", "issue", "ensure"} : Go(h, p)
    BY DEF Command, CallThen, CheckInitialized, OpenIssue, SetUpBranch, Leave
  <2> QED BY <1>0, <2>1, AsideMoves
<1>2. hurt' >= hurt
  <2>1. UNCHANGED hurt \/ Hurt(ClientHurt) \/ Hurt(Unhurt)
    BY DEF Command, CallThen, CheckInitialized, OpenIssue, SetUpBranch, When
  <2> QED BY <1>0, <2>1, HurtsBy
<1>3. ~In(h, {"token", "unshare", "forget"})
  BY DEF Command, CheckInitialized, OpenIssue, SetUpBranch, In, At
<1> QED BY <1>0, <1>1, <1>2, <1>3, TokenQuiet

LEMMA ReadsToken ==
  ASSUME BasicInv, BasicInv', TokenInv, NEW w \in Workers, ReadToken(w)
  PROVE  TokenInv'
<1>0. /\ worker \in [Workers -> WorkerType] /\ worker[w] \in WorkerType /\ hurt \in Nat /\ hurt' \in Nat /\ hurt \in Hurts
      /\ secret' = secret /\ row' = row /\ worker[w].at = "ensure"
  BY TypeParts, HurtNat DEF ReadToken, At, store, github, BasicInv
<1>1. CASE row.id = 0
  <2>1. Stop(w) /\ hurt' = hurt
    BY <1>1 DEF ReadToken, Leave
  <2> QED BY <1>0, <2>1, AsideMoves, TokenQuiet DEF In
<1>2. CASE row.id # 0
  <2> DEFINE r == [worker[w] EXCEPT !.id = row.id, !.token = row.token,
                                    !.at = IF row.token = 0 THEN "write" ELSE "token"]
  <2>1. Set(w, r) /\ Hurt(When(Others(w, Cleaning), TokenHurt))
    BY <1>2 DEF ReadToken
  <2>2. /\ r.at = (IF row.token = 0 THEN "write" ELSE "token") /\ r.id = row.id /\ r.token = row.token
        /\ r \in WorkerType
    BY <1>0, PointsIn DEF WorkerType, BasicInv, TypeOK
  <2> HIDE DEF r
  <2>3. Moved(w, r)
    BY <1>0, <2>1, <2>2, SetMoves DEF Moved
  <2>4. hurt' >= hurt /\ (Tame' => ~Others(w, Cleaning))
    BY <1>0, <2>1, CrossHurts DEF Tame
  <2>5. HasToken(w)' /\ Replaced(w)' /\ ~In(w, Cleaning)'
    BY <1>0, <1>2, <2>2, <2>3 DEF Moved, HasToken, Replaced, In, At, Cleaning
  <2>6. Tame' => SecretOnItsWay'
    <3> SUFFICES ASSUME Tame' PROVE SecretOnItsWay'
      OBVIOUS
    <3>1. SecretOnItsWay
      BY <1>0, <2>4 DEF TokenInv, Tame, TokenHurt
    <3>2. ASSUME NEW v \in Workers, In(v, {"token", "unshare", "forget"}) PROVE In(v, {"token", "unshare", "forget"})'
      BY <1>0, <2>3, <3>2 DEF In, Moved
    <3> QED BY <1>0, <3>1, <3>2 DEF SecretOnItsWay
  <2> QED BY <1>0, <2>3, <2>4, <2>5, <2>6, TokenMove DEF Moved
<1> QED BY <1>1, <1>2

LEMMA WritesToken ==
  ASSUME BasicInv, BasicInv', TokenInv, NEW w \in Workers, WriteToken(w)
  PROVE  TokenInv'
<1>0. /\ worker \in [Workers -> WorkerType] /\ worker[w] \in WorkerType /\ hurt \in Nat /\ hurt' \in Nat /\ hurt \in Hurts
      /\ secret' = secret /\ worker[w].at = "write" /\ DataType
  BY TypeParts, HurtNat DEF WriteToken, At, github, BasicInv
<1>1. CASE row.id # worker[w].id
  <2>1. Stop(w) /\ hurt' = hurt /\ row' = row
    BY <1>1 DEF WriteToken, Leave
  <2> QED BY <1>0, <2>1, AsideMoves, TokenQuiet DEF In
<1>2. CASE row.id = worker[w].id
  <2> DEFINE harm == IF row.token # 0 THEN TokenHurt ELSE When(w = Job, ByJob)
             r == [worker[w] EXCEPT !.at = "token", !.token = fresh'.token]
  <2>1. /\ fresh' = [fresh EXCEPT !.token = @ + 1] /\ row' = [row EXCEPT !.token = fresh'.token]
        /\ Set(w, r) /\ Hurt(harm)
    BY <1>2 DEF WriteToken
  <2>2. fresh'.token \in Nat /\ fresh'.token # 0 /\ row'.token = fresh'.token /\ row'.id = row.id
    BY <1>0, <2>1 DEF DataType
  <2>3. r \in WorkerType /\ r.at = "token" /\ r.token = row'.token
    BY <1>0, <2>2, PointsIn DEF WorkerType
  <2> HIDE DEF r
  <2>4. Moved(w, r)
    BY <1>0, <2>1, <2>3, SetMoves DEF Moved
  <2>5. harm \in Hurts
    BY HarmIn DEF When
  <2>6. hurt' >= hurt /\ (Tame' => row.token = 0)
    <3>1. hurt' >= hurt /\ hurt' >= harm
      BY <1>0, <2>1, <2>5, HurtGrows
    <3>2. row.token # 0 => harm = 3
      BY DEF TokenHurt
    <3> HIDE DEF harm
    <3> QED BY <1>0, <3>1, <3>2 DEF Tame, TokenHurt
  <2> SUFFICES ASSUME Tame' PROVE TokenInv'
    BY DEF TokenInv
  <2>7. Apart /\ \A v \in Workers : HasToken(v)
    BY <1>0, <2>6 DEF TokenInv, Tame, TokenHurt
  <2>8. Apart' /\ \A v \in Workers : ~In(v, Cleaning)'
    BY <1>0, <2>3, <2>4, <2>7 DEF Apart, In, Moved, Cleaning, Provisioning
  <2>9. ASSUME NEW v \in Workers PROVE HasToken(v)' /\ Replaced(v)'
    <3>1. CASE v = w
      BY <2>2, <2>3, <2>4, <2>8, <3>1 DEF HasToken, Replaced, In, At, Moved
    <3>2. CASE v # w
      BY <2>2, <2>4, <2>6, <2>7, <2>8, <3>2 DEF HasToken, Replaced, In, At, Moved
    <3> QED BY <3>1, <3>2
  <2>10. SecretOnItsWay'
    BY <2>3, <2>4 DEF SecretOnItsWay, In, Moved
  <2> QED BY <2>8, <2>9, <2>10 DEF TokenInv
<1> QED BY <1>1, <1>2

LEMMA PushesToken ==
  ASSUME BasicInv, BasicInv', TokenInv, NEW w \in Workers, PushToken(w)
  PROVE  TokenInv'
<1>0. /\ worker \in [Workers -> WorkerType] /\ worker[w] \in WorkerType /\ hurt \in Nat /\ hurt' \in Nat /\ hurt \in Hurts
      /\ row' = row /\ worker[w].at = "token"
  BY TypeParts, HurtNat DEF PushToken, At, store, BasicInv
<1>1. CASE Hurt(TokenHurt)
  <2>1. hurt' >= TokenHurt
    BY <1>0, <1>1, HurtGrows, HarmIn
  <2> QED BY <1>0, <2>1 DEF TokenInv, Tame, TokenHurt
<1>2. CASE ~Hurt(TokenHurt)
  <2>1. secret' = worker[w].token /\ hurt' = hurt
    BY <1>2 DEF PushToken
  <2>2. /\ \A v \in Workers \ {w} : worker'[v] = worker[v]
        /\ worker'[w].at \in {"idle", "create"}
    <3>1. CASE Stop(w)
      BY <1>0, <3>1, StopMoves DEF Idle
    <3>2. CASE ~Stop(w)
      <4>1. worker' = [worker EXCEPT ![w] = [worker[w] EXCEPT !.at = "create", !.left = Environments,
                                                              !.id = 0, !.token = 0]]
        BY <1>2, <3>2 DEF PushToken, Leave, Set
      <4> QED BY <1>0, <4>1 DEF WorkerType
    <3> QED BY <3>1, <3>2
  <2> SUFFICES ASSUME Tame' PROVE TokenInv'
    BY DEF TokenInv
  <2>3. HasToken(w)
    BY <2>1 DEF TokenInv, Tame
  <2>4. secret' = row'.token /\ row'.token # 0
    BY <1>0, <2>1, <2>3 DEF HasToken, At, In
  <2>5. HasToken(w)' /\ Replaced(w)' /\ SecretOnItsWay'
    BY <2>2, <2>4 DEF HasToken, Replaced, SecretOnItsWay, In, At, Cleaning
  <2>6. In(w, Provisioning) /\ ~In(w, Cleaning)'
    BY <1>0, <2>2 DEF In, Provisioning, Cleaning
  <2> QED BY <1>0, <2>1, <2>2, <2>5, <2>6, TokenMove
<1> QED BY <1>1, <1>2

LEMMA CreateToken ==
  ASSUME BasicInv, BasicInv', TokenInv, NEW h \in Handlers, CreateClient(h) \/ ShareSecret(h) \/ KeepSecret(h)
  PROVE  TokenInv'
<1>0. /\ h \in Workers /\ worker \in [Workers -> WorkerType] /\ worker[h] \in WorkerType
      /\ hurt \in Nat /\ hurt' \in Nat /\ hurt \in Hurts
      /\ row' = row /\ secret' = secret /\ worker[h].at \in {"create", "share", "keep"}
  BY HandlerFacts, HurtNat DEF CreateClient, ShareSecret, KeepSecret, At, store, github, RowStep
<1>1. hurt' >= hurt
  <2>1. UNCHANGED hurt \/ Hurt(ClientHurt) \/ Hurt(When(Others(h, Cleaning), TokenHurt))
    BY DEF CreateClient, ShareSecret, KeepSecret
  <2> QED BY <1>0, <2>1, HurtsBy, CrossHurts
<1>2. /\ \A v \in Workers \ {h} : worker'[v] = worker[v]
      /\ worker'[h].at \in {"create", "share", "keep", "setup"}
  <2>1. CASE KeepSecret(h)
    BY <2>1, KeepBasic
  <2>2. CASE ShareSecret(h)
    <3>1. worker' = [worker EXCEPT ![h] = [worker[h] EXCEPT !.at = "keep"]]
      BY <2>2 DEF ShareSecret, Go, Set
    <3> QED BY <1>0, <3>1 DEF WorkerType
  <2>3. CASE CreateClient(h)
    <3>1. PICK e \in worker[h].left :
            \/ Set(h, [worker[h] EXCEPT !.at = "share", !.seen[e] = fresh.client + 1])
            \/ Set(h, Past(h, e, "setup"))
      BY <2>3 DEF CreateClient
    <3>2. CASE Set(h, [worker[h] EXCEPT !.at = "share", !.seen[e] = fresh.client + 1])
      BY <1>0, <3>2 DEF Set, WorkerType
    <3>3. CASE Set(h, Past(h, e, "setup"))
      BY <1>0, <3>3, PastMoves, PointsIn
    <3> QED BY <3>1, <3>2, <3>3
  <2> QED BY <2>1, <2>2, <2>3
<1> SUFFICES ASSUME Tame' PROVE TokenInv'
  BY DEF TokenInv
<1>3. HasToken(h) /\ SecretOnItsWay
  BY <1>0, <1>1 DEF TokenInv, Tame, TokenHurt
<1>4. HasToken(h)' /\ Replaced(h)'
  BY <1>0, <1>2, <1>3 DEF HasToken, Replaced, In, At, Cleaning
<1>5. SecretOnItsWay'
  <2>1. ASSUME NEW v \in Workers, In(v, {"token", "unshare", "forget"}) PROVE In(v, {"token", "unshare", "forget"})'
    BY <1>0, <1>2, <2>1 DEF In
  <2> QED BY <1>0, <1>3, <2>1 DEF SecretOnItsWay
<1>6. In(h, Provisioning) /\ ~In(h, Cleaning)'
  BY <1>0, <1>2 DEF In, Provisioning, Cleaning
<1> QED BY <1>0, <1>1, <1>2, <1>4, <1>5, <1>6, TokenMove

LEMMA TokenStep ==
  ASSUME BasicInv, TokenInv, [Next]_vars
  PROVE  TokenInv'
<1>0. BasicInv'
  BY BasicStep
<1>1. CASE UNCHANGED vars
  BY <1>1 DEF vars, store, github, TokenInv, Tame, Apart, HasToken, Replaced, SecretOnItsWay, In, At
<1>2. CASE StartJob
  <2>1. /\ Job \in Workers /\ worker \in [Workers -> WorkerType] /\ hurt \in Nat /\ hurt' \in Nat
        /\ row' = row /\ secret' = secret /\ hurt' = hurt /\ worker[Job].at = "idle"
        /\ Set(Job, [Idle EXCEPT !.at = "ensure"])
    BY <1>0, <1>2, TypeParts, HurtNat DEF StartJob, BasicInv, Workers, store, github, Busy
  <2>2. (\A v \in Workers \ {Job} : worker'[v] = worker[v]) /\ worker'[Job].at = "ensure"
    BY <2>1 DEF Set, Idle
  <2> QED BY <2>1, <2>2, TokenQuiet DEF In, Cleaning, Provisioning
<1>3. CASE JobNext /\ ~StartJob
  BY <1>0, <1>3, ReadsToken, WritesToken, PushesToken DEF JobNext, Workers
<1>4. ASSUME NEW h \in Handlers, HandlerNext(h) PROVE TokenInv'
  BY <1>0, <1>4, HandlerFacts, StartToken, InstallationToken, WipeToken, CleanToken, ForgetToken, CommandToken,
     ReadsToken, WritesToken, PushesToken, CreateToken DEF HandlerNext
<1>5. ASSUME NEW w \in Workers, Die(w) PROVE TokenInv'
  BY <1>5, DieBasic DEF TokenInv, Tame, TokenHurt
<1> QED BY <1>1, <1>2, <1>3, <1>4, <1>5 DEF Next

\* At rest, the token of a repository's row is the secret its workflows call the
\* bot with, unless a push of it failed, a worker stopped half way, two tokens
\* were generated at once, or a cleanup or a late event ran into a provisioning
\* (repository-tokens.ts:38-62): for every number of handlers and every order.
THEOREM TheSecretMatches == Spec => []SecretMatches
<1>1. Spec => [](BasicInv /\ TokenInv)
  <2>1. Init => BasicInv /\ TokenInv
    BY InitBasic, InitToken
  <2>2. BasicInv /\ TokenInv /\ [Next]_vars => BasicInv' /\ TokenInv'
    BY BasicStep, TokenStep
  <2> QED BY <2>1, <2>2, PTL DEF Spec
<1>2. BasicInv /\ TokenInv => SecretMatches
  BY DEF TokenInv, SecretOnItsWay, Tame, SecretMatches, AtRest, Busy, In
<1> QED BY <1>1, <1>2, PTL

-----------------------------------------------------------------------------
(* The clients.                                                             *)

\* Nothing excepts ClientsAccounted.
Calm == hurt < ClientHurt

\* One handler initializes at a time.
Alone == \A g, h \in Handlers : In(g, Initializing) /\ In(h, Initializing) => g = h

\* A row without a token has no clients.
Tokenless == row.token = 0 => kept = Nothing

\* What a handler knows of the clients at each point.
Bare(h) == In(h, Cleaning \cup {"issue", "ensure", "write", "token"}) => kept = Nothing
Fills(h) ==
  In(h, {"create", "share", "keep"}) =>
    \A e \in Environments : e \in worker[h].left <=> kept[e] = 0
Cleaned(h) ==
  \A e \in Environments :
    /\ At(h, "delete") =>
         clients[e] \subseteq IF e \in worker[h].left THEN {worker[h].seen[e]} ELSE {}
    /\ In(h, {"unsecret", "unshare", "forget"}) => clients[e] = {}
    /\ At(h, "unshare") /\ e \notin worker[h].left => shared[e] = 0
    /\ At(h, "forget") => shared[e] = 0
Knows(h) == Bare(h) /\ Fills(h) /\ Cleaned(h)

\* No environment has two clients.
Single == \A e \in Environments : \A x, y \in clients[e] : x = y

\* The client of an environment is being deleted, or given to GitHub and the
\* database, or it is the one they hold.
Holding(h, e) == In(h, {"share", "keep"}) /\ worker[h].seen[e] # 0
Held(h, e) ==
  /\ Holding(h, e)
  /\ clients[e] = {worker[h].seen[e]}
  /\ shared[e] = IF At(h, "keep") THEN worker[h].seen[e] ELSE 0
Agreed(e) == clients[e] = {kept[e]} \ {0} /\ shared[e] = kept[e]
Settled(e) ==
  \/ \E h \in Handlers : In(h, Cleaning)
  \/ \E h \in Handlers : Held(h, e)
  \/ (\A h \in Handlers : ~Holding(h, e)) /\ Agreed(e)

\* An initialised repository has its clients, or a handler is about to make or
\* to delete them.
Filling == Cleaning \cup {"token", "create", "share", "keep"}
Full ==
  hurt = Unhurt /\ row.token # 0 =>
    (\A e \in Environments : kept[e] # 0) \/ (\E h \in Handlers : In(h, Filling))

\* The invariant of ClientsAccounted.
CalmInv ==
  Calm => /\ Alone /\ Tokenless /\ Single /\ Full
          /\ \A h \in Handlers : Knows(h)
          /\ \A e \in Environments : Settled(e)

LEMMA InitCalm ==
  ASSUME Init
  PROVE  CalmInv
<1>1. \A h \in Handlers : worker[h].at = "idle"
  BY DEF Init, Idle, Workers
<1>2. /\ kept = Nothing /\ row.token = 0
      /\ \A e \in Environments : clients[e] = {} /\ shared[e] = 0 /\ kept[e] = 0
  BY DEF Init, Nothing, NoRow
<1>3. Alone /\ Tokenless /\ Single /\ Full
  BY <1>1, <1>2 DEF Alone, Tokenless, Single, Full, In, Initializing, Provisioning
<1>4. \A h \in Handlers : Knows(h)
  BY <1>1, <1>2 DEF Knows, Bare, Fills, Cleaned, In, At
<1>5. \A e \in Environments : Settled(e)
  BY <1>1, <1>2 DEF Settled, Agreed, Holding, In
<1> QED BY <1>3, <1>4, <1>5 DEF CalmInv

\* A worker's move preserves that a handler is at work on the clients.
LEMMA FullMove ==
  ASSUME Full, hurt \in Nat, hurt' \in Nat, hurt' >= hurt, kept' = kept, row'.token # 0 => row.token # 0,
         NEW w \in Workers, \A v \in Workers \ {w} : worker'[v] = worker[v],
         w \in Handlers /\ In(w, Filling) => In(w, Filling)'
  PROVE  Full'
<1> SUFFICES ASSUME (hurt = Unhurt)', row'.token # 0
             PROVE  (\A e \in Environments : kept'[e] # 0) \/ (\E h \in Handlers : In(h, Filling)')
  BY DEF Full
<1>1. hurt = Unhurt /\ row.token # 0
  BY DEF Unhurt
<1>2. \A h \in Handlers : In(h, Filling) => In(h, Filling)'
  BY DEF In, Workers
<1> QED BY <1>1, <1>2 DEF Full

\* A worker moves; the clients and what is held of them stay.
LEMMA CalmMove ==
  ASSUME CalmInv, hurt \in Nat, hurt' \in Nat, hurt' >= hurt, NEW w \in Workers,
         \A v \in Workers \ {w} : worker'[v] = worker[v],
         UNCHANGED <<kept, clients, shared>>,
         Calm' =>
           /\ w \in Handlers /\ In(w, Initializing)' =>
                In(w, Initializing) \/ \A v \in Handlers \ {w} : ~In(v, Initializing)
           /\ Tokenless' /\ Full'
           /\ w \in Handlers => Knows(w)' /\ (In(w, Cleaning) => In(w, Cleaning)')
           /\ w \in Handlers => ~In(w, {"share", "keep"}) /\ ~In(w, {"share", "keep"})'
  PROVE  CalmInv'
<1> SUFFICES ASSUME Calm' PROVE CalmInv'
  BY DEF CalmInv
<1>1. /\ Alone /\ Single /\ (\A h \in Handlers : Knows(h))
      /\ \A e \in Environments : Settled(e)
  BY DEF CalmInv, Calm, ClientHurt
<1>2. Handlers \subseteq Workers
  BY DEF Workers
<1>3. Alone'
  BY <1>1, <1>2 DEF Alone, In
<1>4. Single'
  BY <1>1 DEF Single
<1>5. ASSUME NEW h \in Handlers PROVE Knows(h)'
  BY <1>1, <1>2, <1>5 DEF Knows, Bare, Fills, Cleaned, In, At
<1>6. ASSUME NEW e \in Environments PROVE Settled(e)'
  <2>1. \A h \in Handlers : In(h, Cleaning) => In(h, Cleaning)'
    BY <1>2 DEF In
  <2>2. \A h \in Handlers : Holding(h, e) <=> Holding(h, e)'
    BY <1>2 DEF Holding, In
  <2>3. \A h \in Handlers : Held(h, e) => Held(h, e)'
    BY <1>2 DEF Held, Holding, In, At
  <2>4. Agreed(e) <=> Agreed(e)'
    BY DEF Agreed
  <2> QED BY <1>1, <2>1, <2>2, <2>3, <2>4 DEF Settled
<1> QED BY <1>3, <1>4, <1>5, <1>6 DEF CalmInv

\* A handler moves outside the cleanups and the initializations.
LEMMA CalmQuiet ==
  ASSUME CalmInv, hurt \in Nat, hurt' \in Nat, hurt' >= hurt, NEW h \in Handlers,
         \A v \in Workers \ {h} : worker'[v] = worker[v],
         UNCHANGED <<kept, clients, shared>>,
         row'.token = row.token \/ (row'.token = 0 /\ kept = Nothing),
         ~In(h, Filling), ~In(h, Cleaning \cup Initializing)'
  PROVE  CalmInv'
<1> SUFFICES ASSUME Calm' PROVE CalmInv'
  BY DEF CalmInv
<1>1. Tokenless /\ Full /\ h \in Workers
  BY DEF CalmInv, Calm, ClientHurt, Workers
<1>2. Tokenless'
  BY <1>1 DEF Tokenless, Nothing
<1>3. Full'
  BY <1>1, FullMove
<1>4. ~In(h, {"share", "keep"}) /\ ~In(h, {"share", "keep"})' /\ ~In(h, Initializing)' /\ ~In(h, Cleaning)
  BY DEF In, Filling, Initializing, Provisioning
<1>5. Knows(h)'
  BY DEF Knows, Bare, Fills, Cleaned, In, At, Cleaning, Initializing, Provisioning
<1> QED BY <1>1, <1>2, <1>3, <1>4, <1>5, CalmMove

LEMMA StartCalm ==
  ASSUME BasicInv, BasicInv', CalmInv, NEW h \in Handlers,
         \/ \E task \in {"install", "add"} : Grant(h, task)
         \/ \E task \in {"remove", "uninstall"} : Deny(h, task)
         \/ \E task \in {"init", "reinit", "uninit"} : Ask(h, task)
         \/ \E task \in {"clear", "drop"} : Request(h, task)
         \/ Push(h)
  PROVE  CalmInv'
<1>0. hurt \in Nat /\ hurt' \in Nat
  BY HurtNat
<1>1. UNCHANGED <<store, shared, clients, hurt>> /\ worker[h].at = "idle"
      /\ \E r : Moved(h, r) /\ r.at \in {"upsert", "leave", "select", "command", "check", "find"}
  BY StartBasic
<1>2. /\ \A v \in Workers \ {h} : worker'[v] = worker[v]
      /\ ~In(h, Filling) /\ ~In(h, Cleaning \cup Initializing)'
  BY <1>1 DEF Moved, In, Filling, Cleaning, Initializing, Provisioning
<1>3. UNCHANGED <<row, kept, shared, clients, hurt>>
  BY <1>1 DEF store
<1> QED BY <1>0, <1>2, <1>3, CalmQuiet

LEMMA InstallationCalm ==
  ASSUME BasicInv, BasicInv', CalmInv, NEW h \in Handlers,
         Upsert(h) \/ Withdraw(h) \/ Select(h) \/ MarkInactive(h) \/ DropRow(h)
  PROVE  CalmInv'
<1>0. /\ h \in Workers /\ DataType /\ worker \in [Workers -> WorkerType]
      /\ hurt \in Nat /\ hurt' \in Nat /\ hurt \in Hurts
  BY HandlerFacts, HurtNat
<1>1. /\ \A v \in Workers \ {h} : worker'[v] = worker[v]
      /\ ~In(h, Filling) /\ ~In(h, Cleaning \cup Initializing)'
  <2>1. Stop(h) \/ Go(h, "find") \/ Go(h, "mark")
    BY DEF Upsert, Withdraw, Select, MarkInactive, DropRow
  <2>2. ~In(h, Filling)
    BY DEF Upsert, Withdraw, Select, MarkInactive, DropRow, At, In, Filling, Cleaning
  <2>3. ~Go(h, "issue") /\ ~Go(h, "ensure")
    BY <1>0, <2>1 DEF Stop, Go, Set, Idle, WorkerType
  <2> QED BY <1>0, <2>1, <2>2, <2>3, AsideMoves
<1>2. UNCHANGED <<clients, shared>>
  BY DEF Upsert, Withdraw, Select, MarkInactive, DropRow, RowStep, github
<1> SUFFICES ASSUME Calm' PROVE CalmInv'
  BY DEF CalmInv
<1>3. Discard(h) => hurt' >= hurt /\ row.token = 0 /\ kept = Nothing
  BY <1>0, DiscardHurts DEF Calm
<1>4. CASE Upsert(h)
  <2>1. UNCHANGED kept /\ (Discard(h) \/ UNCHANGED hurt)
    BY <1>4 DEF Upsert
  <2>2. row'.token = row.token \/ (Discard(h) /\ row'.token = 0)
    BY <1>0, <1>4 DEF Upsert, DataType
  <2>3. hurt' >= hurt /\ (row'.token = row.token \/ (row'.token = 0 /\ kept = Nothing))
    BY <1>0, <1>3, <2>1, <2>2
  <2> QED BY <1>0, <1>1, <1>2, <2>1, <2>3, CalmQuiet
<1>5. CASE Withdraw(h) \/ Select(h)
  <2>1. UNCHANGED <<kept, hurt>> /\ row'.token = row.token
    BY <1>0, <1>5 DEF Withdraw, Select, store, DataType
  <2>2. hurt' >= hurt
    BY <1>0, <2>1
  <2> QED BY <1>0, <1>1, <1>2, <2>1, <2>2, CalmQuiet
<1>6. CASE MarkInactive(h) \/ DropRow(h)
  <2>1. (UNCHANGED <<row, kept, hurt>>) \/ (row' = NoRow /\ kept' = Nothing /\ Discard(h))
    BY <1>6 DEF MarkInactive, DropRow, Erase, store
  <2> QED BY <1>0, <1>1, <1>2, <1>3, <2>1, CalmQuiet DEF NoRow
<1> QED BY <1>4, <1>5, <1>6

LEMMA WipeCalm ==
  ASSUME BasicInv, BasicInv', TokenInv, CalmInv, NEW h \in Handlers, FindAndWipe(h)
  PROVE  CalmInv'
<1>0. /\ h \in Workers /\ worker \in [Workers -> WorkerType] /\ worker[h] \in WorkerType
      /\ hurt \in Nat /\ hurt' \in Nat /\ hurt \in Hurts /\ worker[h].at = "find" /\ row' = row
      /\ shared' = shared /\ clients' = clients
  BY HandlerFacts, HurtNat DEF FindAndWipe, At, RowStep, github
<1>1. CASE row.id = 0
  <2>1. UNCHANGED <<kept, hurt>> /\ (Stop(h) \/ \E p \in {"mark", "check"} : Go(h, p))
    BY <1>1 DEF FindAndWipe
  <2>2. (\A v \in Workers \ {h} : worker'[v] = worker[v]) /\ worker'[h].at \in {"idle", "mark", "check"}
    <3>1. CASE Stop(h)
      BY <1>0, <3>1, StopMoves DEF Idle
    <3>2. ASSUME NEW p \in {"mark", "check"}, Go(h, p)
          PROVE (\A v \in Workers \ {h} : worker'[v] = worker[v]) /\ worker'[h].at = p
      BY <1>0, <3>2 DEF Go, Set, WorkerType
    <3> QED BY <2>1, <3>1, <3>2
  <2>3. ~In(h, Filling) /\ ~In(h, Cleaning \cup Initializing)'
    BY <1>0, <2>2 DEF In, Filling, Cleaning, Initializing, Provisioning
  <2> QED BY <1>0, <2>1, <2>2, <2>3, CalmQuiet
<1>2. CASE row.id # 0
  <2>1. /\ Set(h, [worker[h] EXCEPT !.at = "list", !.id = row.id]) /\ kept' = Nothing
        /\ Hurt(When(Others(h, Provisioning), TokenHurt))
    BY <1>2 DEF FindAndWipe
  <2>2. (\A v \in Workers \ {h} : worker'[v] = worker[v]) /\ worker'[h].at = "list"
    BY <1>0, <2>1 DEF Set, WorkerType
  <2> SUFFICES ASSUME Calm' PROVE CalmInv'
    BY DEF CalmInv
  <2>3. hurt' >= hurt /\ ~Others(h, Provisioning)
    BY <1>0, <2>1, CrossHurts DEF Calm, ClientHurt, TokenHurt
  <2>4. Alone /\ Single /\ \A g \in Handlers : Knows(g)
    BY <1>0, <2>3 DEF CalmInv, Calm, ClientHurt
  <2>5. \A g \in Handlers \ {h} : worker'[g] = worker[g] /\ ~In(g, Provisioning)
    BY <2>2, <2>3 DEF Workers, Others, In
  <2>6. Alone'
    BY <2>2, <2>4, <2>5 DEF Alone, In, Initializing, Provisioning
  <2>7. Tokenless' /\ Single'
    BY <1>0, <2>1, <2>4 DEF Tokenless, Single, Nothing
  <2>8. In(h, Cleaning)' /\ In(h, Filling)'
    BY <2>2 DEF In, Filling, Cleaning
  <2>9. ASSUME NEW g \in Handlers PROVE Knows(g)'
    <3>1. Bare(g)'
      BY <2>1 DEF Bare, Nothing
    <3>2. Fills(g)'
      BY <2>2, <2>5 DEF Fills, In, Provisioning
    <3>3. Cleaned(g)'
      BY <1>0, <2>2, <2>4, <2>5 DEF Cleaned, Knows, In, At
    <3> QED BY <3>1, <3>2, <3>3 DEF Knows
  <2> QED BY <2>6, <2>7, <2>8, <2>9 DEF CalmInv, Settled, Full
<1> QED BY <1>1, <1>2

LEMMA CommandCalm ==
  ASSUME BasicInv, BasicInv', CalmInv, NEW h \in Handlers,
         Command(h) \/ CheckInitialized(h) \/ OpenIssue(h) \/ SetUpBranch(h)
  PROVE  CalmInv'
<1>0. /\ h \in Workers /\ worker \in [Workers -> WorkerType] /\ worker[h] \in WorkerType
      /\ hurt \in Nat /\ hurt' \in Nat /\ hurt \in Hurts
      /\ UNCHANGED <<row, kept, clients, shared>>
  BY HandlerFacts, HurtNat DEF Command, CallThen, CheckInitialized, OpenIssue, SetUpBranch, RowStep, github, store
<1>1. hurt' >= hurt
  <2>1. UNCHANGED hurt \/ Hurt(ClientHurt) \/ Hurt(Unhurt)
    BY DEF Command, CallThen, CheckInitialized, OpenIssue, SetUpBranch, When
  <2> QED BY <1>0, <2>1, HurtsBy
<1>2. ~In(h, Filling)
  BY DEF Command, CheckInitialized, OpenIssue, SetUpBranch, In, At, Filling, Cleaning
<1>3. CASE Stop(h) \/ Go(h, "check") \/ Go(h, "find")
  <2>1. ~Go(h, "issue") /\ ~Go(h, "ensure")
    BY <1>0, <1>3 DEF Stop, Go, Set, Idle, WorkerType
  <2> QED BY <1>0, <1>1, <1>2, <1>3, <2>1, AsideMoves, CalmQuiet
<1>4. ASSUME NEW p \in {"issue", "ensure"}, Go(h, p),
             (p = "ensure" /\ At(h, "issue")) \/ (p = "issue" /\ CheckInitialized(h) /\ row.token = 0)
      PROVE  CalmInv'
  <2> SUFFICES ASSUME Calm' PROVE CalmInv'
    BY DEF CalmInv
  <2>1. (\A v \in Workers \ {h} : worker'[v] = worker[v]) /\ worker'[h].at = p
    BY <1>0, <1>4 DEF Go, Set, WorkerType
  <2>2. Alone /\ Tokenless /\ Full /\ Knows(h)
    BY <1>0, <1>1 DEF CalmInv, Calm, ClientHurt
  <2>3. In(h, Initializing) \/ \A v \in Handlers \ {h} : ~In(v, Initializing)
    <3>1. CASE p = "ensure"
      BY <1>4, <3>1 DEF In, At, Initializing
    <3>2. CASE p = "issue"
      <4> DEFINE cond == \E v \in Handlers \ {h} : worker[v].at \in Initializing
      <4>1. CheckInitialized(h) /\ row.token = 0
        BY <1>4, <3>2
      <4>2. Hurt(When(cond, ClientHurt))
        BY <4>1 DEF CheckInitialized
      <4>3. ~cond
        BY <1>0, <4>2, HurtsBy DEF When, Calm, ClientHurt
      <4> QED BY <4>3 DEF In
    <3> QED BY <3>1, <3>2
  <2>4. kept = Nothing
    <3>1. CASE p = "ensure"
      BY <1>4, <2>2, <3>1 DEF Knows, Bare, In, At
    <3>2. CASE p = "issue"
      BY <1>4, <2>2, <3>2 DEF Tokenless
    <3> QED BY <3>1, <3>2
  <2>5. Tokenless' /\ Full'
    BY <1>0, <1>1, <1>2, <2>1, <2>2, FullMove DEF Tokenless, Nothing
  <2>6. Knows(h)'
    <3>1. Bare(h)'
      BY <1>0, <2>4 DEF Bare, Nothing
    <3>2. Fills(h)' /\ Cleaned(h)'
      BY <2>1 DEF Fills, Cleaned, In, At
    <3> QED BY <3>1, <3>2 DEF Knows
  <2>7. ~In(h, {"share", "keep"}) /\ ~In(h, {"share", "keep"})' /\ ~In(h, Cleaning)
    BY <1>2, <2>1 DEF In, Filling
  <2> QED BY <1>0, <1>1, <2>1, <2>3, <2>5, <2>6, <2>7, CalmMove
<1>5. CASE Command(h) \/ SetUpBranch(h)
  BY <1>3, <1>5 DEF Command, SetUpBranch, CallThen, Leave
<1>6. CASE CheckInitialized(h)
  BY <1>3, <1>4, <1>6 DEF CheckInitialized
<1>7. CASE OpenIssue(h)
  BY <1>3, <1>4, <1>7 DEF OpenIssue, CallThen, Leave
<1> QED BY <1>5, <1>6, <1>7

\* The environments' clients and secrets only go while a cleanup runs.
LEMMA CalmClean ==
  ASSUME CalmInv, hurt \in Nat, hurt' \in Nat, hurt' >= hurt, NEW h \in Handlers,
         \A v \in Workers \ {h} : worker'[v] = worker[v],
         UNCHANGED <<row, kept>>, In(h, Cleaning), In(h, Cleaning)',
         \A e \in Environments : clients'[e] \subseteq clients[e] /\ shared'[e] \in {shared[e], 0},
         Calm' => Cleaned(h)' /\ \A g \in Handlers : ~In(g, Provisioning)
  PROVE  CalmInv'
<1> SUFFICES ASSUME Calm' PROVE CalmInv'
  BY DEF CalmInv
<1>1. Alone /\ Tokenless /\ Single /\ (\A g \in Handlers : Knows(g)) /\ kept = Nothing
  BY DEF CalmInv, Calm, ClientHurt, Knows, Bare, In
<1>2. Handlers \subseteq Workers
  BY DEF Workers
<1>3. ~In(h, Initializing)'
  BY DEF In, Initializing, Provisioning, Cleaning
<1>4. Alone'
  BY <1>1, <1>2, <1>3 DEF Alone, In
<1>5. Tokenless' /\ Single'
  BY <1>1 DEF Tokenless, Single, Nothing
<1>6. ASSUME NEW g \in Handlers PROVE Knows(g)'
  <2>1. Bare(g)'
    BY <1>1 DEF Bare, Nothing
  <2>2. Fills(g)'
    BY <1>2, <1>3 DEF Fills, In, Provisioning, Initializing
  <2>3. CASE g = h
    BY <2>1, <2>2, <2>3 DEF Knows
  <2>4. CASE g # h
    <3>1. worker'[g] = worker[g]
      BY <1>2, <2>4
    <3>2. Cleaned(g)'
      BY <1>1, <3>1 DEF Knows, Cleaned, In, At
    <3> QED BY <2>1, <2>2, <3>2 DEF Knows
  <2> QED BY <2>3, <2>4
<1>7. In(h, Filling)'
  BY DEF In, Filling
<1> QED BY <1>4, <1>5, <1>6, <1>7 DEF CalmInv, Settled, Full

LEMMA ListCalm ==
  ASSUME BasicInv, BasicInv', TokenInv, CalmInv, NEW h \in Handlers, ListClients(h)
  PROVE  CalmInv'
<1>0. /\ h \in Workers /\ worker \in [Workers -> WorkerType] /\ worker[h] \in WorkerType /\ DataType
      /\ hurt \in Nat /\ hurt' \in Nat /\ hurt \in Hurts
  BY HandlerFacts, HurtNat
<1>1. /\ \A v \in Workers \ {h} : worker'[v] = worker[v]
      /\ In(h, Cleaning) /\ In(h, Cleaning)' /\ hurt' >= hurt /\ UNCHANGED <<row, kept>>
  BY CleanMoves DEF In
<1>2. UNCHANGED <<clients, shared>>
  BY DEF ListClients, github
<1> SUFFICES ASSUME Calm' PROVE CalmInv'
  BY DEF CalmInv
<1>3. Single /\ Apart
  BY <1>0, <1>1 DEF CalmInv, Calm, ClientHurt, TokenInv, Tame, TokenHurt
<1>4. \A g \in Handlers : ~In(g, Provisioning)
  BY <1>0, <1>1, <1>3 DEF Apart, Workers
<1>5. Cleaned(h)'
  <2> DEFINE seen == [e \in Environments |-> IF clients[e] = {} THEN 0 ELSE Min(clients[e])]
  <2>1. Set(h, [worker[h] EXCEPT !.at = "delete", !.left = Environments, !.seen = seen])
    BY <1>0, HurtsBy DEF ListClients, Calm, ClientHurt
  <2>2. worker'[h].at = "delete" /\ worker'[h].left = Environments /\ worker'[h].seen = seen
    BY <1>0, <2>1 DEF Set, WorkerType
  <2>3. ASSUME NEW e \in Environments PROVE clients[e] \subseteq {seen[e]}
    <3>1. CASE clients[e] = {}
      BY <3>1
    <3>2. CASE clients[e] # {}
      <4>1. clients[e] \in SUBSET Nat
        BY <1>0 DEF DataType
      <4>2. Min(clients[e]) \in clients[e]
        BY <3>2, <4>1, MinIsLeast
      <4>3. seen[e] = Min(clients[e])
        BY <3>2
      <4> QED BY <1>3, <4>2, <4>3 DEF Single
    <3> QED BY <3>1, <3>2
  <2> HIDE DEF seen
  <2> QED BY <1>2, <2>2, <2>3 DEF Cleaned, In, At
<1> QED BY <1>0, <1>1, <1>2, <1>4, <1>5, CalmClean

LEMMA DeleteCalm ==
  ASSUME BasicInv, BasicInv', TokenInv, CalmInv, NEW h \in Handlers, DeleteClient(h)
  PROVE  CalmInv'
<1>0. /\ h \in Workers /\ worker \in [Workers -> WorkerType] /\ worker[h] \in WorkerType /\ DataType
      /\ hurt \in Nat /\ hurt' \in Nat /\ hurt \in Hurts /\ worker[h].at = "delete"
  BY HandlerFacts, HurtNat DEF DeleteClient, At
<1>1. /\ \A v \in Workers \ {h} : worker'[v] = worker[v]
      /\ In(h, Cleaning) /\ In(h, Cleaning)' /\ hurt' >= hurt /\ UNCHANGED <<row, kept>>
  BY CleanMoves DEF In
<1> SUFFICES ASSUME Calm' PROVE CalmInv'
  BY DEF CalmInv
<1>2. PICK e \in worker[h].left :
        Set(h, Past(h, e, "unsecret")) /\ clients' = [clients EXCEPT ![e] = @ \ {worker[h].seen[e]}]
  BY <1>0, HurtsBy DEF DeleteClient, Calm, ClientHurt
<1>3. shared' = shared
  BY DEF DeleteClient, github
<1>4. Knows(h) /\ Apart
  BY <1>0, <1>1 DEF CalmInv, Calm, ClientHurt, TokenInv, Tame, TokenHurt
<1>5. \A g \in Handlers : ~In(g, Provisioning)
  BY <1>0, <1>1, <1>4 DEF Apart, Workers
<1>6. /\ worker'[h].at = (IF worker[h].left = {e} THEN "unsecret" ELSE "delete")
      /\ worker'[h].left = worker[h].left \ {e}
      /\ worker'[h].seen = [worker[h].seen EXCEPT ![e] = 0] /\ e \in Environments
  BY <1>0, <1>2, PastMoves, PointsIn
<1>7. \A f \in Environments :
        clients'[f] = IF f = e THEN clients[f] \ {worker[h].seen[f]} ELSE clients[f]
  BY <1>0, <1>2, <1>6 DEF DataType
<1>8. \A f \in Environments :
        clients[f] \subseteq IF f \in worker[h].left THEN {worker[h].seen[f]} ELSE {}
  BY <1>0, <1>4 DEF Knows, Cleaned, At
<1>9. \A f \in Environments :
        clients'[f] \subseteq IF f \in worker'[h].left THEN {worker'[h].seen[f]} ELSE {}
  BY <1>0, <1>6, <1>7, <1>8 DEF WorkerType
<1>10. Cleaned(h)'
  BY <1>6, <1>9 DEF Cleaned, In, At
<1> QED BY <1>0, <1>1, <1>3, <1>5, <1>7, <1>10, CalmClean

LEMMA UnsecretCalm ==
  ASSUME BasicInv, BasicInv', TokenInv, CalmInv, NEW h \in Handlers, Unsecret(h) \/ Unshare(h)
  PROVE  CalmInv'
<1>0. /\ h \in Workers /\ worker \in [Workers -> WorkerType] /\ worker[h] \in WorkerType /\ DataType
      /\ hurt \in Nat /\ hurt' \in Nat /\ hurt \in Hurts
      /\ worker[h].at \in {"unsecret", "unshare"}
  BY HandlerFacts, HurtNat DEF Unsecret, Unshare, At
<1>1. /\ \A v \in Workers \ {h} : worker'[v] = worker[v]
      /\ In(h, Cleaning) /\ In(h, Cleaning)' /\ hurt' >= hurt /\ UNCHANGED <<row, kept>>
  BY CleanMoves DEF In
<1> SUFFICES ASSUME Calm' PROVE CalmInv'
  BY DEF CalmInv
<1>2. clients' = clients
  BY DEF Unsecret, Unshare
<1>3. Knows(h) /\ Apart
  BY <1>0, <1>1 DEF CalmInv, Calm, ClientHurt, TokenInv, Tame, TokenHurt
<1>4. \A g \in Handlers : ~In(g, Provisioning)
  BY <1>0, <1>1, <1>3 DEF Apart, Workers
<1>5. \A e \in Environments : clients[e] = {}
  BY <1>0, <1>3 DEF Knows, Cleaned, In
<1>6. CASE Unsecret(h)
  <2>1. shared' = shared /\ worker'[h].at = "unshare" /\ worker'[h].left = Environments
    BY <1>0, <1>6 DEF Unsecret, Set, WorkerType
  <2>2. Cleaned(h)'
    BY <1>2, <1>5, <2>1 DEF Cleaned, In, At
  <2> QED BY <1>0, <1>1, <1>2, <1>4, <2>1, <2>2, CalmClean
<1>7. CASE Unshare(h)
  <2>1. PICK e \in worker[h].left : Set(h, Past(h, e, "forget")) /\ shared' = [shared EXCEPT ![e] = 0]
    BY <1>0, <1>7, HurtsBy DEF Unshare, Calm, ClientHurt
  <2>2. /\ worker'[h].at = (IF worker[h].left = {e} THEN "forget" ELSE worker[h].at)
        /\ worker'[h].left = worker[h].left \ {e} /\ e \in Environments /\ worker[h].at = "unshare"
    BY <1>0, <1>7, <2>1, PastMoves, PointsIn DEF Unshare, At
  <2>3. \A f \in Environments : shared'[f] = IF f = e THEN 0 ELSE shared[f]
    BY <1>0, <2>1 DEF DataType
  <2>4. \A f \in Environments \ worker[h].left : shared[f] = 0
    BY <1>3, <2>2 DEF Knows, Cleaned, At
  <2>5. Cleaned(h)'
    BY <1>2, <1>5, <2>2, <2>3, <2>4 DEF Cleaned, In, At
  <2> QED BY <1>0, <1>1, <1>2, <1>4, <2>3, <2>5, CalmClean
<1> QED BY <1>6, <1>7

LEMMA ForgetCalm ==
  ASSUME BasicInv, BasicInv', TokenInv, TokenInv', CalmInv, NEW h \in Handlers, Forget(h)
  PROVE  CalmInv'
<1>0. /\ h \in Workers /\ worker \in [Workers -> WorkerType] /\ worker[h] \in WorkerType /\ DataType
      /\ hurt \in Nat /\ hurt' \in Nat /\ hurt \in Hurts /\ worker[h].at = "forget"
      /\ UNCHANGED <<kept, clients, shared>>
  BY HandlerFacts, HurtNat DEF Forget, At, RowStep, github
<1>1. (\A v \in Workers \ {h} : worker'[v] = worker[v]) /\ ~In(h, Cleaning \cup Initializing)'
  <2>1. Stop(h) \/ \E p \in {"mark", "check", "drop"} : Go(h, p)
    BY DEF Forget
  <2>2. ~Go(h, "issue") /\ ~Go(h, "ensure")
    BY <1>0, <2>1 DEF Stop, Go, Set, Idle, WorkerType
  <2> QED BY <1>0, <2>1, <2>2, AsideMoves
<1> SUFFICES ASSUME Calm' PROVE CalmInv'
  BY DEF CalmInv
<1>2. hurt' >= hurt
  BY <1>0, CrossHurts DEF Forget, Hurts, Unhurt, TokenHurt
<1>3. /\ Alone /\ Single /\ (\A g \in Handlers : Knows(g)) /\ (\A e \in Environments : Settled(e))
      /\ Apart /\ Replaced(h)
  BY <1>0, <1>2 DEF CalmInv, Calm, ClientHurt, TokenInv, Tame, TokenHurt
<1>4. row'.token = 0 /\ kept = Nothing /\ \A e \in Environments : clients[e] = {} /\ shared[e] = 0
  <2>1. row'.token = 0
    BY <1>0, <1>3 DEF Forget, Replaced, In, Cleaning, DataType
  <2>2. kept = Nothing
    BY <1>0, <1>3 DEF Knows, Bare, In, Cleaning
  <2>3. \A e \in Environments : clients[e] = {} /\ shared[e] = 0
    BY <1>0, <1>3 DEF Knows, Cleaned, In, At
  <2> QED BY <2>1, <2>2, <2>3
<1>5. \A g \in Handlers : ~In(g, Provisioning)'
  <2>1. \A v \in Workers : ~In(v, Provisioning)
    BY <1>0, <1>3 DEF Apart, In, Cleaning
  <2> QED BY <1>1, <2>1 DEF In, Workers, Initializing
<1>6. Handlers \subseteq Workers
  BY DEF Workers
<1>7. Alone'
  BY <1>1, <1>3, <1>6 DEF Alone, In
<1>8. Tokenless' /\ Single' /\ Full'
  BY <1>0, <1>3, <1>4 DEF Tokenless, Single, Full, Nothing
<1>9. ASSUME NEW g \in Handlers PROVE Knows(g)'
  <2>1. Bare(g)'
    BY <1>0, <1>4 DEF Bare, Nothing
  <2>2. Fills(g)'
    BY <1>5 DEF Fills, In, Provisioning
  <2>3. Cleaned(g)'
    BY <1>0, <1>4 DEF Cleaned
  <2> QED BY <2>1, <2>2, <2>3 DEF Knows
<1>10. ASSUME NEW e \in Environments PROVE Settled(e)'
  BY <1>0, <1>4, <1>5 DEF Settled, Holding, Agreed, Nothing, In, Provisioning
<1> QED BY <1>7, <1>8, <1>9, <1>10 DEF CalmInv

LEMMA ReadsCalm ==
  ASSUME BasicInv, BasicInv', CalmInv, NEW w \in Workers, ReadToken(w)
  PROVE  CalmInv'
<1>0. /\ worker \in [Workers -> WorkerType] /\ worker[w] \in WorkerType /\ hurt \in Nat /\ hurt' \in Nat /\ hurt \in Hurts
      /\ worker[w].at = "ensure" /\ UNCHANGED <<row, kept, clients, shared>>
  BY TypeParts, HurtNat DEF ReadToken, At, store, github, BasicInv
<1>1. hurt' >= hurt
  <2>1. UNCHANGED hurt \/ Hurt(When(Others(w, Cleaning), TokenHurt))
    BY DEF ReadToken
  <2> QED BY <1>0, <2>1, CrossHurts
<1>2. (\A v \in Workers \ {w} : worker'[v] = worker[v]) /\ worker'[w].at \in {"idle", "write", "token"}
  <2>1. CASE row.id = 0
    BY <1>0, <2>1, StopMoves DEF ReadToken, Leave, Idle
  <2>2. CASE row.id # 0
    <3>1. Set(w, [worker[w] EXCEPT !.id = row.id, !.token = row.token,
                    !.at = IF row.token = 0 THEN "write" ELSE "token"])
      BY <2>2 DEF ReadToken
    <3> QED BY <1>0, <3>1 DEF Set, WorkerType
  <2> QED BY <2>1, <2>2
<1> SUFFICES ASSUME Calm' PROVE CalmInv'
  BY DEF CalmInv
<1>3. Tokenless /\ Full /\ (w \in Handlers => Knows(w))
  BY <1>1, <1>0 DEF CalmInv, Calm, ClientHurt
<1>4. Tokenless' /\ Full'
  <2>1. ~In(w, Filling)
    BY <1>0 DEF In, Filling, Cleaning
  <2> QED BY <1>0, <1>1, <1>2, <1>3, <2>1, FullMove DEF Tokenless, Nothing
<1>5. ASSUME w \in Handlers PROVE Knows(w)' /\ In(w, Initializing)
  <2>1. kept' = Nothing'
    BY <1>0, <1>3, <1>5 DEF Knows, Bare, In, Nothing
  <2>2. Bare(w)' /\ Fills(w)' /\ Cleaned(w)'
    BY <1>2, <2>1 DEF Bare, Fills, Cleaned, In, At
  <2> QED BY <1>0, <2>2 DEF Knows, In, Initializing
<1>6. ~In(w, {"share", "keep"}) /\ ~In(w, {"share", "keep"})' /\ ~In(w, Cleaning)
  BY <1>0, <1>2 DEF In, Cleaning
<1> QED BY <1>0, <1>1, <1>2, <1>4, <1>5, <1>6, CalmMove

LEMMA WritesCalm ==
  ASSUME BasicInv, BasicInv', CalmInv, NEW w \in Workers, WriteToken(w)
  PROVE  CalmInv'
<1>0. /\ worker \in [Workers -> WorkerType] /\ worker[w] \in WorkerType /\ hurt \in Nat /\ hurt' \in Nat /\ hurt \in Hurts
      /\ worker[w].at = "write" /\ UNCHANGED <<kept, clients, shared>> /\ DataType
  BY TypeParts, HurtNat DEF WriteToken, At, github, BasicInv
<1> DEFINE harm == IF row.token # 0 THEN TokenHurt ELSE When(w = Job, ByJob)
           writes == /\ fresh' = [fresh EXCEPT !.token = @ + 1] /\ row' = [row EXCEPT !.token = fresh'.token]
                     /\ Set(w, [worker[w] EXCEPT !.at = "token", !.token = fresh'.token]) /\ Hurt(harm)
           leaves == Stop(w) /\ UNCHANGED <<row, hurt>>
<1>1. writes \/ leaves
  BY DEF WriteToken, Leave
<1>2. (\A v \in Workers \ {w} : worker'[v] = worker[v]) /\ worker'[w].at = IF writes THEN "token" ELSE "idle"
  <2>1. CASE writes
    BY <1>0, <2>1 DEF Set, WorkerType
  <2>2. CASE ~writes
    <3>1. Stop(w)
      BY <1>1, <2>2
    <3> QED BY <1>0, <2>2, <3>1, StopMoves DEF Idle
  <2> QED BY <2>1, <2>2
<1>3. hurt' >= hurt /\ (writes /\ w = Job => hurt' # Unhurt)
  <2>1. harm \in Hurts
    BY HarmIn DEF When
  <2>2. w = Job => harm >= 1
    BY DEF When, ByJob, TokenHurt
  <2> HIDE DEF harm
  <2> QED BY <1>0, <1>1, <2>1, <2>2, HurtGrows DEF Unhurt, Hurts, TokenHurt
<1>4. writes => row'.token # 0
  BY <1>0 DEF DataType
<1> SUFFICES ASSUME Calm' PROVE CalmInv'
  BY DEF CalmInv
<1>5. Tokenless /\ Full /\ (w \in Handlers => Knows(w))
  BY <1>0, <1>3 DEF CalmInv, Calm, ClientHurt
<1>6. ~In(w, Filling)
  BY <1>0 DEF In, Filling, Cleaning
<1> HIDE DEF writes
<1>7. Tokenless' /\ Full'
  <2>1. CASE writes
    <3>1. CASE w \in Handlers
      BY <1>2, <1>4, <2>1, <3>1 DEF Tokenless, Full, In, Filling
    <3>2. CASE w \notin Handlers
      BY <1>3, <1>4, <2>1, <3>2 DEF Tokenless, Full, Workers
    <3> QED BY <3>1, <3>2
  <2>2. CASE ~writes
    <3>1. row' = row
      BY <1>1, <2>2
    <3> QED BY <1>0, <1>2, <1>3, <1>5, <1>6, <3>1, FullMove DEF Tokenless, Nothing
  <2> QED BY <2>1, <2>2
<1>8. ASSUME w \in Handlers PROVE Knows(w)' /\ In(w, Initializing)
  <2>1. kept' = Nothing'
    BY <1>0, <1>5, <1>8 DEF Knows, Bare, In, Nothing
  <2>2. Bare(w)' /\ Fills(w)' /\ Cleaned(w)'
    BY <1>2, <2>1 DEF Bare, Fills, Cleaned, In, At
  <2> QED BY <1>0, <2>2 DEF Knows, In, Initializing, Provisioning
<1>9. ~In(w, {"share", "keep"}) /\ ~In(w, {"share", "keep"})' /\ ~In(w, Cleaning)
  BY <1>0, <1>2 DEF In, Cleaning
<1> QED BY <1>0, <1>2, <1>3, <1>7, <1>8, <1>9, CalmMove

LEMMA PushesCalm ==
  ASSUME BasicInv, BasicInv', CalmInv, NEW w \in Workers, PushToken(w)
  PROVE  CalmInv'
<1>0. /\ worker \in [Workers -> WorkerType] /\ worker[w] \in WorkerType /\ hurt \in Nat /\ hurt' \in Nat /\ hurt \in Hurts
      /\ worker[w].at = "token" /\ UNCHANGED <<row, kept, clients, shared>>
  BY TypeParts, HurtNat DEF PushToken, At, store, BasicInv
<1> SUFFICES ASSUME Calm' PROVE CalmInv'
  BY DEF CalmInv
<1> DEFINE r == [worker[w] EXCEPT !.at = "create", !.left = Environments, !.id = 0, !.token = 0]
<1>1. hurt' = hurt /\ IF w = Job THEN Stop(w) ELSE Set(w, r)
  BY <1>0, HurtsBy DEF PushToken, Calm, ClientHurt, TokenHurt, Leave
<1>2. CASE w = Job
  <2>1. (\A v \in Workers \ {w} : worker'[v] = worker[v]) /\ w \notin Handlers
    BY <1>0, <1>1, <1>2, StopMoves, LifeAssumption
  <2>2. Tokenless /\ Full
    BY <1>1 DEF CalmInv, Calm
  <2>3. Tokenless' /\ Full'
    BY <1>0, <1>1, <2>1, <2>2, FullMove DEF Tokenless, Nothing
  <2> QED BY <1>0, <1>1, <2>1, <2>3, CalmMove
<1>3. CASE w # Job
  <2>1. w \in Handlers /\ Set(w, r)
    BY <1>1, <1>3 DEF Workers
  <2>2. (\A v \in Workers \ {w} : worker'[v] = worker[v]) /\ worker'[w].at = "create" /\ worker'[w].left = Environments
    BY <1>0, <2>1 DEF Set, WorkerType
  <2>3. Tokenless /\ Full /\ Knows(w)
    BY <1>1, <2>1 DEF CalmInv, Calm
  <2>4. kept = Nothing
    BY <1>0, <2>3 DEF Knows, Bare, In
  <2>5. In(w, Filling)' /\ In(w, Initializing) /\ ~In(w, Cleaning)
    BY <1>0, <2>2 DEF In, Filling, Initializing, Provisioning, Cleaning
  <2>6. Tokenless' /\ Full'
    BY <1>0, <1>1, <2>2, <2>3, <2>5, FullMove DEF Tokenless, Nothing
  <2>7. Bare(w)' /\ Fills(w)' /\ Cleaned(w)'
    BY <1>0, <2>2, <2>4 DEF Bare, Fills, Cleaned, In, At, Nothing
  <2>8. ~In(w, {"share", "keep"}) /\ ~In(w, {"share", "keep"})'
    BY <1>0, <2>2 DEF In
  <2> QED BY <1>0, <1>1, <2>1, <2>2, <2>5, <2>6, <2>7, <2>8, CalmMove DEF Knows
<1> QED BY <1>2, <1>3

\* While a handler makes clients no other holds or deletes one.
LEMMA Making ==
  ASSUME BasicInv, TokenInv, CalmInv, Calm, NEW h \in Handlers, In(h, {"create", "share", "keep"})
  PROVE  /\ \A g \in Handlers : ~In(g, Cleaning)
         /\ \A g \in Handlers \ {h} : ~In(g, Initializing)
         /\ \A e \in Environments : (\A g \in Handlers \ {h} : ~Holding(g, e))
         /\ \A e \in Environments : ~Holding(h, e) => Agreed(e)
         /\ \A e \in Environments : Holding(h, e) => Held(h, e)
         /\ row.token # 0 /\ row.id # 0
         /\ Knows(h) /\ Single
<1>1. h \in Workers /\ Handlers \subseteq Workers /\ DataType
  BY HandlerFacts DEF Workers
<1>2. Tame
  BY <1>1 DEF Calm, ClientHurt, Tame, TokenHurt, DataType, Hurts, Unhurt
<1>3. /\ Alone /\ Single /\ Knows(h) /\ (\A e \in Environments : Settled(e))
      /\ Apart /\ HasToken(h)
  BY <1>1, <1>2 DEF CalmInv, TokenInv
<1>4. \A g \in Handlers : ~In(g, Cleaning)
  BY <1>1, <1>3 DEF Apart, In, Provisioning
<1>5. \A g \in Handlers \ {h} : ~In(g, Initializing)
  BY <1>3 DEF Alone, In, Initializing, Provisioning
<1>6. \A e \in Environments : \A g \in Handlers \ {h} : ~Holding(g, e)
  BY <1>5 DEF Holding, In, Initializing, Provisioning
<1>7. row.token # 0 /\ row.id # 0
  BY <1>1, <1>3 DEF HasToken, In, DataType, NoRow
<1>8. ASSUME NEW e \in Environments PROVE (~Holding(h, e) => Agreed(e)) /\ (Holding(h, e) => Held(h, e))
  <2>1. \/ \E g \in Handlers : Held(g, e)
        \/ (\A g \in Handlers : ~Holding(g, e)) /\ Agreed(e)
    BY <1>3, <1>4 DEF Settled
  <2> QED BY <1>6, <2>1 DEF Held
<1> QED BY <1>3, <1>4, <1>5, <1>6, <1>7, <1>8

\* After such a step the invariant holds if it does of the handler itself.
LEMMA CalmMade ==
  ASSUME Calm', NEW h \in Handlers, \A v \in Workers \ {h} : worker'[v] = worker[v],
         \A g \in Handlers : ~In(g, Cleaning),
         \A g \in Handlers \ {h} : ~In(g, Initializing),
         \A g \in Handlers \ {h} : Cleaned(g) /\ Bare(g),
         row' = row, row.token # 0, Single', Knows(h)', Full',
         \A e \in Environments : IF Holding(h, e)' THEN Held(h, e)' ELSE Agreed(e)'
  PROVE  CalmInv'
<1>1. \A g \in Handlers \ {h} : worker'[g] = worker[g] /\ g \in Workers
  BY DEF Workers
<1>2. \A g \in Handlers \ {h} : ~In(g, Cleaning)' /\ ~In(g, Initializing)'
  BY <1>1 DEF In
<1>3. Alone' /\ Tokenless'
  BY <1>2 DEF Alone, Tokenless
<1>4. ASSUME NEW g \in Handlers \ {h} PROVE Knows(g)'
  BY <1>2, <1>4 DEF Knows, Bare, Fills, Cleaned, In, At, Cleaning, Initializing, Provisioning
<1>5. ASSUME NEW e \in Environments PROVE Settled(e)'
  <2>1. \A g \in Handlers \ {h} : ~Holding(g, e)'
    BY <1>2 DEF Holding, In, Initializing, Provisioning
  <2> QED BY <2>1 DEF Settled
<1> QED BY <1>3, <1>4, <1>5 DEF CalmInv

LEMMA CreateCalm ==
  ASSUME BasicInv, BasicInv', TokenInv, CalmInv, NEW h \in Handlers, CreateClient(h)
  PROVE  CalmInv'
<1>0. /\ h \in Workers /\ worker \in [Workers -> WorkerType] /\ worker[h] \in WorkerType /\ DataType
      /\ hurt \in Nat /\ hurt' \in Nat /\ hurt \in Hurts /\ worker[h].at = "create" /\ worker[h].seen = Nothing
      /\ UNCHANGED <<row, kept, shared>>
  BY HandlerFacts, HurtNat, SeenNothing DEF CreateClient, At, store, github
<1> SUFFICES ASSUME Calm' PROVE CalmInv'
  BY DEF CalmInv
<1> DEFINE id == fresh.client + 1
<1>1. PICK e \in worker[h].left :
        /\ clients' = [clients EXCEPT ![e] = @ \cup {id}]
        /\ Set(h, [worker[h] EXCEPT !.at = "share", !.seen[e] = id])
        /\ Hurt(When(Others(h, Cleaning), TokenHurt))
  <2>1. ~Hurt(ClientHurt)
    BY <1>0, HurtsBy DEF Calm, ClientHurt
  <2> QED BY <2>1 DEF CreateClient
<1>2. hurt' >= hurt
  BY <1>0, <1>1, CrossHurts
<1>3. Calm
  BY <1>0, <1>2 DEF Calm, ClientHurt
<1>4. e \in Environments /\ id # 0
  BY <1>0 DEF WorkerType, DataType
<1> HIDE DEF id
<1>5. /\ \A v \in Workers \ {h} : worker'[v] = worker[v]
      /\ worker'[h].at = "share" /\ worker'[h].left = worker[h].left
      /\ worker'[h].seen = [worker[h].seen EXCEPT ![e] = id]
  BY <1>0, <1>1 DEF Set, WorkerType
<1>6. /\ \A g \in Handlers : ~In(g, Cleaning)
      /\ \A g \in Handlers \ {h} : ~In(g, Initializing)
      /\ \A f \in Environments : Agreed(f)
      /\ row.token # 0 /\ Knows(h) /\ Single
      /\ \A g \in Handlers : Knows(g)
  <2>1. \A f \in Environments : ~Holding(h, f)
    BY <1>0 DEF Holding, In
  <2>2. In(h, {"create", "share", "keep"})
    BY <1>0 DEF In
  <2>3. \A g \in Handlers : Knows(g)
    BY <1>3 DEF CalmInv
  <2> QED BY <1>3, <2>1, <2>2, <2>3, Making
<1>7. kept[e] = 0 /\ clients[e] = {} /\ shared[e] = 0
  BY <1>0, <1>4, <1>6 DEF Knows, Fills, In, Agreed
<1>8. \A f \in Environments : clients'[f] = IF f = e THEN {id} ELSE clients[f]
  BY <1>0, <1>1, <1>4, <1>7 DEF DataType
<1>9. \A f \in Environments : worker'[h].seen[f] = IF f = e THEN id ELSE 0
  BY <1>0, <1>4, <1>5 DEF Nothing
<1>10. Single'
  BY <1>6, <1>8 DEF Single
<1>11. Knows(h)'
  BY <1>0, <1>5, <1>6 DEF Knows, Bare, Fills, Cleaned, In, At, Cleaning
<1>12. Full'
  BY <1>5 DEF Full, In, Filling
<1>13. ASSUME NEW f \in Environments PROVE IF Holding(h, f)' THEN Held(h, f)' ELSE Agreed(f)'
  <2>1. CASE f = e
    <3>1. Holding(h, f)' /\ clients'[f] = {worker'[h].seen[f]} /\ shared'[f] = 0 /\ ~At(h, "keep")'
      BY <1>0, <1>4, <1>5, <1>7, <1>8, <1>9, <2>1 DEF Holding, In, At
    <3> QED BY <3>1 DEF Held
  <2>2. CASE f # e
    <3>1. ~Holding(h, f)' /\ Agreed(f)'
      BY <1>0, <1>6, <1>8, <1>9, <2>2 DEF Holding, Agreed
    <3> QED BY <3>1
  <2> QED BY <2>1, <2>2
<1> QED BY <1>0, <1>5, <1>6, <1>10, <1>11, <1>12, <1>13, CalmMade DEF Knows

LEMMA ShareCalm ==
  ASSUME BasicInv, BasicInv', TokenInv, CalmInv, NEW h \in Handlers, ShareSecret(h)
  PROVE  CalmInv'
<1>0. /\ h \in Workers /\ worker \in [Workers -> WorkerType] /\ worker[h] \in WorkerType /\ DataType
      /\ hurt \in Nat /\ hurt' \in Nat /\ hurt \in Hurts /\ worker[h].at = "share"
      /\ UNCHANGED <<row, kept, clients>>
  BY HandlerFacts, HurtNat DEF ShareSecret, At, store
<1> SUFFICES ASSUME Calm' PROVE CalmInv'
  BY DEF CalmInv
<1> DEFINE c == Current(h)
<1>1. hurt' = hurt /\ shared' = [shared EXCEPT ![c] = worker[h].seen[c]] /\ Go(h, "keep")
  BY <1>0, HurtsBy DEF ShareSecret, Calm, ClientHurt
<1>2. Calm
  BY <1>1 DEF Calm
<1>3. c \in Environments /\ worker[h].seen[c] # 0 /\ \A f \in Environments \ {c} : worker[h].seen[f] = 0
  BY <1>0, CurrentIs
<1> HIDE DEF c
<1>4. /\ \A v \in Workers \ {h} : worker'[v] = worker[v]
      /\ worker'[h].at = "keep" /\ worker'[h].left = worker[h].left /\ worker'[h].seen = worker[h].seen
  BY <1>0, <1>1 DEF Go, Set, WorkerType
<1>5. /\ \A g \in Handlers : ~In(g, Cleaning) /\ Knows(g)
      /\ \A g \in Handlers \ {h} : ~In(g, Initializing)
      /\ \A e \in Environments : ~Holding(h, e) => Agreed(e)
      /\ \A e \in Environments : Holding(h, e) => Held(h, e)
      /\ row.token # 0 /\ Single
  <2>1. In(h, {"create", "share", "keep"})
    BY <1>0 DEF In
  <2>2. \A g \in Handlers : Knows(g)
    BY <1>2 DEF CalmInv
  <2> QED BY <1>2, <2>1, <2>2, Making
<1>6. \A f \in Environments : shared'[f] = IF f = c THEN worker[h].seen[c] ELSE shared[f]
  BY <1>0, <1>1, <1>3 DEF DataType
<1>7. Single'
  BY <1>0, <1>5 DEF Single
<1>8. Knows(h)'
  <2>1. Fills(h)
    BY <1>5 DEF Knows
  <2> QED BY <1>0, <1>4, <2>1 DEF Knows, Bare, Fills, Cleaned, In, At, Cleaning
<1>9. Full'
  BY <1>4 DEF Full, In, Filling
<1>10. ASSUME NEW f \in Environments PROVE IF Holding(h, f)' THEN Held(h, f)' ELSE Agreed(f)'
  <2>1. CASE f = c
    <3>1. Held(h, f)
      BY <1>0, <1>3, <1>5, <2>1 DEF Holding, In
    <3> QED BY <1>0, <1>4, <1>6, <2>1, <3>1 DEF Held, Holding, In, At
  <2>2. CASE f # c
    <3>1. ~Holding(h, f) /\ ~Holding(h, f)'
      BY <1>3, <1>4, <2>2 DEF Holding
    <3> QED BY <1>0, <1>5, <1>6, <2>2, <3>1 DEF Agreed
  <2> QED BY <2>1, <2>2
<1> QED BY <1>0, <1>4, <1>5, <1>7, <1>8, <1>9, <1>10, CalmMade DEF Knows

LEMMA KeepCalm ==
  ASSUME BasicInv, BasicInv', TokenInv, CalmInv, NEW h \in Handlers, KeepSecret(h)
  PROVE  CalmInv'
<1>0. /\ h \in Workers /\ worker \in [Workers -> WorkerType] /\ worker[h] \in WorkerType /\ DataType
      /\ worker[h].at = "keep" /\ UNCHANGED <<row, shared, clients, hurt>>
  BY HandlerFacts DEF KeepSecret, At, RowStep, github
<1> SUFFICES ASSUME Calm' PROVE CalmInv'
  BY DEF CalmInv
<1> DEFINE c == Current(h)
<1>1. Calm
  BY <1>0 DEF Calm
<1>2. c \in worker[h].left /\ c \in Environments /\ worker[h].seen[c] # 0
      /\ \A f \in Environments \ {c} : worker[h].seen[f] = 0
  BY <1>0, CurrentIs
<1>3. /\ \A v \in Workers \ {h} : worker'[v] = worker[v]
      /\ worker'[h].at = (IF worker[h].left = {c} THEN "setup" ELSE "create")
      /\ worker'[h].left = worker[h].left \ {c} /\ worker'[h].seen = Nothing
  BY KeepBasic
<1>4. /\ \A g \in Handlers : ~In(g, Cleaning) /\ Knows(g)
      /\ \A g \in Handlers \ {h} : ~In(g, Initializing)
      /\ \A e \in Environments : ~Holding(h, e) => Agreed(e)
      /\ \A e \in Environments : Holding(h, e) => Held(h, e)
      /\ row.token # 0 /\ row.id # 0 /\ Single
  <2>1. In(h, {"create", "share", "keep"})
    BY <1>0 DEF In
  <2>2. \A g \in Handlers : Knows(g)
    BY <1>1 DEF CalmInv
  <2> QED BY <1>1, <2>1, <2>2, Making
<1>5. \A f \in Environments : kept'[f] = IF f = c THEN worker[h].seen[c] ELSE kept[f]
  <2>1. kept' = [kept EXCEPT ![c] = worker[h].seen[c]]
    BY <1>4 DEF KeepSecret
  <2> HIDE DEF c
  <2> QED BY <1>0, <1>2, <2>1 DEF DataType
<1> HIDE DEF c
<1>6. Single'
  BY <1>0, <1>4 DEF Single
<1>7. \A f \in Environments : f \in worker[h].left <=> kept[f] = 0
  BY <1>0, <1>4 DEF Knows, Fills, In
<1>8. Knows(h)'
  <2>1. Fills(h)'
    BY <1>2, <1>3, <1>5, <1>7 DEF Fills, In
  <2> QED BY <1>3, <2>1 DEF Knows, Bare, Cleaned, In, At, Cleaning
<1>9. Full'
  <2>1. CASE worker[h].left = {c}
    BY <1>2, <1>5, <1>7, <2>1 DEF Full
  <2>2. CASE worker[h].left # {c}
    BY <1>3, <2>2 DEF Full, In, Filling
  <2> QED BY <2>1, <2>2
<1>10. ASSUME NEW f \in Environments PROVE ~Holding(h, f)' /\ Agreed(f)'
  <2>1. ~Holding(h, f)'
    BY <1>3 DEF Holding, In
  <2>2. CASE f = c
    <3>1. Held(h, f)
      BY <1>0, <1>2, <1>4, <2>2 DEF Holding, In
    <3>2. clients'[f] = {kept'[f]} /\ shared'[f] = kept'[f] /\ kept'[f] # 0
      BY <1>0, <1>2, <1>5, <2>2, <3>1 DEF Held, At
    <3> QED BY <2>1, <3>2 DEF Agreed
  <2>3. CASE f # c
    <3>1. ~Holding(h, f)
      BY <1>2, <2>3 DEF Holding
    <3> QED BY <1>0, <1>4, <1>5, <2>1, <2>3, <3>1 DEF Agreed
  <2> QED BY <2>2, <2>3
<1> QED BY <1>0, <1>3, <1>4, <1>6, <1>8, <1>9, <1>10, CalmMade DEF Knows

LEMMA CalmStep ==
  ASSUME BasicInv, TokenInv, CalmInv, [Next]_vars
  PROVE  CalmInv'
<1>0. BasicInv' /\ TokenInv'
  BY BasicStep, TokenStep
<1>1. CASE UNCHANGED vars
  <2>1. UNCHANGED <<row, worker, kept, clients, shared, hurt>>
    BY <1>1 DEF vars, store, github
  <2> QED BY <2>1 DEF CalmInv, Calm, Alone, Tokenless, Single, Full, Knows, Bare, Fills, Cleaned, Settled, Held,
        Holding, Agreed, In, At
<1>2. CASE StartJob
  <2>1. /\ Job \in Workers \ Handlers /\ worker \in [Workers -> WorkerType] /\ hurt \in Nat
        /\ UNCHANGED <<row, kept, clients, shared, hurt>>
        /\ Set(Job, [Idle EXCEPT !.at = "ensure"])
    BY <1>0, <1>2, TypeParts, HurtNat, LifeAssumption DEF StartJob, BasicInv, Workers, store, github
  <2>2. \A v \in Workers \ {Job} : worker'[v] = worker[v]
    BY <2>1 DEF Set
  <2> SUFFICES ASSUME Calm' PROVE CalmInv'
    BY DEF CalmInv
  <2>3. Tokenless' /\ Full'
    <3>1. Tokenless /\ Full
      BY <2>1 DEF CalmInv, Calm
    <3> QED BY <2>1, <2>2, <3>1, FullMove DEF Tokenless, Nothing
  <2> QED BY <2>1, <2>2, <2>3, CalmMove
<1>3. CASE JobNext /\ ~StartJob
  BY <1>0, <1>3, ReadsCalm, WritesCalm, PushesCalm DEF JobNext, Workers
<1>4. ASSUME NEW h \in Handlers, HandlerNext(h) PROVE CalmInv'
  BY <1>0, <1>4, HandlerFacts, StartCalm, InstallationCalm, WipeCalm, ListCalm, DeleteCalm, UnsecretCalm, ForgetCalm,
     CommandCalm, ReadsCalm, WritesCalm, PushesCalm, CreateCalm, ShareCalm, KeepCalm DEF HandlerNext
<1>5. ASSUME NEW w \in Workers, Die(w) PROVE CalmInv'
  BY <1>5, DieBasic DEF CalmInv, Calm, ClientHurt, TokenHurt
<1> QED BY <1>1, <1>2, <1>3, <1>4, <1>5 DEF Next

\* At rest, the clients that bear an environment's name are the one whose token
\* the database and GitHub hold, or none; a repository without a token has none,
\* and an initialised one has them: unless a call about clients failed, a worker
\* stopped, or handlers crossed (nebula-provisioning.ts:464-703, 714-810), for
\* every number of environments and handlers and every order of their steps.
THEOREM ClientsAreAccountedFor == Spec => []ClientsAccounted
<1>1. Spec => [](BasicInv /\ TokenInv /\ CalmInv)
  <2>1. Init => BasicInv /\ TokenInv /\ CalmInv
    BY InitBasic, InitToken, InitCalm
  <2>2. BasicInv /\ TokenInv /\ CalmInv /\ [Next]_vars => BasicInv' /\ TokenInv' /\ CalmInv'
    BY BasicStep, TokenStep, CalmStep
  <2> QED BY <2>1, <2>2, PTL DEF Spec
<1>2. CalmInv => ClientsAccounted
  <2> SUFFICES ASSUME CalmInv, AtRest, Calm, NEW e \in Environments
               PROVE  /\ clients[e] = {kept[e]} \ {0} /\ shared[e] = kept[e]
                      /\ row.token = 0 => kept[e] = 0
                      /\ row.token # 0 /\ hurt = Unhurt => kept[e] # 0
    BY DEF ClientsAccounted, Calm
  <2>1. \A h \in Handlers : worker[h].at = "idle"
    BY DEF AtRest, Busy, Workers
  <2>2. Agreed(e)
    BY <2>1 DEF CalmInv, Settled, Held, Holding, In, Cleaning
  <2>3. row.token = 0 => kept[e] = 0
    BY DEF CalmInv, Tokenless, Nothing
  <2>4. row.token # 0 /\ hurt = Unhurt => kept[e] # 0
    BY <2>1 DEF CalmInv, Full, In, Filling, Cleaning
  <2> QED BY <2>2, <2>3, <2>4 DEF Agreed
<1> QED BY <1>1, <1>2, PTL
=============================================================================
