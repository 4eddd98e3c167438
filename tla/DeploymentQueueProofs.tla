------------------------ MODULE DeploymentQueueProofs ------------------------
(***************************************************************************)
(* Proofs about DeploymentQueue for every number of jobs, processes, polls  *)
(* and runs.                                                                *)
(***************************************************************************)
EXTENDS DeploymentQueue, FiniteSetTheorems, TLAPS

\* The next-state relation as one flat disjunction, for case analysis.
LEMMA NextCases ==
  ASSUME Next
  PROVE  \/ \E k \in Polls : \/ TimerPoll(k) \/ PollDbError(k) \/ ApprovalWake(k)
                             \/ ReclaimExpired(k) \/ CheckSlots(k)
                             \/ FindQueued(k) \/ FindWorkflows(k)
                             \/ ClaimQueued(k) \/ ClaimWorkflows(k)
                             \/ ClaimQueuedMissed(k) \/ ClaimWorkflowsMissed(k)
         \/ \E k \in Polls, j \in Jobs : Enqueue(k, j)
         \/ \E k \in Polls, o \in Operators : RequeueWrite(o, k)
         \/ \E r \in Runs : \/ BodyEnds(r) \/ TimerFires(r) \/ Settle(r)
                            \/ SettleError(r) \/ OrphanEnds(r)
         \/ \E o \in Operators : RequeueGone(o) \/ \E j \in Jobs : RequeueRead(o, j)
         \/ Prune \/ Tick \/ \E p \in Procs : Crash(p)
  BY DEF Next, PollStep, RunStep

\* Starting or moving a poll keeps the polls well-typed.
LEMMA GotoType ==
  ASSUME poll \in [Polls -> Poll], NEW k \in Polls, NEW pc \in PollPc, Goto(k, pc)
  PROVE  poll' \in [Polls -> Poll]
  BY DEF Goto, Poll, IdlePoll, PollPc, NoJob

LEMMA StartPollType ==
  ASSUME poll \in [Polls -> Poll], NEW k \in Polls, StartPoll(k)
  PROVE  poll' \in [Polls -> Poll]
  BY GotoType DEF StartPoll, PollPc

\* The updates of a row yield rows.
LEMMA RowUpdates ==
  ASSUME NEW old \in JobRow
  PROVE  /\ Reclaimed(old) \in JobRow
         /\ ClaimedQueued(old) \in JobRow
         /\ ClaimedWorkflows(old) \in JobRow
         /\ Requeued(old) \in JobRow
         /\ Woken(old) \in JobRow
         /\ [old EXCEPT !.status = "queued"] \in JobRow
         /\ [old EXCEPT !.status = "deleted"] \in JobRow
  <1>1. 0 \in 0..Lease + 1
    BY QueueAssumption
  <1>2. /\ old.leaseReclaimCount + 1 \in Nat
        /\ old.attempts + 1 \in Nat
        /\ old.requeueCount + 1 \in Nat
    BY DEF JobRow
  <1>3. Reclaimed(old) \in JobRow
    BY <1>1, <1>2, Zenon DEF Reclaimed, JobRow, Status
  <1>4. ClaimedQueued(old) \in JobRow
    BY <1>1, <1>2 DEF ClaimedQueued, JobRow, Status
  <1>5. ClaimedWorkflows(old) \in JobRow
    BY <1>1 DEF ClaimedWorkflows, JobRow, Status
  <1>6. Requeued(old) \in JobRow
    BY <1>1, <1>2 DEF Requeued, JobRow, Status
  <1>7. Woken(old) \in JobRow
    BY DEF Woken, JobRow, Status
  <1>8. [old EXCEPT !.status = "queued"] \in JobRow
    BY DEF JobRow, Status
  <1>9. [old EXCEPT !.status = "deleted"] \in JobRow
    BY DEF JobRow, Status
  <1> QED
    BY <1>3, <1>4, <1>5, <1>6, <1>7, <1>8, <1>9

LEMMA RowExcept ==
  ASSUME row \in [Jobs -> JobRow], NEW i, NEW new, i \in Jobs => new \in JobRow
  PROVE  [row EXCEPT ![i] = new] \in [Jobs -> JobRow]
  OBVIOUS

LEMMA AgedType ==
  ASSUME NEW old \in JobRow
  PROVE  Aged(old) \in JobRow
  <1>1. CASE old.status = "running" /\ old.age <= Lease
    BY <1>1, QueueAssumption DEF Aged, JobRow
  <1>2. CASE old.status = "pending_workflows"
    BY <1>2 DEF Aged, JobRow
  <1> QED
    BY <1>1, <1>2 DEF Aged

LEMMA SettledRowType ==
  ASSUME TypeOK, NEW r \in Runs, NEW old \in JobRow
  PROVE  SettledRow(r, old) \in JobRow
  <1>1. NextStatus(r) \in Status
    BY DEF NextStatus, Status
  <1>2. run[r].wfChecks + 1 \in Nat
    BY DEF TypeOK, Run
  <1>3. 0 \in 0..Lease + 1
    BY QueueAssumption
  <1>4. CASE run[r].outcome \in {"workflows", "approval"}
    <2>1. SettledRow(r, old) =
              [old EXCEPT !.status = "pending_workflows", !.age = 0,
                          !.wfChecks = run[r].wfChecks + 1, !.wfDue = FALSE]
            \/ SettledRow(r, old) =
                 [old EXCEPT !.status = "pending_approval", !.age = 0]
      BY <1>4 DEF SettledRow
    <2> QED
      BY <2>1, <1>2, <1>3 DEF JobRow, Status
  <1>5. CASE run[r].outcome \notin {"workflows", "approval"}
    <2>1. SettledRow(r, old) = [old EXCEPT !.status = "succeeded"]
            \/ SettledRow(r, old) = [old EXCEPT !.status = NextStatus(r), !.age = 0]
      BY <1>5 DEF SettledRow
    <2> QED
      BY <2>1, <1>1, <1>3 DEF JobRow, Status
  <1> QED
    BY <1>4, <1>5

\* A claim fills a free slot, the end of a run frees it or leaves an orphan.
LEMMA StartRunType ==
  ASSUME TypeOK, NEW k \in Polls, StartRun(k)
  PROVE  /\ run' \in [Runs -> Run]
         /\ runningCount' \in [Procs -> Int]
  <1> DEFINE new == [FreeRun EXCEPT !.phase = "exec", !.job = poll[k].job,
                                    !.attempts = poll[k].attempts,
                                    !.wfChecks = poll[k].wfChecks]
  <1>1. new \in Run
    BY DEF TypeOK, Run, FreeRun, Phase, Outcome, Poll, NoJob
  <1>2. PICK r \in Runs : run' = [run EXCEPT ![r] = new]
    BY DEF StartRun
  <1>3. runningCount' \in [Procs -> Int]
    <2>1. runningCount' = [runningCount EXCEPT ![Home[k]] = @ + 1]
      BY DEF StartRun
    <2>2. Home[k] \in Procs
      BY QueueAssumption
    <2> QED
      BY <2>1, <2>2 DEF TypeOK
  <1> HIDE DEF new
  <1> QED
    BY <1>1, <1>2, <1>3 DEF TypeOK

LEMMA EndRunType ==
  ASSUME TypeOK, NEW r \in Runs, EndRun(r)
  PROVE  /\ run' \in [Runs -> Run]
         /\ runningCount' \in [Procs -> Int]
  <1>1. FreeRun \in Run
    BY DEF Run, FreeRun, Phase, Outcome, NoJob
  <1>2. [FreeRun EXCEPT !.phase = "orphan", !.job = run[r].job] \in Run
    BY DEF TypeOK, Run, FreeRun, Phase, Outcome, NoJob
  <1>3. runningCount' \in [Procs -> Int]
    <2>1. runningCount' = [runningCount EXCEPT ![Home[r]] = @ - 1]
      BY DEF EndRun
    <2>2. Home[r] \in Procs
      BY QueueAssumption
    <2> QED
      BY <2>1, <2>2 DEF TypeOK
  <1> QED
    BY <1>1, <1>2, <1>3 DEF EndRun, TypeOK

LEMMA TypeStep ==
  ASSUME TypeOK, [Next]_vars
  PROVE  TypeOK'
  <1> USE QueueAssumption
  <1>1. ASSUME NEW k \in Polls, TimerPoll(k)
        PROVE  TypeOK'
    BY <1>1, StartPollType DEF TimerPoll, TypeOK
  <1>2. ASSUME NEW k \in Polls, NEW j \in Jobs, Enqueue(k, j)
        PROVE  TypeOK'
    BY <1>2, StartPollType, RowUpdates DEF Enqueue, TypeOK
  <1>3. ASSUME NEW k \in Polls, ReclaimExpired(k)
        PROVE  TypeOK'
    <2>1. row' \in [Jobs -> JobRow]
      BY <1>3, RowUpdates DEF ReclaimExpired, ReclaimRows, TypeOK
    <2> QED
      BY <1>3, <2>1, GotoType DEF ReclaimExpired, TypeOK, PollPc
  <1>4. ASSUME NEW k \in Polls, CheckSlots(k)
        PROVE  TypeOK'
    BY <1>4, GotoType DEF CheckSlots, TypeOK, PollPc
  <1>5. ASSUME NEW k \in Polls, FindQueued(k)
        PROVE  TypeOK'
    <2>1. poll' \in [Polls -> Poll]
      BY <1>5, GotoType DEF FindQueued, Oldest, InStatus, TypeOK, Poll, PollPc, JobRow
    <2> QED
      BY <1>5, <2>1 DEF FindQueued, TypeOK
  <1>6. ASSUME NEW k \in Polls, FindWorkflows(k)
        PROVE  TypeOK'
    <2>1. poll' \in [Polls -> Poll]
      BY <1>6, GotoType DEF FindWorkflows, Oldest, InStatus, TypeOK, Poll, PollPc, JobRow
    <2> QED
      BY <1>6, <2>1 DEF FindWorkflows, TypeOK
  <1>7. ASSUME NEW k \in Polls, ClaimQueued(k) \/ ClaimWorkflows(k)
        PROVE  TypeOK'
    <2>1. StartRun(k) /\ Goto(k, "check") /\ UNCHANGED <<op, faults, wakes>>
      BY <1>7 DEF ClaimQueued, ClaimWorkflows
    <2>2. row' \in [Jobs -> JobRow]
      <3>1. \/ row' = [row EXCEPT ![poll[k].job] = ClaimedQueued(@)]
            \/ row' = [row EXCEPT ![poll[k].job] = ClaimedWorkflows(@)]
        BY <1>7 DEF ClaimQueued, ClaimWorkflows
      <3>2. poll[k].job \in Jobs => row[poll[k].job] \in JobRow
        BY DEF TypeOK
      <3>3. poll[k].job \in Jobs => /\ ClaimedQueued(row[poll[k].job]) \in JobRow
                                    /\ ClaimedWorkflows(row[poll[k].job]) \in JobRow
        BY <3>2, RowUpdates
      <3> QED
        BY <3>1, <3>3, RowExcept DEF TypeOK
    <2>3. poll' \in [Polls -> Poll]
      BY <2>1, GotoType DEF TypeOK, PollPc
    <2> QED
      BY <2>1, <2>2, <2>3, StartRunType DEF TypeOK
  <1>8. ASSUME NEW k \in Polls, ClaimQueuedMissed(k) \/ ClaimWorkflowsMissed(k)
        PROVE  TypeOK'
    BY <1>8, GotoType DEF ClaimQueuedMissed, ClaimWorkflowsMissed, TypeOK, PollPc
  <1>9. ASSUME NEW k \in Polls, PollDbError(k)
        PROVE  TypeOK'
    <2>1. row' \in [Jobs -> JobRow]
      <3>1. \/ row' = row
            \/ row' = [row EXCEPT ![poll[k].job] = ClaimedQueued(@)]
            \/ row' = [row EXCEPT ![poll[k].job] = ClaimedWorkflows(@)]
        BY <1>9 DEF PollDbError
      <3>2. poll[k].job \in Jobs => row[poll[k].job] \in JobRow
        BY DEF TypeOK
      <3>3. poll[k].job \in Jobs => /\ ClaimedQueued(row[poll[k].job]) \in JobRow
                                    /\ ClaimedWorkflows(row[poll[k].job]) \in JobRow
        BY <3>2, RowUpdates
      <3> QED
        BY <3>1, <3>3, RowExcept DEF TypeOK
    <2>2. poll' \in [Polls -> Poll]
      BY <1>9, GotoType DEF PollDbError, TypeOK, PollPc
    <2>3. faults' \in 0..MaxFaults
      BY <1>9 DEF PollDbError, TypeOK
    <2> QED
      BY <1>9, <2>1, <2>2, <2>3 DEF PollDbError, TypeOK
  <1>10. ASSUME NEW k \in Polls, ApprovalWake(k)
         PROVE  TypeOK'
    <2>1. row' \in [Jobs -> JobRow]
      <3>1. PICK S : row' = [j \in Jobs |-> IF j \in S THEN Woken(row[j]) ELSE row[j]]
        BY <1>10 DEF ApprovalWake
      <3> QED
        BY <3>1, RowUpdates DEF TypeOK
    <2> QED
      BY <1>10, <2>1, StartPollType, QueueAssumption DEF ApprovalWake, TypeOK
  <1>11. ASSUME NEW k \in Polls, NEW o \in Operators, RequeueWrite(o, k)
         PROVE  TypeOK'
    <2>1. row' \in [Jobs -> JobRow]
      BY <1>11, RowUpdates DEF RequeueWrite, TypeOK
    <2> QED
      BY <1>11, <2>1, StartPollType DEF RequeueWrite, TypeOK
  <1>12. ASSUME NEW r \in Runs, BodyEnds(r) \/ TimerFires(r) \/ OrphanEnds(r)
         PROVE  TypeOK'
    BY <1>12 DEF BodyEnds, TimerFires, OrphanEnds, TypeOK, Run, FreeRun, Phase,
                 Outcome, NoJob
  <1>13. ASSUME NEW r \in Runs, Settle(r)
         PROVE  TypeOK'
    <2>1. row' \in [Jobs -> JobRow]
      <3>1. CASE run[r].job \in Jobs
        BY <1>13, <3>1, SettledRowType DEF Settle, TypeOK
      <3>2. CASE run[r].job \notin Jobs
        BY <1>13, <3>2 DEF Settle, TypeOK
      <3> QED
        BY <3>1, <3>2
    <2> QED
      BY <1>13, <2>1, EndRunType DEF Settle, TypeOK
  <1>14. ASSUME NEW r \in Runs, SettleError(r)
         PROVE  TypeOK'
    <2>1. row' \in [Jobs -> JobRow]
      <3>1. CASE run[r].job \in Jobs
        BY <1>14, <3>1, SettledRowType DEF SettleError, TypeOK
      <3>2. CASE run[r].job \notin Jobs
        BY <1>14, <3>2 DEF SettleError, TypeOK
      <3> QED
        BY <3>1, <3>2
    <2>2. run' \in [Runs -> Run] /\ runningCount' \in [Procs -> Int]
      <3>1. CASE EndRun(r)
        BY <3>1, EndRunType
      <3>2. CASE ~EndRun(r)
        BY <1>14, <3>2 DEF SettleError, TypeOK, Run, Phase, Outcome
      <3> QED
        BY <3>1, <3>2
    <2> QED
      BY <1>14, <2>1, <2>2 DEF SettleError, TypeOK
  <1>15. ASSUME NEW o \in Operators, RequeueGone(o)
         PROVE  TypeOK'
    BY <1>15 DEF RequeueGone, TypeOK
  <1>16. ASSUME NEW o \in Operators, NEW j \in Jobs, RequeueRead(o, j)
         PROVE  TypeOK'
    BY <1>16 DEF RequeueRead, TypeOK
  <1>17. ASSUME Prune
         PROVE  TypeOK'
    <2>1. PICK S : row' = [j \in Jobs |-> IF j \in S
                                          THEN [row[j] EXCEPT !.status = "deleted"]
                                          ELSE row[j]]
      BY <1>17 DEF Prune
    <2>2. row' \in [Jobs -> JobRow]
      BY <2>1, RowUpdates DEF TypeOK
    <2> QED
      BY <1>17, <2>2 DEF Prune, TypeOK
  <1>18. ASSUME Tick
         PROVE  TypeOK'
    <2>1. row' \in [Jobs -> JobRow]
      BY <1>18, AgedType DEF Tick, TypeOK
    <2>2. run' \in [Runs -> Run]
      BY <1>18 DEF Tick, TypeOK, Run
    <2> QED
      BY <1>18, <2>1, <2>2 DEF Tick, TypeOK
  <1>19. ASSUME NEW p \in Procs, Crash(p)
         PROVE  TypeOK'
    BY <1>19 DEF Crash, TypeOK, Poll, IdlePoll, PollPc, Run, FreeRun, Phase,
                 Outcome, NoJob
  <1>20. CASE UNCHANGED vars
    BY <1>20 DEF vars, TypeOK
  <1> QED
    BY <1>1, <1>2, <1>3, <1>4, <1>5, <1>6, <1>7, <1>8, <1>9, <1>10, <1>11,
       <1>12, <1>13, <1>14, <1>15, <1>16, <1>17, <1>18, <1>19, <1>20, NextCases

\* Every reachable state is well-typed.
THEOREM TypeCorrect == Spec => []TypeOK
  <1>1. Init => TypeOK
    BY QueueAssumption DEF Init, TypeOK, JobRow, Status, Poll, IdlePoll, PollPc,
       Run, FreeRun, Phase, Outcome, NoJob
  <1>2. TypeOK /\ [Next]_vars => TypeOK'
    BY TypeStep
  <1> QED
    BY <1>1, <1>2, PTL DEF Spec

-----------------------------------------------------------------------------
(* Exclusive ownership.                                                     *)

\* The lease outlives every run, its last write included.  It holds for the
\* defaults (30 and 35 minutes), not for every per-job timeout the API accepts.
LeaseCovers == \A j \in Jobs : Timeout[j] + SettleTicks <= Lease

\* Requeue requests do not overlap.
OneOperator == \A o1, o2 \in Operators : o1 = o2

\* The row of a job in a run's hands: still running, and its age is the age of
\* the run; or already marked succeeded by a write that was reported as failed.
OwnerRow(r) ==
  LET j == run[r].job
  IN  /\ j \in Jobs
      /\ row[j].status \in {"running", "succeeded", "deleted"}
      /\ row[j].status = "running" => row[j].age = run[r].elapsed
      /\ run[r].elapsed <= Timeout[j] + SettleTicks

\* SingleOwner is not inductive alone: that a claim or a reclaim never meets a
\* live run needs the row's status and age, that a requeue does not needs the
\* row it read to be still failed.
OwnInv == SingleOwner /\ \A r \in Runs : Owns(r) => OwnerRow(r)

OpInv == \A o \in Operators :
  op[o] # NoJob => row[op[o]].status \in {"failed", "deleted"}

PollInv == \A k \in Polls :
  poll[k].pc \in {"claimQueued", "claimWorkflows"} => poll[k].job \in Jobs

IInv == TypeOK /\ OwnInv /\ OpInv /\ PollInv

\* A step that starts no run, lets no time pass and leaves the rows of the
\* runs that stay alone, or marks them succeeded or deleted.
LEMMA OwnFrame ==
  ASSUME OwnInv,
         \A r \in Runs : Owns(r)' =>
           /\ Owns(r)
           /\ run'[r].job = run[r].job
           /\ run'[r].elapsed = run[r].elapsed
           /\ \/ row'[run[r].job].status \in {"succeeded", "deleted"}
              \/ /\ row'[run[r].job].status = row[run[r].job].status
                 /\ row'[run[r].job].age = row[run[r].job].age
  PROVE  OwnInv'
  BY DEF OwnInv, SingleOwner, OwnerRow

\* No run has a job whose row is in another status.
LEMMA OwnedStatus ==
  ASSUME OwnInv, NEW r \in Runs, Owns(r)
  PROVE  /\ run[r].job \in Jobs
         /\ row[run[r].job].status \in {"running", "succeeded", "deleted"}
         /\ row[run[r].job].status = "running" =>
              row[run[r].job].age = run[r].elapsed
         /\ run[r].elapsed <= Timeout[run[r].job] + SettleTicks
  BY DEF OwnInv, OwnerRow

\* Claiming a queued or parked row gives it to the only run that has it.
LEMMA OwnClaim ==
  ASSUME TypeOK, OwnInv, NEW k \in Polls, NEW j \in Jobs, poll[k].job = j,
         row[j].status \in {"queued", "pending_workflows"}, StartRun(k),
         row'[j].status = "running", row'[j].age = 0,
         \A i \in Jobs : i # j => row'[i] = row[i]
  PROVE  OwnInv'
  <1>1. PICK r \in Runs :
          /\ run[r].phase = "free"
          /\ run' = [run EXCEPT ![r] =
                [FreeRun EXCEPT !.phase = "exec", !.job = poll[k].job,
                                !.attempts = poll[k].attempts,
                                !.wfChecks = poll[k].wfChecks]]
    BY DEF StartRun
  <1>2. /\ run'[r].job = j /\ run'[r].elapsed = 0
        /\ \A q \in Runs : q # r => run'[q] = run[q]
    BY <1>1 DEF TypeOK, FreeRun
  <1>3. \A q \in Runs : Owns(q) => run[q].job # j /\ run[q].job \in Jobs
    BY OwnedStatus
  <1>4. 0 <= Timeout[j] + SettleTicks
    BY QueueAssumption
  <1>5. \A q \in Runs : q # r => (Owns(q)' <=> Owns(q))
    BY <1>2 DEF Owns
  <1>6. SingleOwner'
    BY <1>2, <1>3, <1>5 DEF SingleOwner, OwnInv
  <1>7. ASSUME NEW q \in Runs, Owns(q)'
        PROVE  OwnerRow(q)'
    <2>1. CASE q = r
      BY <1>2, <1>4, <2>1 DEF OwnerRow
    <2>2. CASE q # r
      BY <1>2, <1>3, <1>5, <1>7, <2>2 DEF OwnerRow, OwnInv
    <2> QED
      BY <2>1, <2>2
  <1> QED
    BY <1>6, <1>7 DEF OwnInv

\* The lease never takes a job from a live run.
LEMMA OwnedNotExpired ==
  ASSUME LeaseCovers, TypeOK, OwnInv, NEW r \in Runs, Owns(r)
  PROVE  ~Expired(run[r].job)
  <1>1. /\ run[r].job \in Jobs
        /\ row[run[r].job].status = "running" =>
              row[run[r].job].age = run[r].elapsed
        /\ run[r].elapsed <= Timeout[run[r].job] + SettleTicks
    BY OwnedStatus
  <1>2. Timeout[run[r].job] + SettleTicks <= Lease
    BY <1>1 DEF LeaseCovers
  <1>3. run[r].elapsed \in Nat
    BY DEF TypeOK, Run
  <1>4. Timeout[run[r].job] \in Nat /\ SettleTicks \in Nat /\ Lease \in Nat
    BY <1>1, QueueAssumption
  <1> QED
    BY <1>1, <1>2, <1>3, <1>4 DEF Expired

\* A step that only writes rows, none of them a live run's unless to delete it.
LEMMA OwnRows ==
  ASSUME OwnInv, run' = run,
         \A r \in Runs : Owns(r) =>
           \/ row'[run[r].job] = row[run[r].job]
           \/ row'[run[r].job].status = "deleted"
  PROVE  OwnInv'
  BY OwnFrame DEF Owns

\* A step in which one run ends, its body staying behind or not.
LEMMA OwnEnd ==
  ASSUME TypeOK, OwnInv, NEW r \in Runs, Owns(r), EndRun(r),
         \A j \in Jobs : j # run[r].job => row'[j] = row[j]
  PROVE  OwnInv'
  <1>1. ~Owns(r)'
    BY DEF TypeOK, EndRun, Owns, FreeRun
  <1>2. \A q \in Runs : q # r => run'[q] = run[q]
    BY DEF TypeOK, EndRun
  <1>3. \A q \in Runs : q # r /\ Owns(q) =>
          run[q].job # run[r].job /\ run[q].job \in Jobs
    BY OwnedStatus DEF OwnInv, SingleOwner
  <1>4. \A q \in Runs : Owns(q)' => q # r /\ Owns(q)
    BY <1>1, <1>2 DEF Owns
  <1>5. \A q \in Runs : Owns(q)' =>
          /\ run'[q] = run[q]
          /\ row'[run[q].job] = row[run[q].job]
    BY <1>2, <1>3, <1>4
  <1> QED
    BY <1>4, <1>5, OwnFrame

LEMMA OwnStep ==
  ASSUME LeaseCovers, IInv, [Next]_vars
  PROVE  OwnInv'
  <1> USE DEF IInv
  <1>1. ASSUME row' = row, run' = run
        PROVE  OwnInv'
    BY <1>1, OwnRows
  <1>2. ASSUME NEW k \in Polls, NEW j \in Jobs, Enqueue(k, j)
        PROVE  OwnInv'
    <2>1. \A r \in Runs : Owns(r) => run[r].job # j
      BY <1>2, OwnedStatus DEF Enqueue
    <2>2. \A i \in Jobs : i # j => row'[i] = row[i]
      BY <1>2 DEF Enqueue, TypeOK
    <2> QED
      BY <1>2, <2>1, <2>2, OwnRows, OwnedStatus DEF Enqueue
  <1>3. ASSUME NEW k \in Polls, ReclaimExpired(k)
        PROVE  OwnInv'
    <2>1. \A j \in Jobs : ~Expired(j) => row'[j] = row[j]
      BY <1>3 DEF ReclaimExpired, ReclaimRows
    <2> QED
      BY <1>3, <2>1, OwnRows, OwnedStatus, OwnedNotExpired DEF ReclaimExpired
  <1>4. ASSUME NEW k \in Polls, ClaimQueued(k) \/ ClaimWorkflows(k)
        PROVE  OwnInv'
    <2> DEFINE j == poll[k].job
    <2>1. j \in Jobs
      BY <1>4 DEF ClaimQueued, ClaimWorkflows, PollInv
    <2>2. row[j].status \in {"queued", "pending_workflows"} /\ StartRun(k)
      BY <1>4 DEF ClaimQueued, ClaimWorkflows
    <2>3. \A i \in Jobs : i # j => row'[i] = row[i]
      BY <1>4, <2>1 DEF ClaimQueued, ClaimWorkflows, TypeOK
    <2>4. \/ row'[j] = ClaimedQueued(row[j])
          \/ row'[j] = ClaimedWorkflows(row[j])
      BY <1>4, <2>1 DEF ClaimQueued, ClaimWorkflows, TypeOK
    <2>5. row[j] \in JobRow
      BY <2>1 DEF TypeOK
    <2>6. row'[j].status = "running" /\ row'[j].age = 0
      BY <2>4, <2>5 DEF ClaimedQueued, ClaimedWorkflows, JobRow
    <2> QED
      BY <2>1, <2>2, <2>3, <2>6, OwnClaim
  <1>5. ASSUME NEW k \in Polls, PollDbError(k)
        PROVE  OwnInv'
    <2>1. \/ row' = row
          \/ /\ poll[k].job \in Jobs
             /\ row[poll[k].job].status \in {"queued", "pending_workflows"}
             /\ \A i \in Jobs : i # poll[k].job => row'[i] = row[i]
      BY <1>5 DEF PollDbError, PollInv, TypeOK
    <2>2. \A r \in Runs : Owns(r) => row'[run[r].job] = row[run[r].job]
      BY <2>1, OwnedStatus
    <2> QED
      BY <1>5, <2>2, OwnRows DEF PollDbError
  <1>6. ASSUME NEW k \in Polls, ApprovalWake(k)
        PROVE  OwnInv'
    <2>1. PICK S \in SUBSET InStatus("pending_approval") :
            row' = [j \in Jobs |-> IF j \in S THEN Woken(row[j]) ELSE row[j]]
      BY <1>6 DEF ApprovalWake
    <2>2. \A r \in Runs : Owns(r) => row'[run[r].job] = row[run[r].job]
      BY <2>1, OwnedStatus DEF InStatus
    <2> QED
      BY <1>6, <2>2, OwnRows DEF ApprovalWake
  <1>7. ASSUME NEW k \in Polls, NEW o \in Operators, RequeueWrite(o, k)
        PROVE  OwnInv'
    <2>1. row[op[o]].status = "failed"
      BY <1>7 DEF RequeueWrite, OpInv
    <2>2. \A r \in Runs : Owns(r) => run[r].job # op[o] /\ run[r].job \in Jobs
      BY <2>1, OwnedStatus
    <2>3. \A j \in Jobs : j # op[o] => row'[j] = row[j]
      BY <1>7 DEF RequeueWrite, TypeOK
    <2> QED
      BY <1>7, <2>2, <2>3, OwnRows DEF RequeueWrite
  <1>8. ASSUME NEW r \in Runs, BodyEnds(r) \/ TimerFires(r) \/ OrphanEnds(r)
        PROVE  OwnInv'
    <2>1. row' = row
      BY <1>8 DEF BodyEnds, TimerFires, OrphanEnds
    <2>2. \A q \in Runs : Owns(q)' => /\ Owns(q)
                                      /\ run'[q].job = run[q].job
                                      /\ run'[q].elapsed = run[q].elapsed
      BY <1>8 DEF BodyEnds, TimerFires, OrphanEnds, Owns, FreeRun, TypeOK, Run
    <2> QED
      BY <2>1, <2>2, OwnFrame
  <1>9. ASSUME NEW r \in Runs, Settle(r)
        PROVE  OwnInv'
    <2>1. Owns(r) /\ EndRun(r)
      BY <1>9 DEF Settle, Owns
    <2>2. \A j \in Jobs : j # run[r].job => row'[j] = row[j]
      BY <1>9 DEF Settle, TypeOK
    <2> QED
      BY <2>1, <2>2, OwnEnd
  <1>10. ASSUME NEW r \in Runs, SettleError(r)
         PROVE  OwnInv'
    <2>1. Owns(r)
      BY <1>10 DEF SettleError, Owns
    <2>2. CASE row' = row /\ EndRun(r)
      BY <2>1, <2>2, OwnEnd
    <2>3. CASE /\ run[r].outcome = "ok"
               /\ \/ row' = row
                  \/ row' = [row EXCEPT ![run[r].job] = SettledRow(r, @)]
               /\ run' = [run EXCEPT ![r].outcome = "error"]
      <3>1. \A q \in Runs : /\ run'[q].job = run[q].job
                            /\ run'[q].elapsed = run[q].elapsed
                            /\ run'[q].phase = run[q].phase
        BY <2>3 DEF TypeOK, Run
      <3>2. \A j \in Jobs : \/ row'[j] = row[j]
                            \/ row'[j].status = "succeeded"
        BY <2>3 DEF TypeOK, SettledRow, JobRow
      <3>3. \A q \in Runs : Owns(q)' => Owns(q) /\ run[q].job \in Jobs
        BY <3>1, OwnedStatus DEF Owns
      <3> QED
        BY <3>1, <3>2, <3>3, OwnFrame
    <2> QED
      BY <1>10, <2>2, <2>3 DEF SettleError
  <1>11. ASSUME Prune
         PROVE  OwnInv'
    <2>1. PICK S : row' = [j \in Jobs |-> IF j \in S
                                          THEN [row[j] EXCEPT !.status = "deleted"]
                                          ELSE row[j]]
      BY <1>11 DEF Prune
    <2>2. \A j \in Jobs : \/ row'[j] = row[j]
                          \/ row'[j].status = "deleted"
      BY <2>1 DEF TypeOK, JobRow
    <2> QED
      BY <1>11, <2>2, OwnRows, OwnedStatus DEF Prune
  <1>12. ASSUME Tick
         PROVE  OwnInv'
    <2>1. \A r \in Runs : /\ run'[r].job = run[r].job
                          /\ run'[r].phase = run[r].phase
                          /\ Owns(r) => run'[r].elapsed = run[r].elapsed + 1
      BY <1>12 DEF Tick, TypeOK, Run
    <2>2. \A r \in Runs : Owns(r)' <=> Owns(r)
      BY <2>1 DEF Owns
    <2>3. SingleOwner'
      BY <2>1, <2>2 DEF OwnInv, SingleOwner
    <2>4. ASSUME NEW r \in Runs, Owns(r)
          PROVE  OwnerRow(r)'
      <3> DEFINE j == run[r].job
      <3>1. j \in Jobs /\ row[j].status \in {"running", "succeeded", "deleted"}
        BY <2>4, OwnedStatus
      <3>2. row[j].status = "running" => row[j].age = run[r].elapsed
        BY <2>4, OwnedStatus
      <3>3. /\ run[r].elapsed \in Nat /\ Timeout[j] \in Nat
            /\ SettleTicks \in Nat /\ Lease \in Nat
        BY <3>1, QueueAssumption DEF TypeOK, Run
      <3>4. run[r].elapsed < Timeout[j] + SettleTicks
        BY <1>12, <2>4, <3>3 DEF Tick, Owns
      <3>5. row[j].status = "running" => row[j].age <= Lease
        BY <3>1, <3>2, <3>3, <3>4 DEF LeaseCovers
      <3>6. row'[j] = Aged(row[j]) /\ row[j] \in JobRow
        BY <1>12, <3>1 DEF Tick, TypeOK
      <3>7. /\ row'[j].status = row[j].status
            /\ row[j].status = "running" => row'[j].age = row[j].age + 1
        BY <3>1, <3>5, <3>6 DEF Aged, JobRow
      <3> QED
        BY <2>1, <2>4, <3>1, <3>2, <3>3, <3>4, <3>7 DEF OwnerRow
    <2> QED
      BY <2>2, <2>3, <2>4 DEF OwnInv
  <1>13. ASSUME NEW p \in Procs, Crash(p)
         PROVE  OwnInv'
    <2>1. row' = row
      BY <1>13 DEF Crash
    <2>2. \A r \in Runs : Owns(r)' => run'[r] = run[r] /\ Owns(r)
      BY <1>13 DEF Crash, Owns, FreeRun
    <2> QED
      BY <2>1, <2>2, OwnFrame
  <1>14. ASSUME NEW k \in Polls,
                \/ TimerPoll(k) \/ CheckSlots(k) \/ FindQueued(k) \/ FindWorkflows(k)
                \/ ClaimQueuedMissed(k) \/ ClaimWorkflowsMissed(k)
         PROVE  OwnInv'
    BY <1>1, <1>14 DEF TimerPoll, CheckSlots, FindQueued, FindWorkflows,
                       ClaimQueuedMissed, ClaimWorkflowsMissed
  <1>15. ASSUME NEW o \in Operators, RequeueGone(o) \/ \E j \in Jobs : RequeueRead(o, j)
         PROVE  OwnInv'
    BY <1>1, <1>15 DEF RequeueGone, RequeueRead
  <1>16. CASE UNCHANGED vars
    BY <1>1, <1>16 DEF vars
  <1> QED
    BY <1>2, <1>3, <1>4, <1>5, <1>6, <1>7, <1>8, <1>9, <1>10, <1>11, <1>12,
       <1>13, <1>14, <1>15, <1>16, NextCases

\* A finished row only leaves its status by a requeue.
LEMMA OpFrame ==
  ASSUME TypeOK, OpInv,
         \A o \in Operators : op'[o] # NoJob =>
           op'[o] = op[o] \/ row'[op'[o]].status \in {"failed", "deleted"},
         \A j \in Jobs : row[j].status \in {"failed", "deleted"} =>
           row'[j].status \in {"failed", "deleted"}
  PROVE  OpInv'
  BY DEF OpInv, TypeOK

LEMMA OpStep ==
  ASSUME OneOperator, IInv, [Next]_vars
  PROVE  OpInv'
  <1> USE DEF IInv
  <1>1. ASSUME row' = row, op' = op
        PROVE  OpInv'
    BY <1>1 DEF OpInv
  <1>2. ASSUME NEW k \in Polls, NEW j \in Jobs, Enqueue(k, j)
        PROVE  OpInv'
    BY <1>2, OpFrame DEF Enqueue, TypeOK
  <1>3. ASSUME NEW k \in Polls, ReclaimExpired(k)
        PROVE  OpInv'
    BY <1>3, OpFrame DEF ReclaimExpired, ReclaimRows, Expired
  <1>4. ASSUME NEW k \in Polls,
               ClaimQueued(k) \/ ClaimWorkflows(k) \/ PollDbError(k)
        PROVE  OpInv'
    <2>1. \A j \in Jobs :
            \/ row'[j] = row[j]
            \/ row[j].status \in {"queued", "pending_workflows"}
      BY <1>4 DEF ClaimQueued, ClaimWorkflows, PollDbError, TypeOK
    <2>2. op' = op
      BY <1>4 DEF ClaimQueued, ClaimWorkflows, PollDbError
    <2> QED
      BY <2>1, <2>2, OpFrame
  <1>5. ASSUME NEW k \in Polls, ApprovalWake(k)
        PROVE  OpInv'
    <2>1. PICK S \in SUBSET InStatus("pending_approval") :
            row' = [j \in Jobs |-> IF j \in S THEN Woken(row[j]) ELSE row[j]]
      BY <1>5 DEF ApprovalWake
    <2> QED
      BY <1>5, <2>1, OpFrame DEF ApprovalWake, InStatus
  <1>6. ASSUME NEW k \in Polls, NEW o \in Operators, RequeueWrite(o, k)
        PROVE  OpInv'
    <2>1. \A q \in Operators : op'[q] = NoJob
      BY <1>6 DEF RequeueWrite, OneOperator, TypeOK
    <2> QED
      BY <2>1 DEF OpInv
  <1>7. ASSUME NEW r \in Runs, Settle(r) \/ SettleError(r)
        PROVE  OpInv'
    <2>1. Owns(r) /\ op' = op
      BY <1>7 DEF Settle, SettleError, Owns
    <2>2. \A j \in Jobs : j # run[r].job => row'[j] = row[j]
      BY <1>7 DEF Settle, SettleError, TypeOK
    <2>3. \/ row' = row
          \/ row[run[r].job].status \in {"running", "succeeded"}
      BY <1>7, <2>1, OwnedStatus DEF Settle, SettleError
    <2> QED
      BY <2>1, <2>2, <2>3, OpFrame
  <1>8. ASSUME NEW r \in Runs, BodyEnds(r) \/ TimerFires(r) \/ OrphanEnds(r)
        PROVE  OpInv'
    BY <1>1, <1>8 DEF BodyEnds, TimerFires, OrphanEnds
  <1>9. ASSUME Prune
        PROVE  OpInv'
    <2>1. PICK S : row' = [j \in Jobs |-> IF j \in S
                                          THEN [row[j] EXCEPT !.status = "deleted"]
                                          ELSE row[j]]
      BY <1>9 DEF Prune
    <2>2. \A j \in Jobs : \/ row'[j] = row[j]
                          \/ row'[j].status = "deleted"
      BY <2>1 DEF TypeOK, JobRow
    <2> QED
      BY <1>9, <2>2, OpFrame DEF Prune
  <1>10. ASSUME Tick
         PROVE  OpInv'
    <2>1. \A j \in Jobs : row'[j].status = row[j].status
      BY <1>10 DEF Tick, Aged, TypeOK, JobRow
    <2> QED
      BY <1>10, <2>1, OpFrame DEF Tick
  <1>11. ASSUME NEW p \in Procs, Crash(p)
         PROVE  OpInv'
    BY <1>11 DEF Crash, OpInv
  <1>12. ASSUME NEW k \in Polls,
                \/ TimerPoll(k) \/ CheckSlots(k) \/ FindQueued(k) \/ FindWorkflows(k)
                \/ ClaimQueuedMissed(k) \/ ClaimWorkflowsMissed(k)
         PROVE  OpInv'
    BY <1>1, <1>12 DEF TimerPoll, CheckSlots, FindQueued, FindWorkflows,
                       ClaimQueuedMissed, ClaimWorkflowsMissed
  <1>13. ASSUME NEW o \in Operators, RequeueGone(o)
         PROVE  OpInv'
    BY <1>13, OpFrame DEF RequeueGone, TypeOK
  <1>14. ASSUME NEW o \in Operators, NEW j \in Jobs, RequeueRead(o, j)
         PROVE  OpInv'
    BY <1>14, OpFrame DEF RequeueRead, TypeOK
  <1>15. CASE UNCHANGED vars
    BY <1>1, <1>15 DEF vars
  <1> QED
    BY <1>2, <1>3, <1>4, <1>5, <1>6, <1>7, <1>8, <1>9, <1>10, <1>11, <1>12,
       <1>13, <1>14, <1>15, NextCases

\* A poll reaches a claim only with the job it found.
LEMMA PollGoto ==
  ASSUME TypeOK, PollInv, NEW k \in Polls, NEW pc, Goto(k, pc),
         pc \notin {"claimQueued", "claimWorkflows"}
  PROVE  PollInv'
  BY DEF Goto, PollInv, TypeOK, IdlePoll

LEMMA PollInvStep ==
  ASSUME IInv, [Next]_vars
  PROVE  PollInv'
  <1> USE DEF IInv
  <1>1. ASSUME poll' = poll
        PROVE  PollInv'
    BY <1>1 DEF PollInv
  <1>2. ASSUME NEW k \in Polls,
               \/ TimerPoll(k) \/ PollDbError(k) \/ ApprovalWake(k)
               \/ ReclaimExpired(k) \/ CheckSlots(k)
               \/ ClaimQueued(k) \/ ClaimWorkflows(k)
               \/ ClaimQueuedMissed(k) \/ ClaimWorkflowsMissed(k)
        PROVE  PollInv'
    <2>1. PICK pc \in PollPc \ {"claimQueued", "claimWorkflows"} : Goto(k, pc)
      BY <1>2 DEF TimerPoll, PollDbError, ApprovalWake, ReclaimExpired, CheckSlots,
                  ClaimQueued, ClaimWorkflows, ClaimQueuedMissed,
                  ClaimWorkflowsMissed, StartPoll, PollPc
    <2> QED
      BY <2>1, PollGoto
  <1>3. ASSUME NEW k \in Polls, FindQueued(k) \/ FindWorkflows(k)
        PROVE  PollInv'
    <2>1. CASE \E pc \in {"idle", "findWorkflows"} : Goto(k, pc)
      BY <2>1, PollGoto
    <2>2. CASE \E j \in Jobs : \E new :
                 new.job = j /\ poll' = [poll EXCEPT ![k] = new]
      BY <2>2 DEF PollInv, TypeOK
    <2> QED
      BY <1>3, <2>1, <2>2 DEF FindQueued, FindWorkflows, Oldest, InStatus
  <1>4. ASSUME NEW k \in Polls, NEW j \in Jobs, Enqueue(k, j)
        PROVE  PollInv'
    BY <1>4, PollGoto DEF Enqueue, StartPoll
  <1>5. ASSUME NEW k \in Polls, NEW o \in Operators, RequeueWrite(o, k)
        PROVE  PollInv'
    BY <1>5, PollGoto DEF RequeueWrite, StartPoll
  <1>6. ASSUME NEW p \in Procs, Crash(p)
        PROVE  PollInv'
    BY <1>6 DEF Crash, PollInv, IdlePoll
  <1>7. ASSUME \/ \E r \in Runs : \/ BodyEnds(r) \/ TimerFires(r) \/ Settle(r)
                                  \/ SettleError(r) \/ OrphanEnds(r)
               \/ \E o \in Operators : \/ RequeueGone(o)
                                       \/ \E j \in Jobs : RequeueRead(o, j)
               \/ Prune \/ Tick
        PROVE  PollInv'
    BY <1>1, <1>7 DEF BodyEnds, TimerFires, Settle, SettleError, OrphanEnds,
                      RequeueGone, RequeueRead, Prune, Tick
  <1>8. CASE UNCHANGED vars
    BY <1>1, <1>8 DEF vars
  <1> QED
    BY <1>2, <1>3, <1>4, <1>5, <1>6, <1>7, <1>8, NextCases

LEMMA IInvInit == Init => IInv
  <1>1. Init => TypeOK
    BY QueueAssumption DEF Init, TypeOK, JobRow, Status, Poll, IdlePoll, PollPc,
       Run, FreeRun, Phase, Outcome, NoJob
  <1>2. Init => OwnInv /\ OpInv /\ PollInv
    BY DEF Init, OwnInv, SingleOwner, Owns, FreeRun, OpInv, PollInv, IdlePoll
  <1> QED
    BY <1>1, <1>2 DEF IInv

LEMMA IInvStep ==
  ASSUME LeaseCovers, OneOperator, IInv, [Next]_vars
  PROVE  IInv'
  BY TypeStep, OwnStep, OpStep, PollInvStep DEF IInv

\* If the lease covers every job's timeout and final write, and requeue
\* requests do not overlap, no job is ever in the hands of two runs.
THEOREM MutualExclusion ==
  ASSUME LeaseCovers, OneOperator
  PROVE  Spec => []SingleOwner
  <1>1. IInv /\ [Next]_vars => IInv'
    BY IInvStep
  <1>2. IInv => SingleOwner
    BY DEF IInv, OwnInv
  <1> QED
    BY IInvInit, <1>1, <1>2, PTL DEF Spec

\* Only ReclaimExpired counts a reclaim, and only of an expired row.
LEMMA ReclaimStep ==
  ASSUME IInv, [Next]_vars, NEW j \in Jobs,
         row'[j].leaseReclaimCount > row[j].leaseReclaimCount
  PROVE  Expired(j)
  <1> USE DEF IInv
  <1> DEFINE Same(i) == row'[i].leaseReclaimCount = row[i].leaseReclaimCount
  <1>1. row[j] \in JobRow /\ row[j].leaseReclaimCount \in Nat
    BY DEF TypeOK, JobRow
  <1>2. ~Same(j)
    BY <1>1
  <1>3. \A i \in Jobs : row'[i] = row[i] => Same(i)
    OBVIOUS
  <1>4. ASSUME NEW k \in Polls, ReclaimExpired(k)
        PROVE  Expired(j)
    BY <1>2, <1>4 DEF ReclaimExpired, ReclaimRows
  <1>5. \A k \in Polls, i \in Jobs : ~Enqueue(k, i)
    BY <1>1, <1>2 DEF Enqueue, TypeOK, JobRow
  <1>6. \A k \in Polls : ~ClaimQueued(k) /\ ~ClaimWorkflows(k) /\ ~PollDbError(k)
    <2>1. ClaimedQueued(row[j]).leaseReclaimCount = row[j].leaseReclaimCount
      BY <1>1 DEF ClaimedQueued, JobRow
    <2>2. ClaimedWorkflows(row[j]).leaseReclaimCount = row[j].leaseReclaimCount
      BY <1>1 DEF ClaimedWorkflows, JobRow
    <2> QED
      BY <1>2, <2>1, <2>2 DEF ClaimQueued, ClaimWorkflows, PollDbError, TypeOK
  <1>7. \A k \in Polls : ~ApprovalWake(k)
    <2>1. Woken(row[j]).leaseReclaimCount = row[j].leaseReclaimCount
      BY <1>1 DEF Woken, JobRow
    <2> QED
      BY <1>2, <2>1 DEF ApprovalWake
  <1>8. \A k \in Polls, o \in Operators : ~RequeueWrite(o, k)
    <2>1. Requeued(row[j]).leaseReclaimCount = row[j].leaseReclaimCount
      BY <1>1 DEF Requeued, JobRow
    <2> QED
      BY <1>2, <2>1 DEF RequeueWrite, TypeOK
  <1>9. \A r \in Runs : ~Settle(r) /\ ~SettleError(r)
    <2>1. \A r \in Runs :
            SettledRow(r, row[j]).leaseReclaimCount = row[j].leaseReclaimCount
      BY <1>1 DEF SettledRow, JobRow
    <2> QED
      BY <1>2, <2>1 DEF Settle, SettleError, TypeOK
  <1>10. ~Prune
    BY <1>1, <1>2 DEF Prune, JobRow
  <1>11. ~Tick
    <2>1. Aged(row[j]).leaseReclaimCount = row[j].leaseReclaimCount
      BY <1>1 DEF Aged, JobRow
    <2> QED
      BY <1>2, <2>1 DEF Tick
  <1>12. row' # row
    BY <1>2, <1>3
  <1> QED
    BY <1>4, <1>5, <1>6, <1>7, <1>8, <1>9, <1>10, <1>11, <1>12, NextCases
    DEF TimerPoll, CheckSlots, FindQueued, FindWorkflows, ClaimQueuedMissed,
        ClaimWorkflowsMissed, BodyEnds, TimerFires, OrphanEnds, RequeueGone,
        RequeueRead, Crash, vars

\* Under the same assumptions the lease only takes back jobs whose run is gone.
THEOREM ReclaimsAreSafe ==
  ASSUME LeaseCovers, OneOperator
  PROVE  Spec => ReclaimsOnlyAbandoned
  <1>1. IInv /\ [Next]_vars => IInv'
    BY IInvStep
  <1>2. IInv /\ [Next]_vars =>
          [\A j \in Jobs :
             row'[j].leaseReclaimCount > row[j].leaseReclaimCount => ~Owned(j)]_vars
    BY ReclaimStep, OwnedNotExpired DEF Owned, IInv
  <1> QED
    BY IInvInit, <1>1, <1>2, PTL DEF Spec, ReclaimsOnlyAbandoned

-----------------------------------------------------------------------------
(* The slots of a process.                                                  *)

Held(p) == {r \in Runs : Home[r] = p /\ Owns(r)}
PollsOf(p) == {k \in Polls : Home[k] = p}

LEMMA HeldFinite ==
  ASSUME NEW p
  PROVE  /\ IsFiniteSet(Held(p)) /\ Cardinality(Held(p)) \in Nat
         /\ IsFiniteSet(PollsOf(p)) /\ Cardinality(PollsOf(p)) \in Nat
         /\ IsFiniteSet(Claiming(p)) /\ Cardinality(Claiming(p)) \in Nat
         /\ Cardinality(Claiming(p)) <= Cardinality(PollsOf(p))
  <1>1. Held(p) \in SUBSET Runs /\ PollsOf(p) \in SUBSET Polls
    BY DEF Held, PollsOf
  <1>2. Claiming(p) \in SUBSET PollsOf(p)
    BY DEF Claiming, PollsOf
  <1>3. IsFiniteSet(Held(p)) /\ IsFiniteSet(PollsOf(p))
    BY <1>1, FS_Subset, QueueAssumption
  <1>4. IsFiniteSet(Claiming(p)) /\ Cardinality(Claiming(p)) <= Cardinality(PollsOf(p))
    BY <1>2, <1>3, FS_Subset
  <1> QED
    BY <1>3, <1>4, FS_CardinalityType

\* What a step does to the slots: it leaves counters and owners alone, starts
\* one run, ends one run, or resets a process.
SameSlots ==
  runningCount' = runningCount /\ \A r \in Runs : Owns(r)' <=> Owns(r)
StartsRun(q) ==
  /\ runningCount' = [runningCount EXCEPT ![q] = @ + 1]
  /\ \E r \in Runs : /\ Home[r] = q /\ ~Owns(r) /\ Owns(r)'
                     /\ \A i \in Runs : i # r => (Owns(i)' <=> Owns(i))
EndsRun(q) ==
  /\ runningCount' = [runningCount EXCEPT ![q] = @ - 1]
  /\ \E r \in Runs : /\ Home[r] = q /\ Owns(r) /\ ~Owns(r)'
                     /\ \A i \in Runs : i # r => (Owns(i)' <=> Owns(i))
Resets(q) ==
  /\ runningCount' = [runningCount EXCEPT ![q] = 0]
  /\ \A r \in Runs : IF Home[r] = q THEN ~Owns(r)' ELSE Owns(r)' <=> Owns(r)

LEMMA StartRunSlots ==
  ASSUME TypeOK, NEW k \in Polls, StartRun(k)
  PROVE  StartsRun(Home[k])
  <1>1. PICK r \in Runs :
          /\ Home[r] = Home[k]
          /\ run[r].phase = "free"
          /\ run' = [run EXCEPT ![r] =
                [FreeRun EXCEPT !.phase = "exec", !.job = poll[k].job,
                                !.attempts = poll[k].attempts,
                                !.wfChecks = poll[k].wfChecks]]
    BY DEF StartRun
  <1>2. run'[r].phase = "exec" /\ \A i \in Runs : i # r => run'[i] = run[i]
    BY <1>1 DEF TypeOK, FreeRun
  <1> QED
    BY <1>1, <1>2 DEF StartRun, StartsRun, Owns

LEMMA EndRunSlots ==
  ASSUME TypeOK, NEW r \in Runs, Owns(r), EndRun(r)
  PROVE  EndsRun(Home[r])
  <1>1. ~Owns(r)'
    BY DEF TypeOK, EndRun, Owns, FreeRun
  <1>2. \A i \in Runs : i # r => run'[i] = run[i]
    BY DEF TypeOK, EndRun
  <1> QED
    BY <1>1, <1>2 DEF EndRun, EndsRun, Owns

LEMMA SlotCases ==
  ASSUME TypeOK, [Next]_vars
  PROVE  \/ SameSlots
         \/ \E k \in Polls : /\ poll[k].pc \in {"claimQueued", "claimWorkflows"}
                             /\ Goto(k, "check") /\ StartsRun(Home[k])
         \/ \E p \in Procs : EndsRun(p) /\ poll' = poll
         \/ \E p \in Procs : Resets(p) /\ Crash(p)
  <1>1. ASSUME run' = run, runningCount' = runningCount
        PROVE  SameSlots
    BY <1>1 DEF SameSlots, Owns
  <1>2. ASSUME NEW k \in Polls, ClaimQueued(k) \/ ClaimWorkflows(k)
        PROVE  /\ poll[k].pc \in {"claimQueued", "claimWorkflows"}
               /\ Goto(k, "check") /\ StartsRun(Home[k])
    BY <1>2, StartRunSlots DEF ClaimQueued, ClaimWorkflows
  <1>3. ASSUME NEW r \in Runs, BodyEnds(r) \/ TimerFires(r) \/ OrphanEnds(r)
        PROVE  SameSlots
    <2>1. runningCount' = runningCount
      BY <1>3 DEF BodyEnds, TimerFires, OrphanEnds
    <2>2. \A q \in Runs : Owns(q)' <=> Owns(q)
      BY <1>3 DEF BodyEnds, TimerFires, OrphanEnds, Owns, FreeRun, TypeOK, Run
    <2> QED
      BY <2>1, <2>2 DEF SameSlots
  <1>4. ASSUME NEW r \in Runs, Settle(r)
        PROVE  EndsRun(Home[r]) /\ poll' = poll /\ Home[r] \in Procs
    BY <1>4, EndRunSlots, QueueAssumption DEF Settle, Owns
  <1>5. ASSUME NEW r \in Runs, SettleError(r)
        PROVE  \/ SameSlots
               \/ EndsRun(Home[r]) /\ poll' = poll /\ Home[r] \in Procs
    <2>1. CASE EndRun(r)
      BY <1>5, <2>1, EndRunSlots, QueueAssumption DEF SettleError, Owns
    <2>2. CASE ~EndRun(r)
      BY <1>5, <2>2 DEF SettleError, SameSlots, Owns, TypeOK, Run
    <2> QED
      BY <2>1, <2>2
  <1>6. ASSUME Tick
        PROVE  SameSlots
    BY <1>6 DEF Tick, SameSlots, Owns, TypeOK, Run
  <1>7. ASSUME NEW p \in Procs, Crash(p)
        PROVE  Resets(p)
    BY <1>7 DEF Crash, Resets, Owns, FreeRun
  <1> QED
    BY <1>1, <1>2, <1>3, <1>4, <1>5, <1>6, <1>7, NextCases
    DEF TimerPoll, PollDbError, ApprovalWake, ReclaimExpired, CheckSlots,
        FindQueued, FindWorkflows, ClaimQueuedMissed, ClaimWorkflowsMissed,
        Enqueue, RequeueWrite, RequeueGone, RequeueRead, Prune, vars

LEMMA SlotsStep ==
  ASSUME TypeOK, SlotsCounted, [Next]_vars
  PROVE  SlotsCounted'
  <1>1. \A p \in Procs : runningCount[p] = Cardinality(Held(p))
    BY DEF SlotsCounted, Held
  <1>2. SUFFICES ASSUME NEW p \in Procs
                 PROVE  runningCount'[p] = Cardinality(Held(p)')
    BY DEF SlotsCounted, Held
  <1>3. CASE SameSlots
    BY <1>1, <1>3 DEF SameSlots, Held
  <1>4. ASSUME NEW q \in Procs, StartsRun(q)
        PROVE  runningCount'[p] = Cardinality(Held(p)')
    <2>1. PICK r \in Runs : /\ Home[r] = q /\ ~Owns(r) /\ Owns(r)'
                            /\ \A i \in Runs : i # r => (Owns(i)' <=> Owns(i))
      BY <1>4 DEF StartsRun
    <2>2. CASE p = q
      <3>1. Held(p)' = Held(p) \cup {r} /\ r \notin Held(p)
        BY <2>1, <2>2 DEF Held
      <3>2. Cardinality(Held(p)') = Cardinality(Held(p)) + 1
        BY <3>1, FS_AddElement, HeldFinite
      <3> QED
        BY <1>1, <1>4, <2>2, <3>2 DEF StartsRun, TypeOK
    <2>3. CASE p # q
      <3>1. Held(p)' = Held(p)
        BY <2>1, <2>3 DEF Held
      <3> QED
        BY <1>1, <1>4, <2>3, <3>1 DEF StartsRun, TypeOK
    <2> QED
      BY <2>2, <2>3
  <1>5. ASSUME NEW q \in Procs, EndsRun(q)
        PROVE  runningCount'[p] = Cardinality(Held(p)')
    <2>1. PICK r \in Runs : /\ Home[r] = q /\ Owns(r) /\ ~Owns(r)'
                            /\ \A i \in Runs : i # r => (Owns(i)' <=> Owns(i))
      BY <1>5 DEF EndsRun
    <2>2. CASE p = q
      <3>1. Held(p)' = Held(p) \ {r} /\ r \in Held(p)
        BY <2>1, <2>2 DEF Held
      <3>2. Cardinality(Held(p)') = Cardinality(Held(p)) - 1
        BY <3>1, FS_RemoveElement, HeldFinite
      <3> QED
        BY <1>1, <1>5, <2>2, <3>2 DEF EndsRun, TypeOK
    <2>3. CASE p # q
      <3>1. Held(p)' = Held(p)
        BY <2>1, <2>3 DEF Held
      <3> QED
        BY <1>1, <1>5, <2>3, <3>1 DEF EndsRun, TypeOK
    <2> QED
      BY <2>2, <2>3
  <1>6. ASSUME NEW q \in Procs, Resets(q)
        PROVE  runningCount'[p] = Cardinality(Held(p)')
    <2>1. CASE p = q
      <3>1. Held(p)' = {}
        BY <1>6, <2>1 DEF Held, Resets
      <3> QED
        BY <1>6, <2>1, <3>1, FS_EmptySet DEF Resets, TypeOK
    <2>2. CASE p # q
      <3>1. Held(p)' = Held(p)
        BY <1>6, <2>2 DEF Held, Resets
      <3> QED
        BY <1>1, <1>6, <2>2, <3>1 DEF Resets, TypeOK
    <2> QED
      BY <2>1, <2>2
  <1>7. \A k \in Polls : Home[k] \in Procs
    BY QueueAssumption
  <1> QED
    BY <1>3, <1>4, <1>5, <1>6, <1>7, SlotCases

\* The counter of a process is exactly the number of its runs that have not
\* returned, whatever interleaving, parking, database error or crash happens.
THEOREM SlotsNeverLeak == Spec => []SlotsCounted
  <1>1. Init => SlotsCounted
    <2>1. ASSUME Init, NEW p \in Procs
          PROVE  Held(p) = {} /\ runningCount[p] = 0
      BY <2>1 DEF Init, Held, Owns, FreeRun
    <2> QED
      BY <2>1, FS_EmptySet DEF SlotsCounted, Held
  <1>2. TypeOK /\ SlotsCounted /\ [Next]_vars => SlotsCounted'
    BY SlotsStep
  <1> QED
    BY <1>1, <1>2, TypeCorrect, PTL DEF Spec

\* The polls past the test: one more after a successful test, one less when a
\* claim is counted, otherwise no more than before.
LEMMA ClaimingCases ==
  ASSUME TypeOK, [Next]_vars
  PROVE  \/ \A p : Claiming(p)' \subseteq Claiming(p)
         \/ \E k \in Polls : CheckSlots(k) /\ runningCount[Home[k]] < Concurrency
  <1>1. ASSUME poll' = poll, NEW p
        PROVE  Claiming(p)' \subseteq Claiming(p)
    BY <1>1 DEF Claiming
  <1>2. ASSUME NEW k \in Polls, NEW pc, Goto(k, pc), NEW p,
               \/ pc \in {"idle", "reclaim", "check"}
               \/ poll[k].pc \notin {"idle", "reclaim", "check"}
        PROVE  Claiming(p)' \subseteq Claiming(p)
    BY <1>2 DEF Claiming, Goto, TypeOK, IdlePoll
  <1>3. ASSUME NEW k \in Polls, FindQueued(k) \/ FindWorkflows(k), NEW p
        PROVE  Claiming(p)' \subseteq Claiming(p)
    <2>1. poll[k].pc \notin {"idle", "reclaim", "check"}
      BY <1>3 DEF FindQueued, FindWorkflows
    <2>2. \A i \in Polls : i # k => poll'[i] = poll[i]
      BY <1>3 DEF FindQueued, FindWorkflows, Goto, TypeOK
    <2> QED
      BY <2>1, <2>2 DEF Claiming
  <1>4. ASSUME NEW k \in Polls, NEW p,
               \/ TimerPoll(k) \/ PollDbError(k) \/ ApprovalWake(k)
               \/ ReclaimExpired(k) \/ ClaimQueued(k) \/ ClaimWorkflows(k)
               \/ ClaimQueuedMissed(k) \/ ClaimWorkflowsMissed(k)
        PROVE  Claiming(p)' \subseteq Claiming(p)
    <2>1. \E pc : /\ Goto(k, pc)
                  /\ \/ pc \in {"idle", "reclaim", "check"}
                     \/ poll[k].pc \notin {"idle", "reclaim", "check"}
      BY <1>4 DEF TimerPoll, PollDbError, ApprovalWake, ReclaimExpired, ClaimQueued,
                  ClaimWorkflows, ClaimQueuedMissed, ClaimWorkflowsMissed, StartPoll
    <2> QED
      BY <2>1, <1>2
  <1>5. ASSUME NEW k \in Polls, NEW p,
               (\E j \in Jobs : Enqueue(k, j)) \/ \E o \in Operators : RequeueWrite(o, k)
        PROVE  Claiming(p)' \subseteq Claiming(p)
    BY <1>5, <1>2 DEF Enqueue, RequeueWrite, StartPoll
  <1>6. ASSUME NEW q \in Procs, Crash(q), NEW p
        PROVE  Claiming(p)' \subseteq Claiming(p)
    BY <1>6 DEF Crash, Claiming, IdlePoll
  <1>7. ASSUME NEW k \in Polls, CheckSlots(k), NEW p,
               ~(runningCount[Home[k]] < Concurrency)
        PROVE  Claiming(p)' \subseteq Claiming(p)
    BY <1>7, <1>2 DEF CheckSlots
  <1> QED
    BY <1>1, <1>3, <1>4, <1>5, <1>6, <1>7, NextCases
    DEF BodyEnds, TimerFires, Settle, SettleError, OrphanEnds, RequeueGone,
        RequeueRead, Prune, Tick, vars

\* OvershootBound for one process.
Within(p) == runningCount[p] + Cardinality(Claiming(p)) <
               Concurrency + Cardinality(PollsOf(p))

LEMMA OvershootStep ==
  ASSUME TypeOK, OvershootBound, [Next]_vars
  PROVE  OvershootBound'
  <1>1. SUFFICES ASSUME NEW p \in Procs, Cardinality(PollsOf(p)) # 0, Within(p)
                 PROVE  Within(p)'
    BY DEF OvershootBound, Within, PollsOf
  <1>2. /\ runningCount[p] \in Int /\ Cardinality(Claiming(p)) \in Nat
        /\ Cardinality(PollsOf(p)) \in Nat /\ Concurrency \in Nat \ {0}
        /\ PollsOf(p)' = PollsOf(p)
    BY HeldFinite, QueueAssumption DEF TypeOK, PollsOf
  <1>3. /\ Claiming(p)' \in SUBSET PollsOf(p)
        /\ Cardinality(Claiming(p)') \in Nat
        /\ Cardinality(Claiming(p)') <= Cardinality(PollsOf(p))
    <2>1. Claiming(p)' \in SUBSET PollsOf(p)
      BY DEF Claiming, PollsOf
    <2> QED
      BY <2>1, HeldFinite, FS_Subset, FS_CardinalityType
  <1>4. ASSUME Claiming(p)' \subseteq Claiming(p)
        PROVE  Cardinality(Claiming(p)') <= Cardinality(Claiming(p))
    BY <1>4, HeldFinite, FS_Subset
  <1>5. CASE \E k \in Polls : CheckSlots(k) /\ runningCount[Home[k]] < Concurrency
    <2>1. PICK k \in Polls : CheckSlots(k) /\ runningCount[Home[k]] < Concurrency
      BY <1>5
    <2>2. runningCount' = runningCount
      BY <2>1 DEF CheckSlots
    <2>3. CASE p = Home[k]
      BY <1>2, <1>3, <2>1, <2>2, <2>3 DEF Within
    <2>4. CASE p # Home[k]
      <3>1. Claiming(p)' = Claiming(p)
        BY <2>1, <2>4 DEF CheckSlots, Goto, Claiming, TypeOK
      <3> QED
        BY <1>1, <1>2, <2>2, <3>1 DEF Within
    <2> QED
      BY <2>3, <2>4
  <1>6. CASE \A q : Claiming(q)' \subseteq Claiming(q)
    <2>0. Cardinality(Claiming(p)') <= Cardinality(Claiming(p))
      BY <1>4, <1>6
    <2>1. CASE SameSlots
      BY <1>1, <1>2, <1>3, <2>0, <2>1 DEF Within, SameSlots
    <2>2. ASSUME NEW k \in Polls, poll[k].pc \in {"claimQueued", "claimWorkflows"},
                 Goto(k, "check"), StartsRun(Home[k])
          PROVE  Within(p)'
      <3>1. CASE p = Home[k]
        <4>1. Claiming(p)' = Claiming(p) \ {k} /\ k \in Claiming(p)
          BY <2>2, <3>1 DEF Goto, Claiming, TypeOK, IdlePoll
        <4>2. Cardinality(Claiming(p)') = Cardinality(Claiming(p)) - 1
          BY <4>1, FS_RemoveElement, HeldFinite
        <4>3. runningCount'[p] = runningCount[p] + 1
          BY <2>2, <3>1 DEF StartsRun, TypeOK
        <4> QED
          BY <1>1, <1>2, <4>2, <4>3 DEF Within
      <3>2. CASE p # Home[k]
        <4>1. runningCount'[p] = runningCount[p]
          BY <2>2, <3>2 DEF StartsRun, TypeOK
        <4> QED
          BY <1>1, <1>2, <1>3, <2>0, <4>1 DEF Within
      <3> QED
        BY <3>1, <3>2
    <2>3. ASSUME NEW q \in Procs, EndsRun(q)
          PROVE  Within(p)'
      <3>1. runningCount'[p] \in {runningCount[p], runningCount[p] - 1}
        BY <2>3 DEF EndsRun, TypeOK
      <3> QED
        BY <1>1, <1>2, <1>3, <2>0, <3>1 DEF Within
    <2>4. ASSUME NEW q \in Procs, Resets(q), Crash(q)
          PROVE  Within(p)'
      <3>1. CASE p = q
        <4>1. Claiming(p)' = {}
          BY <2>4, <3>1 DEF Crash, Claiming, IdlePoll
        <4>2. runningCount'[p] = 0
          BY <2>4, <3>1 DEF Resets, TypeOK
        <4> QED
          BY <1>2, <4>1, <4>2, FS_EmptySet DEF Within
      <3>2. CASE p # q
        <4>1. runningCount'[p] = runningCount[p]
          BY <2>4, <3>2 DEF Resets, TypeOK
        <4> QED
          BY <1>1, <1>2, <1>3, <2>0, <4>1 DEF Within
      <3> QED
        BY <3>1, <3>2
    <2> QED
      BY <2>1, <2>2, <2>3, <2>4, SlotCases
  <1> QED
    BY <1>5, <1>6, ClaimingCases

\* Overlapping polls overshoot the concurrency limit by less than their number.
THEOREM OvershootIsBounded == Spec => []OvershootBound
  <1>1. Init => OvershootBound
    <2>1. ASSUME Init, NEW p \in Procs
          PROVE  Claiming(p) = {} /\ runningCount[p] = 0
      BY <2>1 DEF Init, Claiming, IdlePoll
    <2>2. ASSUME Init, NEW p \in Procs
          PROVE  Within(p) \/ Cardinality(PollsOf(p)) = 0
      <3>1. Cardinality(PollsOf(p)) \in Nat /\ Concurrency \in Nat \ {0}
        BY HeldFinite, QueueAssumption
      <3>2. Cardinality(Claiming(p)) = 0 /\ runningCount[p] = 0
        BY <2>1, <2>2, FS_EmptySet
      <3> QED
        BY <3>1, <3>2 DEF Within
    <2> QED
      BY <2>2 DEF OvershootBound, Within, PollsOf
  <1>2. TypeOK /\ OvershootBound /\ [Next]_vars => OvershootBound'
    BY OvershootStep
  <1> QED
    BY <1>1, <1>2, TypeCorrect, PTL DEF Spec

-----------------------------------------------------------------------------
(* Attempts.                                                                *)

\* All attempts of a row are used up, its waits for workflows set off.
Spent(old) == old.attempts + (IF old.wfChecks > 0 THEN 1 ELSE 0) >= MaxAttempts

\* Until the first approval attempts only grow, and a job that waited for
\* workflows keeps the mark.
Grown(old, new) == /\ new.attempts >= old.attempts
                   /\ old.wfChecks > 0 => new.wfChecks > 0

\* What a poll or a run read of a row before is at most what the row says now;
\* a run's claim is counted in the row, unless it came from pending_workflows.
PollKnows(k) ==
  poll[k].pc \in {"claimQueued", "claimWorkflows"} =>
    LET j == poll[k].job
    IN  /\ j \in Jobs
        /\ row[j].attempts >= poll[k].attempts
        /\ poll[k].pc = "claimWorkflows" => row[j].wfChecks > 0
RunKnows(r) ==
  Owns(r) =>
    LET j == run[r].job
    IN  /\ j \in Jobs
        /\ row[j].attempts >= run[r].attempts
        /\ row[j].attempts > run[r].attempts \/ row[j].wfChecks > 0
RowKnows(j) ==
  /\ row[j].status = "pending_workflows" => row[j].wfChecks > 0
  /\ row[j].status = "failed" => Spent(row[j])

AttemptInv ==
  wakes = 0 => /\ \A k \in Polls : PollKnows(k)
               /\ \A r \in Runs : RunKnows(r)
               /\ \A j \in Jobs : RowKnows(j)

LEMMA UpdatesGrow ==
  ASSUME NEW old \in JobRow
  PROVE  /\ Grown(old, old)
         /\ Grown(old, Reclaimed(old))
         /\ Grown(old, ClaimedQueued(old))
         /\ Grown(old, ClaimedWorkflows(old))
         /\ Grown(old, Requeued(old))
         /\ Grown(old, Aged(old))
         /\ \A s \in Status : Grown(old, [old EXCEPT !.status = s])
  <1>1. old.attempts \in Nat /\ old.wfChecks \in Nat
    BY DEF JobRow
  <1>2. ClaimedQueued(old).attempts = old.attempts + 1
    BY DEF ClaimedQueued, JobRow
  <1>3. ClaimedQueued(old).wfChecks = old.wfChecks
    BY DEF ClaimedQueued, JobRow
  <1>4. /\ Reclaimed(old).attempts = old.attempts
        /\ Reclaimed(old).wfChecks = old.wfChecks
    BY DEF Reclaimed, JobRow
  <1>5. /\ ClaimedWorkflows(old).attempts = old.attempts
        /\ ClaimedWorkflows(old).wfChecks = old.wfChecks
    BY DEF ClaimedWorkflows, JobRow
  <1>6. Requeued(old).attempts = old.attempts /\ Requeued(old).wfChecks = old.wfChecks
    BY DEF Requeued, JobRow
  <1>7. Aged(old).attempts = old.attempts /\ Aged(old).wfChecks = old.wfChecks
    BY DEF Aged, JobRow
  <1>8. \A s \in Status : /\ [old EXCEPT !.status = s].attempts = old.attempts
                          /\ [old EXCEPT !.status = s].wfChecks = old.wfChecks
    BY DEF JobRow
  <1> QED
    BY <1>1, <1>2, <1>3, <1>4, <1>5, <1>6, <1>7, <1>8 DEF Grown

LEMMA SettledGrows ==
  ASSUME TypeOK, NEW r \in Runs, NEW old \in JobRow
  PROVE  Grown(old, SettledRow(r, old))
  <1>1. old.attempts \in Nat /\ old.wfChecks \in Nat /\ run[r].wfChecks \in Nat
    BY DEF JobRow, TypeOK, Run
  <1>2. SettledRow(r, old).attempts = old.attempts
    BY DEF SettledRow, JobRow
  <1>3. SettledRow(r, old).wfChecks \in {old.wfChecks, run[r].wfChecks + 1}
    BY DEF SettledRow, JobRow
  <1> QED
    BY <1>1, <1>2, <1>3 DEF Grown

\* What may happen to a row before the first approval.
RowMove(j) ==
  /\ Grown(row[j], row'[j])
  /\ \/ row'[j].status \notin {"failed", "pending_workflows"}
     \/ row'[j].status = row[j].status
     \/ \E r \in Runs : /\ Owns(r) /\ run[r].job = j
                        /\ row'[j] = SettledRow(r, row[j])

LEMMA RowMoves ==
  ASSUME TypeOK, [Next]_vars, wakes' = 0, NEW j \in Jobs
  PROVE  RowMove(j)
  <1>0. row[j] \in JobRow /\ row \in [Jobs -> JobRow]
    BY DEF TypeOK
  <1>1. ASSUME row'[j] = row[j]
        PROVE  RowMove(j)
    BY <1>0, <1>1, UpdatesGrow DEF RowMove
  <1>2. ASSUME NEW k \in Polls, NEW i \in Jobs, Enqueue(k, i)
        PROVE  RowMove(j)
    <2>1. CASE i = j
      <3>1. row'[j] = [row[j] EXCEPT !.status = "queued"] /\ row'[j].status = "queued"
        BY <1>0, <1>2, <2>1 DEF Enqueue, JobRow
      <3> QED
        BY <1>0, <3>1, UpdatesGrow DEF RowMove, Status
    <2>2. CASE i # j
      BY <1>0, <1>1, <1>2, <2>2 DEF Enqueue
    <2> QED
      BY <2>1, <2>2
  <1>3. ASSUME NEW k \in Polls, ReclaimExpired(k)
        PROVE  RowMove(j)
    <2>1. row'[j] \in {row[j], Reclaimed(row[j])}
      BY <1>3 DEF ReclaimExpired, ReclaimRows
    <2>2. Reclaimed(row[j]).status = "queued"
      BY <1>0 DEF Reclaimed, JobRow
    <2> QED
      BY <1>0, <1>1, <2>1, <2>2, UpdatesGrow DEF RowMove
  <1>4. ASSUME NEW k \in Polls, ClaimQueued(k) \/ ClaimWorkflows(k) \/ PollDbError(k)
        PROVE  RowMove(j)
    <2>1. row'[j] \in {row[j], ClaimedQueued(row[j]), ClaimedWorkflows(row[j])}
      BY <1>0, <1>4 DEF ClaimQueued, ClaimWorkflows, PollDbError
    <2>2. /\ ClaimedQueued(row[j]).status = "running"
          /\ ClaimedWorkflows(row[j]).status = "running"
      BY <1>0 DEF ClaimedQueued, ClaimedWorkflows, JobRow
    <2> QED
      BY <1>0, <1>1, <2>1, <2>2, UpdatesGrow DEF RowMove
  <1>5. \A k \in Polls : ~ApprovalWake(k)
    BY DEF ApprovalWake, TypeOK
  <1>6. ASSUME NEW k \in Polls, NEW o \in Operators, RequeueWrite(o, k)
        PROVE  RowMove(j)
    <2>1. row'[j] \in {row[j], Requeued(row[j])}
      BY <1>0, <1>6 DEF RequeueWrite
    <2>2. Requeued(row[j]).status = "queued"
      BY <1>0 DEF Requeued, JobRow
    <2> QED
      BY <1>0, <1>1, <2>1, <2>2, UpdatesGrow DEF RowMove
  <1>7. ASSUME NEW r \in Runs, Settle(r) \/ SettleError(r)
        PROVE  RowMove(j)
    <2>1. Owns(r)
      BY <1>7 DEF Settle, SettleError, Owns
    <2>2. \/ row'[j] = row[j]
          \/ run[r].job = j /\ row'[j] = SettledRow(r, row[j])
      BY <1>0, <1>7 DEF Settle, SettleError
    <2> QED
      BY <1>0, <1>1, <2>1, <2>2, SettledGrows DEF RowMove
  <1>8. ASSUME Prune
        PROVE  RowMove(j)
    <2>1. PICK S : row' = [i \in Jobs |-> IF i \in S
                                          THEN [row[i] EXCEPT !.status = "deleted"]
                                          ELSE row[i]]
      BY <1>8 DEF Prune
    <2>2. row'[j] \in {row[j], [row[j] EXCEPT !.status = "deleted"]}
      BY <2>1
    <2>3. [row[j] EXCEPT !.status = "deleted"].status = "deleted"
      BY <1>0 DEF JobRow
    <2>4. "deleted" \in Status
      BY DEF Status
    <2> QED
      BY <1>0, <1>1, <2>2, <2>3, <2>4, UpdatesGrow DEF RowMove
  <1>9. ASSUME Tick
        PROVE  RowMove(j)
    <2>1. row'[j] = Aged(row[j])
      BY <1>9 DEF Tick
    <2>2. Aged(row[j]).status = row[j].status
      BY <1>0 DEF Aged, JobRow
    <2> QED
      BY <1>0, <2>1, <2>2, UpdatesGrow DEF RowMove
  <1> QED
    BY <1>1, <1>2, <1>3, <1>4, <1>5, <1>6, <1>7, <1>8, <1>9, NextCases
    DEF TimerPoll, CheckSlots, FindQueued, FindWorkflows, ClaimQueuedMissed,
        ClaimWorkflowsMissed, BodyEnds, TimerFires, OrphanEnds, RequeueGone,
        RequeueRead, Crash, vars

LEMMA RowKnowsStep ==
  ASSUME TypeOK, NEW j \in Jobs, RowMove(j), RowKnows(j), \A r \in Runs : RunKnows(r),
         row'[j] \in JobRow
  PROVE  RowKnows(j)'
  <1>1. /\ row[j] \in JobRow
        /\ row[j].attempts \in Nat /\ row[j].wfChecks \in Nat
        /\ row'[j].attempts \in Nat /\ row'[j].wfChecks \in Nat
        /\ MaxAttempts \in Nat
    BY QueueAssumption DEF TypeOK, JobRow
  <1>2. Spent(row[j]) => Spent(row'[j])
    BY <1>1 DEF Spent, RowMove, Grown
  <1>3. CASE row'[j].status \notin {"failed", "pending_workflows"}
    BY <1>3 DEF RowKnows
  <1>4. CASE row'[j].status = row[j].status
    BY <1>2, <1>4 DEF RowKnows, RowMove, Grown
  <1>5. ASSUME NEW r \in Runs, Owns(r), run[r].job = j, row'[j] = SettledRow(r, row[j])
        PROVE  RowKnows(j)'
    <2>1. run[r].attempts \in Nat /\ run[r].wfChecks \in Nat
      BY DEF TypeOK, Run
    <2>2. /\ row[j].attempts >= run[r].attempts
          /\ row[j].attempts > run[r].attempts \/ row[j].wfChecks > 0
      BY <1>5 DEF RunKnows
    <2>3. CASE run[r].outcome = "ok"
      <3>1. SettledRow(r, row[j]).status = "succeeded"
        BY <1>1, <2>3 DEF SettledRow, JobRow
      <3> QED
        BY <1>5, <3>1 DEF RowKnows
    <2>4. CASE run[r].outcome = "workflows"
      <3>1. /\ SettledRow(r, row[j]).status = "pending_workflows"
            /\ SettledRow(r, row[j]).wfChecks = run[r].wfChecks + 1
        BY <1>1, <2>4 DEF SettledRow, JobRow
      <3> QED
        BY <1>5, <2>1, <3>1 DEF RowKnows
    <2>5. CASE run[r].outcome = "approval"
      <3>1. SettledRow(r, row[j]).status = "pending_approval"
        BY <1>1, <2>5 DEF SettledRow, JobRow
      <3> QED
        BY <1>5, <3>1 DEF RowKnows
    <2>6. CASE run[r].outcome \notin {"ok", "workflows", "approval"}
      <3>1. /\ SettledRow(r, row[j]).status = NextStatus(r)
            /\ SettledRow(r, row[j]).attempts = row[j].attempts
            /\ SettledRow(r, row[j]).wfChecks = row[j].wfChecks
        BY <1>1, <2>6 DEF SettledRow, JobRow
      <3>2. NextStatus(r) = "failed" => run[r].attempts + 1 >= MaxAttempts
        BY DEF NextStatus
      <3>3. NextStatus(r) \in {"failed", "queued"}
        BY DEF NextStatus
      <3>4. NextStatus(r) = "failed" => Spent(row'[j])
        BY <1>1, <1>5, <2>1, <2>2, <3>1, <3>2 DEF Spent
      <3> QED
        BY <1>5, <3>1, <3>3, <3>4 DEF RowKnows
    <2> QED
      BY <2>3, <2>4, <2>5, <2>6
  <1> QED
    BY <1>3, <1>4, <1>5 DEF RowMove

LEMMA PollKnowsStep ==
  ASSUME TypeOK, [Next]_vars, \A j \in Jobs : RowMove(j) /\ RowKnows(j),
         row' \in [Jobs -> JobRow], NEW k \in Polls, PollKnows(k)
  PROVE  PollKnows(k)'
  <1>0. \A j \in Jobs : /\ row[j].attempts \in Nat /\ row[j].wfChecks \in Nat
                        /\ row'[j].attempts \in Nat /\ row'[j].wfChecks \in Nat
    BY DEF TypeOK, JobRow
  <1>1. ASSUME poll'[k] = poll[k]
        PROVE  PollKnows(k)'
    <2>1. poll[k].attempts \in Nat
      BY DEF TypeOK, Poll
    <2> QED
      BY <1>0, <1>1, <2>1 DEF PollKnows, RowMove, Grown
  <1>2. ASSUME NEW i \in Polls, NEW pc, Goto(i, pc),
               pc \notin {"claimQueued", "claimWorkflows"}
        PROVE  PollKnows(k)'
    <2>1. CASE i = k
      BY <1>2, <2>1 DEF Goto, PollKnows, TypeOK, IdlePoll
    <2>2. CASE i # k
      BY <1>1, <1>2, <2>2 DEF Goto, TypeOK
    <2> QED
      BY <2>1, <2>2
  <1>3. ASSUME NEW i \in Polls,
               \/ TimerPoll(i) \/ PollDbError(i) \/ ApprovalWake(i)
               \/ ReclaimExpired(i) \/ CheckSlots(i)
               \/ ClaimQueued(i) \/ ClaimWorkflows(i)
               \/ ClaimQueuedMissed(i) \/ ClaimWorkflowsMissed(i)
        PROVE  PollKnows(k)'
    <2>1. PICK pc \in PollPc \ {"claimQueued", "claimWorkflows"} : Goto(i, pc)
      BY <1>3 DEF TimerPoll, PollDbError, ApprovalWake, ReclaimExpired, CheckSlots,
                  ClaimQueued, ClaimWorkflows, ClaimQueuedMissed,
                  ClaimWorkflowsMissed, StartPoll, PollPc
    <2> QED
      BY <2>1, <1>2
  <1>4. ASSUME NEW i \in Polls, FindQueued(i) \/ FindWorkflows(i)
        PROVE  PollKnows(k)'
    <2>1. row' = row
      BY <1>4 DEF FindQueued, FindWorkflows
    <2>2. CASE \E pc \in {"idle", "findWorkflows"} : Goto(i, pc)
      BY <1>2, <2>2
    <2>3. CASE \E j \in Oldest(InStatus("queued")) :
                 poll' = [poll EXCEPT ![i] = [pc |-> "claimQueued", job |-> j,
                                              attempts |-> row[j].attempts,
                                              wfChecks |-> 0]]
      BY <1>0, <1>1, <2>1, <2>3 DEF Oldest, InStatus, PollKnows, TypeOK
    <2>4. CASE \E j \in InStatus("pending_workflows") :
                 poll' = [poll EXCEPT ![i] = [pc |-> "claimWorkflows", job |-> j,
                                              attempts |-> row[j].attempts,
                                              wfChecks |-> row[j].wfChecks]]
      BY <1>0, <1>1, <2>1, <2>4 DEF InStatus, PollKnows, RowKnows, TypeOK
    <2> QED
      BY <1>4, <2>2, <2>3, <2>4 DEF FindQueued, FindWorkflows, Oldest
  <1>5. ASSUME NEW i \in Polls,
               (\E j \in Jobs : Enqueue(i, j)) \/ \E o \in Operators : RequeueWrite(o, i)
        PROVE  PollKnows(k)'
    BY <1>5, <1>2 DEF Enqueue, RequeueWrite, StartPoll
  <1>6. ASSUME NEW p \in Procs, Crash(p)
        PROVE  PollKnows(k)'
    BY <1>1, <1>6 DEF Crash, PollKnows, IdlePoll
  <1> QED
    BY <1>1, <1>3, <1>4, <1>5, <1>6, NextCases
    DEF BodyEnds, TimerFires, Settle, SettleError, OrphanEnds, RequeueGone,
        RequeueRead, Prune, Tick, vars

LEMMA RunKnowsStep ==
  ASSUME TypeOK, [Next]_vars, \A j \in Jobs : RowMove(j), row' \in [Jobs -> JobRow],
         \A k \in Polls : PollKnows(k), NEW r \in Runs, RunKnows(r)
  PROVE  RunKnows(r)'
  <1>0. \A j \in Jobs : /\ row[j] \in JobRow
                        /\ row[j].attempts \in Nat /\ row[j].wfChecks \in Nat
                        /\ row'[j].attempts \in Nat /\ row'[j].wfChecks \in Nat
    BY DEF TypeOK, JobRow
  <1>1. ASSUME Owns(r)' => /\ Owns(r) /\ run'[r].job = run[r].job
                           /\ run'[r].attempts = run[r].attempts
        PROVE  RunKnows(r)'
    <2>1. run[r].attempts \in Nat
      BY DEF TypeOK, Run
    <2> QED
      BY <1>0, <1>1, <2>1 DEF RunKnows, RowMove, Grown
  <1>2. ASSUME NEW k \in Polls, ClaimQueued(k) \/ ClaimWorkflows(k)
        PROVE  RunKnows(r)'
    <2> DEFINE j == poll[k].job
    <2>1. /\ j \in Jobs
          /\ row[j].attempts >= poll[k].attempts
          /\ poll[k].pc = "claimWorkflows" => row[j].wfChecks > 0
      BY <1>2 DEF PollKnows, ClaimQueued, ClaimWorkflows
    <2>2. PICK q \in Runs :
            run' = [run EXCEPT ![q] =
                      [FreeRun EXCEPT !.phase = "exec", !.job = poll[k].job,
                                      !.attempts = poll[k].attempts,
                                      !.wfChecks = poll[k].wfChecks]]
      BY <1>2 DEF ClaimQueued, ClaimWorkflows, StartRun
    <2>3. CASE q # r
      BY <1>1, <2>2, <2>3 DEF Owns, TypeOK
    <2>4. CASE q = r
      <3>1. run'[r].job = j /\ run'[r].attempts = poll[k].attempts
        BY <2>2, <2>4 DEF TypeOK, FreeRun
      <3>2. poll[k].attempts \in Nat
        BY DEF TypeOK, Poll
      <3>3. CASE ClaimQueued(k)
        <4>1. row'[j] = ClaimedQueued(row[j])
          BY <2>1, <3>3 DEF ClaimQueued, TypeOK
        <4>2. row'[j].attempts = row[j].attempts + 1
          BY <1>0, <2>1, <4>1 DEF ClaimedQueued, JobRow
        <4> QED
          BY <1>0, <2>1, <3>1, <3>2, <4>2 DEF RunKnows
      <3>4. CASE ClaimWorkflows(k)
        <4>1. row[j].wfChecks > 0
          BY <2>1, <3>4 DEF ClaimWorkflows
        <4> QED
          BY <1>0, <2>1, <3>1, <3>2, <4>1 DEF RunKnows, RowMove, Grown
      <3> QED
        BY <1>2, <3>3, <3>4
    <2> QED
      BY <2>3, <2>4
  <1>3. ASSUME NEW q \in Runs, BodyEnds(q) \/ TimerFires(q) \/ OrphanEnds(q)
        PROVE  RunKnows(r)'
    BY <1>1, <1>3 DEF BodyEnds, TimerFires, OrphanEnds, Owns, FreeRun, TypeOK, Run
  <1>4. ASSUME NEW q \in Runs, EndRun(q)
        PROVE  RunKnows(r)'
    BY <1>1, <1>4 DEF EndRun, Owns, FreeRun, TypeOK
  <1>5. ASSUME NEW q \in Runs, SettleError(q), ~EndRun(q)
        PROVE  RunKnows(r)'
    BY <1>1, <1>5 DEF SettleError, Owns, TypeOK, Run
  <1>6. ASSUME Tick
        PROVE  RunKnows(r)'
    BY <1>1, <1>6 DEF Tick, Owns, TypeOK, Run
  <1>7. ASSUME NEW p \in Procs, Crash(p)
        PROVE  RunKnows(r)'
    BY <1>1, <1>7 DEF Crash, Owns, FreeRun
  <1>8. ASSUME run' = run
        PROVE  RunKnows(r)'
    BY <1>1, <1>8 DEF Owns
  <1> QED
    BY <1>2, <1>3, <1>4, <1>5, <1>6, <1>7, <1>8, NextCases
    DEF TimerPoll, PollDbError, ApprovalWake, ReclaimExpired, CheckSlots,
        FindQueued, FindWorkflows, ClaimQueuedMissed, ClaimWorkflowsMissed,
        Enqueue, RequeueWrite, RequeueGone, RequeueRead, Prune, Settle, vars

LEMMA WakesGrow ==
  ASSUME TypeOK, [Next]_vars, wakes' = 0
  PROVE  wakes = 0
  <1>1. wakes \in Nat
    BY QueueAssumption DEF TypeOK
  <1>2. wakes' \in {wakes, wakes + 1}
    BY NextCases
    DEF TimerPoll, PollDbError, ApprovalWake, ReclaimExpired, CheckSlots,
        FindQueued, FindWorkflows, ClaimQueued, ClaimWorkflows, ClaimQueuedMissed,
        ClaimWorkflowsMissed, Enqueue, RequeueWrite, RequeueGone, RequeueRead,
        BodyEnds, TimerFires, Settle, SettleError, OrphanEnds, Prune, Tick, Crash, vars
  <1> QED
    BY <1>1, <1>2

\* Until an approval resets a job's attempts, no interleaving of polls, claims,
\* requeues and faults gives a job up before all its attempts are used.
THEOREM NoAttemptLost == Spec => []NoEarlyFailure
  <1>1. Init => AttemptInv
    BY DEF Init, AttemptInv, PollKnows, RunKnows, RowKnows, IdlePoll, FreeRun, Owns
  <1>2. TypeOK /\ AttemptInv /\ [Next]_vars => AttemptInv'
    <2>1. SUFFICES ASSUME TypeOK, AttemptInv, [Next]_vars, wakes' = 0
                   PROVE  AttemptInv'
      BY DEF AttemptInv
    <2>2. /\ \A k \in Polls : PollKnows(k)
          /\ \A r \in Runs : RunKnows(r)
          /\ \A j \in Jobs : RowKnows(j)
      BY <2>1, WakesGrow DEF AttemptInv
    <2>3. \A j \in Jobs : RowMove(j)
      BY <2>1, RowMoves
    <2>4. row' \in [Jobs -> JobRow]
      BY <2>1, TypeStep DEF TypeOK
    <2>5. \A k \in Polls : PollKnows(k)'
      BY <2>1, <2>2, <2>3, <2>4, PollKnowsStep
    <2>6. \A r \in Runs : RunKnows(r)'
      BY <2>1, <2>2, <2>3, <2>4, RunKnowsStep
    <2>7. \A j \in Jobs : RowKnows(j)'
      BY <2>1, <2>2, <2>3, <2>4, RowKnowsStep
    <2> QED
      BY <2>5, <2>6, <2>7 DEF AttemptInv
  <1>3. AttemptInv => NoEarlyFailure
    BY DEF AttemptInv, RowKnows, Spent, NoEarlyFailure
  <1> QED
    BY <1>1, <1>2, <1>3, TypeCorrect, PTL DEF Spec

-----------------------------------------------------------------------------
(* The queue implements JobLease.                                           *)

\* A success write that commits is never reported as failed.
WritesAreCertain == AmbiguousWrites = FALSE

\* The job of a live run is running, and nothing else.
RunningInv == \A r \in Runs : Owns(r) => row[run[r].job].status = "running"

LInv == IInv /\ RunningInv

\* The abstract state of a job, now and after a step.
LEMMA JobStateIs ==
  ASSUME NEW j \in Jobs
  PROVE  /\ row[j].status = "queued" => JobState[j] = "waiting"
         /\ row[j].status \in {"pending_workflows", "pending_approval"} =>
              JobState[j] = "parked"
         /\ row[j].status = "running" =>
              JobState[j] = IF Owned(j) THEN "held" ELSE "abandoned"
         /\ row[j].status \in {"absent", "succeeded", "failed", "deleted"} =>
              JobState[j] = row[j].status
  BY DEF JobState

LEMMA NextJobStateIs ==
  ASSUME NEW j \in Jobs
  PROVE  /\ row'[j].status = "queued" => JobState'[j] = "waiting"
         /\ row'[j].status \in {"pending_workflows", "pending_approval"} =>
              JobState'[j] = "parked"
         /\ row'[j].status = "running" =>
              JobState'[j] = IF Owned(j)' THEN "held" ELSE "abandoned"
         /\ row'[j].status \in {"absent", "succeeded", "failed", "deleted"} =>
              JobState'[j] = row'[j].status
  BY DEF JobState

LEMMA SameJobState ==
  ASSUME NEW j \in Jobs, row'[j].status = row[j].status,
         row[j].status \in Status, Owned(j)' <=> Owned(j)
  PROVE  JobState'[j] = JobState[j]
  BY JobStateIs, NextJobStateIs DEF Status

LEMMA JobStateStutter ==
  ASSUME \A j \in Jobs : JobState'[j] = JobState[j]
  PROVE  JobState' = JobState
  BY DEF JobState

\* A set of jobs moves to one abstract state, the others stay.
LEMMA MoveOf ==
  ASSUME NEW S \in SUBSET Jobs, NEW from, NEW to, NEW s \in to,
         \A j \in S : JobState[j] \in from,
         \A j \in S : JobState'[j] = s,
         \A j \in Jobs \ S : JobState'[j] = JobState[j]
  PROVE  JL!Move(S, from, to)
  <1>1. JobState' = [j \in Jobs |-> JobState'[j]]
    BY DEF JobState
  <1>2. JobState' = [j \in Jobs |-> IF j \in S THEN s ELSE JobState[j]]
    BY <1>1
  <1> QED
    BY <1>2 DEF JL!Move

\* The jobs whose row and owner a step leaves alone stay where they are.
LEMMA OthersStay ==
  ASSUME TypeOK, NEW j \in Jobs, row'[j] = row[j], Owned(j)' <=> Owned(j)
  PROVE  JobState'[j] = JobState[j]
  BY SameJobState DEF TypeOK, JobRow

LEMMA SameOwners ==
  ASSUME run' = run
  PROVE  \A j : Owned(j)' <=> Owned(j)
  BY DEF Owned, Owns

\* A run that starts owns its job, every other job keeps its owner.
LEMMA StartRunOwners ==
  ASSUME TypeOK, NEW k \in Polls, StartRun(k), NEW j, poll[k].job = j
  PROVE  Owned(j)' /\ \A i : i # j => (Owned(i)' <=> Owned(i))
  <1>1. PICK r \in Runs :
          /\ run[r].phase = "free"
          /\ run' = [run EXCEPT ![r] =
                [FreeRun EXCEPT !.phase = "exec", !.job = poll[k].job,
                                !.attempts = poll[k].attempts,
                                !.wfChecks = poll[k].wfChecks]]
    BY DEF StartRun
  <1>2. /\ run'[r].job = poll[k].job /\ run'[r].phase = "exec"
        /\ \A q \in Runs : q # r => run'[q] = run[q]
    BY <1>1 DEF TypeOK, FreeRun
  <1>3. /\ Owns(r)' /\ ~Owns(r)
        /\ \A q \in Runs : q # r => /\ run'[q].job = run[q].job
                                    /\ Owns(q)' <=> Owns(q)
    BY <1>1, <1>2 DEF Owns
  <1>4. Owned(j)'
    BY <1>2, <1>3 DEF Owned
  <1>5. ASSUME NEW i, i # j
        PROVE  Owned(i)' <=> Owned(i)
    BY <1>2, <1>3, <1>5 DEF Owned
  <1> QED
    BY <1>4, <1>5

\* A run that ends gives up its job, every other job keeps its owner.
LEMMA EndRunOwners ==
  ASSUME TypeOK, SingleOwner, NEW r \in Runs, Owns(r), EndRun(r),
         NEW j, run[r].job = j
  PROVE  /\ Owned(j) /\ ~Owned(j)'
         /\ \A i : i # j => (Owned(i)' <=> Owned(i))
  <1>1. ~Owns(r)'
    BY DEF TypeOK, EndRun, Owns, FreeRun
  <1>2. \A q \in Runs : q # r => run'[q] = run[q]
    BY DEF TypeOK, EndRun
  <1>3. \A q \in Runs : q # r => /\ run'[q].job = run[q].job
                                 /\ Owns(q)' <=> Owns(q)
    BY <1>2 DEF Owns
  <1>4. \A q \in Runs : q # r /\ Owns(q) => run[q].job # j
    BY DEF SingleOwner
  <1>5. Owned(j)
    BY DEF Owned
  <1>6. \A q \in Runs : Owns(q)' => run'[q].job # j
    BY <1>1, <1>3, <1>4
  <1>7. ~Owned(j)'
    BY <1>6 DEF Owned
  <1>8. ASSUME NEW i, i # j
        PROVE  Owned(i)' <=> Owned(i)
    <2>1. \A q \in Runs : Owns(q)' /\ run'[q].job = i <=> Owns(q) /\ run[q].job = i
      BY <1>1, <1>3, <1>8
    <2> QED
      BY <2>1 DEF Owned
  <1> QED
    BY <1>5, <1>7, <1>8

\* The job of a live run stays running until the run ends.
LEMMA RunningStep ==
  ASSUME LeaseCovers, WritesAreCertain, LInv, [Next]_vars
  PROVE  RunningInv'
  <1> USE DEF LInv, IInv
  <1>0. \A r \in Runs : Owns(r) => /\ run[r].job \in Jobs
                                   /\ row[run[r].job].status = "running"
    BY OwnedStatus DEF RunningInv
  <1>1. ASSUME \A r \in Runs : Owns(r)' =>
                 /\ Owns(r) /\ run'[r].job = run[r].job
                 /\ row'[run[r].job].status = row[run[r].job].status
        PROVE  RunningInv'
    BY <1>0, <1>1 DEF RunningInv
  <1>2. ASSUME run' = run, \A j \in Jobs : row[j].status = "running" /\ Owned(j) =>
                                             row'[j].status = "running"
        PROVE  RunningInv'
    BY <1>0, <1>2 DEF RunningInv, Owned, Owns
  <1>3. ASSUME NEW k \in Polls, ReclaimExpired(k)
        PROVE  RunningInv'
    <2>1. \A j \in Jobs : Owned(j) => ~Expired(j)
      BY OwnedNotExpired DEF Owned
    <2> QED
      BY <1>2, <1>3, <2>1 DEF ReclaimExpired, ReclaimRows
  <1>4. ASSUME NEW k \in Polls, ClaimQueued(k) \/ ClaimWorkflows(k)
        PROVE  RunningInv'
    <2> DEFINE j == poll[k].job
    <2>1. j \in Jobs /\ StartRun(k)
      BY <1>4 DEF ClaimQueued, ClaimWorkflows, PollInv
    <2>2. row'[j] \in {ClaimedQueued(row[j]), ClaimedWorkflows(row[j])}
      BY <1>4, <2>1 DEF ClaimQueued, ClaimWorkflows, TypeOK
    <2>3. row'[j].status = "running"
      BY <2>1, <2>2 DEF ClaimedQueued, ClaimedWorkflows, TypeOK, JobRow
    <2>4. \A i \in Jobs : i # j => row'[i] = row[i]
      BY <1>4 DEF ClaimQueued, ClaimWorkflows, TypeOK
    <2>5. PICK q \in Runs :
            run' = [run EXCEPT ![q] =
                      [FreeRun EXCEPT !.phase = "exec", !.job = poll[k].job,
                                      !.attempts = poll[k].attempts,
                                      !.wfChecks = poll[k].wfChecks]]
      BY <2>1 DEF StartRun
    <2>6. run'[q].job = j /\ \A r \in Runs : r # q => run'[r] = run[r]
      BY <2>5 DEF TypeOK, FreeRun
    <2> HIDE DEF j
    <2>7. ASSUME NEW r \in Runs, Owns(r)'
          PROVE  row'[run'[r].job].status = "running"
      <3>1. CASE r = q
        BY <2>3, <2>6, <3>1
      <3>2. CASE r # q
        <4>1. Owns(r) /\ run'[r].job = run[r].job
          BY <2>6, <2>7, <3>2 DEF Owns
        <4> QED
          BY <1>0, <2>3, <2>4, <4>1
      <3> QED
        BY <3>1, <3>2
    <2> QED
      BY <2>7 DEF RunningInv
  <1>5. ASSUME NEW k \in Polls, PollDbError(k)
        PROVE  RunningInv'
    <2>1. \A j \in Jobs : row'[j] = row[j] \/ row[j].status # "running"
      BY <1>5 DEF PollDbError, TypeOK
    <2> QED
      BY <1>2, <1>5, <2>1 DEF PollDbError
  <1>6. ASSUME NEW k \in Polls,
               \/ ApprovalWake(k) \/ \E j \in Jobs : Enqueue(k, j)
               \/ \E o \in Operators : RequeueWrite(o, k)
        PROVE  RunningInv'
    <2>1. \A j \in Jobs : row'[j] = row[j] \/ row[j].status # "running"
      BY <1>6 DEF ApprovalWake, Enqueue, RequeueWrite, InStatus, OpInv, TypeOK
    <2> QED
      BY <1>2, <1>6, <2>1 DEF ApprovalWake, Enqueue, RequeueWrite
  <1>7. ASSUME Prune
        PROVE  RunningInv'
    <2>1. \A j \in Jobs : row'[j] = row[j] \/ row[j].status # "running"
      BY <1>7 DEF Prune, InStatus
    <2> QED
      BY <1>2, <1>7, <2>1 DEF Prune
  <1>8. ASSUME NEW r \in Runs, Owns(r), EndRun(r),
               \A j \in Jobs : j # run[r].job => row'[j] = row[j]
        PROVE  RunningInv'
    <2>1. \A q \in Runs : Owns(q)' => q # r /\ Owns(q) /\ run'[q] = run[q]
      BY <1>8 DEF TypeOK, EndRun, Owns, FreeRun
    <2>2. \A q \in Runs : Owns(q) /\ q # r => run[q].job # run[r].job
      BY <1>8 DEF OwnInv, SingleOwner
    <2> QED
      BY <1>0, <1>1, <1>8, <2>1, <2>2
  <1>9. ASSUME NEW r \in Runs, Settle(r)
        PROVE  RunningInv'
    <2>1. Owns(r) /\ EndRun(r) /\ \A j \in Jobs : j # run[r].job => row'[j] = row[j]
      BY <1>9 DEF Settle, Owns, TypeOK
    <2> QED
      BY <1>8, <2>1
  <1>10. ASSUME NEW r \in Runs, SettleError(r)
         PROVE  RunningInv'
    <2>1. Owns(r) /\ row' = row
      BY <1>10 DEF SettleError, Owns, WritesAreCertain
    <2>2. CASE EndRun(r)
      BY <1>8, <2>1, <2>2
    <2>3. CASE ~EndRun(r)
      BY <1>1, <1>10, <2>1, <2>3 DEF SettleError, Owns, TypeOK, Run
    <2> QED
      BY <2>2, <2>3
  <1>11. ASSUME NEW r \in Runs, BodyEnds(r) \/ TimerFires(r) \/ OrphanEnds(r)
         PROVE  RunningInv'
    BY <1>1, <1>11 DEF BodyEnds, TimerFires, OrphanEnds, Owns, FreeRun, TypeOK, Run
  <1>12. ASSUME Tick
         PROVE  RunningInv'
    <2>1. \A j \in Jobs : row'[j].status = row[j].status
      BY <1>12 DEF Tick, Aged, TypeOK, JobRow
    <2>2. \A r \in Runs : /\ run'[r].job = run[r].job
                          /\ run'[r].phase = run[r].phase
      BY <1>12 DEF Tick, TypeOK, Run
    <2> QED
      BY <1>0, <1>1, <2>1, <2>2 DEF Owns
  <1>13. ASSUME NEW p \in Procs, Crash(p)
         PROVE  RunningInv'
    BY <1>1, <1>13 DEF Crash, Owns, FreeRun
  <1>14. ASSUME row' = row, run' = run
         PROVE  RunningInv'
    BY <1>2, <1>14
  <1> QED
    BY <1>3, <1>4, <1>5, <1>6, <1>7, <1>9, <1>10, <1>11, <1>12, <1>13, <1>14, NextCases
    DEF TimerPoll, CheckSlots, FindQueued, FindWorkflows, ClaimQueuedMissed,
        ClaimWorkflowsMissed, RequeueGone, RequeueRead, vars

\* What a step of the queue does to the abstract jobs.
LEMMA RefinementStep ==
  ASSUME LeaseCovers, OneOperator, WritesAreCertain, LInv, [Next]_vars
  PROVE  [JL!Next]_JobState
  <1> USE DEF LInv, IInv
  <1> DEFINE Same(j) == JobState'[j] = JobState[j]
  <1>0. SingleOwner /\ \A j \in Jobs : row[j] \in JobRow
    BY DEF OwnInv, TypeOK
  <1>1. ASSUME row' = row, run' = run
        PROVE  JobState' = JobState
    BY <1>1, SameOwners, OthersStay, JobStateStutter
  <1>2. ASSUME NEW k \in Polls, NEW j \in Jobs, Enqueue(k, j)
        PROVE  JL!Submit(j)
    <2>1. row[j].status = "absent" /\ run' = run
      BY <1>2 DEF Enqueue
    <2>2. row'[j].status = "queued"
      BY <1>0, <1>2 DEF Enqueue, TypeOK, JobRow
    <2>3. \A i \in Jobs \ {j} : row'[i] = row[i]
      BY <1>2 DEF Enqueue, TypeOK
    <2>4. JobState[j] = "absent" /\ JobState'[j] = "waiting"
      BY <2>1, <2>2, JobStateIs, NextJobStateIs
    <2>5. \A i \in Jobs \ {j} : Same(i)
      BY <2>1, <2>3, SameOwners, OthersStay
    <2> QED
      BY <2>4, <2>5, MoveOf DEF JL!Submit
  <1>3. ASSUME NEW k \in Polls, ReclaimExpired(k)
        PROVE  \E S \in SUBSET Jobs : JL!Recover(S)
    <2> DEFINE S == {j \in Jobs : Expired(j)}
    <2>1. \A j \in Jobs : Expired(j) => row[j].status = "running" /\ ~Owned(j)
      BY OwnedNotExpired DEF Expired, Owned
    <2>2. \A j \in Jobs : row'[j] = IF Expired(j) THEN Reclaimed(row[j]) ELSE row[j]
      BY <1>3 DEF ReclaimExpired, ReclaimRows
    <2>3. \A j \in Jobs : Reclaimed(row[j]).status = "queued"
      BY <1>0 DEF Reclaimed, JobRow
    <2>4. \A j \in S : JobState[j] = "abandoned" /\ JobState'[j] = "waiting"
      BY <2>1, <2>2, <2>3, JobStateIs, NextJobStateIs
    <2>5. \A j \in Jobs \ S : Same(j)
      BY <1>3, <2>2, SameOwners, OthersStay DEF ReclaimExpired
    <2>6. S \in SUBSET Jobs
      OBVIOUS
    <2> HIDE DEF S
    <2> QED
      BY <2>4, <2>5, <2>6, MoveOf DEF JL!Recover
  <1>4. ASSUME NEW k \in Polls, ClaimQueued(k) \/ ClaimWorkflows(k)
        PROVE  JL!Take(poll[k].job)
    <2>0. PICK j : j = poll[k].job
      OBVIOUS
    <2> USE <2>0
    <2>1. j \in Jobs /\ StartRun(k)
      BY <1>4 DEF ClaimQueued, ClaimWorkflows, PollInv
    <2>2. row[j].status \in {"queued", "pending_workflows"}
      BY <1>4 DEF ClaimQueued, ClaimWorkflows
    <2>3. row'[j] \in {ClaimedQueued(row[j]), ClaimedWorkflows(row[j])}
      BY <1>4, <2>1 DEF ClaimQueued, ClaimWorkflows, TypeOK
    <2>4. row'[j].status = "running"
      BY <1>0, <2>1, <2>3 DEF ClaimedQueued, ClaimedWorkflows, JobRow
    <2>5. \A i \in Jobs \ {j} : row'[i] = row[i]
      BY <1>4 DEF ClaimQueued, ClaimWorkflows, TypeOK
    <2>6. Owned(j)' /\ \A i : i # j => (Owned(i)' <=> Owned(i))
      BY <2>1, StartRunOwners
    <2>7. JobState[j] \in {"waiting", "parked"} /\ JobState'[j] = "held"
      BY <2>1, <2>2, <2>4, <2>6, JobStateIs, NextJobStateIs
    <2>8. \A i \in Jobs \ {j} : Same(i)
      BY <2>5, <2>6, OthersStay
    <2>9. JL!Move({j}, {"waiting", "parked"}, {"held"})
      BY <2>1, <2>7, <2>8, MoveOf
    <2> QED
      BY <2>9 DEF JL!Take
  <1>5. ASSUME NEW k \in Polls, PollDbError(k)
        PROVE  JobState' = JobState \/ \E S \in SUBSET Jobs : JL!Abandon(S)
    <2>0. PICK j : j = poll[k].job
      OBVIOUS
    <2> USE <2>0
    <2>1. run' = run
      BY <1>5 DEF PollDbError
    <2>2. CASE row' = row
      BY <1>1, <2>1, <2>2
    <2>3. CASE row' # row
      <3>1. /\ j \in Jobs
            /\ row[j].status \in {"queued", "pending_workflows"}
            /\ row' \in {[row EXCEPT ![j] = ClaimedQueued(@)],
                        [row EXCEPT ![j] = ClaimedWorkflows(@)]}
        BY <1>5, <2>3 DEF PollDbError, PollInv
      <3>2. row'[j] \in {ClaimedQueued(row[j]), ClaimedWorkflows(row[j])}
        BY <3>1 DEF TypeOK
      <3>3. row'[j].status = "running"
        BY <1>0, <3>1, <3>2 DEF ClaimedQueued, ClaimedWorkflows, JobRow
      <3>4. \A i \in Jobs \ {j} : row'[i] = row[i]
        BY <3>1 DEF TypeOK
      <3>5. ~Owned(j)'
        BY <2>1, <3>1, OwnedStatus, SameOwners DEF Owned
      <3>6. JobState[j] \in {"waiting", "parked"} /\ JobState'[j] = "abandoned"
        BY <3>1, <3>3, <3>5, JobStateIs, NextJobStateIs
      <3>7. \A i \in Jobs \ {j} : Same(i)
        BY <2>1, <3>4, SameOwners, OthersStay
      <3>8. JL!Move({j}, {"waiting", "parked"}, {"abandoned"})
        BY <3>1, <3>6, <3>7, MoveOf
      <3>9. {j} \in SUBSET Jobs /\ j \in {j}
        BY <3>1
      <3> QED
        BY <3>8, <3>9 DEF JL!Abandon
    <2> QED
      BY <2>2, <2>3
  <1>6. ASSUME NEW k \in Polls, ApprovalWake(k)
        PROVE  \E S \in SUBSET Jobs : JL!Wake(S)
    <2>1. PICK S \in SUBSET InStatus("pending_approval") :
            row' = [j \in Jobs |-> IF j \in S THEN Woken(row[j]) ELSE row[j]]
      BY <1>6 DEF ApprovalWake
    <2>2. S \in SUBSET Jobs /\ \A j \in S : row[j].status = "pending_approval"
      BY DEF InStatus
    <2>3. \A j \in S : row'[j].status = "queued"
      <3>1. ASSUME NEW j \in S
            PROVE  row'[j] = Woken(row[j]) /\ row[j] \in JobRow
        BY <1>0, <2>1, <2>2
      <3>2. ASSUME NEW old \in JobRow
            PROVE  Woken(old).status = "queued"
        BY DEF Woken, JobRow
      <3> QED
        BY <3>1, <3>2
    <2>4. \A j \in S : JobState[j] = "parked" /\ JobState'[j] = "waiting"
      BY <2>2, <2>3, JobStateIs, NextJobStateIs
    <2>5. \A j \in Jobs \ S : Same(j)
      BY <1>6, <2>1, SameOwners, OthersStay DEF ApprovalWake
    <2> QED
      BY <2>2, <2>4, <2>5, MoveOf DEF JL!Wake
  <1>7. ASSUME NEW k \in Polls, NEW o \in Operators, RequeueWrite(o, k)
        PROVE  op[o] \in Jobs /\ JL!Resubmit(op[o])
    <2>0. PICK j : j = op[o]
      OBVIOUS
    <2> USE <2>0
    <2>1. j \in Jobs /\ row[j].status = "failed" /\ run' = run
      BY <1>7 DEF RequeueWrite, OpInv, TypeOK
    <2>2. row'[j] = Requeued(row[j]) /\ \A i \in Jobs \ {j} : row'[i] = row[i]
      BY <1>7, <2>1 DEF RequeueWrite, TypeOK
    <2>3. row'[j].status = "queued"
      BY <1>0, <2>1, <2>2 DEF Requeued, JobRow
    <2>4. JobState[j] = "failed" /\ JobState'[j] = "waiting"
      BY <2>1, <2>3, JobStateIs, NextJobStateIs
    <2>5. \A i \in Jobs \ {j} : Same(i)
      BY <2>1, <2>2, SameOwners, OthersStay
    <2>6. JL!Move({j}, {"failed"}, {"waiting"})
      BY <2>1, <2>4, <2>5, MoveOf
    <2> QED
      BY <2>1, <2>6 DEF JL!Resubmit
  <1>8. ASSUME NEW r \in Runs, Settle(r)
        PROVE  run[r].job \in Jobs /\ JL!Finish(run[r].job)
    <2>0. PICK j : j = run[r].job
      OBVIOUS
    <2> USE <2>0
    <2>1. Owns(r) /\ EndRun(r)
      BY <1>8 DEF Settle, Owns
    <2>2. j \in Jobs /\ row[j].status = "running"
      BY <2>1, OwnedStatus DEF RunningInv
    <2>3. row'[j] = SettledRow(r, row[j]) /\ \A i \in Jobs \ {j} : row'[i] = row[i]
      BY <1>8, <2>2 DEF Settle, TypeOK
    <2>4. row'[j].status \in {"succeeded", "pending_workflows", "pending_approval",
                              "failed", "queued"}
      <3>1. NextStatus(r) \in {"failed", "queued"}
        BY DEF NextStatus
      <3>2. SettledRow(r, row[j]).status \in
              {"succeeded", "pending_workflows", "pending_approval", NextStatus(r)}
        BY <1>0, <2>2 DEF SettledRow, JobRow
      <3> QED
        BY <2>3, <3>1, <3>2
    <2>5. /\ Owned(j) /\ ~Owned(j)'
          /\ \A i : i # j => (Owned(i)' <=> Owned(i))
      BY <1>0, <2>1, EndRunOwners
    <2>6. /\ JobState[j] = "held"
          /\ JobState'[j] \in {"waiting", "parked", "succeeded", "failed"}
      BY <2>2, <2>4, <2>5, JobStateIs, NextJobStateIs
    <2>7. \A i \in Jobs \ {j} : Same(i)
      BY <2>3, <2>5, OthersStay
    <2>8. JL!Move({j}, {"held"}, {"waiting", "parked", "succeeded", "failed"})
      BY <2>2, <2>6, <2>7, MoveOf
    <2> QED
      BY <2>2, <2>8 DEF JL!Finish
  <1>9. ASSUME NEW r \in Runs, SettleError(r)
        PROVE  JobState' = JobState \/ \E S \in SUBSET Jobs : JL!Abandon(S)
    <2>0. PICK j : j = run[r].job
      OBVIOUS
    <2> USE <2>0
    <2>1. Owns(r) /\ row' = row
      BY <1>9 DEF SettleError, Owns, WritesAreCertain
    <2>2. j \in Jobs /\ row[j].status = "running"
      BY <2>1, OwnedStatus DEF RunningInv
    <2>3. CASE EndRun(r)
      <3>1. /\ Owned(j) /\ ~Owned(j)'
            /\ \A i : i # j => (Owned(i)' <=> Owned(i))
        BY <1>0, <2>1, <2>3, EndRunOwners
      <3>2. JobState[j] = "held" /\ JobState'[j] = "abandoned"
        BY <2>1, <2>2, <3>1, JobStateIs, NextJobStateIs
      <3>3. \A i \in Jobs \ {j} : Same(i)
        BY <2>1, <3>1, OthersStay
      <3>4. JL!Move({j}, {"held"}, {"abandoned"})
        BY <2>2, <3>2, <3>3, MoveOf
      <3>5. {j} \in SUBSET Jobs
        BY <2>2
      <3> QED
        BY <3>4, <3>5 DEF JL!Abandon
    <2>4. CASE ~EndRun(r)
      <3>1. \A q \in Runs : /\ run'[q].job = run[q].job
                            /\ run'[q].phase = run[q].phase
        BY <1>9, <2>4 DEF SettleError, TypeOK, Run
      <3>2. \A i : Owned(i)' <=> Owned(i)
        BY <3>1 DEF Owned, Owns
      <3> QED
        BY <2>1, <3>2, OthersStay, JobStateStutter
    <2> QED
      BY <2>3, <2>4
  <1>10. ASSUME NEW r \in Runs, BodyEnds(r) \/ TimerFires(r) \/ OrphanEnds(r)
         PROVE  JobState' = JobState
    <2>1. row' = row
      BY <1>10 DEF BodyEnds, TimerFires, OrphanEnds
    <2>2. \A q \in Runs : /\ Owns(q)' <=> Owns(q)
                          /\ Owns(q) => run'[q].job = run[q].job
      BY <1>10 DEF BodyEnds, TimerFires, OrphanEnds, Owns, FreeRun, TypeOK, Run
    <2>3. \A i : Owned(i)' <=> Owned(i)
      BY <2>2 DEF Owned
    <2> QED
      BY <2>1, <2>3, OthersStay, JobStateStutter
  <1>11. ASSUME Prune
         PROVE  \E S \in SUBSET Jobs : JL!Remove(S)
    <2>1. PICK S \in SUBSET (InStatus("succeeded") \cup InStatus("failed")) :
            row' = [j \in Jobs |-> IF j \in S
                                   THEN [row[j] EXCEPT !.status = "deleted"]
                                   ELSE row[j]]
      BY <1>11 DEF Prune
    <2>2. /\ S \in SUBSET Jobs
          /\ \A j \in S : row[j].status \in {"succeeded", "failed"}
      BY DEF InStatus
    <2>3. \A j \in S : row'[j].status = "deleted"
      BY <1>0, <2>1, <2>2 DEF JobRow
    <2>4. \A j \in S : /\ JobState[j] \in {"succeeded", "failed"}
                       /\ JobState'[j] = "deleted"
      BY <2>2, <2>3, JobStateIs, NextJobStateIs
    <2>5. \A j \in Jobs \ S : Same(j)
      BY <1>11, <2>1, SameOwners, OthersStay DEF Prune
    <2> QED
      BY <2>2, <2>4, <2>5, MoveOf DEF JL!Remove
  <1>12. ASSUME Tick
         PROVE  JobState' = JobState
    <2>1. \A j \in Jobs : row'[j].status = row[j].status /\ row[j].status \in Status
      BY <1>12 DEF Tick, Aged, TypeOK, JobRow
    <2>2. \A r \in Runs : /\ run'[r].job = run[r].job
                          /\ run'[r].phase = run[r].phase
      BY <1>12 DEF Tick, TypeOK, Run
    <2>3. \A i : Owned(i)' <=> Owned(i)
      BY <2>2 DEF Owned, Owns
    <2> QED
      BY <2>1, <2>3, SameJobState, JobStateStutter
  <1>13. ASSUME NEW p \in Procs, Crash(p)
         PROVE  \E S \in SUBSET Jobs : JL!Abandon(S)
    <2> DEFINE S == {j \in Jobs : Owned(j) /\ ~Owned(j)'}
    <2>1. row' = row
      BY <1>13 DEF Crash
    <2>2. \A r \in Runs : Owns(r)' => Owns(r) /\ run'[r].job = run[r].job
      BY <1>13 DEF Crash, Owns, FreeRun
    <2>3. \A j : Owned(j)' => Owned(j)
      BY <2>2 DEF Owned
    <2>4. \A j \in S : row[j].status = "running"
      BY OwnedStatus DEF RunningInv, Owned
    <2>5. \A j \in S : JobState[j] = "held" /\ JobState'[j] = "abandoned"
      BY <2>1, <2>4, JobStateIs, NextJobStateIs
    <2>6. \A j \in Jobs \ S : Same(j)
      BY <2>1, <2>3, OthersStay
    <2>7. S \in SUBSET Jobs
      OBVIOUS
    <2> HIDE DEF S
    <2> QED
      BY <2>5, <2>6, <2>7, MoveOf DEF JL!Abandon
  <1>14. ASSUME NEW k \in Polls,
                \/ TimerPoll(k) \/ CheckSlots(k) \/ FindQueued(k) \/ FindWorkflows(k)
                \/ ClaimQueuedMissed(k) \/ ClaimWorkflowsMissed(k)
         PROVE  JobState' = JobState
    BY <1>1, <1>14 DEF TimerPoll, CheckSlots, FindQueued, FindWorkflows,
                       ClaimQueuedMissed, ClaimWorkflowsMissed
  <1>15. ASSUME NEW o \in Operators, RequeueGone(o) \/ \E j \in Jobs : RequeueRead(o, j)
         PROVE  JobState' = JobState
    BY <1>1, <1>15 DEF RequeueGone, RequeueRead
  <1>16. CASE UNCHANGED vars
    BY <1>1, <1>16 DEF vars
  <1>17. \A k \in Polls : ClaimQueued(k) \/ ClaimWorkflows(k) => poll[k].job \in Jobs
    BY DEF ClaimQueued, ClaimWorkflows, PollInv
  <1> QED
    BY <1>2, <1>3, <1>4, <1>5, <1>6, <1>7, <1>8, <1>9, <1>10, <1>11, <1>12,
       <1>13, <1>14, <1>15, <1>16, <1>17, NextCases DEF JL!Next

\* The queue keeps what JobLease promises of every job, whatever the polls,
\* processes, requeues and faults do: its safety part, step by step.
THEOREM QueueImplementsLease ==
  ASSUME LeaseCovers, OneOperator, WritesAreCertain
  PROVE  Spec => JL!Safety
  <1>1. Init => LInv /\ JL!Init
    <2>1. Init => RunningInv
      BY DEF Init, RunningInv, Owns, FreeRun
    <2>2. ASSUME Init
          PROVE  JL!Init
      <3>1. \A j \in Jobs : row[j].status = "absent"
        BY <2>2 DEF Init
      <3>2. \A j \in Jobs : JobState[j] = "absent"
        BY <3>1, JobStateIs
      <3>3. JobState = [j \in Jobs |-> JobState[j]]
        BY DEF JobState
      <3>4. JobState = [j \in Jobs |-> "absent"]
        BY <3>2, <3>3
      <3> QED
        BY <3>4 DEF JL!Init
    <2> QED
      BY IInvInit, <2>1, <2>2 DEF LInv
  <1>2. LInv /\ [Next]_vars => LInv'
    BY IInvStep, RunningStep DEF LInv
  <1>3. LInv /\ [Next]_vars => [JL!Next]_JobState
    BY RefinementStep
  <1> QED
    BY <1>1, <1>2, <1>3, PTL DEF Spec, JL!Safety
=============================================================================
