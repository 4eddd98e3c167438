-------------------------- MODULE VmApprovalProofs --------------------------
(***************************************************************************)
(* Proofs about VmApproval for every set of targets, jobs, comment handlers *)
(* and deletions.                                                           *)
(***************************************************************************)
EXTENDS VmApproval, TLAPS

\* Moving a job along keeps the jobs well-typed.
LEMMA GotoType ==
  ASSUME job \in [Jobs -> Job], NEW j \in Jobs, NEW pc \in JobPc, NEW n \in Issue,
         Goto(j, pc) \/ Waiting(j, pc, n)
  PROVE  job' \in [Jobs -> Job]
  BY DEF Goto, Waiting, Job

LEMMA QueuedType ==
  ASSUME NEW old \in Job
  PROVE  Queued(old) \in Job
  BY DEF Queued, Job, JobPc, Issue

LEMMA RequestTypes ==
  ASSUME NEW q \in Request
  PROVE  Approved(q) \in Request /\ Cancelled(q) \in Request
  BY DEF Approved, Cancelled, Request

LEMMA IdleTypes == IdleHandler \in Handler /\ IdleDeleter \in Deleter
  <1>1. SomeTarget \in Targets
    BY ApprovalAssumption DEF SomeTarget
  <1> QED
    BY <1>1 DEF IdleHandler, IdleDeleter, Handler, Deleter, Issue

LEMMA TypeStep ==
  ASSUME TypeOK, [Next]_vars
  PROVE  TypeOK'
  <1> USE ApprovalAssumption DEF TypeOK
  <1>1. ASSUME NEW j \in Jobs,
               CheckApproval(j) \/ RereadRequest(j) \/ Park(j)
        PROVE  TypeOK'
    <2>1. request[Target[j]].issue \in Issue
      BY DEF Request
    <2>2. PICK pc \in JobPc, n \in Issue : Goto(j, pc) \/ Waiting(j, pc, n)
      BY <1>1, <2>1 DEF CheckApproval, RereadRequest, Park, JobPc, Issue
    <2> QED
      BY <1>1, <2>2, GotoType DEF CheckApproval, RereadRequest, Park
  <1>2. ASSUME NEW j \in Jobs, PostIssue(j)
        PROVE  TypeOK'
    <2>1. PICK n \in Numbers[Repo[Target[j]]] :
            /\ opened' = [opened EXCEPT ![Repo[Target[j]]] = @ \cup {n}]
            /\ Waiting(j, "store", n)
      BY <1>2 DEF PostIssue
    <2>2. n \in Issue
      BY <2>1 DEF Issue, Repos
    <2>3. opened' \in [Repos -> SUBSET Issue]
      BY <2>1, <2>2
    <2>4. job' \in [Jobs -> Job]
      BY <2>1, <2>2, GotoType DEF JobPc
    <2> QED
      BY <1>2, <2>3, <2>4 DEF PostIssue
  <1>3. ASSUME NEW j \in Jobs, StoreRequest(j)
        PROVE  TypeOK'
    <2>1. job' \in [Jobs -> Job]
      BY <1>3, GotoType DEF StoreRequest, JobPc, Issue
    <2>2. request' \in [Targets -> Request]
      BY <1>3 DEF StoreRequest, Request, Job
    <2> QED
      BY <1>3, <2>1, <2>2 DEF StoreRequest
  <1>4. ASSUME NEW j \in Jobs, EnsureVm(j)
        PROVE  TypeOK'
    <2>1. job' \in [Jobs -> Job]
      BY <1>4, GotoType DEF EnsureVm, JobPc, Issue
    <2>2. vm' \in [Targets -> Vm]
      BY <1>4 DEF EnsureVm, Vm
    <2> QED
      BY <1>4, <2>1, <2>2 DEF EnsureVm
  <1>5. ASSUME NEW j \in Jobs, RunFails(j)
        PROVE  TypeOK'
    BY <1>5, QueuedType DEF RunFails
  <1>6. ASSUME NEW j \in Jobs, Redeploy(j)
        PROVE  TypeOK'
    <2>1. job[j].deploys + 1 \in Nat
      BY DEF Job
    <2>2. job' \in [Jobs -> Job]
      BY <1>6, <2>1 DEF Redeploy, Job, JobPc
    <2> QED
      BY <1>6, <2>2 DEF Redeploy
  <1>7. ASSUME NEW h \in Handlers, NEW t \in Targets, Comment(h, t)
        PROVE  TypeOK'
    BY <1>7 DEF Comment, Handler, Request
  <1>8. ASSUME NEW h \in Handlers, Approve(h)
        PROVE  TypeOK'
    <2>1. request' \in [Targets -> Request]
      BY <1>8, RequestTypes DEF Approve
    <2>2. handler' \in [Handlers -> Handler]
      BY <1>8 DEF Approve, Handler
    <2> QED
      BY <1>8, <2>1, <2>2 DEF Approve
  <1>9. ASSUME NEW h \in Handlers, Wake(h)
        PROVE  TypeOK'
    BY <1>9, QueuedType, IdleTypes DEF Wake
  <1>10. ASSUME NEW h \in Handlers, HandlerCrash(h)
         PROVE  TypeOK'
    BY <1>10, IdleTypes DEF HandlerCrash
  <1>11. ASSUME NEW d \in Deleters, NEW t \in Targets, DeleteStart(d, t)
         PROVE  TypeOK'
    BY <1>11 DEF DeleteStart, Deleter, Vm
  <1>12. ASSUME NEW d \in Deleters, CancelRequest(d)
         PROVE  TypeOK'
    <2>1. request' \in [Targets -> Request]
      BY <1>12, RequestTypes DEF CancelRequest
    <2>2. deleter' \in [Deleters -> Deleter]
      BY <1>12 DEF CancelRequest, Deleter
    <2> QED
      BY <1>12, <2>1, <2>2 DEF CancelRequest
  <1>13. ASSUME NEW d \in Deleters, DeleteRow(d)
         PROVE  TypeOK'
    BY <1>13, IdleTypes DEF DeleteRow, Vm
  <1>14. ASSUME NEW d \in Deleters, DeleteFails(d)
         PROVE  TypeOK'
    BY <1>14, IdleTypes DEF DeleteFails
  <1>15. CASE UNCHANGED vars
    BY <1>15 DEF vars
  <1> QED
    BY <1>1, <1>2, <1>3, <1>4, <1>5, <1>6, <1>7, <1>8, <1>9, <1>10, <1>11,
       <1>12, <1>13, <1>14, <1>15 DEF Next, JobStep

LEMMA TypeInit == Init => TypeOK
  BY ApprovalAssumption, IdleTypes
  DEF Init, TypeOK, Request, Vm, Job, JobPc, Issue

\* Every reachable state of the approval protocol is well-typed.
THEOREM ApprovalTypeCorrect == Spec => []TypeOK
  BY TypeInit, TypeStep, PTL DEF Spec

-----------------------------------------------------------------------------
(* No VM before an approval.                                                *)

\* The invariant needs the two ways an approval is passed on: in the row of
\* the request and in the hands of a deployment that has read it.
ApprovalKept ==
  /\ \A t \in Targets : request[t].status = "approved" => request[t].approvedAt
  /\ \A j \in Jobs : job[j].pc = "ensure" => request[Target[j]].approvedAt
  /\ NoVmBeforeApproval

\* No step clears approvedAt.
LEMMA ApprovedAtKept ==
  ASSUME TypeOK, [Next]_vars, NEW t \in Targets, request[t].approvedAt
  PROVE  request'[t].approvedAt
  <1>1. ASSUME NEW j \in Jobs, StoreRequest(j)
        PROVE  request'[t].approvedAt
    BY <1>1 DEF StoreRequest, TypeOK, Request
  <1>2. ASSUME NEW h \in Handlers, Approve(h)
        PROVE  request'[t].approvedAt
    BY <1>2 DEF Approve, Approved, TypeOK, Request
  <1>3. ASSUME NEW d \in Deleters, CancelRequest(d)
        PROVE  request'[t].approvedAt
    BY <1>3 DEF CancelRequest, Cancelled, TypeOK, Request
  <1>4. CASE request' = request
    BY <1>4
  <1> QED
    BY <1>1, <1>2, <1>3, <1>4
    DEF Next, JobStep, CheckApproval, RereadRequest, PostIssue, Park, EnsureVm,
        RunFails, Redeploy, Comment, Wake, HandlerCrash, DeleteStart, DeleteRow,
        DeleteFails, vars

\* A request only becomes approved by an approval, which sets approvedAt.
LEMMA ApprovedStep ==
  ASSUME TypeOK, ApprovalKept, [Next]_vars, NEW t \in Targets,
         request'[t].status = "approved"
  PROVE  request'[t].approvedAt
  <1>1. CASE request[t].status = "approved"
    BY <1>1, ApprovedAtKept DEF ApprovalKept
  <1>2. CASE request[t].status # "approved"
    <2>1. request' # request
      BY <1>2
    <2>2. ASSUME NEW j \in Jobs, StoreRequest(j)
          PROVE  FALSE
      BY <1>2, <2>2 DEF StoreRequest, TypeOK, Request
    <2>3. ASSUME NEW d \in Deleters, CancelRequest(d)
          PROVE  FALSE
      BY <1>2, <2>3 DEF CancelRequest, Cancelled, TypeOK, Request
    <2>4. ASSUME NEW h \in Handlers, Approve(h)
          PROVE  request'[t].approvedAt
      BY <1>2, <2>4 DEF Approve, Approved, TypeOK, Request
    <2> QED
      BY <2>1, <2>2, <2>3, <2>4
      DEF Next, JobStep, CheckApproval, RereadRequest, PostIssue, Park, EnsureVm,
          RunFails, Redeploy, Comment, Wake, HandlerCrash, DeleteStart, DeleteRow,
          DeleteFails, vars
  <1> QED
    BY <1>1, <1>2

\* A deployment only gets to the VM from a check that read "approved".
LEMMA EnsureStep ==
  ASSUME TypeOK, ApprovalKept, [Next]_vars, NEW j \in Jobs,
         job'[j].pc = "ensure"
  PROVE  request'[Target[j]].approvedAt
  <1> USE ApprovalAssumption
  <1>1. CASE job[j].pc = "ensure"
    BY <1>1, ApprovedAtKept DEF ApprovalKept
  <1>2. CASE job[j].pc # "ensure"
    <2>1. job' # job
      BY <1>2
    <2>2. ASSUME NEW i \in Jobs, CheckApproval(i)
          PROVE  request'[Target[j]].approvedAt
      <3>1. j = i /\ request[Target[i]].status = "approved"
        BY <1>2, <2>2 DEF CheckApproval, Goto, Waiting, TypeOK, Job
      <3> QED
        BY <3>1, ApprovedAtKept DEF ApprovalKept
    <2>3. ASSUME NEW i \in Jobs,
                 \/ RereadRequest(i) \/ PostIssue(i) \/ StoreRequest(i) \/ Park(i)
                 \/ EnsureVm(i)
          PROVE  FALSE
      BY <1>2, <2>3 DEF RereadRequest, PostIssue, StoreRequest, Park, EnsureVm,
                        Goto, Waiting, TypeOK, Job
    <2>4. ASSUME NEW i \in Jobs, RunFails(i) \/ Redeploy(i)
          PROVE  FALSE
      BY <1>2, <2>4 DEF RunFails, Redeploy, Queued, TypeOK, Job
    <2>5. ASSUME NEW h \in Handlers, Wake(h)
          PROVE  FALSE
      BY <1>2, <2>5 DEF Wake, Queued, TypeOK, Job
    <2> QED
      BY <2>1, <2>2, <2>3, <2>4, <2>5
      DEF Next, JobStep, Approve, HandlerCrash, Comment, CancelRequest, DeleteRow,
          DeleteStart, DeleteFails, vars
  <1> QED
    BY <1>1, <1>2

\* A VM is only created by a deployment that got there.
LEMMA VmStep ==
  ASSUME TypeOK, ApprovalKept, [Next]_vars, NEW t \in Targets, vm'[t].id > 0
  PROVE  request'[t].approvedAt
  <1> USE ApprovalAssumption
  <1>1. CASE vm[t].id > 0
    BY <1>1, ApprovedAtKept DEF ApprovalKept, NoVmBeforeApproval
  <1>2. CASE ~(vm[t].id > 0)
    <2>1. vm' # vm
      BY <1>2
    <2>2. ASSUME NEW j \in Jobs, EnsureVm(j)
          PROVE  request'[t].approvedAt
      <3>1. Target[j] = t
        BY <1>2, <2>2 DEF EnsureVm, TypeOK, Vm
      <3>2. request[Target[j]].approvedAt
        BY <2>2 DEF EnsureVm, ApprovalKept
      <3> QED
        BY <3>1, <3>2, ApprovedAtKept
    <2>3. ASSUME NEW d \in Deleters, DeleteRow(d)
          PROVE  FALSE
      BY <1>2, <2>3 DEF DeleteRow, TypeOK, Vm
    <2> QED
      BY <2>1, <2>2, <2>3
      DEF Next, JobStep, CheckApproval, RereadRequest, PostIssue, StoreRequest,
          Park, RunFails, Redeploy, Approve, Wake, HandlerCrash, Comment,
          CancelRequest, DeleteStart, DeleteFails, vars
  <1> QED
    BY <1>1, <1>2

\* No VM of a target exists, or ever existed, unless a human approved the
\* target, however deployments, comments, deletions and failures interleave.
THEOREM ApprovalGate == Spec => []NoVmBeforeApproval
  <1>1. Init => ApprovalKept
    BY ApprovalAssumption DEF Init, ApprovalKept, NoVmBeforeApproval
  <1>2. TypeOK /\ ApprovalKept /\ [Next]_vars => ApprovalKept'
    BY ApprovedStep, EnsureStep, VmStep DEF ApprovalKept, NoVmBeforeApproval
  <1>3. ApprovalKept => NoVmBeforeApproval
    BY DEF ApprovalKept
  <1> QED
    BY <1>1, <1>2, <1>3, TypeInit, TypeStep, PTL DEF Spec
=============================================================================
