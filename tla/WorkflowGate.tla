---------------------------- MODULE WorkflowGate ----------------------------
(***************************************************************************)
(* The verdict on a commit's workflows that a deployment waits for:         *)
(* checkWorkflowsOnce in src/src/services/github-status.ts.                 *)
(***************************************************************************)
EXTENDS Naturals

CONSTANT Workflows \* the workflows of a commit

VARIABLE latest    \* the latest run of each workflow

Status == {"absent", "running", "success", "failure", "other"}

Init == latest = [w \in Workflows |-> "absent"]

In(ws, s) == {w \in ws : latest[w] \in s}

\* Mutant: a workflow that is still running is not waited for.
AnyWorkflowsHasty ==
  IF In(Workflows, {"failure"}) # {} THEN "failed" ELSE "complete"
\* Every check that is there: a conclusion other than failure or cancelled
\* passes.
AnyWorkflows ==
  CASE In(Workflows, {"failure"}) # {} -> "failed"
    [] In(Workflows, {"failure"}) = {} /\ In(Workflows, {"running"}) # {} -> "pending"
    [] OTHER -> "complete"

\* checkRequiredWorkflowRuns: the named workflows, which must have started and
\* must succeed.
RequiredWorkflows(ws) ==
  CASE In(ws, {"absent"}) # {} -> "pending"
    [] In(ws, {"absent"}) = {} /\ In(ws, {"failure", "other"}) # {} -> "failed"
    [] In(ws, {"absent", "failure", "other"}) = {} /\ In(ws, {"running"}) # {} -> "pending"
    [] OTHER -> "complete"

\* A workflow starts, ends, or is run again.
WorkflowMoves(w) ==
  \/ latest[w] # "running" /\ latest' = [latest EXCEPT ![w] = "running"]
  \/ /\ latest[w] = "running"
     /\ latest' \in {[latest EXCEPT ![w] = s] : s \in {"success", "failure", "other"}}

Next == \E w \in Workflows : WorkflowMoves(w)

Spec == Init /\ [][Next]_latest

-----------------------------------------------------------------------------
\* The variable has its type.
TypeOK == latest \in [Workflows -> Status]

\* The two ways to judge a commit's workflows agree on a commit whose workflows
\* have all started, and have ended as a success or a failure or still run.
VerdictsAgree ==
  In(Workflows, {"absent", "other"}) = {} =>
    AnyWorkflows = RequiredWorkflows(Workflows)
=============================================================================
