-------------------------- MODULE DeploymentRunner --------------------------
(***************************************************************************)
(* The deployment runner: executeDeployment in                              *)
(* src/src/services/deployment-runner.ts, with the GitHub calls it makes in *)
(* src/src/services/github-status.ts.                                       *)
(*                                                                         *)
(* One environment of one repository.  A body is a run of executeDeployment *)
(* for a commit: it sets the commit's check run, passes the gates (user,    *)
(* policy, workflows, secrets, approval), deploys to the VM and to Caddy,   *)
(* and writes what came of it to the deployment's row, to GitHub's          *)
(* deployment and check run and to the error issue.  Nothing keeps the      *)
(* bodies of two jobs, or a body that outlived its timeout and the retry of *)
(* its job, apart: they interleave at every await.  The steps on the VM and *)
(* on the Caddy host are modelled in ComposeDeploy and CaddyDeploy; here    *)
(* only what they leave behind counts.                                      *)
(***************************************************************************)
EXTENDS Integers, Sequences, FiniteSets

CONSTANTS
  Commits,     \* commits deployed
  HasCaddyfile,\* the commits that bring a caddyfile
  Bodies,      \* concurrent runs
  MaxStarts,   \* bound on the runs
  MaxFaults    \* bound on failed calls and crashes

VARIABLES
  row,        \* table deployments, by deployment key (here: commit)
  hosted,     \* GitHub's deployments, by id
  checks,     \* check runs of each commit, by id
  issues,     \* open error issues of the environment
  vm,         \* the commit whose containers run, or none
  caddy,      \* the commit whose file Caddy serves, or none
  body,       \* the runs
  starts, faults,
  last,       \* history: how the last run that ended left the environment
  overlapped, \* history: two runs were under way at once
  doubled,    \* history: commits with two runs at once
  missed      \* history: GitHub deployments whose run lost a call or died

github == <<hosted, checks, issues>>
world == <<vm, caddy>>
history == <<last, overlapped, doubled, missed>>
vars == <<row, github, world, body, starts, faults, history>>

-----------------------------------------------------------------------------
(* The course of a run: what is done, in the code's order.                  *)

Step(op, arg) == [op |-> op, arg |-> arg]

Deploy == <<
  Step("check", "queued"), Step("admit", ""), Step("row", ""), Step("host", ""),
  Step("check", "queued"), Step("workflows", ""), Step("check", "queued"),
  Step("approval", ""), Step("status", "in_progress"),
  Step("check", "in_progress"), Step("vm", ""), Step("check", "in_progress"),
  Step("compose", ""), Step("caddyfile", ""), Step("check", "in_progress"),
  Step("caddy", ""), Step("succeed", ""), Step("status", "success"),
  Step("check", "success"), Step("audit", ""), Step("close", "") >>

Recover == <<
  Step("compensate", ""), Step("fail", ""), Step("status", "failure"),
  Step("check", "failure"), Step("report", "") >>

CourseNames == {"deploy", "recover", "reject", "refuse", "park"}
WithDeploy(d) == [course \in CourseNames |->
  CASE course = "deploy" -> d
    [] course = "recover" -> Recover
    [] course = "reject" -> <<Step("check", "failure"), Step("report", "")>>
    [] course = "refuse" -> <<Step("check", "failure")>>
    [] course = "park" -> <<Step("check", "queued")>>]
\* Mutant: the deployment is in progress before the gates are passed.
CoursesEarly == WithDeploy([Deploy EXCEPT
  ![5] = Step("status", "in_progress"), ![9] = Step("check", "queued")])
Courses == WithDeploy(Deploy)

\* The ends of a course, from all of it to nothing.
Rest(course) ==
  LET steps == Courses[course]
  IN  {SubSeq(steps, n, Len(steps)) : n \in 1..Len(steps) + 1}

CheckState == {"queued", "in_progress", "success", "failure"}
HostedState == {"pending", "in_progress", "success", "failure"}
Incomplete == {"queued", "in_progress"}
SomeCommit == CHOOSE c \in Commits : TRUE
NoCommit == "none"
Unlisted == -1
Known == Commits \cup {NoCommit}

Status == {"none", "running", "success", "failed"}
\* A run: the steps it still has to do, and what it has read.
Body == [left : UNION {Rest(course) : course \in CourseNames}, commit : Commits,
         hosted : Nat, composed : BOOLEAN, seen : Nat \cup {Unlisted}]
IdleBody == [left |-> <<>>, commit |-> SomeCommit, hosted |-> 0,
             composed |-> FALSE, seen |-> Unlisted]
Unknown == [commit |-> SomeCommit, outcome |-> "unknown", composed |-> FALSE]

Running(b) == body[b].left # <<>>
Does(b, op) == Running(b) /\ Head(body[b].left).op = op
Arg(b) == Head(body[b].left).arg
Commit(b) == body[b].commit

\* A run past its next step, idle after the last.
Moved(r) == IF Len(r.left) = 1 THEN IdleBody
            ELSE [r EXCEPT !.left = Tail(r.left), !.seen = Unlisted]
Turned(r, course) == [r EXCEPT !.left = Courses[course], !.seen = Unlisted]

Advance(b) == body' = [body EXCEPT ![b] = Moved(@)]
Turn(b, course) == body' = [body EXCEPT ![b] = Turned(@, course)]

Init ==
  /\ row = [c \in Commits |-> "none"]
  /\ hosted = <<>>
  /\ checks = [c \in Commits |-> <<>>]
  /\ issues = 0
  /\ vm = NoCommit /\ caddy = NoCommit
  /\ body = [b \in Bodies |-> IdleBody]
  /\ starts = 0 /\ faults = 0
  /\ last = Unknown
  /\ overlapped = FALSE /\ doubled = {} /\ missed = {}

Fault == faults < MaxFaults /\ faults' = faults + 1

-----------------------------------------------------------------------------
(* Check runs: updateCommitStatus lists, then patches or creates.           *)

Start(b, c) ==
  /\ ~Running(b) /\ starts < MaxStarts
  /\ starts' = starts + 1
  /\ body' = [body EXCEPT ![b] = [IdleBody EXCEPT !.left = Courses["deploy"], !.commit = c]]
  /\ overlapped' = (overlapped \/ \E d \in Bodies : Running(d))
  /\ doubled' = IF \E d \in Bodies : Running(d) /\ Commit(d) = c
                THEN doubled \cup {c} ELSE doubled
  /\ last' = Unknown
  /\ UNCHANGED <<row, github, world, faults, missed>>

\* Mutant: a completed check run is not told from one in progress.
NewestOff(c) ==
  LET n == Len(checks[c])
  IN  IF n > 0 /\ checks[c][n] \notin Incomplete THEN n ELSE 0
\* The newest check run, 0 when there is none to update.
Newest(c) ==
  LET n == Len(checks[c])
  IN  IF n > 0 /\ checks[c][n] \in Incomplete THEN n ELSE 0

ListChecks(b) ==
  /\ Does(b, "check") /\ body[b].seen = Unlisted
  /\ body' = [body EXCEPT ![b].seen = Newest(Commit(b))]
  /\ UNCHANGED <<row, github, world, starts, faults, history>>

WriteCheck(b) ==
  LET c == Commit(b)
      n == body[b].seen
  IN  /\ Does(b, "check") /\ n # Unlisted
      /\ checks' = IF n > 0 THEN [checks EXCEPT ![c][n] = Arg(b)]
                   ELSE [checks EXCEPT ![c] = Append(@, Arg(b))]
      /\ Advance(b)
      /\ UNCHANGED <<row, hosted, issues, world, starts, faults, history>>

\* GitHub or the circuit breaker refuses the update, or its answer is lost.
CheckLost(b) ==
  /\ Does(b, "check") /\ Fault
  /\ Advance(b)
  /\ checks' \in {checks, [checks EXCEPT ![Commit(b)] = Append(@, Arg(b))]}
  /\ doubled' = doubled \cup {Commit(b)}
  /\ UNCHANGED <<row, hosted, issues, world, starts, last, overlapped, missed>>

-----------------------------------------------------------------------------
(* The gates.                                                               *)

\* The assigned user is not approved, or the policy rejects, which also
\* reports an issue; neither is inside the try block.
Admit(b) ==
  /\ Does(b, "admit")
  /\ \/ Advance(b) /\ UNCHANGED faults
     \/ Fault /\ (Turn(b, "refuse") \/ Turn(b, "reject"))
  /\ UNCHANGED <<row, github, world, starts, history>>

\* The status that lets a deployment be skipped; the runner never writes it.
Duplicate == {"succeeded"}

FindDeployment(b) ==
  LET c == Commit(b)
  IN  /\ Does(b, "row")
      /\ IF row[c] \in Duplicate
         THEN body' = [body EXCEPT ![b] = IdleBody] /\ UNCHANGED row
         ELSE /\ Advance(b)
              /\ row' = IF row[c] = "none"
                        THEN [row EXCEPT ![c] = "running"] ELSE row
      /\ UNCHANGED <<github, world, starts, faults, history>>

\* createGithubDeployment, whose id is stored; without an answer the run goes on
\* without one.
CreateHosted(b) ==
  /\ Does(b, "host")
  /\ \/ /\ hosted' = Append(hosted, "pending")
        /\ body' = [body EXCEPT ![b] = [Moved(@) EXCEPT !.hosted = Len(hosted) + 1]]
        /\ UNCHANGED faults
     \/ Fault /\ Advance(b) /\ hosted' \in {hosted, Append(hosted, "pending")}
  /\ UNCHANGED <<row, checks, issues, world, starts, history>>

\* One look at the workflows: passed, failed or, for too long, pending; a
\* pending workflow parks the job, with nothing taken back.
CheckWorkflows(b) ==
  /\ Does(b, "workflows")
  /\ \/ Advance(b) /\ UNCHANGED faults
     \/ Fault /\ Turn(b, "recover")
     \/ body' = [body EXCEPT ![b] = IdleBody] /\ UNCHANGED faults
  /\ UNCHANGED <<row, github, world, starts, history>>

\* Steps that may fail and whose effects no property here tells apart: the
\* VM and its users, and the record of a success.
Prepare(b) ==
  /\ Does(b, "vm") \/ Does(b, "audit")
  /\ \/ Advance(b) /\ UNCHANGED faults
     \/ Fault /\ Turn(b, "recover")
  /\ UNCHANGED <<row, github, world, starts, history>>

\* The VM is approved, or waits for its approval (VmApproval); it is rejected,
\* or a secret is missing.
CheckApproval(b) ==
  /\ Does(b, "approval")
  /\ \/ Advance(b) /\ UNCHANGED faults
     \/ Fault /\ Turn(b, "recover")
     \/ Turn(b, "park") /\ UNCHANGED faults
  /\ UNCHANGED <<row, github, world, starts, history>>

-----------------------------------------------------------------------------
(* GitHub's deployment and the error issue.                                 *)

PostStatus(b) ==
  LET g == body[b].hosted
  IN  /\ Does(b, "status")
      /\ \/ g = 0 /\ UNCHANGED <<hosted, faults, missed>>
         \/ /\ g # 0
            /\ hosted' = [hosted EXCEPT ![g] = Arg(b)]
            /\ UNCHANGED <<faults, missed>>
         \/ /\ g # 0 /\ Fault
            /\ missed' = missed \cup {g}
            /\ UNCHANGED hosted
      /\ Advance(b)
      /\ UNCHANGED <<row, checks, issues, world, starts, last, overlapped, doubled>>

\* Mutant: an open issue is commented on, but none is opened.
ReportErrorOnOpen(b) ==
  /\ Does(b, "report")
  /\ Advance(b)
  /\ UNCHANGED <<row, github, world, starts, faults, history>>
\* reportDeploymentError comments on the open issue, or opens one, also when
\* the search for it fails.
ReportError(b) ==
  /\ Does(b, "report")
  /\ \/ /\ issues' = IF issues = 0 THEN 1 ELSE issues
        /\ UNCHANGED <<faults, overlapped>>
     \/ Fault /\ overlapped' = TRUE /\ issues' \in {issues, issues + 1}
  /\ Advance(b)
  /\ UNCHANGED <<row, hosted, checks, world, starts, last, doubled, missed>>

\* Mutant: the issue is closed without one being found.
CloseIssueBlind(b) ==
  /\ Does(b, "close") /\ issues' = issues - 1
  /\ Advance(b)
  /\ UNCHANGED <<row, hosted, checks, world, starts, faults, history>>
\* closeDeploymentErrorIssue closes the issue the search gives.
CloseIssue(b) ==
  /\ Does(b, "close")
  /\ \/ /\ issues' = IF issues = 0 THEN 0 ELSE issues - 1
        /\ UNCHANGED <<faults, overlapped>>
     \/ Fault /\ overlapped' = TRUE /\ UNCHANGED issues
  /\ Advance(b)
  /\ UNCHANGED <<row, hosted, checks, world, starts, last, doubled, missed>>

-----------------------------------------------------------------------------
(* The VM and Caddy.                                                        *)

\* deployComposeToVm: it fails before the containers start, or after.
DeployCompose(b) ==
  /\ Does(b, "compose")
  /\ \/ /\ vm' = Commit(b)
        /\ body' = [body EXCEPT ![b] = [Moved(@) EXCEPT !.composed = TRUE]]
        /\ UNCHANGED faults
     \/ Fault /\ vm' \in {vm, Commit(b)} /\ Turn(b, "recover")
  /\ UNCHANGED <<row, github, caddy, starts, history>>

\* Without a caddyfile in the repository the Caddy steps are passed over.
FetchCaddyfile(b) ==
  /\ Does(b, "caddyfile")
  /\ body' = [body EXCEPT ![b] = IF Commit(b) \in HasCaddyfile THEN Moved(@)
                                 ELSE Moved(Moved(Moved(@)))]
  /\ UNCHANGED <<row, github, world, starts, faults, history>>

DeployCaddy(b) ==
  /\ Does(b, "caddy")
  /\ \/ caddy' = Commit(b) /\ Advance(b) /\ UNCHANGED faults
     \/ Fault /\ caddy' \in {caddy, Commit(b)} /\ Turn(b, "recover")
  /\ UNCHANGED <<row, github, vm, starts, history>>

\* Mutant: the containers of a failed run stay up.
CompensateNothing(b) ==
  /\ Does(b, "compensate")
  /\ Advance(b)
  /\ UNCHANGED <<row, github, world, starts, faults, history>>
\* runCompensationPlan: compose down, whose own failure is only recorded.
\* Afterwards the flag says whether the containers were taken down.
Compensate(b) ==
  /\ Does(b, "compensate")
  /\ \/ body[b].composed /\ vm' = NoCommit /\ Advance(b) /\ UNCHANGED faults
     \/ ~body[b].composed /\ Advance(b) /\ UNCHANGED <<vm, faults>>
     \/ /\ body[b].composed /\ Fault
        /\ body' = [body EXCEPT ![b] = [Moved(@) EXCEPT !.composed = FALSE]]
        /\ UNCHANGED vm
  /\ UNCHANGED <<row, github, caddy, starts, history>>

-----------------------------------------------------------------------------
(* The outcome.                                                             *)

Outcome(b, s) == [commit |-> Commit(b), outcome |-> s, composed |-> body[b].composed]

Settle(b) ==
  LET s == IF Does(b, "succeed") THEN "success" ELSE "failed"
  IN  /\ Does(b, "succeed") \/ Does(b, "fail")
      /\ row' = [row EXCEPT ![Commit(b)] = s]
      /\ last' = Outcome(b, s)
      /\ Advance(b)
      /\ UNCHANGED <<github, world, starts, faults, overlapped, doubled, missed>>

\* The process dies, or the database fails outside a guarded step.
Die(b) ==
  /\ Running(b) /\ Fault
  /\ body' = [body EXCEPT ![b] = IdleBody]
  /\ last' = Unknown
  /\ doubled' = doubled \cup {Commit(b)}
  /\ missed' = missed \cup ({body[b].hosted} \ {0})
  /\ UNCHANGED <<row, github, world, starts, overlapped>>

RunStep(b) ==
  \/ ListChecks(b) \/ WriteCheck(b) \/ CheckLost(b)
  \/ Admit(b) \/ FindDeployment(b) \/ CreateHosted(b)
  \/ CheckWorkflows(b) \/ Prepare(b) \/ CheckApproval(b)
  \/ PostStatus(b) \/ ReportError(b) \/ CloseIssue(b)
  \/ DeployCompose(b) \/ FetchCaddyfile(b) \/ DeployCaddy(b) \/ Compensate(b)
  \/ Settle(b) \/ Die(b)

Next ==
  \E b \in Bodies : RunStep(b) \/ \E c \in Commits : Start(b, c)

Spec == Init /\ [][Next]_vars

-----------------------------------------------------------------------------
\* Every variable has its type; a run has the end of a course left.
TypeOK ==
  /\ row \in [Commits -> Status]
  /\ hosted \in Seq(HostedState)
  /\ checks \in [Commits -> Seq(CheckState)]
  /\ issues \in Nat
  /\ vm \in Known /\ caddy \in Known
  /\ body \in [Bodies -> Body]
  /\ starts \in Nat /\ faults \in Nat
  /\ overlapped \in BOOLEAN /\ doubled \subseteq Commits
  /\ missed \subseteq DOMAIN hosted

Idle == \A b \in Bodies : ~Running(b)

\* A deployment that GitHub shows in progress has a run at work on it, unless
\* a crash or a failed call cut its run off: a run that a gate parks or stops
\* leaves none behind ("We intentionally delay in_progress until preflight
\* gates pass").
InProgressEnds ==
  \A g \in DOMAIN hosted : hosted[g] = "in_progress" =>
    g \in missed \/ \E b \in Bodies : Running(b) /\ body[b].hosted = g

\* At most the newest check run of a commit is open, and none once its last
\* run ended with an outcome; runs of one commit at once, lost calls and
\* crashes excepted.  An older one nobody would complete any more.
ChecksSettle ==
  \A c \in Commits \ doubled :
    LET open == {n \in DOMAIN checks[c] : checks[c][n] \in Incomplete}
    IN  /\ open \subseteq {Len(checks[c])}
        /\ Idle /\ last.commit = c /\ last.outcome # "unknown" => open = {}

\* As long as runs did not overlap, what they report is what is there: after
\* a success the VM, and Caddy when the commit has a caddyfile, serve the
\* commit; after a failure of a run whose containers were up they are down.
VmAgreesWithRow ==
  Idle /\ ~overlapped /\ last.outcome # "unknown" =>
    /\ row[last.commit] = last.outcome
    /\ last.outcome = "success" => /\ vm = last.commit
                                   /\ last.commit \in HasCaddyfile => caddy = vm
    /\ last.outcome = "failed" /\ last.composed => vm = NoCommit

\* As long as runs did not overlap and no issue call failed, an error issue is
\* open exactly when the last run failed; never are there two.
IssueTellsOutcome ==
  ~overlapped =>
    /\ issues <= 1
    /\ Idle /\ last.outcome # "unknown" =>
         issues = IF last.outcome = "failed" THEN 1 ELSE 0
=============================================================================
