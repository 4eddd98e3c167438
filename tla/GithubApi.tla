----------------------------- MODULE GithubApi -----------------------------
(***************************************************************************)
(* Calls to GitHub: the retries and the circuit breaker that githubPost,    *)
(* githubPatch and githubGet share in src/src/services/github-status.ts.    *)
(*                                                                         *)
(* The breaker is two variables of the process.  A call looks at it once,   *)
(* when it begins; its tries and its end come after awaits, when other      *)
(* calls have opened or closed the breaker.                                 *)
(***************************************************************************)
EXTENDS Integers

CONSTANTS
  Calls,       \* concurrent calls
  Threshold,   \* GITHUB_API_CIRCUIT_BREAKER_FAILURE_THRESHOLD
  Cooldown,    \* GITHUB_API_CIRCUIT_BREAKER_COOLDOWN_MS, in ticks
  MaxRetries,  \* GITHUB_API_POST_MAX_RETRIES
  MaxCalls, MaxClock \* bounds on the calls and on the time

VARIABLES
  failures,    \* githubApiConsecutiveFailures
  openedAt,    \* githubApiCircuitOpenedAtMs
  clock,
  call,        \* a call's try, or how it ended
  calls,       \* calls made
  streak,      \* history: final failures since the last success
  lastFailure  \* history: when the last one was

breaker == <<failures, openedAt>>
vars == <<breaker, clock, call, calls, streak, lastFailure>>

Closed == -1
New == -1
Done == -2
Skipped == -3

Init ==
  /\ failures = 0 /\ openedAt = Closed /\ clock = 0
  /\ call = [k \in Calls |-> New] /\ calls = 0
  /\ streak = 0 /\ lastFailure = Closed

-----------------------------------------------------------------------------
(* The circuit breaker.                                                     *)

Flies(k) == call[k] >= 0

CoolingDown == openedAt # Closed /\ clock - openedAt < Cooldown

\* isCircuitOpen: the first call after the cool-down closes the breaker.
Begin(k) ==
  /\ ~Flies(k) /\ calls < MaxCalls
  /\ calls' = calls + 1
  /\ \/ CoolingDown /\ call' = [call EXCEPT ![k] = Skipped] /\ UNCHANGED breaker
     \/ /\ ~CoolingDown
        /\ call' = [call EXCEPT ![k] = 0]
        /\ openedAt' = Closed
        /\ failures' = IF openedAt = Closed THEN failures ELSE 0
  /\ UNCHANGED <<clock, streak, lastFailure>>

\* A transient answer (429 or 5xx) is tried again, without another look.
Retry(k) ==
  /\ Flies(k) /\ call[k] < MaxRetries
  /\ call' = [call EXCEPT ![k] = call[k] + 1]
  /\ UNCHANGED <<breaker, clock, calls, streak, lastFailure>>

\* Mutant: a success closes nothing that is open.
SucceedOnly(k) ==
  /\ Flies(k)
  /\ call' = [call EXCEPT ![k] = Done]
  /\ failures' = 0
  /\ streak' = 0
  /\ UNCHANGED <<openedAt, clock, calls, lastFailure>>
\* markSuccess.
Succeed(k) ==
  /\ Flies(k)
  /\ call' = [call EXCEPT ![k] = Done]
  /\ failures' = 0 /\ openedAt' = Closed
  /\ streak' = 0
  /\ UNCHANGED <<clock, calls, lastFailure>>

\* markFailureAndMaybeOpenCircuit; every failure at the threshold or beyond
\* opens the breaker anew.
Fail(k) ==
  /\ Flies(k)
  /\ call' = [call EXCEPT ![k] = Done]
  /\ failures' = failures + 1
  /\ openedAt' = IF failures + 1 >= Threshold THEN clock ELSE openedAt
  /\ streak' = streak + 1 /\ lastFailure' = clock
  /\ UNCHANGED <<clock, calls>>

Tick ==
  /\ clock < MaxClock
  /\ clock' = clock + 1
  /\ UNCHANGED <<breaker, call, calls, streak, lastFailure>>

Next ==
  \/ \E k \in Calls : Begin(k) \/ Retry(k) \/ Succeed(k) \/ Fail(k)
  \/ Tick

Spec == Init /\ [][Next]_vars

-----------------------------------------------------------------------------
\* Every variable has its type.
TypeOK ==
  /\ failures \in Nat /\ openedAt \in Nat \cup {Closed} /\ clock \in Nat
  /\ call \in [Calls -> Skipped..MaxRetries] /\ calls \in Nat
  /\ streak \in Nat /\ lastFailure \in Nat \cup {Closed}

\* A call is skipped only when Threshold calls or more ended in failure since
\* the last success, and the last of them less than a cool-down ago, although
\* calls that began before the breaker opened still end, and move or close it.
SkipsEarned ==
  [][\A k \in Calls : call'[k] = Skipped /\ call[k] # Skipped =>
       streak >= Threshold /\ clock - lastFailure < Cooldown]_vars
=============================================================================
