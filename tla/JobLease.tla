------------------------------ MODULE JobLease -------------------------------
(***************************************************************************)
(* What the deployment queue promises its clients.  A job waits, is held by *)
(* exactly one worker, and leaves that worker's hands only because the      *)
(* worker finished with it or because the worker is gone.  An abandoned job *)
(* always comes back.  Nothing happens to a job that succeeded but its      *)
(* removal, and only a failed job is submitted again.                       *)
(***************************************************************************)
CONSTANT Jobs
VARIABLE state

State == {"absent", "waiting", "parked", "held", "abandoned",
          "succeeded", "failed", "deleted"}

Move(S, from, to) ==
  /\ \A j \in S : state[j] \in from
  /\ \E s \in to : state' = [j \in Jobs |-> IF j \in S THEN s ELSE state[j]]

Init == state = [j \in Jobs |-> "absent"]

Submit(j)   == Move({j}, {"absent"}, {"waiting"})
Take(j)     == Move({j}, {"waiting", "parked"}, {"held"})
Finish(j)   == Move({j}, {"held"}, {"waiting", "parked", "succeeded", "failed"})
Resubmit(j) == Move({j}, {"failed"}, {"waiting"})
Wake(S)     == Move(S, {"parked"}, {"waiting"})
Remove(S)   == Move(S, {"succeeded", "failed"}, {"deleted"})

\* A worker dies with all it holds, or loses a job without having begun it.
Abandon(S)  == \/ Move(S, {"held"}, {"abandoned"})
               \/ \E j \in S : Move({j}, {"waiting", "parked"}, {"abandoned"})
Recover(S)  == Move(S, {"abandoned"}, {"waiting"})

Next ==
  \/ \E j \in Jobs : Submit(j) \/ Take(j) \/ Finish(j) \/ Resubmit(j)
  \/ \E S \in SUBSET Jobs : Wake(S) \/ Remove(S) \/ Abandon(S) \/ Recover(S)

\* What may happen to a job, and what has to.
Safety == Init /\ [][Next]_state

Spec == /\ Safety
        /\ \A j \in Jobs :
             WF_state(\E S \in SUBSET Jobs : j \in S /\ Recover(S))
=============================================================================
