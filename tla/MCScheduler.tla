----------------------------- MODULE MCScheduler -----------------------------
(* Small instances of Scheduler for TLC.                                   *)
EXTENDS Scheduler, TLC

CONSTANTS LlamaCPP, TestBackend

\* The limits of scheduler_test.go: llama.cpp unlimited, the other backend 1.
MCLimits == LlamaCPP :> 0 @@ TestBackend :> 1

\* Requests and callers of Shutdown are interchangeable.
MCSymmetry == Permutations(Requests) \cup Permutations(Callers)

\* A request that has its answer and has left the queue.
Settled(r) == phase[r] \in {"holding", "returned"} /\ r \notin queue

\* States that differ only in data no action and no property reads any more are
\* the same: what a settled request had wanted and whether its context had
\* ended.  Of the tickets only the order of the queue matters: a request that
\* left the queue was compared with those behind it when it left.
MCView ==
    <<runVars, lifecycleVars, phase, lease, failOnce, channelVars, callerVars,
      stopCalls, {r \in cancelled : ~Settled(r)},
      [r \in Requests |-> IF Settled(r) THEN NoAllocation ELSE want[r]],
      {<<r, s>> \in queue \X queue : ticket[r] < ticket[s]}>>

=============================================================================
