------------------------------ MODULE Scheduler ------------------------------
(***************************************************************************)
(* The gateway's allocation scheduler, internal/gateway/scheduler.go.      *)
(*                                                                         *)
(* One goroutine (run) owns every scheduling variable.  Each turn of its   *)
(* loop first calls progress() and then receives from one of its channels; *)
(* here pc says where the goroutine is:                                    *)
(*   "progress"  about to call progress();                                 *)
(*   "grant"     in progress()'s loop that hands out leases;               *)
(*   "select"    blocked in the select;                                    *)
(*   "exited"    returned, with the channel done closed.                   *)
(* Around it run the goroutines that call Acquire, Release and Fail (one   *)
(* element of Requests each, making one request), the callers of Shutdown  *)
(* (Callers), and the goroutine that runs one lifecycle operation.         *)
(*                                                                         *)
(* The slice queue is kept in arrival order and only ever filtered or      *)
(* appended to, so it is modelled as the set of its waiters, ordered by    *)
(* the ticket each one got on arrival.  The events in a channel are        *)
(* modelled as the set of requests that sent one: each request sends at    *)
(* most one event of each kind, and no two events in one channel fail to   *)
(* commute.                                                                *)
(***************************************************************************)
EXTENDS Integers, FiniteSets

CONSTANTS
    Requests,      \* goroutines that call Acquire, one request each
    Callers,       \* goroutines that call Shutdown
    Allocations,   \* the allocations the scheduler accepts
    NoAllocation,  \* Go's empty Allocation ""
    QueueMax,      \* queueMax
    Limits         \* limits: concurrency limit per allocation, 0 for none

ASSUME RequestsFinite == IsFiniteSet(Requests)
ASSUME CallersFinite == IsFiniteSet(Callers)
ASSUME NoAllocationAssumption == NoAllocation \notin Allocations
ASSUME QueueMaxAssumption == QueueMax \in Nat \ {0}
ASSUME LimitsAssumption == Limits \in [Allocations -> Nat]

VARIABLES
    \* local variables of run()
    pc, state, current, upstream, generation, active, queue, operation,
    operationCancel, shuttingDown, shutdownReplies, cleanupError, lastError,
    \* the lifecycle goroutine, the channel results, and the backends it made
    worker, results, resident,
    \* the requests: progress of Acquire, its context, its lease, the channels
    phase, want, cancelled, lease, failOnce, ticket,
    cancels, releases, failures,
    \* the callers of Shutdown
    callerPhase, reply, returned,
    \* history: Stop calls made for the current generation
    stopCalls

runVars == <<pc, state, current, upstream, generation, active, queue,
             operation, operationCancel, shuttingDown, shutdownReplies,
             cleanupError, lastError>>
lifecycleVars == <<worker, results, resident>>
channelVars == <<cancels, releases, failures>>
requestVars == <<phase, want, cancelled, lease, failOnce, ticket>>
callerVars == <<callerPhase, reply, returned>>
vars == <<runVars, lifecycleVars, requestVars, channelVars, callerVars,
          stopCalls>>

-----------------------------------------------------------------------------
(* Values.                                                                 *)

States == {"unloaded", "starting", "ready", "draining", "stopping", "failed"}

\* Where a request is: blocked in the first or second select of Acquire or in
\* its send to cancels, holding a lease, or back with an error or after Release.
Phases == {"idle", "sending", "waiting", "cancelling", "holding", "returned"}

Leases == [allocation: Allocations \cup {NoAllocation}, generation: Nat,
           upstream: Nat]
NoLease == [allocation |-> NoAllocation, generation |-> 0, upstream |-> 0]

\* A lifecycle call in progress; cancelled is its context's state.
Operations == [kind: {"start", "stop"}, allocation: Allocations,
               generation: Nat, cancelled: BOOLEAN]
NoOperation == [kind |-> "none", allocation |-> NoAllocation,
                generation |-> 0, cancelled |-> FALSE]

\* What a lifecycle call returned; "cleanup" is a backendCleanupError.
Results == [kind: {"start", "stop"}, allocation: Allocations,
            generation: Nat, err: {"nil", "error", "cleanup"}]
NoResult == [kind |-> "none", allocation |-> NoAllocation,
             generation |-> 0, err |-> "nil"]

-----------------------------------------------------------------------------
(* Derived state.                                                          *)

\* The waiter at the front of the queue q.
FirstOf(q) == CHOOSE r \in q : \A s \in q : ticket[r] <= ticket[s]

\* Mutant: stop without draining.
Drained_Ignored == TRUE

\* Every lease is back: the backend may be stopped.
Drained == active = 0

\* prune(): the waiters whose context is still live.
Live == queue \ cancelled

\* Leases handed out whose release the scheduler has not processed yet.
Outstanding == {r \in Requests : phase[r] = "holding" \/ r \in releases}

\* The channel done is closed.
Done == pc = "exited"

-----------------------------------------------------------------------------
Init ==
    /\ pc = "progress"
    /\ state = "unloaded"
    /\ current = NoAllocation
    /\ upstream = 0
    /\ generation = 0
    /\ active = 0
    /\ queue = {}
    /\ operation = FALSE
    /\ operationCancel = FALSE
    /\ shuttingDown = FALSE
    /\ shutdownReplies = {}
    /\ cleanupError = "none"
    /\ lastError = "none"
    /\ worker = NoOperation
    /\ results = NoResult
    /\ resident = {}
    /\ phase = [r \in Requests |-> "idle"]
    /\ want = [r \in Requests |-> NoAllocation]
    /\ cancelled = {}
    /\ lease = [r \in Requests |-> NoLease]
    /\ failOnce = {}
    /\ ticket = [r \in Requests |-> 0]
    /\ cancels = {}
    /\ releases = {}
    /\ failures = {}
    /\ callerPhase = [s \in Callers |-> "idle"]
    /\ reply = [s \in Callers |-> "none"]
    /\ returned = [s \in Callers |-> "none"]
    /\ stopCalls = 0

-----------------------------------------------------------------------------
(* Acquire, seen from the calling goroutine.                               *)

\* Acquire returns an error; which one does not matter to the scheduler.
Return(r) == phase' = [phase EXCEPT ![r] = "returned"]

\* An allocation that is not configured is refused at once.
AcquireUnknown(r) ==
    /\ phase[r] = "idle"
    /\ Return(r)
    /\ UNCHANGED <<runVars, lifecycleVars, want, cancelled, lease, failOnce,
                   ticket, channelVars, callerVars, stopCalls>>

\* The call blocks in its first select, offering the request.
Acquire(r, a) ==
    /\ phase[r] = "idle"
    /\ phase' = [phase EXCEPT ![r] = "sending"]
    /\ want' = [want EXCEPT ![r] = a]
    /\ UNCHANGED <<runVars, lifecycleVars, cancelled, lease,
                   failOnce, ticket, channelVars, callerVars, stopCalls>>

\* The caller's context ends (client gone, deadline) at any moment of the call.
CancelContext(r) ==
    /\ phase[r] \in {"sending", "waiting"}
    /\ r \notin cancelled
    /\ cancelled' = cancelled \cup {r}
    /\ UNCHANGED <<runVars, lifecycleVars, phase, want, lease,
                   failOnce, ticket, channelVars, callerVars, stopCalls>>

\* Either select gives up because done is closed; the first also because the
\* context ended.
AcquireGivesUp(r) ==
    /\ \/ phase[r] = "sending" /\ r \in cancelled /\ Return(r)
       \/ phase[r] \in {"sending", "waiting"} /\ Done /\ Return(r)
    /\ UNCHANGED <<runVars, lifecycleVars, want, cancelled, lease, failOnce,
                   ticket, channelVars, callerVars, stopCalls>>

\* Mutant: the call returns without telling the scheduler.
AcquireCancelled_Silent(r) ==
    /\ phase[r] = "waiting"
    /\ r \in cancelled
    /\ phase' = [phase EXCEPT ![r] = "returned"]
    /\ UNCHANGED <<runVars, lifecycleVars, want, cancelled, lease, failOnce,
                   ticket, channelVars, callerVars, stopCalls>>

\* The second select takes ctx.Done(): the request no longer receives reply.
AcquireCancelled(r) ==
    /\ phase[r] = "waiting"
    /\ r \in cancelled
    /\ phase' = [phase EXCEPT ![r] = "cancelling"]
    /\ UNCHANGED <<runVars, lifecycleVars, want, cancelled, lease,
                   failOnce, ticket, channelVars, callerVars, stopCalls>>

\* ... and tells the scheduler, blocking while cancels is full.
SendCancel(r) ==
    /\ phase[r] = "cancelling"
    /\ Done \/ Cardinality(cancels) < QueueMax
    /\ cancels' = IF Done THEN cancels ELSE cancels \cup {r}
    /\ Return(r)
    /\ UNCHANGED <<runVars, lifecycleVars, want, cancelled, lease, failOnce,
                   ticket, releases, failures, callerVars, stopCalls>>

\* Lease.Release, once; blocks while releases is full.
Release(r) ==
    /\ phase[r] = "holding"
    /\ Done \/ Cardinality(releases) < QueueMax + 1
    /\ phase' = [phase EXCEPT ![r] = "returned"]
    /\ releases' = IF Done THEN releases ELSE releases \cup {r}
    /\ UNCHANGED <<runVars, lifecycleVars, want, cancelled, lease,
                   failOnce, ticket, cancels, failures, callerVars, stopCalls>>

\* Lease.Fail, once; the lease may already have been released.
Fail(r) ==
    /\ lease[r] # NoLease
    /\ r \notin failOnce
    /\ Done \/ Cardinality(failures) < QueueMax + 1
    /\ failOnce' = failOnce \cup {r}
    /\ failures' = IF Done THEN failures ELSE failures \cup {r}
    /\ UNCHANGED <<runVars, lifecycleVars, phase, want, cancelled,
                   lease, ticket, cancels, releases, callerVars, stopCalls>>

-----------------------------------------------------------------------------
(* Helpers of run().                                                       *)

\* Mutant: the waiters are dropped unanswered.
FailWaiters_Silent(S) == UNCHANGED phase

\* failWaiter on every waiter of S: the send meets the waiter's receive, or
\* the waiter's ended context; when both are ready either may be chosen.
FailWaiters(S) ==
    \E missed \in SUBSET (S \cap cancelled) :
        phase' = [r \in Requests |->
                     IF r \in S \ missed /\ phase[r] = "waiting"
                     THEN "returned" ELSE phase[r]]

\* start(a): spawn the goroutine that calls lifecycle.Start.  From here on the
\* backend of a may exist.
StartBackend(a) ==
    /\ operation' = TRUE
    /\ state' = "starting"
    /\ current' = a
    /\ generation' = generation + 1
    /\ operationCancel' = TRUE
    /\ worker' = [kind |-> "start", allocation |-> a,
                  generation |-> generation + 1, cancelled |-> FALSE]
    /\ resident' = resident \cup {a}
    /\ stopCalls' = 0

\* stop(): spawn the goroutine that calls lifecycle.Stop.
StopBackend ==
    /\ operation' = TRUE
    /\ state' = "stopping"
    /\ operationCancel' = FALSE
    /\ worker' = [kind |-> "stop", allocation |-> current,
                  generation |-> generation, cancelled |-> FALSE]
    /\ stopCalls' = stopCalls + 1
    /\ UNCHANGED <<current, generation, resident>>

\* finish(err): answer every accepted Shutdown, then close done.
Finish(err) ==
    /\ reply' = [s \in Callers |->
                    IF s \in shutdownReplies THEN err ELSE reply[s]]
    /\ pc' = "exited"

-----------------------------------------------------------------------------
(* progress(), one action per branch.                                      *)

\* What no branch of progress() touches.
progressUnchanged == <<upstream, active, shuttingDown, shutdownReplies,
                       cleanupError, lastError, results, want, cancelled,
                       lease, failOnce, ticket, channelVars, callerPhase,
                       returned>>

\* Shutting down: fail the queue, drain, stop the backend, finish.
ProgressShutdown ==
    /\ pc = "progress"
    /\ shuttingDown
    /\ FailWaiters(Live)
    /\ queue' = {}
    /\ \/ /\ operation \/ ~Drained
          /\ state' = IF operation THEN state ELSE "draining"
          /\ pc' = "select"
          /\ UNCHANGED <<current, generation, operation, operationCancel,
                         worker, resident, reply, stopCalls>>
       \/ /\ ~operation /\ Drained
          /\ current # NoAllocation
          /\ StopBackend
          /\ pc' = "select"
          /\ UNCHANGED reply
       \/ /\ ~operation /\ Drained
          /\ current = NoAllocation
          /\ Finish("nil")
          /\ UNCHANGED <<state, current, generation, operation,
                         operationCancel, worker, resident, stopCalls>>
    /\ UNCHANGED progressUnchanged

\* The branches below run when not shutting down; each leaves the queue pruned
\* and tells no waiter anything.
Progressing ==
    /\ pc = "progress"
    /\ ~shuttingDown
    /\ queue' = Live
    /\ UNCHANGED <<progressUnchanged, phase, reply>>

\* An operation is in flight, or a failed cleanup made the scheduler fail closed.
ProgressHold ==
    /\ Progressing
    /\ operation \/ cleanupError # "none"
    /\ pc' = "select"
    /\ UNCHANGED <<state, current, generation, operation, operationCancel,
                   worker, resident, stopCalls>>

\* No branch above returned.
Free == ~operation /\ cleanupError = "none"

\* Mutant: a failed backend goes on serving.
Recycling_Never == FALSE

\* A failed backend is recycled once its last lease is back.
Recycling == Free /\ state = "failed" /\ current # NoAllocation

ProgressRecycle ==
    /\ Progressing
    /\ Recycling
    /\ pc' = "select"
    /\ IF Drained
       THEN StopBackend
       ELSE UNCHANGED <<state, current, generation, operation,
                        operationCancel, worker, resident, stopCalls>>

ProgressUnloaded ==
    /\ Progressing
    /\ Free
    /\ current = NoAllocation
    /\ pc' = "select"
    /\ IF Live # {}
       THEN StartBackend(want[FirstOf(Live)])
       ELSE /\ state' = "unloaded"
            /\ UNCHANGED <<current, generation, operation, operationCancel,
                           worker, resident, stopCalls>>

ProgressIdle ==
    /\ Progressing
    /\ Free /\ ~Recycling
    /\ current # NoAllocation
    /\ Live = {}
    /\ state' = "ready"
    /\ pc' = "select"
    /\ UNCHANGED <<current, generation, operation, operationCancel, worker,
                   resident, stopCalls>>

\* The first waiter wants another allocation: drain, then stop.
ProgressSwitch ==
    /\ Progressing
    /\ Free /\ ~Recycling
    /\ current # NoAllocation
    /\ Live # {}
    /\ want[FirstOf(Live)] # current
    /\ pc' = "select"
    /\ IF Drained
       THEN StopBackend
       ELSE /\ state' = "draining"
            /\ UNCHANGED <<current, generation, operation, operationCancel,
                           worker, resident, stopCalls>>

ProgressServe ==
    /\ Progressing
    /\ Free /\ ~Recycling
    /\ current # NoAllocation
    /\ Live # {}
    /\ want[FirstOf(Live)] = current
    /\ state' = "ready"
    /\ pc' = "grant"
    /\ UNCHANGED <<current, generation, operation, operationCancel, worker,
                   resident, stopCalls>>

\* Room for one more lease of the current allocation.
Capacity == Limits[current] = 0 \/ active < Limits[current]

CanGrant == queue # {} /\ want[FirstOf(queue)] = current /\ Capacity

\* Mutant: the lease is counted although nobody received it.
LeaseMissed_Counted == active' = active + 1 /\ UNCHANGED <<phase, lease>>

\* The waiter's context ended first: no lease is handed out.
LeaseMissed == UNCHANGED <<phase, lease, active>>

\* One turn of the loop: the first waiter receives a lease, or its context,
\* ended since prune(), is seen first.
Grant ==
    /\ pc = "grant"
    /\ CanGrant
    /\ LET r == FirstOf(queue)
       IN  /\ queue' = queue \ {r}
           /\ \/ /\ phase[r] = "waiting"
                 /\ phase' = [phase EXCEPT ![r] = "holding"]
                 /\ lease' = [lease EXCEPT ![r] =
                                 [allocation |-> current,
                                  generation |-> generation,
                                  upstream |-> upstream]]
                 /\ active' = active + 1
              \/ r \in cancelled /\ LeaseMissed
    /\ UNCHANGED <<pc, state, current, upstream, generation, operation,
                   operationCancel, shuttingDown, shutdownReplies,
                   cleanupError, lastError, lifecycleVars, want, cancelled,
                   failOnce, ticket, channelVars, callerVars, stopCalls>>

GrantDone ==
    /\ pc = "grant"
    /\ ~CanGrant
    /\ state' = IF queue # {} /\ want[FirstOf(queue)] # current
                THEN "draining" ELSE state
    /\ pc' = "select"
    /\ UNCHANGED <<current, upstream, generation, active, queue, operation,
                   operationCancel, shuttingDown, shutdownReplies,
                   cleanupError, lastError, lifecycleVars, requestVars,
                   channelVars, callerVars, stopCalls>>

-----------------------------------------------------------------------------
(* The cases of the select; each returns to progress().                    *)

Receiving == pc = "select" /\ pc' = "progress"

\* A newly received request is refused: ErrShuttingDown, the cleanup error, or
\* ErrQueueFull.
Refused == \/ shuttingDown
           \/ cleanupError # "none"
           \/ Cardinality(queue) >= QueueMax

\* case request := <-scheduler.requests
ReceiveRequest(r) ==
    /\ Receiving
    /\ phase[r] = "sending"
    /\ \/ /\ ~Refused
          /\ queue' = queue \cup {r}
          /\ ticket' = [ticket EXCEPT ![r] =
                1 + Cardinality({s \in Requests : ticket[s] # 0})]
          /\ phase' = [phase EXCEPT ![r] = "waiting"]
       \/ /\ Refused
          /\ \/ Return(r)
             \/ r \in cancelled /\ phase' = [phase EXCEPT ![r] = "waiting"]
          /\ UNCHANGED <<queue, ticket>>
    /\ UNCHANGED <<state, current, upstream, generation, active, operation,
                   operationCancel, shuttingDown, shutdownReplies,
                   cleanupError, lastError, lifecycleVars, want, cancelled,
                   lease, failOnce, channelVars, callerVars, stopCalls>>

\* case id := <-scheduler.cancels
ReceiveCancel(r) ==
    /\ Receiving
    /\ r \in cancels
    /\ cancels' = cancels \ {r}
    /\ queue' = queue \ {r}
    /\ UNCHANGED <<state, current, upstream, generation, active, operation,
                   operationCancel, shuttingDown, shutdownReplies,
                   cleanupError, lastError, lifecycleVars, requestVars,
                   releases, failures, callerVars, stopCalls>>

\* Mutants: a lease of any generation, or only of the previous one, matches.
OfCurrent_AnyGeneration(r) == lease[r].allocation = current
OfCurrent_Previous(r) ==
    lease[r].allocation = current /\ lease[r].generation = generation - 1

\* The event's lease is of the backend that is current now.
OfCurrent(r) ==
    lease[r].allocation = current /\ lease[r].generation = generation

\* case event := <-scheduler.releases
ReceiveRelease(r) ==
    /\ Receiving
    /\ r \in releases
    /\ releases' = releases \ {r}
    /\ active' = IF OfCurrent(r) /\ active > 0 THEN active - 1 ELSE active
    /\ UNCHANGED <<state, current, upstream, generation, queue, operation,
                   operationCancel, shuttingDown, shutdownReplies,
                   cleanupError, lastError, lifecycleVars, requestVars,
                   cancels, failures, callerVars, stopCalls>>

\* Mutant: a failed lease is taken off the count at once, and again on release.
ReceiveFailure_Uncounts(r) ==
    /\ Receiving
    /\ r \in failures
    /\ failures' = failures \ {r}
    /\ state' = IF OfCurrent(r) THEN "failed" ELSE state
    /\ active' = IF OfCurrent(r) THEN active - 1 ELSE active
    /\ UNCHANGED <<current, upstream, generation, queue, operation,
                   operationCancel, shuttingDown, shutdownReplies,
                   cleanupError, lastError, lifecycleVars, requestVars,
                   cancels, releases, callerVars, stopCalls>>

\* case event := <-scheduler.failures
ReceiveFailure(r) ==
    /\ Receiving
    /\ r \in failures
    /\ failures' = failures \ {r}
    /\ IF OfCurrent(r) /\ cleanupError = "none"
       THEN state' = "failed" /\ lastError' = "backend"
       ELSE UNCHANGED <<state, lastError>>
    /\ UNCHANGED <<current, upstream, generation, active, queue, operation,
                   operationCancel, shuttingDown, shutdownReplies,
                   cleanupError, lifecycleVars, requestVars, cancels,
                   releases, callerVars, stopCalls>>

\* case request := <-scheduler.shutdown
ReceiveShutdown(s) ==
    /\ Receiving
    /\ callerPhase[s] = "sending"
    /\ callerPhase' = [callerPhase EXCEPT ![s] = "waiting"]
    /\ shutdownReplies' = shutdownReplies \cup {s}
    /\ shuttingDown' = TRUE
    /\ worker' = IF ~shuttingDown /\ operationCancel /\ worker # NoOperation
                 THEN [worker EXCEPT !.cancelled = TRUE] ELSE worker
    /\ UNCHANGED <<state, current, upstream, generation, active, queue,
                   operation, operationCancel, cleanupError, lastError,
                   results, resident, requestVars, channelVars, reply,
                   returned, stopCalls>>

\* case result := <-scheduler.results, common to every kind of result.
ReceiveResult ==
    /\ pc = "select"
    /\ results # NoResult
    /\ results' = NoResult
    /\ operation' = FALSE
    /\ operationCancel' = FALSE
    /\ UNCHANGED <<generation, active, shuttingDown, shutdownReplies, worker,
                   resident, want, cancelled, lease, failOnce, ticket,
                   channelVars, callerPhase, returned, stopCalls>>

\* The result is of the operation of the current generation.
Fresh == results.generation = generation /\ results.allocation = current

\* A result that does not match, or a Start that succeeded.
ReceiveStarted ==
    /\ ReceiveResult
    /\ Fresh => results.kind = "start" /\ results.err = "nil"
    /\ IF Fresh
       THEN /\ upstream' = generation
            /\ state' = "ready"
            /\ lastError' = "none"
       ELSE UNCHANGED <<upstream, state, lastError>>
    /\ pc' = "progress"
    /\ UNCHANGED <<current, queue, cleanupError, phase, reply>>

\* Mutant: a failed cleanup is taken for an ordinary start failure.
PlainStartFailure_Any == results.kind = "start" /\ results.err # "nil"

\* Start returned an error that is not a backendCleanupError.
PlainStartFailure == results.kind = "start" /\ results.err = "error"

\* Start failed and left nothing behind: only waiters of that allocation hear.
ReceiveStartFailed ==
    /\ ReceiveResult
    /\ Fresh
    /\ PlainStartFailure
    /\ lastError' = "start"
    /\ current' = NoAllocation
    /\ upstream' = 0
    /\ state' = "unloaded"
    /\ LET failed == {r \in queue : want[r] = current}
       IN  FailWaiters(failed) /\ queue' = queue \ failed
    /\ pc' = "progress"
    /\ UNCHANGED <<cleanupError, reply>>

\* Start could not clean up after itself: keep the allocation, fail closed.
ReceiveStartUncertain ==
    /\ ReceiveResult
    /\ Fresh
    /\ results.kind = "start" /\ results.err = "cleanup"
    /\ lastError' = "start"
    /\ state' = "failed"
    /\ cleanupError' = "start"
    /\ FailWaiters(queue)
    /\ queue' = {}
    /\ pc' = "progress"
    /\ UNCHANGED <<current, upstream, reply>>

ReceiveStopped ==
    /\ ReceiveResult
    /\ Fresh
    /\ results.kind = "stop" /\ results.err = "nil"
    /\ current' = NoAllocation
    /\ upstream' = 0
    /\ state' = "unloaded"
    /\ cleanupError' = "none"
    /\ pc' = "progress"
    /\ UNCHANGED <<queue, lastError, phase, reply>>

\* Stop failed: fail closed, or end the shutdown with the error.
ReceiveStopFailed ==
    /\ ReceiveResult
    /\ Fresh
    /\ results.kind = "stop" /\ results.err # "nil"
    /\ state' = "failed"
    /\ lastError' = "stop"
    /\ cleanupError' = "stop"
    /\ FailWaiters(queue)
    /\ queue' = {}
    /\ IF shuttingDown
       THEN Finish("error")
       ELSE pc' = "progress" /\ UNCHANGED reply
    /\ UNCHANGED <<current, upstream>>

-----------------------------------------------------------------------------
(* The lifecycle goroutine.  The Lifecycle interface promises that a failed *)
(* Start leaves no backend unless it returns backendCleanupError; after that *)
(* error, or a failed Stop, the backend may or may not be gone.             *)

Outcome(err, left) ==
    /\ results = NoResult
    /\ results' = [kind |-> worker.kind, allocation |-> worker.allocation,
                   generation |-> worker.generation, err |-> err]
    /\ resident' = IF left THEN resident ELSE resident \ {worker.allocation}
    /\ worker' = NoOperation
    /\ UNCHANGED <<runVars, requestVars, channelVars, callerVars, stopCalls>>

LifecycleStart ==
    /\ worker.kind = "start"
    /\ \/ Outcome("nil", TRUE)
       \/ Outcome("error", FALSE)
       \/ \E left \in BOOLEAN : Outcome("cleanup", left)

LifecycleStop ==
    /\ worker.kind = "stop"
    /\ \/ Outcome("nil", FALSE)
       \/ \E left \in BOOLEAN : Outcome("error", left)

-----------------------------------------------------------------------------
(* Shutdown, seen from the calling goroutine.                              *)

callerUnchanged == <<runVars, lifecycleVars, requestVars, channelVars, reply,
                     stopCalls>>

Shutdown(s) ==
    /\ callerPhase[s] = "idle"
    /\ callerPhase' = [callerPhase EXCEPT ![s] = "sending"]
    /\ UNCHANGED <<callerUnchanged, returned>>

\* The caller's own deadline passes.
ShutdownExpires(s) ==
    /\ callerPhase[s] \in {"sending", "waiting"}
    /\ callerPhase' = [callerPhase EXCEPT ![s] = "returned"]
    /\ returned' = [returned EXCEPT ![s] = "ctx"]
    /\ UNCHANGED callerUnchanged

\* What a caller that sees done closed returns: nil if it was not accepted,
\* else the reply published before done was closed, or nil when there is none.
ShutdownResult(s) ==
    IF callerPhase[s] = "sending" \/ reply[s] = "none" THEN "nil"
    ELSE reply[s]

ShutdownReturns(s) ==
    /\ Done
    /\ callerPhase[s] \in {"sending", "waiting"}
    /\ callerPhase' = [callerPhase EXCEPT ![s] = "returned"]
    /\ returned' = [returned EXCEPT ![s] = ShutdownResult(s)]
    /\ UNCHANGED callerUnchanged

-----------------------------------------------------------------------------
Progress == \/ ProgressShutdown \/ ProgressHold \/ ProgressRecycle
            \/ ProgressUnloaded \/ ProgressIdle \/ ProgressSwitch
            \/ ProgressServe \/ Grant \/ GrantDone

ReceiveAnyResult == \/ ReceiveStarted \/ ReceiveStartFailed
                    \/ ReceiveStartUncertain \/ ReceiveStopped
                    \/ ReceiveStopFailed

Receive == \/ \E r \in Requests : \/ ReceiveRequest(r) \/ ReceiveCancel(r)
                                  \/ ReceiveRelease(r) \/ ReceiveFailure(r)
           \/ \E s \in Callers : ReceiveShutdown(s)
           \/ ReceiveAnyResult

Lifecycle == LifecycleStart \/ LifecycleStop

Request(r) == \/ AcquireUnknown(r)
              \/ \E a \in Allocations : Acquire(r, a)
              \/ CancelContext(r) \/ AcquireGivesUp(r) \/ AcquireCancelled(r)
              \/ SendCancel(r) \/ Release(r) \/ Fail(r)

Caller(s) == Shutdown(s) \/ ShutdownExpires(s) \/ ShutdownReturns(s)

\* Every request has returned, every Shutdown call has returned, no lifecycle
\* operation runs, and the loop waits or has exited: nothing is left to do.
Quiescent ==
    /\ \A r \in Requests : phase[r] = "returned"
    /\ \A s \in Callers : callerPhase[s] = "returned"
    /\ worker = NoOperation /\ results = NoResult
    /\ \/ Done
       \/ pc = "select" /\ cancels = {} /\ releases = {} /\ failures = {}

Terminating == Quiescent /\ UNCHANGED vars

Next == \/ Progress \/ Receive \/ Lifecycle \/ Terminating
        \/ \E r \in Requests : Request(r)
        \/ \E s \in Callers : Caller(s)

Spec == Init /\ [][Next]_vars

(***************************************************************************)
(* Fairness.  The scheduler goroutine, the lifecycle calls (bounded by the *)
(* start and stop timeouts of ContainerLifecycle) and the steps that a     *)
(* blocked goroutine takes once it can are taken eventually, and a request *)
(* that holds a lease eventually releases it (the handler defers Release). *)
(* Nothing forces a request to be made, cancelled or failed, or a Shutdown *)
(* to be called or to expire.  Every request is made once, so fairness of  *)
(* the loop and of the requests as a whole reaches every pending event.    *)
(***************************************************************************)
Fairness ==
    /\ WF_vars(Progress \/ Receive)
    /\ WF_vars(Lifecycle)
    /\ WF_vars(\E r \in Requests : AcquireGivesUp(r) \/ AcquireCancelled(r)
                                     \/ SendCancel(r) \/ Release(r))
    /\ WF_vars(\E s \in Callers : ShutdownReturns(s))

FairSpec == Spec /\ Fairness

-----------------------------------------------------------------------------
(* Properties.                                                             *)

\* Every variable of run(), of its channels and of its callers has its type.
TypeOK ==
    /\ pc \in {"progress", "grant", "select", "exited"}
    /\ state \in States
    /\ current \in Allocations \cup {NoAllocation}
    /\ upstream \in Nat
    /\ generation \in Nat
    /\ active \in Nat
    /\ queue \subseteq Requests
    /\ operation \in BOOLEAN
    /\ operationCancel \in BOOLEAN
    /\ shuttingDown \in BOOLEAN
    /\ shutdownReplies \subseteq Callers
    /\ cleanupError \in {"none", "start", "stop"}
    /\ lastError \in {"none", "start", "stop", "backend"}
    /\ worker \in Operations \cup {NoOperation}
    /\ results \in Results \cup {NoResult}
    /\ resident \subseteq Allocations
    /\ phase \in [Requests -> Phases]
    /\ want \in [Requests -> Allocations \cup {NoAllocation}]
    /\ cancelled \subseteq Requests
    /\ lease \in [Requests -> Leases]
    /\ failOnce \subseteq Requests
    /\ ticket \in [Requests -> Nat]
    /\ cancels \subseteq Requests
    /\ releases \subseteq Requests
    /\ failures \subseteq Requests
    /\ callerPhase \in [Callers -> {"idle", "sending", "waiting", "returned"}]
    /\ reply \in [Callers -> {"none", "nil", "error"}]
    /\ returned \in [Callers -> {"none", "nil", "error", "ctx"}]
    /\ stopCalls \in Nat
    /\ \A r \in Requests : phase[r] = "sending" \/ r \in queue =>
          want[r] \in Allocations

\* active counts exactly the leases that are out (held, or with a release still
\* in the channel), and each of them is a lease on the backend that is current
\* now, whatever cancellations raced the replies of progress().
LeaseAccounting ==
    /\ active = Cardinality(Outstanding)
    /\ \A r \in Outstanding :
          lease[r] = [allocation |-> current, generation |-> generation,
                      upstream |-> generation]

\* While a lifecycle call runs, or its result waits in the channel, no lease is
\* out, and the call is for the current generation: a backend is never started
\* over or stopped under a request, and run() never meets a stale result.
NoOperationUnderLease ==
    /\ operation = (worker # NoOperation \/ results # NoResult)
    /\ operation => Outstanding = {}
    /\ worker # NoOperation =>
          worker.allocation = current /\ worker.generation = generation
    /\ results # NoResult => Fresh /\ worker = NoOperation

\* A backend that may exist is the one run() accounts for as current, so two
\* backends never share the accelerator and no backend is forgotten, even when
\* a start or a stop fails half way.
ExclusiveResidency == resident \subseteq {current}

\* First come, first served across allocations: nobody holds, or ever got, a
\* lease while a request that arrived earlier is still queued.
NoOvertaking ==
    \A r, s \in Requests :
        s \in queue /\ lease[r] # NoLease => ticket[r] < ticket[s]

\* A failed cleanup is not retried by ordinary events: a generation sees one
\* Stop, and a second only once shutdown was requested.
CleanupRetriedOnce ==
    /\ stopCalls <= 2
    /\ stopCalls = 2 => shuttingDown
    /\ cleanupError # "none" /\ operation => shuttingDown

\* A running backend is condemned only by a lease of its own generation: a
\* failure reported late, about a backend already replaced, condemns nobody.
CondemnedByOwnLease ==
    state = "failed" /\ cleanupError = "none" =>
        \E r \in failOnce : lease[r].generation = generation

\* An accepted Shutdown that returns nil means that no backend is left and no
\* lease is out; a cleanup error is never lost to the closing of done.
CleanShutdown ==
    \A s \in shutdownReplies :
        returned[s] = "nil" => resident = {} /\ Outstanding = {}

\* The loop never falls asleep over work it could do: when it rests with waiters
\* queued, no lease out and no operation running, the cancellation that left it
\* there (a context ended between prune() and the reply) has yet to arrive in
\* cancels and will run progress() again.
NoMissedWakeup ==
    pc = "select" /\ ~shuttingDown /\ Free /\ Drained /\ queue # {} =>
        \E r \in Requests : \/ r \in cancels
                            \/ phase[r] = "cancelling"
                            \/ phase[r] = "waiting" /\ r \in cancelled

\* The queue is served in order and to its end: no waiter is overtaken, whatever
\* allocation it wants, and none is left behind by a loop that fell asleep.
QueueServed == NoOvertaking /\ NoMissedWakeup

\* What run() does with a backend that failed: it is condemned only by its own
\* leases, cleaned up once (twice with Shutdown), and a Shutdown that returns
\* nil left nothing behind.
CleanupDiscipline == CondemnedByOwnLease /\ CleanupRetriedOnce /\ CleanShutdown

\* Every request that calls Acquire is answered, and releases its lease.
EveryRequestAnswered ==
    \A r \in Requests : phase[r] = "sending" ~> phase[r] = "returned"

\* Once a Shutdown is accepted the loop drains, cleans up and exits, whatever
\* start, stop or failure it interrupted.
ShutdownCompletes == shuttingDown ~> Done

\* A failed backend is eventually recycled, without a new request having to
\* arrive, unless cleanup fails.
FailedIsRecycled ==
    state = "failed" /\ cleanupError = "none" ~>
        current = NoAllocation \/ cleanupError # "none"

\* Neither a waiter nor a condemned backend is left as it is for ever: requests
\* are answered and failed backends recycled with no further event from outside.
NothingStuck == EveryRequestAnswered /\ FailedIsRecycled

\* The promise to the rest of the gateway.  The owner is condemned while it
\* must not get another lease.
Condemned ==
    /\ current # NoAllocation
    /\ shuttingDown \/ cleanupError # "none" \/ state \in {"failed", "stopping"}

Manager == INSTANCE LeaseManager WITH
    owner <- current, epoch <- generation, holders <- Outstanding,
    condemned <- Condemned

\* Scheduler implements LeaseManager.
ImplementsLeaseManager == Manager!Spec

-----------------------------------------------------------------------------
(* The inductive invariants (see SchedulerProofs).  SchedulerInv is behind *)
(* LeaseAccounting, NoOperationUnderLease, ExclusiveResidency and          *)
(* ImplementsLeaseManager.                                                 *)

\* A lease is out only on a current backend; one whose release is in the
\* channel is no longer held; no lease is of a future generation.
LeasesSound ==
    /\ Outstanding # {} => current # NoAllocation
    /\ \A r \in releases : phase[r] = "returned"
    /\ \A r \in Requests : lease[r].generation <= generation

\* A start in flight belongs to a generation that has no lease yet, and nothing
\* but its result changes the state meanwhile.
StartSound ==
    worker.kind = "start" \/ results.kind = "start" =>
        /\ state = "starting" /\ cleanupError = "none"
        /\ \A r \in Requests : lease[r].generation # generation

\* A result that makes run() forget the allocation means its backend is gone.
ResultSound ==
    results # NoResult =>
        /\ results.kind = "start" /\ results.err = "error" => resident = {}
        /\ results.kind = "stop" /\ results.err = "nil" => resident = {}

\* Where the goroutine is agrees with what it has in hand.
LoopSound ==
    /\ current # NoAllocation /\ Free => upstream = generation
    /\ pc = "grant" => /\ ~shuttingDown /\ Free /\ state = "ready"
                       /\ current # NoAllocation
    /\ state = "stopping" => operation
    /\ Done => ~operation /\ Outstanding = {}

SchedulerInv ==
    /\ LeaseAccounting /\ NoOperationUnderLease /\ ExclusiveResidency
    /\ LeasesSound /\ StartSound /\ ResultSound /\ LoopSound

\* QueueInv is behind QueueServed.  Tickets are given out in order, one each,
\* to requests that were accepted.
Ticketed == {r \in Requests : ticket[r] # 0}

TicketsSound ==
    /\ \A r \in Requests : ticket[r] <= Cardinality(Ticketed)
    /\ \A r, s \in Requests : ticket[r] = ticket[s] /\ ticket[r] # 0 => r = s
    /\ \A r \in Requests : phase[r] \in {"idle", "sending"} => ticket[r] = 0
    /\ \A r \in Requests : r \in queue \/ lease[r] # NoLease => ticket[r] # 0

\* A waiter in the queue waits, or is on its way to tell that it does not.
WaitersSound ==
    /\ \A r \in queue : phase[r] \in {"waiting", "cancelling"} \/ r \in cancels
    /\ Done => queue = {}

\* A cancellation that the loop has not heard of yet.
WakeupPending == \E r \in Requests : \/ r \in cancels
                                     \/ phase[r] = "cancelling"
                                     \/ phase[r] = "waiting" /\ r \in cancelled

\* The loop that grants leases has given one, can give one, or found that a
\* waiter's context had ended.
GrantSound ==
    pc = "grant" => \/ ~Drained
                    \/ queue # {} /\ want[FirstOf(queue)] = current
                    \/ WakeupPending

QueueInv == TicketsSound /\ WaitersSound /\ NoOvertaking /\ GrantSound
            /\ NoMissedWakeup

\* CleanupInv is behind CleanupDiscipline.  Only a lease that was handed out
\* can be reported as failed.
FailuresSound ==
    /\ failures \subseteq failOnce
    /\ \A r \in failOnce : lease[r] # NoLease

\* How often the backend of this generation was told to stop.
StopsSound ==
    /\ worker.kind = "start" \/ results.kind = "start" => stopCalls = 0
    /\ current # NoAllocation /\ Free => stopCalls = 0
    /\ current # NoAllocation /\ ~operation /\ ~Done => stopCalls <= 1

\* Accepted calls of Shutdown are answered when the loop exits, not before.
RepliesSound ==
    /\ \A s \in Callers : callerPhase[s] \in {"idle", "sending"} =>
          s \notin shutdownReplies
    /\ ~Done => \A s \in Callers : reply[s] = "none" /\ returned[s] # "nil"
    /\ Done => \A s \in shutdownReplies :
          reply[s] # "none" /\ (reply[s] = "nil" => resident = {})
    /\ \A s \in shutdownReplies : returned[s] = "nil" => reply[s] = "nil"

CleanupInv == FailuresSound /\ CondemnedByOwnLease
              /\ StopsSound /\ CleanupRetriedOnce /\ RepliesSound

=============================================================================
