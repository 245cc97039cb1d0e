--------------------------- MODULE SchedulerProofs ---------------------------
(***************************************************************************)
(* Proofs about Scheduler, for any finite number of requests and Shutdown  *)
(* callers, any set of allocations, queue bound and concurrency limits.    *)
(***************************************************************************)
EXTENDS Scheduler, FiniteSetTheorems, WellFoundedInduction, TLAPS

-----------------------------------------------------------------------------
(* Lemmas about the operators the actions are built from.                  *)

\* A nonempty queue has a first waiter, and nobody in it arrived earlier: the
\* sets of requests that arrived before each waiter have a minimal element.
LEMMA FirstOfQueue ==
    ASSUME NEW q \in SUBSET Requests, q # {}, ticket \in [Requests -> Nat]
    PROVE  /\ FirstOf(q) \in q
           /\ \A s \in q : ticket[FirstOf(q)] <= ticket[s]
<1> DEFINE Before(r) == {t \in Requests : ticket[t] < ticket[r]}
           Initials == {Before(r) : r \in q}
           order == StrictSubsetOrdering(Requests)
<1>1. IsWellFoundedOn(order, SUBSET Requests)
  <2>1. FiniteSubsetsOf(Requests) = SUBSET Requests
    BY RequestsFinite, FS_FiniteSubsetsOfFinite
  <2>2. IsWellFoundedOn(order, FiniteSubsetsOf(Requests))
    BY FS_StrictSubsetOrderingWellFounded
  <2> HIDE DEF order
  <2> QED BY <2>1, <2>2
<1>2. PICK least \in Initials : \A b \in Initials : ~(<<b, least>> \in order)
  <2>1. Initials \subseteq SUBSET Requests /\ Initials # {}
    OBVIOUS
  <2> HIDE DEF Initials, order
  <2> QED BY <1>1, <2>1, WFMin
<1>3. PICK r \in q : least = Before(r)
  BY <1>2
<1>4. ASSUME NEW s \in q PROVE ticket[r] <= ticket[s]
  <2> SUFFICES ASSUME ticket[s] < ticket[r] PROVE FALSE
    OBVIOUS
  <2>1. Before(s) \subseteq Before(r) /\ Before(s) # Before(r)
    <3>1. s \in Before(r) /\ s \notin Before(s)
      OBVIOUS
    <3>2. ASSUME NEW t \in Requests, ticket[t] < ticket[s]
          PROVE  ticket[t] < ticket[r]
      BY <3>2
    <3> QED BY <3>1, <3>2
  <2>2. Before(s) \in SUBSET Requests /\ Before(r) \in SUBSET Requests
    OBVIOUS
  <2>3. Before(s) \in Initials
    OBVIOUS
  <2> HIDE DEF Before, Initials
  <2>4. <<Before(s), Before(r)>> \in order
    BY <2>1, <2>2 DEF StrictSubsetOrdering
  <2> HIDE DEF order
  <2> QED BY <2>3, <2>4, <1>2, <1>3
<1>5. \E t \in q : \A s \in q : ticket[t] <= ticket[s]
  BY <1>4
<1> HIDE DEF Before, Initials, order
<1> QED BY <1>5, Zenon DEF FirstOf

\* What failWaiter does to the requests is within their phases.
LEMMA FailWaitersType ==
    ASSUME NEW S, phase \in [Requests -> Phases], FailWaiters(S)
    PROVE  /\ phase' \in [Requests -> Phases]
           /\ \A r \in Requests : phase'[r] \in {phase[r], "returned"}
BY DEF FailWaiters, Phases

\* stop() is called with a current allocation and spawns a call to Stop it.
LEMMA StopBackendType ==
    ASSUME current \in Allocations, generation \in Nat, stopCalls \in Nat,
           StopBackend
    PROVE  /\ worker' \in Operations /\ stopCalls' \in Nat /\ state' \in States
           /\ operation' \in BOOLEAN /\ operationCancel' \in BOOLEAN
<1>1. [kind |-> "stop", allocation |-> current, generation |-> generation,
       cancelled |-> FALSE] \in Operations
  BY DEF Operations
<1>2. worker' \in Operations
  BY <1>1, Zenon DEF StopBackend
<1>3. /\ stopCalls' = stopCalls + 1 /\ state' = "stopping"
      /\ operation' = TRUE /\ operationCancel' = FALSE
  BY Zenon DEF StopBackend
<1>4. stopCalls' \in Nat
  BY <1>3
<1>5. state' \in States /\ operation' \in BOOLEAN /\ operationCancel' \in BOOLEAN
  BY <1>3, Zenon DEF States
<1> QED BY <1>2, <1>4, <1>5, Zenon

\* start(a) spawns a call to Start a.
LEMMA StartBackendType ==
    ASSUME NEW a \in Allocations, generation \in Nat, StartBackend(a),
           resident \subseteq Allocations
    PROVE  /\ worker' \in Operations /\ stopCalls' \in Nat /\ state' \in States
           /\ operation' \in BOOLEAN /\ operationCancel' \in BOOLEAN
           /\ generation' \in Nat /\ current' \in Allocations
           /\ resident' \subseteq Allocations
BY DEF StartBackend, Operations, States

-----------------------------------------------------------------------------
(* Type correctness.                                                       *)

\* Every step of the loop, of the lifecycle goroutine and of the callers keeps
\* the type invariant.
LEMMA TypeStep == TypeOK /\ [Next]_vars => TypeOK'
<1> SUFFICES ASSUME TypeOK, [Next]_vars PROVE TypeOK'
  OBVIOUS
<1> USE DEF TypeOK, States, Phases
<1>1. CASE ProgressShutdown
  <2>1. /\ phase' \in [Requests -> Phases]
        /\ \A r \in Requests : phase'[r] \in {phase[r], "returned"}
    BY <1>1, FailWaitersType DEF ProgressShutdown
  <2>2. CASE StopBackend /\ current # NoAllocation /\ UNCHANGED reply
             /\ pc' = "select"
    BY <1>1, <2>1, <2>2, StopBackendType
       DEF ProgressShutdown, progressUnchanged, channelVars, StopBackend
  <2>3. CASE /\ state' \in {state, "draining"}
             /\ pc' = "select"
             /\ UNCHANGED <<current, generation, operation, operationCancel,
                            worker, resident, reply, stopCalls>>
    BY <1>1, <2>1, <2>3 DEF ProgressShutdown, progressUnchanged, channelVars
  <2>4. CASE /\ Finish("nil")
             /\ UNCHANGED <<state, current, generation, operation,
                            operationCancel, worker, resident, stopCalls>>
    BY <1>1, <2>1, <2>4 DEF ProgressShutdown, Finish, progressUnchanged,
       channelVars
  <2> QED BY <1>1, <2>2, <2>3, <2>4 DEF ProgressShutdown
<1>2. CASE ProgressHold
  BY <1>2 DEF ProgressHold, Progressing, Live, progressUnchanged, channelVars
<1>3. CASE ProgressRecycle
  <2> USE <1>3 DEF ProgressRecycle, Progressing, Live, Recycling,
          progressUnchanged, channelVars
  <2>1. CASE Drained
    BY <2>1, StopBackendType DEF StopBackend
  <2>2. CASE ~Drained
    BY <2>2
  <2> QED BY <2>1, <2>2
<1>4. CASE ProgressUnloaded
  <2> USE <1>4 DEF ProgressUnloaded, Progressing, Live, progressUnchanged,
          channelVars
  <2>1. CASE Live # {}
    <3>1. want[FirstOf(Live)] \in Allocations
      BY <2>1, FirstOfQueue
    <3> QED BY <2>1, <3>1, StartBackendType
  <2>2. CASE Live = {}
    BY <2>2
  <2> QED BY <2>1, <2>2
<1>5. CASE ProgressIdle
  BY <1>5 DEF ProgressIdle, Progressing, Live, progressUnchanged, channelVars
<1>6. CASE ProgressSwitch
  <2> USE <1>6 DEF ProgressSwitch, Progressing, Live, progressUnchanged,
          channelVars
  <2>1. CASE Drained
    BY <2>1, StopBackendType DEF StopBackend
  <2>2. CASE ~Drained
    BY <2>2
  <2> QED BY <2>1, <2>2
<1>7. CASE ProgressServe
  BY <1>7 DEF ProgressServe, Progressing, Live, progressUnchanged, channelVars
<1>8. CASE Grant
  <2> DEFINE granted == [allocation |-> current, generation |-> generation,
                         upstream |-> upstream]
             first == FirstOf(queue)
  <2>1. granted \in Leases
    BY DEF Leases
  <2> HIDE DEF granted
  <2>2. /\ queue' \subseteq queue /\ active' \in Nat
        /\ \/ UNCHANGED <<phase, lease>>
           \/ /\ phase' = [phase EXCEPT ![first] = "holding"]
              /\ lease' = [lease EXCEPT ![first] = granted]
    BY <1>8 DEF Grant, LeaseMissed, granted
  <2> HIDE DEF first
  <2>3. phase' \in [Requests -> Phases] /\ lease' \in [Requests -> Leases]
    BY <2>1, <2>2
  <2>4. \A r \in Requests : phase'[r] = "sending" => phase[r] = "sending"
    BY <2>2
  <2>5. UNCHANGED <<pc, state, current, upstream, generation, operation,
                    operationCancel, shuttingDown, shutdownReplies,
                    cleanupError, lastError, lifecycleVars, want, cancelled,
                    failOnce, ticket, channelVars, callerVars, stopCalls>>
    BY <1>8 DEF Grant
  <2> QED
    BY <2>2, <2>3, <2>4, <2>5 DEF lifecycleVars, channelVars, callerVars
<1>9. CASE GrantDone
  BY <1>9 DEF GrantDone, lifecycleVars, requestVars, channelVars, callerVars
<1>10. ASSUME NEW r \in Requests, ReceiveRequest(r) PROVE TypeOK'
  <2>1. Cardinality({s \in Requests : ticket[s] # 0}) \in Nat
    BY RequestsFinite, FS_Subset, FS_CardinalityType
  <2> QED BY <1>10, <2>1 DEF ReceiveRequest, Receiving, Return,
          lifecycleVars, channelVars, callerVars
<1>11. ASSUME NEW r \in Requests, ReceiveCancel(r) PROVE TypeOK'
  BY <1>11 DEF ReceiveCancel, Receiving, lifecycleVars, requestVars, callerVars
<1>12. ASSUME NEW r \in Requests, ReceiveRelease(r) PROVE TypeOK'
  BY <1>12 DEF ReceiveRelease, Receiving, lifecycleVars, requestVars, callerVars
<1>13. ASSUME NEW r \in Requests, ReceiveFailure(r) PROVE TypeOK'
  BY <1>13 DEF ReceiveFailure, Receiving, lifecycleVars, requestVars, callerVars
<1>14. ASSUME NEW s \in Callers, ReceiveShutdown(s) PROVE TypeOK'
  <2>1. worker' \in Operations \cup {NoOperation}
    <3>1. CASE worker \in Operations
      BY <1>14, <3>1 DEF ReceiveShutdown, Operations
    <3>2. CASE worker = NoOperation
      BY <1>14, <3>2 DEF ReceiveShutdown
    <3> QED BY <3>1, <3>2
  <2> QED BY <1>14, <2>1 DEF ReceiveShutdown, Receiving, requestVars, channelVars
<1>15. CASE ReceiveAnyResult
  <2> USE <1>15 DEF ReceiveAnyResult, ReceiveResult, channelVars
  <2>1. CASE ReceiveStarted
    BY <2>1 DEF ReceiveStarted
  <2>2. CASE ReceiveStartFailed
    BY <2>2, FailWaitersType DEF ReceiveStartFailed
  <2>3. CASE ReceiveStartUncertain
    BY <2>3, FailWaitersType DEF ReceiveStartUncertain
  <2>4. CASE ReceiveStopped
    BY <2>4 DEF ReceiveStopped
  <2>5. CASE ReceiveStopFailed
    <3>1. reply' \in [Callers -> {"none", "nil", "error"}]
          /\ pc' \in {"progress", "exited"}
      BY <2>5 DEF ReceiveStopFailed, Finish
    <3>2. /\ phase' \in [Requests -> Phases]
          /\ \A r \in Requests : phase'[r] \in {phase[r], "returned"}
      BY <2>5, FailWaitersType DEF ReceiveStopFailed
    <3> QED BY <2>5, <3>1, <3>2 DEF ReceiveStopFailed
  <2> QED BY <2>1, <2>2, <2>3, <2>4, <2>5
<1>16. CASE Lifecycle
  <2>1. worker.kind \in {"start", "stop"} => worker \in Operations
    BY DEF NoOperation
  <2> QED BY <1>16, <2>1 DEF Lifecycle, LifecycleStart, LifecycleStop, Outcome,
          Operations, Results, runVars, requestVars, channelVars, callerVars
<1>17. ASSUME NEW r \in Requests, Request(r) PROVE TypeOK'
  BY <1>17 DEF Request, AcquireUnknown, Acquire, CancelContext, AcquireGivesUp,
     AcquireCancelled, SendCancel, Release, Fail, Return, runVars,
     lifecycleVars, channelVars, callerVars
<1>18. ASSUME NEW s \in Callers, Caller(s) PROVE TypeOK'
  BY <1>18 DEF Caller, Shutdown, ShutdownExpires, ShutdownReturns,
     ShutdownResult, callerUnchanged, runVars, lifecycleVars, requestVars,
     channelVars
<1>19. CASE UNCHANGED vars
  BY <1>19 DEF vars, runVars, lifecycleVars, requestVars, channelVars, callerVars
<1> QED
  BY <1>1, <1>2, <1>3, <1>4, <1>5, <1>6, <1>7, <1>8, <1>9, <1>10, <1>11, <1>12,
     <1>13, <1>14, <1>15, <1>16, <1>17, <1>18, <1>19
     DEF Next, Progress, Receive, Terminating

\* The initial state has the types of TypeOK.
LEMMA TypeInit == Init => TypeOK
<1> SUFFICES ASSUME Init PROVE TypeOK
  OBVIOUS
<1>1. NoLease \in Leases
  BY DEF NoLease, Leases
<1> QED BY <1>1 DEF Init, TypeOK, States, Phases

\* Spec keeps every variable of the scheduler within its type.
THEOREM TypeCorrect == Spec => []TypeOK
BY TypeInit, TypeStep, PTL DEF Spec

-----------------------------------------------------------------------------
(* Leases, operations and residency.                                       *)

\* A step that hands out and takes back no lease keeps the set of leases that
\* are out.
LEMMA OutstandingFrame ==
    ASSUME \A r \in Requests : phase'[r] = "holding" <=> phase[r] = "holding",
           UNCHANGED releases
    PROVE  Outstanding' = Outstanding
BY DEF Outstanding

\* failWaiter neither gives a lease nor takes one, and never starts an Acquire.
LEMMA FailWaitersFrame ==
    ASSUME NEW S, phase \in [Requests -> Phases], FailWaiters(S)
    PROVE  /\ \A r \in Requests : phase'[r] = "holding" <=> phase[r] = "holding"
           /\ \A r \in Requests : phase[r] = "returned" => phase'[r] = "returned"
BY DEF FailWaiters, Phases

\* There are finitely many leases out.
LEMMA OutstandingFinite ==
    IsFiniteSet(Outstanding) /\ Cardinality(Outstanding) \in Nat
BY RequestsFinite, FS_Subset, FS_CardinalityType DEF Outstanding

\* active = 0 says exactly that no lease is out.
LEMMA DrainedMeansNone ==
    ASSUME LeaseAccounting
    PROVE  Drained <=> Outstanding = {}
BY OutstandingFinite, FS_EmptySet DEF LeaseAccounting, Drained

\* No record of an operation or of a result is the absent one.
LEMMA KindsDiffer ==
    /\ \A o \in Operations : o # NoOperation /\ o.kind \in {"start", "stop"}
    /\ \A o \in Results : o # NoResult /\ o.kind \in {"start", "stop"}
    /\ NoOperation.kind = "none" /\ NoResult.kind = "none"
BY DEF Operations, NoOperation, Results, NoResult

\* The initial state satisfies the inductive invariant.
LEMMA InvInit == Init => SchedulerInv
<1> SUFFICES ASSUME Init PROVE SchedulerInv
  OBVIOUS
<1>1. Outstanding = {}
  BY DEF Init, Outstanding
<1>2. LeaseAccounting
  BY <1>1, FS_EmptySet DEF Init, LeaseAccounting
<1>3. NoOperationUnderLease /\ ExclusiveResidency /\ ResultSound
  BY <1>1 DEF Init, NoOperationUnderLease, ExclusiveResidency, ResultSound
<1>4. LeasesSound
  BY <1>1 DEF Init, LeasesSound, NoLease
<1>5. StartSound
  BY KindsDiffer DEF Init, StartSound
<1>6. LoopSound
  BY <1>1 DEF Init, LoopSound, Done
<1> QED BY <1>2, <1>3, <1>4, <1>5, <1>6 DEF SchedulerInv

\* stop() keeps the inductive invariant when every lease is back.
LEMMA StopBackendInv ==
    ASSUME TypeOK, SchedulerInv, StopBackend, Drained, ~operation,
           current # NoAllocation, pc' = "select",
           \A r \in Requests : phase'[r] = "holding" <=> phase[r] = "holding",
           \A r \in Requests : phase[r] = "returned" => phase'[r] = "returned",
           UNCHANGED <<upstream, active, cleanupError, results, lease, releases>>
    PROVE  SchedulerInv'
<1>1. Outstanding = {} /\ Outstanding' = {}
  BY DrainedMeansNone, OutstandingFrame DEF SchedulerInv
<1>2. current' = current /\ generation' = generation /\ resident' = resident
  BY DEF StopBackend
<1>3. LeaseAccounting'
  BY <1>1, <1>2 DEF LeaseAccounting, SchedulerInv
<1>4. worker' \in Operations /\ worker'.kind = "stop"
      /\ worker'.allocation = current /\ worker'.generation = generation
      /\ operation' = TRUE /\ state' = "stopping"
  <2>1. worker' \in Operations
    BY StopBackendType DEF TypeOK
  <2>2. /\ worker' = [kind |-> "stop", allocation |-> current,
                       generation |-> generation, cancelled |-> FALSE]
        /\ operation' = TRUE /\ state' = "stopping"
    BY Zenon DEF StopBackend
  <2> QED BY <2>1, <2>2
<1>5. results = NoResult /\ worker = NoOperation
  BY DEF SchedulerInv, NoOperationUnderLease, TypeOK
<1>6. NoOperationUnderLease'
  BY <1>1, <1>2, <1>4, <1>5, KindsDiffer DEF NoOperationUnderLease
<1>7. ExclusiveResidency' /\ LeasesSound' /\ ResultSound'
  BY <1>1, <1>2, <1>5 DEF SchedulerInv, ExclusiveResidency, LeasesSound,
     ResultSound, TypeOK
<1>8. StartSound' /\ LoopSound'
  BY <1>1, <1>4, <1>5, KindsDiffer DEF StartSound, LoopSound, Free, Done
<1> QED BY <1>3, <1>6, <1>7, <1>8 DEF SchedulerInv

\* A step that leaves leases, operations, backends and the loop's own state
\* alone keeps the inductive invariant.
LEMMA QuietStepInv ==
    ASSUME TypeOK, SchedulerInv,
           \A r \in Requests : phase'[r] = "holding" <=> phase[r] = "holding",
           \A r \in Requests : phase[r] = "returned" => phase'[r] = "returned",
           UNCHANGED <<upstream, active, cleanupError, results, lease, releases,
                       current, generation, operation, worker, resident>>,
           \/ pc' = pc /\ state' = state /\ UNCHANGED shuttingDown
           \/ pc' \in {"progress", "select"} /\ state' = state
           \/ pc' = "select" /\ state' # "stopping" /\ ~operation
           \/ /\ pc' = "progress" /\ state' = "failed"
              /\ worker.kind # "start" /\ results.kind # "start"
           \/ /\ pc' = "grant" /\ state' = "ready" /\ ~shuttingDown' /\ Free
              /\ current # NoAllocation
           \/ pc' = "exited" /\ state' = state /\ ~operation /\ Drained
    PROVE  SchedulerInv'
<1>1. Outstanding' = Outstanding
  BY OutstandingFrame
<1>2. Drained <=> Outstanding = {}
  BY DrainedMeansNone DEF SchedulerInv
<1>3. LeaseAccounting' /\ NoOperationUnderLease' /\ ExclusiveResidency'
  BY <1>1 DEF SchedulerInv, LeaseAccounting, NoOperationUnderLease,
     ExclusiveResidency, Fresh
<1>4. LeasesSound' /\ ResultSound'
  BY <1>1 DEF SchedulerInv, LeasesSound, ResultSound, TypeOK
<1>5. ~operation => worker.kind # "start" /\ results.kind # "start"
  BY KindsDiffer DEF SchedulerInv, NoOperationUnderLease
<1>6. StartSound'
  BY <1>5 DEF SchedulerInv, StartSound, Free
<1>7. LoopSound'
  BY <1>1, <1>2 DEF SchedulerInv, LoopSound, Free, Done
<1> QED BY <1>3, <1>4, <1>6, <1>7 DEF SchedulerInv

\* progress() in any branch that spawns no operation keeps the invariant, and so
\* does the branch that stops the backend.
LEMMA ProgressInv ==
    ASSUME TypeOK, SchedulerInv,
           \/ ProgressShutdown \/ ProgressHold \/ ProgressRecycle
           \/ ProgressIdle \/ ProgressSwitch \/ ProgressServe
    PROVE  SchedulerInv'
<1> USE DEF progressUnchanged, channelVars
<1>1. CASE ProgressShutdown
  <2>1. /\ \A r \in Requests : phase'[r] = "holding" <=> phase[r] = "holding"
        /\ \A r \in Requests : phase[r] = "returned" => phase'[r] = "returned"
    BY <1>1, FailWaitersFrame DEF ProgressShutdown, TypeOK
  <2>2. CASE ~operation /\ Drained /\ current # NoAllocation
    BY <1>1, <2>1, <2>2, StopBackendInv DEF ProgressShutdown
  <2>3. CASE operation \/ ~Drained \/ current = NoAllocation
    BY <1>1, <2>1, <2>3, QuietStepInv DEF ProgressShutdown, Finish
  <2> QED BY <2>2, <2>3
<1>2. CASE ProgressHold
  BY <1>2, QuietStepInv DEF ProgressHold, Progressing
<1>3. CASE ProgressRecycle
  <2>1. CASE Drained
    BY <1>3, <2>1, StopBackendInv DEF ProgressRecycle, Progressing, Recycling,
       Free
  <2>2. CASE ~Drained
    BY <1>3, <2>2, QuietStepInv DEF ProgressRecycle, Progressing
  <2> QED BY <2>1, <2>2
<1>4. CASE ProgressIdle
  BY <1>4, QuietStepInv DEF ProgressIdle, Progressing, Free
<1>5. CASE ProgressSwitch
  <2>1. CASE Drained
    BY <1>5, <2>1, StopBackendInv DEF ProgressSwitch, Progressing, Free
  <2>2. CASE ~Drained
    BY <1>5, <2>2, QuietStepInv DEF ProgressSwitch, Progressing, Free
  <2> QED BY <2>1, <2>2
<1>6. CASE ProgressServe
  BY <1>6, QuietStepInv DEF ProgressServe, Progressing
<1> QED BY <1>1, <1>2, <1>3, <1>4, <1>5, <1>6

\* start() runs when nothing is current: no lease is out and no backend exists.
LEMMA ProgressUnloadedInv ==
    ASSUME TypeOK, SchedulerInv, ProgressUnloaded
    PROVE  SchedulerInv'
<1> USE DEF ProgressUnloaded, Progressing, progressUnchanged, channelVars
<1>1. CASE Live = {}
  BY <1>1, QuietStepInv DEF Free
<1>2. CASE Live # {}
  <2> DEFINE a == want[FirstOf(Live)]
  <2>1. a \in Allocations
    BY <1>2, FirstOfQueue DEF TypeOK, Live
  <2>2. /\ operation' = TRUE /\ state' = "starting" /\ current' = a
        /\ generation' = generation + 1
        /\ worker' = [kind |-> "start", allocation |-> a,
                       generation |-> generation + 1, cancelled |-> FALSE]
        /\ resident' = resident \cup {a}
    BY <1>2, Zenon DEF StartBackend
  <2>3. worker' \in Operations
    BY <1>2, <2>1, StartBackendType DEF TypeOK
  <2>4. Outstanding = {} /\ Outstanding' = {}
    BY OutstandingFrame DEF SchedulerInv, LeasesSound
  <2>5. resident = {}
    BY NoAllocationAssumption DEF SchedulerInv, ExclusiveResidency, TypeOK
  <2>6. results = NoResult /\ results' = NoResult
    BY DEF SchedulerInv, NoOperationUnderLease, Free
  <2>7. LeaseAccounting'
    BY <2>4 DEF SchedulerInv, LeaseAccounting
  <2>8. NoOperationUnderLease'
    BY <2>2, <2>3, <2>4, <2>6, KindsDiffer DEF NoOperationUnderLease
  <2>9. ExclusiveResidency' /\ ResultSound'
    BY <2>2, <2>5, <2>6 DEF ExclusiveResidency, ResultSound
  <2>10. \A r \in Requests : lease'[r].generation <= generation
                             /\ lease'[r].generation \in Nat
    BY DEF SchedulerInv, LeasesSound, TypeOK, Leases
  <2>11. LeasesSound'
    BY <2>2, <2>4, <2>10 DEF SchedulerInv, LeasesSound, TypeOK
  <2>12. StartSound'
    <3>1. \A r \in Requests : lease'[r].generation # generation'
      BY <2>2, <2>10 DEF TypeOK
    <3> QED BY <2>2, <3>1 DEF StartSound, Free
  <2>13. LoopSound'
    BY <2>2 DEF LoopSound, Free, Done
  <2> QED BY <2>7, <2>8, <2>9, <2>11, <2>12, <2>13 DEF SchedulerInv
<1> QED BY <1>1, <1>2

\* Handing out a lease counts it, on the current backend.
LEMMA GrantInv ==
    ASSUME TypeOK, SchedulerInv, Grant
    PROVE  SchedulerInv'
<1> DEFINE r == FirstOf(queue)
<1>1. r \in Requests
  BY FirstOfQueue DEF Grant, CanGrant, TypeOK
<1>2. /\ UNCHANGED <<pc, state, current, upstream, generation, operation,
                      shuttingDown, cleanupError, worker, results, resident,
                      releases>>
  BY DEF Grant, lifecycleVars, channelVars
<1>3. CASE LeaseMissed
  BY <1>2, <1>3, QuietStepInv DEF LeaseMissed
<1>4. CASE /\ phase[r] = "waiting"
           /\ phase' = [phase EXCEPT ![r] = "holding"]
           /\ lease' = [lease EXCEPT ![r] = [allocation |-> current,
                            generation |-> generation, upstream |-> upstream]]
           /\ active' = active + 1
  <2>1. /\ ~shuttingDown /\ Free /\ state = "ready" /\ current # NoAllocation
        /\ upstream = generation
    BY DEF Grant, SchedulerInv, LoopSound
  <2>2. r \notin Outstanding /\ Outstanding' = Outstanding \cup {r}
    BY <1>1, <1>2, <1>4 DEF SchedulerInv, LeasesSound, Outstanding, TypeOK
  <2>3. active' = Cardinality(Outstanding')
    BY <1>4, <2>2, OutstandingFinite, FS_AddElement
       DEF SchedulerInv, LeaseAccounting
  <2>4. LeaseAccounting'
    BY <1>1, <1>2, <1>4, <2>1, <2>2, <2>3 DEF SchedulerInv, LeaseAccounting,
       TypeOK, Outstanding
  <2>5. worker = NoOperation /\ results = NoResult
    BY <2>1 DEF SchedulerInv, NoOperationUnderLease, Free
  <2>6. NoOperationUnderLease' /\ ExclusiveResidency' /\ ResultSound'
    BY <1>2, <2>1, <2>5 DEF SchedulerInv, NoOperationUnderLease,
       ExclusiveResidency, ResultSound, Free
  <2>7. LeasesSound'
    BY <1>1, <1>2, <1>4, <2>1 DEF SchedulerInv, LeasesSound, TypeOK
  <2>8. StartSound'
    BY <1>2, <2>5, KindsDiffer DEF StartSound
  <2>9. LoopSound'
    BY <1>2, <2>1 DEF Grant, SchedulerInv, LoopSound, Free, Done
  <2> QED BY <2>4, <2>6, <2>7, <2>8, <2>9 DEF SchedulerInv
<1> QED BY <1>3, <1>4 DEF Grant

\* Taking a lease back uncounts it: every release in the channel matches the
\* current generation.
LEMMA ReceiveReleaseInv ==
    ASSUME TypeOK, SchedulerInv, NEW r \in Requests, ReceiveRelease(r)
    PROVE  SchedulerInv'
<1>1. /\ UNCHANGED <<state, current, upstream, generation, operation, phase,
                      shuttingDown, cleanupError, worker, results, resident,
                      lease>>
      /\ releases' = releases \ {r} /\ pc' = "progress"
  BY DEF ReceiveRelease, Receiving, lifecycleVars, requestVars
<1>2. r \in Outstanding /\ Outstanding' = Outstanding \ {r}
  BY <1>1 DEF ReceiveRelease, SchedulerInv, LeasesSound, Outstanding
<1>3. active' = active - 1 /\ active > 0
  <2>1. OfCurrent(r)
    BY <1>2 DEF SchedulerInv, LeaseAccounting, OfCurrent
  <2>2. active > 0
    BY <1>2, DrainedMeansNone DEF SchedulerInv, Drained, TypeOK
  <2> QED BY <2>1, <2>2 DEF ReceiveRelease
<1>4. active' = Cardinality(Outstanding')
  BY <1>2, <1>3, OutstandingFinite, FS_RemoveElement
     DEF SchedulerInv, LeaseAccounting
<1>5. LeaseAccounting'
  BY <1>1, <1>2, <1>4 DEF SchedulerInv, LeaseAccounting
<1>6. NoOperationUnderLease' /\ ExclusiveResidency' /\ ResultSound'
  BY <1>1, <1>2 DEF SchedulerInv, NoOperationUnderLease, ExclusiveResidency,
     ResultSound, Fresh
<1>7. LeasesSound' /\ StartSound'
  BY <1>1, <1>2 DEF SchedulerInv, LeasesSound, StartSound, TypeOK
<1>8. LoopSound'
  BY <1>1 DEF SchedulerInv, LoopSound, Free, Done
<1> QED BY <1>5, <1>6, <1>7, <1>8 DEF SchedulerInv

\* A failure report, a Shutdown and a waiter's cancellation keep the invariant:
\* a failure of the current generation cannot come while it is being started.
LEMMA ReceiveEventInv ==
    ASSUME TypeOK, SchedulerInv,
           \/ \E r \in Requests : \/ ReceiveRequest(r) \/ ReceiveCancel(r)
                                  \/ ReceiveFailure(r)
           \/ \E s \in Callers : ReceiveShutdown(s)
    PROVE  SchedulerInv'
<1> USE DEF Receiving, lifecycleVars, channelVars, requestVars
<1>1. ASSUME NEW r \in Requests, ReceiveRequest(r) PROVE SchedulerInv'
  <2>1. /\ \A t \in Requests : phase'[t] = "holding" <=> phase[t] = "holding"
        /\ \A t \in Requests : phase[t] = "returned" => phase'[t] = "returned"
    BY <1>1 DEF ReceiveRequest, Return, TypeOK
  <2> QED BY <1>1, <2>1, QuietStepInv DEF ReceiveRequest
<1>2. ASSUME NEW r \in Requests, ReceiveCancel(r) PROVE SchedulerInv'
  BY <1>2, QuietStepInv DEF ReceiveCancel
<1>3. ASSUME NEW r \in Requests, ReceiveFailure(r) PROVE SchedulerInv'
  <2>1. CASE OfCurrent(r) /\ cleanupError = "none"
    <3>1. worker.kind # "start" /\ results.kind # "start"
      BY <2>1 DEF SchedulerInv, StartSound, OfCurrent
    <3> QED BY <1>3, <2>1, <3>1, QuietStepInv DEF ReceiveFailure
  <2>2. CASE ~(OfCurrent(r) /\ cleanupError = "none")
    BY <1>3, <2>2, QuietStepInv DEF ReceiveFailure
  <2> QED BY <2>1, <2>2
<1>4. ASSUME NEW s \in Callers, ReceiveShutdown(s) PROVE SchedulerInv'
  <2>1. /\ UNCHANGED <<state, current, upstream, generation, active, operation,
                        cleanupError, results, resident, phase, lease, releases>>
        /\ pc' = "progress"
    BY <1>4 DEF ReceiveShutdown
  <2>2. /\ worker'.kind = worker.kind /\ worker'.allocation = worker.allocation
        /\ worker'.generation = worker.generation
        /\ worker' = NoOperation <=> worker = NoOperation
    <3>1. CASE worker = NoOperation
      BY <1>4, <3>1 DEF ReceiveShutdown
    <3>2. CASE worker \in Operations
      <4>1. worker' \in Operations
        BY <1>4, <3>2 DEF ReceiveShutdown, Operations
      <4> QED BY <1>4, <3>2, <4>1, KindsDiffer DEF ReceiveShutdown, Operations
    <3> QED BY <3>1, <3>2 DEF TypeOK
  <2>3. Outstanding' = Outstanding
    BY <2>1, OutstandingFrame
  <2>4. LeaseAccounting' /\ ExclusiveResidency' /\ LeasesSound' /\ ResultSound'
    BY <2>1, <2>3 DEF SchedulerInv, LeaseAccounting, ExclusiveResidency,
       LeasesSound, ResultSound
  <2>5. NoOperationUnderLease'
    BY <2>1, <2>2, <2>3 DEF SchedulerInv, NoOperationUnderLease, Fresh
  <2>6. StartSound' /\ LoopSound'
    BY <2>1, <2>2 DEF SchedulerInv, StartSound, LoopSound, Free, Done
  <2> QED BY <2>4, <2>5, <2>6 DEF SchedulerInv
<1> QED BY <1>1, <1>2, <1>3, <1>4

\* The result of an operation is always fresh, and no lease is out when it is
\* taken from the channel.
LEMMA ReceiveResultInv ==
    ASSUME TypeOK, SchedulerInv, ReceiveAnyResult
    PROVE  SchedulerInv'
<1> USE DEF ReceiveResult, channelVars
<1>1. /\ results # NoResult /\ results \in Results /\ results' = NoResult
      /\ operation' = FALSE
      /\ UNCHANGED <<generation, active, worker, resident, lease, releases,
                      shuttingDown>>
  BY DEF ReceiveAnyResult, ReceiveStarted, ReceiveStartFailed,
     ReceiveStartUncertain, ReceiveStopped, ReceiveStopFailed, TypeOK
<1>2. /\ Fresh /\ worker = NoOperation /\ Outstanding = {}
      /\ current # NoAllocation /\ results.kind \in {"start", "stop"}
  BY <1>1, KindsDiffer, NoAllocationAssumption
     DEF SchedulerInv, NoOperationUnderLease, Fresh, Results
<1>3. /\ \A r \in Requests : phase'[r] = "holding" <=> phase[r] = "holding"
      /\ \A r \in Requests : phase[r] = "returned" => phase'[r] = "returned"
  BY FailWaitersFrame DEF ReceiveAnyResult, ReceiveStarted, ReceiveStartFailed,
     ReceiveStartUncertain, ReceiveStopped, ReceiveStopFailed, TypeOK
<1>4. Outstanding' = {}
  BY <1>1, <1>2, <1>3, OutstandingFrame
<1>5. LeaseAccounting' /\ NoOperationUnderLease' /\ ResultSound'
  BY <1>1, <1>2, <1>4 DEF SchedulerInv, LeaseAccounting, NoOperationUnderLease,
     ResultSound
<1>6. LeasesSound' /\ StartSound'
  BY <1>1, <1>2, <1>3, <1>4, KindsDiffer
     DEF SchedulerInv, LeasesSound, StartSound, TypeOK
<1>7. ExclusiveResidency'
  <2>1. CASE \/ PlainStartFailure
             \/ results.kind = "stop" /\ results.err = "nil"
    BY <1>1, <2>1 DEF SchedulerInv, ResultSound, ExclusiveResidency,
       PlainStartFailure
  <2>2. CASE current' = current
    BY <1>1, <2>2 DEF SchedulerInv, ExclusiveResidency
  <2>3. CASE ReceiveStartFailed \/ ReceiveStopped
    <3>1. ReceiveStartFailed => PlainStartFailure
      BY DEF ReceiveStartFailed
    <3>2. ReceiveStopped => results.kind = "stop" /\ results.err = "nil"
      BY DEF ReceiveStopped
    <3> QED BY <2>1, <2>3, <3>1, <3>2, Zenon
  <2>4. CASE ReceiveStarted \/ ReceiveStartUncertain \/ ReceiveStopFailed
    <3>1. current' = current
      BY <2>4 DEF ReceiveStarted, ReceiveStartUncertain, ReceiveStopFailed
    <3> QED BY <2>2, <3>1
  <2> QED BY <2>3, <2>4 DEF ReceiveAnyResult
<1>8. LoopSound'
  <2>1. CASE ReceiveStarted
    BY <1>1, <1>2, <2>1 DEF ReceiveStarted, LoopSound, Done
  <2>2. CASE ReceiveStartFailed \/ ReceiveStopped
    BY <1>1, <2>2 DEF ReceiveStartFailed, ReceiveStopped, LoopSound, Done
  <2>3. CASE ReceiveStartUncertain
    BY <1>1, <2>3 DEF ReceiveStartUncertain, LoopSound, Free, Done
  <2>4. CASE ReceiveStopFailed
    BY <1>1, <1>4, <2>4 DEF ReceiveStopFailed, Finish, LoopSound, Free, Done
  <2> QED BY <2>1, <2>2, <2>3, <2>4 DEF ReceiveAnyResult
<1> QED BY <1>5, <1>6, <1>7, <1>8 DEF SchedulerInv

\* A lifecycle call ends: its result carries the current generation, and says
\* whether the backend is gone.
LEMMA LifecycleInv ==
    ASSUME TypeOK, SchedulerInv, Lifecycle
    PROVE  SchedulerInv'
<1>1. PICK err \in {"nil", "error", "cleanup"}, left \in BOOLEAN :
        /\ Outcome(err, left)
        /\ worker.kind = "start" /\ err = "error" => ~left
        /\ worker.kind = "stop" /\ err = "nil" => ~left
        /\ worker.kind \in {"start", "stop"}
  BY DEF Lifecycle, LifecycleStart, LifecycleStop
<1>2. worker \in Operations /\ worker # NoOperation
  BY <1>1, KindsDiffer DEF TypeOK
<1>3. /\ results' = [kind |-> worker.kind, allocation |-> worker.allocation,
                      generation |-> worker.generation, err |-> err]
      /\ results = NoResult /\ worker' = NoOperation
      /\ resident' = IF left THEN resident ELSE resident \ {worker.allocation}
      /\ UNCHANGED <<pc, state, current, upstream, generation, active,
                      operation, shuttingDown, cleanupError, phase, lease,
                      releases>>
  BY <1>1 DEF Outcome, runVars, requestVars, channelVars
<1>4. results' \in Results
  BY <1>1, <1>2, <1>3 DEF Operations, Results
<1>5. /\ worker.allocation = current /\ worker.generation = generation
      /\ operation /\ Outstanding = {}
  BY <1>2 DEF SchedulerInv, NoOperationUnderLease
<1>6. Outstanding' = {}
  BY <1>3, <1>5, OutstandingFrame
<1>7. LeaseAccounting' /\ LeasesSound'
  BY <1>3, <1>5, <1>6 DEF SchedulerInv, LeaseAccounting, LeasesSound
<1>8. NoOperationUnderLease'
  BY <1>3, <1>4, <1>5, <1>6, KindsDiffer DEF NoOperationUnderLease, Fresh
<1>9. ExclusiveResidency' /\ ResultSound'
  BY <1>1, <1>3, <1>5 DEF SchedulerInv, ExclusiveResidency, ResultSound
<1>10. StartSound'
  BY <1>3, KindsDiffer DEF SchedulerInv, StartSound
<1>11. LoopSound'
  BY <1>3, <1>5 DEF SchedulerInv, LoopSound, Free, Done
<1> QED BY <1>7, <1>8, <1>9, <1>10, <1>11 DEF SchedulerInv

\* A step of a calling goroutine touches only its own request: a lease it
\* releases stays counted until the release is received.
LEMMA RequestInv ==
    ASSUME TypeOK, SchedulerInv, NEW r \in Requests, Request(r)
    PROVE  SchedulerInv'
<1> USE DEF runVars, lifecycleVars, channelVars
<1>1. CASE Release(r)
  <2>1. ~Done
    BY <1>1 DEF Release, SchedulerInv, LoopSound, Outstanding
  <2>2. /\ UNCHANGED <<pc, state, current, upstream, generation, active,
                        operation, shuttingDown, cleanupError, worker, results,
                        resident, lease>>
        /\ phase[r] = "holding" /\ phase' = [phase EXCEPT ![r] = "returned"]
        /\ releases' = releases \cup {r}
    BY <1>1, <2>1 DEF Release
  <2>3. Outstanding' = Outstanding
    BY <2>2 DEF Outstanding, TypeOK
  <2>4. LeaseAccounting' /\ NoOperationUnderLease' /\ ExclusiveResidency'
    BY <2>2, <2>3 DEF SchedulerInv, LeaseAccounting, NoOperationUnderLease,
       ExclusiveResidency, Fresh
  <2>5. LeasesSound' /\ StartSound' /\ ResultSound'
    BY <2>2, <2>3 DEF SchedulerInv, LeasesSound, StartSound, ResultSound, TypeOK
  <2>6. LoopSound'
    BY <2>2, <2>3 DEF SchedulerInv, LoopSound, Free, Done
  <2> QED BY <2>4, <2>5, <2>6 DEF SchedulerInv
<1>2. CASE ~Release(r)
  <2>1. /\ \A t \in Requests : phase'[t] = "holding" <=> phase[t] = "holding"
        /\ \A t \in Requests : phase[t] = "returned" => phase'[t] = "returned"
    BY <1>2 DEF Request, AcquireUnknown, Acquire, CancelContext,
       AcquireGivesUp, AcquireCancelled, SendCancel, Fail, Return, TypeOK
  <2>2. UNCHANGED <<pc, state, current, upstream, generation, active, operation,
                    shuttingDown, cleanupError, worker, results, resident,
                    lease, releases>>
    BY <1>2 DEF Request, AcquireUnknown, Acquire, CancelContext,
       AcquireGivesUp, AcquireCancelled, SendCancel, Fail
  <2> QED BY <2>1, <2>2, QuietStepInv
<1> QED BY <1>1, <1>2

\* The inductive invariant is kept by every step.
LEMMA InvStep == TypeOK /\ SchedulerInv /\ [Next]_vars => SchedulerInv'
<1> SUFFICES ASSUME TypeOK, SchedulerInv, [Next]_vars PROVE SchedulerInv'
  OBVIOUS
<1>1. CASE Progress
  <2>1. CASE GrantDone
    <3>1. ~operation
      BY <2>1 DEF GrantDone, SchedulerInv, LoopSound, Free
    <3> QED BY <2>1, <3>1, QuietStepInv DEF GrantDone, lifecycleVars,
            requestVars, channelVars, SchedulerInv, LoopSound
  <2> QED BY <1>1, <2>1, ProgressInv, ProgressUnloadedInv, GrantInv DEF Progress
<1>2. CASE Receive
  BY <1>2, ReceiveEventInv, ReceiveReleaseInv, ReceiveResultInv DEF Receive
<1>3. CASE Lifecycle
  BY <1>3, LifecycleInv
<1>4. ASSUME NEW r \in Requests, Request(r) PROVE SchedulerInv'
  BY <1>4, RequestInv
<1>5. ASSUME NEW s \in Callers, Caller(s) PROVE SchedulerInv'
  BY <1>5, QuietStepInv DEF Caller, Shutdown, ShutdownExpires,
     ShutdownReturns, callerUnchanged, runVars, lifecycleVars, requestVars,
     channelVars
<1>6. CASE UNCHANGED vars
  BY <1>6, QuietStepInv DEF vars, runVars, lifecycleVars, requestVars,
     channelVars
<1> QED BY <1>1, <1>2, <1>3, <1>4, <1>5, <1>6 DEF Next, Terminating

\* The inductive invariant holds in every reachable state.
LEMMA Invariance == Spec => []SchedulerInv
BY InvInit, InvStep, TypeCorrect, PTL DEF Spec

\* The count of active leases is exact, and every lease that is out is on the
\* current backend.
THEOREM LeasesAccounted == Spec => []LeaseAccounting
BY Invariance, PTL DEF SchedulerInv

\* A backend is never started over, or stopped under, a lease, and run() never
\* receives a stale result.
THEOREM OperationsExclusive == Spec => []NoOperationUnderLease
BY Invariance, PTL DEF SchedulerInv

\* Two backends never share the accelerator and none is forgotten.
THEOREM ResidencyExclusive == Spec => []ExclusiveResidency
BY Invariance, PTL DEF SchedulerInv

-----------------------------------------------------------------------------
(* Scheduler implements LeaseManager.                                      *)

\* A step that keeps the owner, its generation and the leases is a stutter of
\* LeaseManager, or its Condemn, unless it pardons a condemned owner.
LEMMA CondemnOrStutter ==
    ASSUME UNCHANGED <<current, generation>>, Outstanding' = Outstanding,
           Condemned => Condemned'
    PROVE  [Manager!Next]_(Manager!vars)
<1>1. CASE Condemned' <=> Condemned
  <2>1. Condemned' = Condemned
    BY <1>1 DEF Condemned
  <2> QED BY <2>1 DEF Manager!vars
<1>2. CASE Condemned' /\ ~Condemned
  <2>1. Condemned' = TRUE /\ current # NoAllocation
    BY <1>2 DEF Condemned
  <2>2. Manager!Condemn
    BY <2>1 DEF Manager!Condemn
  <2> QED BY <2>2 DEF Manager!Next
<1> QED BY <1>1, <1>2

\* LeaseManager counts as Scheduler does.
LEMMA SameCardinality == \A S : Manager!Cardinality(S) = Cardinality(S)
BY DEF Manager!Cardinality, Cardinality

\* Each step of the scheduler is a step of LeaseManager or a stutter of it.
LEMMA RefinementStep ==
    ASSUME TypeOK, SchedulerInv, [Next]_vars
    PROVE  [Manager!Next]_(Manager!vars)
<1> USE DEF progressUnchanged, runVars, lifecycleVars, requestVars, channelVars
<1>1. CASE Progress
  <2>1. CASE ProgressShutdown
    <3>1. Outstanding' = Outstanding
      BY <2>1, FailWaitersFrame, OutstandingFrame DEF ProgressShutdown, TypeOK
    <3>2. UNCHANGED <<current, generation>> /\ shuttingDown /\ shuttingDown'
      BY <2>1 DEF ProgressShutdown, StopBackend, Finish
    <3> QED BY <3>1, <3>2, CondemnOrStutter DEF Condemned
  <2>2. CASE ProgressHold \/ ProgressRecycle \/ ProgressSwitch
    <3>1. Outstanding' = Outstanding
      BY <2>2, OutstandingFrame DEF ProgressHold, ProgressRecycle,
         ProgressSwitch, Progressing
    <3>2. /\ UNCHANGED <<current, generation, shuttingDown, cleanupError>>
          /\ state \in {"failed", "stopping"} => state' \in {"failed", "stopping"}
      BY <2>2 DEF ProgressHold, ProgressRecycle, ProgressSwitch, Progressing,
         Recycling, StopBackend, Free, SchedulerInv, LoopSound
    <3> QED BY <3>1, <3>2, CondemnOrStutter DEF Condemned
  <2>3. CASE ProgressIdle \/ ProgressServe \/ GrantDone
    <3>1. Outstanding' = Outstanding
      BY <2>3, OutstandingFrame DEF ProgressIdle, ProgressServe, GrantDone,
         Progressing
    <3>2. /\ UNCHANGED <<current, generation, shuttingDown, cleanupError>>
          /\ state \notin {"failed", "stopping"}
      BY <2>3 DEF ProgressIdle, ProgressServe, GrantDone, Progressing,
         Recycling, Free, SchedulerInv, LoopSound
    <3> QED BY <3>1, <3>2, CondemnOrStutter DEF Condemned
  <2>4. CASE ProgressUnloaded
    <3>1. Outstanding' = Outstanding
      BY <2>4, OutstandingFrame DEF ProgressUnloaded, Progressing
    <3>2. CASE Live = {}
      BY <2>4, <3>1, <3>2, CondemnOrStutter
         DEF ProgressUnloaded, Progressing, Condemned
    <3>3. CASE Live # {}
      <4> DEFINE a == want[FirstOf(Live)]
      <4>1. a \in Allocations
        BY <3>3, FirstOfQueue DEF TypeOK, Live
      <4>2. /\ current = NoAllocation /\ current' = a
            /\ generation' = generation + 1
            /\ state' = "starting" /\ ~shuttingDown' /\ cleanupError' = "none"
        BY <2>4, <3>3 DEF ProgressUnloaded, Progressing, StartBackend, Free
      <4>3. Condemned' = FALSE
        BY <4>2 DEF Condemned
      <4>4. Manager!Adopt(a)
        BY <3>1, <4>2, <4>3 DEF Manager!Adopt
      <4> QED BY <4>1, <4>4 DEF Manager!Next
    <3> QED BY <3>2, <3>3
  <2>5. CASE Grant
    <3> DEFINE r == FirstOf(queue)
    <3>1. r \in Requests
      BY <2>5, FirstOfQueue DEF Grant, CanGrant, TypeOK
    <3>2. /\ ~Condemned /\ Condemned' = Condemned /\ current # NoAllocation
          /\ UNCHANGED <<current, generation>>
      BY <2>5 DEF Grant, SchedulerInv, LoopSound, Condemned, Free
    <3>3. CASE LeaseMissed
      <4>1. Outstanding' = Outstanding
        BY <2>5, <3>3, OutstandingFrame DEF Grant, LeaseMissed
      <4> QED BY <3>2, <4>1, CondemnOrStutter
    <3>4. CASE /\ phase[r] = "waiting"
               /\ phase' = [phase EXCEPT ![r] = "holding"]
      <4>1. r \notin Outstanding /\ Outstanding' = Outstanding \cup {r}
        BY <2>5, <3>1, <3>4
           DEF Grant, SchedulerInv, LeasesSound, Outstanding, TypeOK
      <4>2. Limits[current] = 0 \/ Cardinality(Outstanding) < Limits[current]
        BY <2>5 DEF Grant, CanGrant, Capacity, SchedulerInv, LeaseAccounting
      <4> HIDE DEF r
      <4>3. Manager!Grant(r)
        BY <3>2, <4>1, <4>2, SameCardinality, Zenon DEF Manager!Grant
      <4> QED BY <3>1, <4>3 DEF Manager!Next
    <3> QED BY <2>5, <3>3, <3>4 DEF Grant
  <2> QED BY <1>1, <2>1, <2>2, <2>3, <2>4, <2>5 DEF Progress
<1>2. CASE Receive
  <2>1. ASSUME NEW r \in Requests, ReceiveRequest(r) \/ ReceiveCancel(r)
        PROVE  [Manager!Next]_(Manager!vars)
    <3>1. Outstanding' = Outstanding
      BY <2>1 DEF ReceiveRequest, ReceiveCancel, Return, Outstanding, TypeOK
    <3>2. UNCHANGED <<current, generation, state, cleanupError, shuttingDown>>
      BY <2>1 DEF ReceiveRequest, ReceiveCancel
    <3> QED BY <3>1, <3>2, CondemnOrStutter DEF Condemned
  <2>2. ASSUME NEW r \in Requests, ReceiveRelease(r)
        PROVE  [Manager!Next]_(Manager!vars)
    <3>1. r \in Outstanding /\ Outstanding' = Outstanding \ {r}
      BY <2>2 DEF ReceiveRelease, SchedulerInv, LeasesSound, Outstanding
    <3>2. UNCHANGED <<current, generation>> /\ Condemned' = Condemned
      BY <2>2 DEF ReceiveRelease, Condemned
    <3>3. Manager!Return(r)
      BY <3>1, <3>2 DEF Manager!Return
    <3> QED BY <3>3 DEF Manager!Next
  <2>3. ASSUME NEW r \in Requests, ReceiveFailure(r)
        PROVE  [Manager!Next]_(Manager!vars)
    <3>1. Outstanding' = Outstanding
      BY <2>3, OutstandingFrame DEF ReceiveFailure
    <3>2. /\ UNCHANGED <<current, generation, cleanupError, shuttingDown>>
          /\ state' \in {state, "failed"}
      BY <2>3 DEF ReceiveFailure
    <3> QED BY <3>1, <3>2, CondemnOrStutter DEF Condemned
  <2>4. ASSUME NEW s \in Callers, ReceiveShutdown(s)
        PROVE  [Manager!Next]_(Manager!vars)
    <3>1. Outstanding' = Outstanding
      BY <2>4, OutstandingFrame DEF ReceiveShutdown
    <3>2. UNCHANGED <<current, generation>> /\ shuttingDown'
      BY <2>4 DEF ReceiveShutdown
    <3> QED BY <3>1, <3>2, CondemnOrStutter DEF Condemned
  <2>5. CASE ReceiveAnyResult
    <3>1. /\ Outstanding = {} /\ Fresh /\ current # NoAllocation
          /\ generation' = generation
      BY <2>5, NoAllocationAssumption, KindsDiffer
         DEF ReceiveAnyResult, ReceiveStarted, ReceiveStartFailed,
         ReceiveStartUncertain, ReceiveStopped, ReceiveStopFailed,
         ReceiveResult, SchedulerInv, NoOperationUnderLease, Fresh, TypeOK,
         Results
    <3>2. Outstanding' = Outstanding
      BY <2>5, FailWaitersFrame, OutstandingFrame
         DEF ReceiveAnyResult, ReceiveStarted, ReceiveStartFailed,
         ReceiveStartUncertain, ReceiveStopped, ReceiveStopFailed,
         ReceiveResult, TypeOK
    <3>3. CASE ReceiveStarted
      <4>1. state = "starting" /\ cleanupError = "none"
        BY <3>1, <3>3 DEF ReceiveStarted, SchedulerInv, StartSound
      <4>2. UNCHANGED <<current, generation, shuttingDown>>
        BY <3>3 DEF ReceiveStarted, ReceiveResult
      <4> QED BY <3>2, <4>1, <4>2, CondemnOrStutter DEF Condemned
    <3>4. CASE ReceiveStartFailed \/ ReceiveStopped
      <4>1. current' = NoAllocation
        BY <3>4 DEF ReceiveStartFailed, ReceiveStopped
      <4>2. Condemned' = FALSE
        BY <4>1 DEF Condemned
      <4>3. Manager!Drop
        BY <3>1, <3>2, <4>1, <4>2 DEF Manager!Drop
      <4> QED BY <4>3 DEF Manager!Next
    <3>5. CASE ReceiveStartUncertain \/ ReceiveStopFailed
      <4>1. current' = current /\ state' = "failed"
        <5>1. CASE ReceiveStartUncertain
          BY <5>1, Zenon DEF ReceiveStartUncertain
        <5>2. CASE ReceiveStopFailed
          BY <5>2, Zenon DEF ReceiveStopFailed
        <5> QED BY <3>5, <5>1, <5>2
      <4> QED BY <3>1, <3>2, <4>1, CondemnOrStutter DEF Condemned
    <3> QED BY <2>5, <3>3, <3>4, <3>5 DEF ReceiveAnyResult
  <2> QED BY <1>2, <2>1, <2>2, <2>3, <2>4, <2>5 DEF Receive
<1>3. CASE Lifecycle
  <2>1. UNCHANGED <<phase, releases, current, generation, state, cleanupError,
                    shuttingDown>>
    BY <1>3 DEF Lifecycle, LifecycleStart, LifecycleStop, Outcome
  <2> QED BY <2>1, OutstandingFrame, CondemnOrStutter DEF Condemned
<1>4. ASSUME NEW r \in Requests, Request(r)
      PROVE  [Manager!Next]_(Manager!vars)
  <2>1. UNCHANGED <<current, generation, state, cleanupError, shuttingDown>>
    BY <1>4 DEF Request, AcquireUnknown, Acquire, CancelContext,
       AcquireGivesUp, AcquireCancelled, SendCancel, Release, Fail
  <2>2. Outstanding' = Outstanding
    <3>1. CASE Release(r)
      BY <3>1 DEF Release, Outstanding, TypeOK, SchedulerInv, LoopSound
    <3>2. CASE ~Release(r)
      BY <1>4, <3>2 DEF Request, AcquireUnknown, Acquire, CancelContext,
         AcquireGivesUp, AcquireCancelled, SendCancel, Fail, Return,
         Outstanding, TypeOK
    <3> QED BY <3>1, <3>2
  <2> QED BY <2>1, <2>2, CondemnOrStutter DEF Condemned
<1>5. CASE UNCHANGED vars \/ \E s \in Callers : Caller(s)
  <2>1. UNCHANGED <<phase, releases, current, generation, state, cleanupError,
                    shuttingDown>>
    BY <1>5 DEF vars, Caller, Shutdown, ShutdownExpires, ShutdownReturns,
       callerUnchanged
  <2> QED BY <2>1, OutstandingFrame, CondemnOrStutter DEF Condemned
<1> QED BY <1>1, <1>2, <1>3, <1>4, <1>5 DEF Next, Terminating

\* The scheduler keeps the promise of LeaseManager: one owner at a time, leases
\* on it within its limit, none on a condemned owner, and no change of owner
\* under a lease.
THEOREM Refinement == Spec => ImplementsLeaseManager
<1>1. Init => Manager!Init
  <2> SUFFICES ASSUME Init PROVE Manager!Init
    OBVIOUS
  <2>1. Outstanding = {} /\ Condemned = FALSE
    BY DEF Init, Outstanding, Condemned
  <2> QED BY <2>1 DEF Init, Manager!Init
<1>2. TypeOK /\ SchedulerInv /\ [Next]_vars => [Manager!Next]_(Manager!vars)
  BY RefinementStep
<1> QED
  BY <1>1, <1>2, TypeCorrect, Invariance, PTL
     DEF Spec, ImplementsLeaseManager, Manager!Spec

-----------------------------------------------------------------------------
(* The queue is served in order and to its end.                            *)

\* A step by which nobody joins the queue and nobody gets a lease.
QueueFrame ==
    /\ UNCHANGED <<ticket, lease>> /\ queue' \subseteq queue
    /\ \A r \in Requests : phase'[r] \in {"idle", "sending"} =>
                              phase[r] \in {"idle", "sending"}

LEMMA QueueFrameOrder ==
    ASSUME TypeOK, TicketsSound, NoOvertaking, QueueFrame
    PROVE  TicketsSound' /\ NoOvertaking'
<1>1. Ticketed' = Ticketed
  BY DEF QueueFrame, Ticketed
<1> QED
  BY <1>1 DEF QueueFrame, TicketsSound, NoOvertaking

\* Every branch of progress() but the granting of a lease.
LEMMA ProgressQueue ==
    ASSUME TypeOK, \/ ProgressShutdown \/ ProgressHold \/ ProgressRecycle
                   \/ ProgressUnloaded \/ ProgressIdle \/ ProgressSwitch
                   \/ ProgressServe \/ GrantDone
    PROVE  /\ QueueFrame /\ UNCHANGED <<want, active, cancelled, cancels>>
           /\ queue' = {} \/ phase' = phase
<1>1. CASE ProgressShutdown
  BY <1>1, FailWaitersType DEF ProgressShutdown, progressUnchanged, channelVars,
     QueueFrame, TypeOK
<1>2. CASE GrantDone
  BY <1>2 DEF GrantDone, QueueFrame, requestVars, channelVars
<1>3. CASE Progressing
  BY <1>3 DEF Progressing, progressUnchanged, channelVars, Live, QueueFrame
<1> QED
  BY <1>1, <1>2, <1>3 DEF ProgressHold, ProgressRecycle, ProgressUnloaded,
     ProgressIdle, ProgressSwitch, ProgressServe

\* Every result of a lifecycle call.
LEMMA ResultQueue ==
    ASSUME TypeOK, ReceiveAnyResult
    PROVE  /\ QueueFrame /\ UNCHANGED <<want, cancelled, cancels>>
           /\ pc' \in {"progress", "exited"}
           /\ pc' = "exited" => queue' = {}
           /\ \A r \in queue' : phase'[r] = phase[r]
<1> USE DEF ReceiveResult, channelVars, QueueFrame
<1>1. CASE ReceiveStarted
  BY <1>1 DEF ReceiveStarted, TypeOK
<1>2. CASE ReceiveStartFailed
  <2> DEFINE failed == {r \in queue : want[r] = current}
  <2>1. FailWaiters(failed) /\ queue' = queue \ failed
    BY <1>2 DEF ReceiveStartFailed
  <2>2. \A r \in queue' : phase'[r] = phase[r]
    BY <2>1 DEF FailWaiters, TypeOK
  <2> QED
    BY <1>2, <2>1, <2>2, FailWaitersType DEF ReceiveStartFailed, TypeOK
<1>3. CASE ReceiveStartUncertain
  BY <1>3, FailWaitersType DEF ReceiveStartUncertain, TypeOK
<1>4. CASE ReceiveStopped
  BY <1>4 DEF ReceiveStopped, TypeOK
<1>5. CASE ReceiveStopFailed
  BY <1>5, FailWaitersType DEF ReceiveStopFailed, Finish, TypeOK
<1> QED
  BY <1>1, <1>2, <1>3, <1>4, <1>5 DEF ReceiveAnyResult

\* The steps of everybody else leave the queue to the loop.
LEMMA RequestQueue ==
    ASSUME TypeOK, NEW r \in Requests, Request(r)
    PROVE  /\ QueueFrame /\ UNCHANGED <<pc, queue, active, current, operation,
                                        cleanupError, shuttingDown>>
           /\ cancelled \subseteq cancelled' /\ cancels \subseteq cancels'
           /\ \A s \in Requests \ {r} : phase'[s] = phase[s] /\ want'[s] = want[s]
           /\ want'[r] # want[r] => phase[r] = "idle"
           /\ \/ phase'[r] = phase[r]
              \/ phase[r] \in {"idle", "sending", "holding"}
              \/ phase[r] = "waiting" /\ phase'[r] = "cancelling"
              \/ phase[r] = "waiting" /\ Done
              \/ phase[r] = "cancelling" /\ (Done \/ r \in cancels')
<1> USE DEF runVars, channelVars, TypeOK, QueueFrame
<1>1. CASE AcquireUnknown(r)
  BY <1>1 DEF AcquireUnknown, Return
<1>2. CASE \E a \in Allocations : Acquire(r, a)
  BY <1>2 DEF Acquire
<1>3. CASE CancelContext(r)
  BY <1>3 DEF CancelContext
<1>4. CASE AcquireGivesUp(r)
  BY <1>4 DEF AcquireGivesUp, Return
<1>5. CASE AcquireCancelled(r)
  BY <1>5 DEF AcquireCancelled
<1>6. CASE SendCancel(r)
  BY <1>6 DEF SendCancel, Return
<1>7. CASE Release(r)
  BY <1>7 DEF Release
<1>8. CASE Fail(r)
  BY <1>8 DEF Fail
<1> QED
  BY <1>1, <1>2, <1>3, <1>4, <1>5, <1>6, <1>7, <1>8 DEF Request

LEMMA OutsideQueue ==
    ASSUME TypeOK, Lifecycle \/ Terminating \/ (\E s \in Callers : Caller(s))
                   \/ UNCHANGED vars
    PROVE  UNCHANGED <<pc, queue, active, current, operation, cleanupError,
                       shuttingDown, ticket, lease, phase, want, cancelled,
                       cancels>>
<1> USE DEF runVars, requestVars, channelVars
<1>1. CASE Lifecycle
  BY <1>1 DEF Lifecycle, LifecycleStart, LifecycleStop, Outcome
<1>2. CASE Terminating \/ UNCHANGED vars
  BY <1>2 DEF Terminating, vars
<1>3. CASE \E s \in Callers : Caller(s)
  BY <1>3 DEF Caller, Shutdown, ShutdownExpires, ShutdownReturns, callerUnchanged
<1> QED
  BY <1>1, <1>2, <1>3

\* The events other than a request and a result.
LEMMA EventQueue ==
    ASSUME TypeOK, \/ \E r \in Requests : ReceiveCancel(r) \/ ReceiveRelease(r)
                                          \/ ReceiveFailure(r)
                   \/ \E s \in Callers : ReceiveShutdown(s)
    PROVE  /\ QueueFrame /\ UNCHANGED phase /\ pc' = "progress"
           /\ \A r \in queue' : r \in cancels => r \in cancels'
BY DEF ReceiveCancel, ReceiveRelease, ReceiveFailure, ReceiveShutdown, Receiving,
   requestVars, channelVars, QueueFrame

\* Who is first depends on the queue and the tickets alone.
LEMMA FirstOfFrame ==
    ASSUME UNCHANGED <<ticket, queue>>
    PROVE  FirstOf(queue)' = FirstOf(queue)
BY DEF FirstOf

\* The waiter that is granted a lease, or missed it, is the oldest.
LEMMA GrantOrder ==
    ASSUME TypeOK, SchedulerInv, QueueInv, Grant
    PROVE  QueueInv'
<1> DEFINE r == FirstOf(queue)
<1>1. r \in queue /\ \A s \in queue : ticket[r] <= ticket[s]
  BY FirstOfQueue DEF Grant, CanGrant, TypeOK
<1>2. /\ UNCHANGED <<pc, current, want, cancelled, ticket, cancels, shuttingDown,
                     cleanupError, operation>>
      /\ pc = "grant" /\ queue' = queue \ {r}
      /\ \/ /\ phase' = [phase EXCEPT ![r] = "holding"]
            /\ lease' = [lease EXCEPT ![r] = [allocation |-> current,
                                              generation |-> generation,
                                              upstream |-> upstream]]
            /\ active' = active + 1
         \/ r \in cancelled /\ UNCHANGED <<phase, lease, active>>
  BY DEF Grant, LeaseMissed, channelVars
<1> HIDE DEF r
<1>3. \A s \in Requests \ {r} : phase'[s] = phase[s] /\ lease'[s] = lease[s]
  BY <1>1, <1>2 DEF TypeOK
<1>4. phase'[r] = phase[r] \/ phase'[r] = "holding"
  BY <1>1, <1>2 DEF TypeOK
<1>5. r \in Requests /\ ticket[r] # 0 /\ phase[r] \notin {"idle", "sending"}
  BY <1>1 DEF TypeOK, QueueInv, TicketsSound
<1>6. TicketsSound'
  <2>1. Ticketed' = Ticketed
    BY <1>2 DEF Ticketed
  <2> QED
    BY <1>1, <1>2, <1>3, <1>4, <1>5, <2>1 DEF QueueInv, TicketsSound
<1>7. NoOvertaking'
  <2> SUFFICES ASSUME NEW t \in Requests, NEW s \in queue', lease'[t] # NoLease
               PROVE  ticket[t] < ticket[s]
    BY <1>2 DEF NoOvertaking
  <2>1. s \in queue /\ s # r /\ s \in Requests
    BY <1>2 DEF TypeOK
  <2>2. CASE t # r
    BY <1>3, <2>1, <2>2 DEF QueueInv, NoOvertaking
  <2>3. CASE t = r
    <3>1. ticket[r] <= ticket[s] /\ ticket[r] # ticket[s]
      BY <1>1, <1>5, <2>1 DEF QueueInv, TicketsSound
    <3> QED
      BY <1>5, <2>1, <2>3, <3>1 DEF TypeOK
  <2> QED
    BY <2>2, <2>3
<1>8. WaitersSound'
  BY <1>1, <1>2, <1>3 DEF QueueInv, WaitersSound, TypeOK, Done
<1>9. GrantSound'
  <2>1. CASE active' = active + 1
    BY <2>1 DEF GrantSound, Drained, TypeOK
  <2>2. CASE r \in cancelled /\ UNCHANGED phase
    BY <1>1, <1>2, <1>5, <2>2 DEF QueueInv, WaitersSound, GrantSound, WakeupPending
  <2> QED
    BY <1>2, <2>1, <2>2
<1>10. NoMissedWakeup'
  BY <1>2 DEF NoMissedWakeup
<1> QED
  BY <1>6, <1>7, <1>8, <1>9, <1>10 DEF QueueInv

\* A request that is accepted gets a ticket above all others.
LEMMA ReceiveRequestOrder ==
    ASSUME TypeOK, QueueInv, NEW r \in Requests, ReceiveRequest(r)
    PROVE  QueueInv'
<1>1. /\ phase[r] = "sending" /\ pc = "select" /\ pc' = "progress"
      /\ UNCHANGED <<lease, cancels>>
  BY DEF ReceiveRequest, Receiving, channelVars
<1>2. ticket[r] = 0 /\ r \notin queue /\ lease[r] = NoLease
  BY <1>1 DEF QueueInv, TicketsSound
<1>3. GrantSound' /\ NoMissedWakeup'
  BY <1>1 DEF GrantSound, NoMissedWakeup
<1>4. CASE UNCHANGED <<queue, ticket>>
  <2>1. phase'[r] \in {"returned", "waiting"}
        /\ \A s \in Requests \ {r} : phase'[s] = phase[s]
    BY <1>4 DEF ReceiveRequest, Return, TypeOK
  <2>2. QueueFrame
    BY <1>1, <1>4, <2>1 DEF QueueFrame
  <2>3. WaitersSound'
    BY <1>1, <1>2, <1>4, <2>1 DEF QueueInv, WaitersSound, TypeOK, Done
  <2> QED
    BY <1>3, <2>2, <2>3, QueueFrameOrder DEF QueueInv
<1>5. CASE /\ queue' = queue \cup {r}
           /\ ticket' = [ticket EXCEPT ![r] =
                 1 + Cardinality({s \in Requests : ticket[s] # 0})]
           /\ phase' = [phase EXCEPT ![r] = "waiting"]
  <2>1. IsFiniteSet(Ticketed) /\ Cardinality(Ticketed) \in Nat
    BY RequestsFinite, FS_Subset, FS_CardinalityType DEF Ticketed
  <2>2. /\ ticket'[r] = 1 + Cardinality(Ticketed) /\ phase'[r] = "waiting"
        /\ \A s \in Requests \ {r} : ticket'[s] = ticket[s] /\ phase'[s] = phase[s]
    BY <1>5 DEF TypeOK, Ticketed
  <2>3. Ticketed' = Ticketed \cup {r} /\ r \notin Ticketed
    BY <1>2, <2>1, <2>2 DEF Ticketed
  <2>4. Cardinality(Ticketed)' = Cardinality(Ticketed) + 1
    BY <2>1, <2>3, FS_AddElement
  <2>5. TicketsSound'
    <3>1. \A s \in Requests : ticket'[s] <= Cardinality(Ticketed)'
      BY <2>1, <2>2, <2>4 DEF QueueInv, TicketsSound, TypeOK
    <3>2. \A s, t \in Requests : ticket'[s] = ticket'[t] /\ ticket'[s] # 0 => s = t
      BY <2>1, <2>2 DEF QueueInv, TicketsSound, TypeOK
    <3>3. \A s \in Requests : phase'[s] \in {"idle", "sending"} => ticket'[s] = 0
      BY <2>2 DEF QueueInv, TicketsSound
    <3>4. \A s \in Requests : s \in queue' \/ lease'[s] # NoLease => ticket'[s] # 0
      BY <1>1, <1>2, <1>5, <2>1, <2>2 DEF QueueInv, TicketsSound
    <3> QED
      BY <3>1, <3>2, <3>3, <3>4 DEF TicketsSound
  <2>6. NoOvertaking'
    <3> SUFFICES ASSUME NEW t \in Requests, NEW s \in queue', lease[t] # NoLease
                 PROVE  ticket'[t] < ticket'[s]
      BY <1>1 DEF NoOvertaking
    <3>1. t # r /\ ticket'[t] = ticket[t] /\ ticket[t] <= Cardinality(Ticketed)
          /\ ticket[t] \in Nat
      BY <1>2, <2>2 DEF QueueInv, TicketsSound, TypeOK
    <3>2. CASE s = r
      BY <2>1, <2>2, <3>1, <3>2
    <3>3. CASE s # r
      BY <1>5, <2>2, <3>1, <3>3 DEF QueueInv, NoOvertaking, TypeOK
    <3> QED
      BY <3>2, <3>3
  <2>7. WaitersSound'
    BY <1>1, <1>5, <2>2 DEF QueueInv, WaitersSound, TypeOK, Done
  <2> QED
    BY <1>3, <2>5, <2>6, <2>7 DEF QueueInv
<1> QED
  BY <1>4, <1>5 DEF ReceiveRequest

\* progress() goes to sleep with waiters, and nothing to wait for, only if a
\* cancellation is on its way.
LEMMA ProgressOrder ==
    ASSUME TypeOK, SchedulerInv, QueueInv,
           \/ ProgressShutdown \/ ProgressHold \/ ProgressRecycle
           \/ ProgressUnloaded \/ ProgressIdle \/ ProgressSwitch
           \/ ProgressServe \/ GrantDone
    PROVE  QueueInv'
<1>1. /\ QueueFrame /\ UNCHANGED <<want, active, cancelled, cancels>>
      /\ queue' = {} \/ phase' = phase
  BY ProgressQueue
<1>2. TicketsSound' /\ NoOvertaking'
  BY <1>1, QueueFrameOrder DEF QueueInv
<1>3. WaitersSound'
  <2>1. queue' # {} => pc' # "exited"
    BY DEF ProgressShutdown, ProgressHold, ProgressRecycle, ProgressUnloaded,
       ProgressIdle, ProgressSwitch, ProgressServe, GrantDone
  <2> QED
    BY <1>1, <2>1 DEF QueueInv, WaitersSound, QueueFrame, Done
<1>4. GrantSound'
  <2>1. CASE ProgressServe
    <3>1. queue' = Live /\ Live # {} /\ want[FirstOf(Live)] = current
          /\ UNCHANGED <<current, want, ticket>>
      BY <2>1 DEF ProgressServe, Progressing, progressUnchanged
    <3>2. FirstOf(queue)' = FirstOf(Live)
      BY <3>1 DEF FirstOf
    <3> QED
      BY <3>1, <3>2 DEF GrantSound
  <2>2. CASE ~ProgressServe
    BY <2>2 DEF ProgressShutdown, Finish, ProgressHold, ProgressRecycle,
       ProgressUnloaded, ProgressIdle, ProgressSwitch, GrantDone, GrantSound
  <2> QED
    BY <2>1, <2>2
<1>5. NoMissedWakeup'
  <2>1. CASE ProgressShutdown
    BY <2>1 DEF ProgressShutdown, NoMissedWakeup
  <2>2. CASE ProgressHold
    BY <2>2 DEF ProgressHold, Progressing, progressUnchanged, Free, NoMissedWakeup
  <2>3. CASE ProgressRecycle \/ ProgressSwitch
    BY <1>1, <2>3 DEF ProgressRecycle, ProgressSwitch, StopBackend, Free, Drained,
       NoMissedWakeup
  <2>4. CASE ProgressUnloaded \/ ProgressIdle
    BY <2>4 DEF ProgressUnloaded, ProgressIdle, Progressing, StartBackend, Free,
       NoMissedWakeup
  <2>5. CASE ProgressServe
    BY <2>5 DEF ProgressServe, NoMissedWakeup
  <2>6. CASE GrantDone
    <3>1. SUFFICES ASSUME Drained, queue # {}
                   PROVE  WakeupPending'
      BY <2>6 DEF GrantDone, NoMissedWakeup, WakeupPending, Drained
    <3>2. current \in Allocations
      BY <2>6 DEF GrantDone, SchedulerInv, LoopSound, TypeOK
    <3>3. Limits[current] \in Nat
      BY <3>2, LimitsAssumption
    <3>4. Capacity
      BY <3>1, <3>3 DEF Capacity, Drained
    <3>5. want[FirstOf(queue)] # current
      BY <2>6, <3>1, <3>4 DEF GrantDone, CanGrant
    <3>6. WakeupPending
      BY <2>6, <3>1, <3>5 DEF GrantDone, QueueInv, GrantSound
    <3> QED
      BY <2>6, <3>6 DEF GrantDone, WakeupPending, requestVars, channelVars
  <2> QED
    BY <2>1, <2>2, <2>3, <2>4, <2>5, <2>6
<1> QED
  BY <1>2, <1>3, <1>4, <1>5 DEF QueueInv

\* A request may give up waiting, but not without telling the loop.
LEMMA RequestOrder ==
    ASSUME TypeOK, QueueInv, NEW r \in Requests, Request(r)
    PROVE  QueueInv'
<1>1. /\ QueueFrame /\ UNCHANGED <<pc, queue, active, current, operation,
                                   cleanupError, shuttingDown>>
      /\ cancelled \subseteq cancelled' /\ cancels \subseteq cancels'
      /\ \A s \in Requests \ {r} : phase'[s] = phase[s] /\ want'[s] = want[s]
      /\ want'[r] # want[r] => phase[r] = "idle"
      /\ \/ phase'[r] = phase[r]
         \/ phase[r] \in {"idle", "sending", "holding"}
         \/ phase[r] = "waiting" /\ phase'[r] = "cancelling"
         \/ phase[r] = "waiting" /\ Done
         \/ phase[r] = "cancelling" /\ (Done \/ r \in cancels')
  BY RequestQueue
<1>2. TicketsSound' /\ NoOvertaking'
  BY <1>1, QueueFrameOrder DEF QueueInv
<1>3. r \in queue => phase[r] \notin {"idle", "sending"}
  BY DEF QueueInv, TicketsSound
<1>4. WaitersSound'
  BY <1>1, <1>3 DEF QueueInv, WaitersSound, TypeOK, Done
<1>5. ~Done /\ WakeupPending => WakeupPending'
  BY <1>1 DEF WakeupPending, TypeOK
<1>6. queue # {} => want'[FirstOf(queue)] = want[FirstOf(queue)]
  BY <1>1, <1>3, FirstOfQueue DEF TypeOK
<1>7. FirstOf(queue)' = FirstOf(queue)
  BY <1>1, FirstOfFrame DEF QueueFrame
<1>8. GrantSound'
  BY <1>1, <1>5, <1>6, <1>7 DEF QueueInv, GrantSound, Drained, Done
<1>9. NoMissedWakeup'
  BY <1>1, <1>5 DEF QueueInv, NoMissedWakeup, WakeupPending, Free, Drained, Done
<1> QED
  BY <1>2, <1>4, <1>8, <1>9 DEF QueueInv

LEMMA QueueInvStep == TypeOK /\ SchedulerInv /\ QueueInv /\ [Next]_vars => QueueInv'
<1> SUFFICES ASSUME TypeOK, SchedulerInv, QueueInv, [Next]_vars
             PROVE  QueueInv'
  OBVIOUS
<1>1. CASE Progress
  BY <1>1, GrantOrder, ProgressOrder DEF Progress
<1>2. CASE \E r \in Requests : ReceiveRequest(r)
  BY <1>2, ReceiveRequestOrder
<1>3. CASE ReceiveAnyResult
  <2>1. /\ QueueFrame /\ UNCHANGED <<want, cancelled, cancels>>
        /\ pc' \in {"progress", "exited"}
        /\ pc' = "exited" => queue' = {}
        /\ \A r \in queue' : phase'[r] = phase[r]
    BY <1>3, ResultQueue
  <2> QED
    BY <2>1, QueueFrameOrder DEF QueueInv, QueueFrame, WaitersSound, GrantSound,
       NoMissedWakeup, Done
<1>4. CASE \/ \E r \in Requests : ReceiveCancel(r) \/ ReceiveRelease(r)
                                  \/ ReceiveFailure(r)
           \/ \E s \in Callers : ReceiveShutdown(s)
  <2>1. /\ QueueFrame /\ UNCHANGED phase /\ pc' = "progress"
        /\ \A r \in queue' : r \in cancels => r \in cancels'
    BY <1>4, EventQueue
  <2> QED
    BY <2>1, QueueFrameOrder DEF QueueInv, QueueFrame, WaitersSound, GrantSound,
       NoMissedWakeup, Done
<1>5. CASE \E r \in Requests : Request(r)
  BY <1>5, RequestOrder
<1>6. CASE Lifecycle \/ Terminating \/ (\E s \in Callers : Caller(s))
           \/ UNCHANGED vars
  <2>1. UNCHANGED <<pc, queue, active, current, operation, cleanupError,
                    shuttingDown, ticket, lease, phase, want, cancelled, cancels>>
    BY <1>6, OutsideQueue
  <2>2. TicketsSound' /\ NoOvertaking'
    BY <2>1, QueueFrameOrder DEF QueueInv, QueueFrame
  <2>3. FirstOf(queue)' = FirstOf(queue)
    BY <2>1, FirstOfFrame
  <2> QED
    BY <2>1, <2>2, <2>3 DEF QueueInv, WaitersSound, GrantSound, NoMissedWakeup,
       WakeupPending, Free, Drained, Done
<1> QED
  BY <1>1, <1>2, <1>3, <1>4, <1>5, <1>6 DEF Next, Receive

LEMMA QueueInvInit == Init => QueueInv
<1> SUFFICES ASSUME Init
             PROVE  QueueInv
  OBVIOUS
<1>1. Ticketed = {} /\ Cardinality({}) = 0
  BY FS_EmptySet DEF Init, Ticketed
<1> QED
  BY <1>1 DEF Init, QueueInv, TicketsSound, WaitersSound, NoOvertaking, GrantSound,
     NoMissedWakeup, Done

\* Waiters are served first come, first served across allocations, and the loop
\* never falls asleep over a waiter it could serve.
THEOREM ServedInOrder == Spec => []QueueServed
<1>1. QueueInv => QueueServed
  BY DEF QueueInv, QueueServed
<1> QED
  BY <1>1, QueueInvInit, QueueInvStep, TypeCorrect, Invariance, PTL DEF Spec

-----------------------------------------------------------------------------
(* Condemned backends, retries of cleanup and replies to Shutdown.         *)

\* Nothing is started, stopped or forgotten.
LEMMA StopsFrame ==
    ASSUME StopsSound, CleanupRetriedOnce,
           UNCHANGED <<current, operation, cleanupError, stopCalls, results>>,
           worker'.kind = worker.kind, Done' <=> Done, shuttingDown => shuttingDown'
    PROVE  StopsSound' /\ CleanupRetriedOnce'
BY DEF StopsSound, CleanupRetriedOnce, Free

LEMMA RepliesFrame ==
    ASSUME TypeOK, RepliesSound,
           UNCHANGED <<callerPhase, shutdownReplies, reply, returned>>,
           Done' <=> Done, Done => resident' \subseteq resident
    PROVE  RepliesSound'
BY DEF RepliesSound

\* The backend stays condemned, or stays as it is, by the same lease.
LEMMA CondemnedFrame ==
    ASSUME TypeOK, CondemnedByOwnLease, generation' = generation,
           failOnce \subseteq failOnce', lease' = lease,
           state' = "failed" /\ cleanupError' = "none" =>
               state = "failed" /\ cleanupError = "none"
    PROVE  CondemnedByOwnLease'
BY DEF CondemnedByOwnLease

LEMMA FailuresFrame ==
    ASSUME FailuresSound, UNCHANGED <<failures, failOnce, lease>>
    PROVE  FailuresSound'
BY DEF FailuresSound

\* stop() is called for a backend that was not told to stop before, or once
\* before and now by Shutdown.
LEMMA StopBackendCleanup ==
    ASSUME TypeOK, SchedulerInv, CleanupInv, StopBackend, current # NoAllocation,
           ~operation, ~Done, shuttingDown \/ Free,
           pc' = "select", UNCHANGED <<shuttingDown, cleanupError, results>>
    PROVE  StopsSound' /\ CleanupRetriedOnce'
<1>1. results = NoResult /\ results'.kind = "none"
  <2>1. operation = (worker # NoOperation \/ results # NoResult)
    BY DEF SchedulerInv, NoOperationUnderLease
  <2>2. results = NoResult
    BY <2>1, Zenon
  <2> QED
    BY <2>2 DEF NoResult
<1>2. worker'.kind = "stop" /\ operation' /\ stopCalls' = stopCalls + 1
  BY DEF StopBackend
<1>3. stopCalls <= 1 /\ (~shuttingDown => stopCalls = 0) /\ stopCalls \in Nat
  BY DEF CleanupInv, StopsSound, TypeOK
<1>4. StopsSound'
  BY <1>1, <1>2 DEF StopsSound, Free
<1>5. CleanupRetriedOnce'
  BY <1>2, <1>3 DEF CleanupRetriedOnce, Free
<1> QED
  BY <1>4, <1>5

LEMMA ProgressCleanup ==
    ASSUME TypeOK, SchedulerInv, CleanupInv,
           \/ ProgressShutdown \/ ProgressHold \/ ProgressRecycle
           \/ ProgressUnloaded \/ ProgressIdle \/ ProgressSwitch
           \/ ProgressServe \/ GrantDone
    PROVE  CleanupInv'
<1>1. /\ UNCHANGED <<failures, failOnce, lease, shuttingDown, shutdownReplies,
                     callerPhase, returned, cleanupError, results>>
      /\ pc \in {"progress", "grant"}
  BY DEF ProgressShutdown, ProgressHold, ProgressRecycle, ProgressUnloaded,
     ProgressIdle, ProgressSwitch, ProgressServe, GrantDone, Progressing,
     progressUnchanged, channelVars, requestVars, lifecycleVars, callerVars
<1>2. FailuresSound'
  BY <1>1, FailuresFrame DEF CleanupInv
<1>3. ~Done
  BY <1>1 DEF Done
<1>4. CondemnedByOwnLease'
  <2>1. CASE state' = "starting"
    BY <2>1 DEF CondemnedByOwnLease
  <2>2. CASE UNCHANGED generation /\ state' \in {state, "draining", "stopping",
                                                 "unloaded", "ready"}
    BY <1>1, <2>2, CondemnedFrame DEF CleanupInv
  <2> QED
    BY <2>1, <2>2 DEF ProgressShutdown, ProgressHold, ProgressRecycle,
       ProgressUnloaded, ProgressIdle, ProgressSwitch, ProgressServe, GrantDone,
       StopBackend, StartBackend
<1>5. StopsSound' /\ CleanupRetriedOnce'
  <2>1. CASE UNCHANGED <<current, operation, worker, stopCalls>> /\ ~Done'
    BY <1>1, <1>3, <2>1, StopsFrame DEF CleanupInv
  <2>2. CASE /\ StopBackend /\ current # NoAllocation /\ ~operation
             /\ shuttingDown \/ Free
             /\ pc' = "select"
    BY <1>1, <1>3, <2>2, StopBackendCleanup
  <2>3. CASE Free /\ \E a : StartBackend(a)
    <3>1. cleanupError = "none" /\ stopCalls' = 0 /\ cleanupError' = "none"
      BY <1>1, <2>3 DEF StartBackend, Free
    <3> QED
      BY <3>1 DEF StopsSound, CleanupRetriedOnce
  <2>4. CASE current = NoAllocation /\ UNCHANGED <<current, operation, worker,
                                                   stopCalls>>
    BY <1>1, <2>4 DEF CleanupInv, StopsSound, CleanupRetriedOnce
  <2>5. CASE ProgressShutdown
    BY <2>1, <2>2, <2>4, <2>5 DEF ProgressShutdown, Done
  <2>6. CASE ProgressHold \/ ProgressIdle \/ ProgressServe \/ GrantDone
    BY <2>1, <2>6 DEF ProgressHold, ProgressIdle, ProgressServe, GrantDone,
       lifecycleVars, Done
  <2>7. CASE ProgressRecycle \/ ProgressSwitch
    BY <2>1, <2>2, <2>7 DEF ProgressRecycle, Recycling, ProgressSwitch, Free, Done
  <2>8. CASE ProgressUnloaded
    BY <2>1, <2>3, <2>8 DEF ProgressUnloaded, Done
  <2> QED
    BY <2>5, <2>6, <2>7, <2>8
<1>6. RepliesSound'
  <2>1. CASE reply' = reply /\ ~Done'
    BY <1>1, <1>3, <2>1, RepliesFrame DEF CleanupInv
  <2>2. CASE current = NoAllocation /\ Finish("nil") /\ UNCHANGED resident
    <3>1. resident = {}
      BY <2>2, NoAllocationAssumption DEF SchedulerInv, ExclusiveResidency, TypeOK
    <3>2. \A s \in shutdownReplies : reply'[s] = "nil"
      BY <2>2 DEF Finish, TypeOK
    <3> QED
      BY <1>1, <1>3, <2>2, <3>1, <3>2 DEF CleanupInv, RepliesSound, TypeOK, Finish,
         Done
  <2>3. CASE ProgressShutdown
    BY <2>1, <2>2, <2>3 DEF ProgressShutdown, Done
  <2>4. CASE GrantDone
    BY <2>1, <2>4 DEF GrantDone, callerVars, Done
  <2>5. CASE \/ ProgressHold \/ ProgressRecycle \/ ProgressUnloaded
             \/ ProgressIdle \/ ProgressSwitch \/ ProgressServe
    BY <2>1, <2>5 DEF ProgressHold, ProgressRecycle, ProgressUnloaded,
       ProgressIdle, ProgressSwitch, ProgressServe, Progressing, Done
  <2> QED
    BY <2>3, <2>4, <2>5
<1> QED
  BY <1>2, <1>4, <1>5, <1>6 DEF CleanupInv

LEMMA GrantCleanup ==
    ASSUME TypeOK, SchedulerInv, QueueInv, CleanupInv, Grant
    PROVE  CleanupInv'
<1> DEFINE r == FirstOf(queue)
<1>1. r \in queue /\ r \in Requests
  BY FirstOfQueue DEF Grant, CanGrant, TypeOK
<1>2. /\ UNCHANGED <<pc, state, current, operation, cleanupError, stopCalls,
                     results, worker, resident, shuttingDown, shutdownReplies,
                     callerPhase, reply, returned, failures, failOnce>>
      /\ lease' = lease \/ lease' = [lease EXCEPT ![r] =
            [allocation |-> current, generation |-> generation,
             upstream |-> upstream]]
      /\ pc = "grant"
  BY DEF Grant, LeaseMissed, lifecycleVars, channelVars, callerVars
<1> HIDE DEF r
<1>3. r \notin failOnce
  <2>1. lease[r] = NoLease
    BY <1>1 DEF QueueInv, NoOvertaking, TypeOK
  <2> QED
    BY <2>1 DEF CleanupInv, FailuresSound
<1>4. FailuresSound'
  BY <1>1, <1>2, <1>3 DEF CleanupInv, FailuresSound, TypeOK
<1>5. CondemnedByOwnLease'
  BY <1>2 DEF SchedulerInv, LoopSound, CondemnedByOwnLease
<1>6. StopsSound' /\ CleanupRetriedOnce' /\ RepliesSound'
  BY <1>2, StopsFrame, RepliesFrame DEF CleanupInv, Done
<1> QED
  BY <1>4, <1>5, <1>6 DEF CleanupInv

LEMMA EventCleanup ==
    ASSUME TypeOK, CleanupInv,
           \/ \E r \in Requests : \/ ReceiveRequest(r) \/ ReceiveCancel(r)
                                  \/ ReceiveRelease(r) \/ ReceiveFailure(r)
           \/ \E s \in Callers : ReceiveShutdown(s)
    PROVE  CleanupInv'
<1> USE DEF Receiving, lifecycleVars, channelVars, requestVars, callerVars
<1>1. CASE \E r \in Requests : ReceiveRequest(r) \/ ReceiveCancel(r)
                               \/ ReceiveRelease(r)
  <2>1. /\ UNCHANGED <<state, current, generation, operation, cleanupError,
                       stopCalls, results, worker, resident, shuttingDown,
                       shutdownReplies, callerPhase, reply, returned, failures,
                       failOnce, lease>>
        /\ ~Done /\ ~Done'
    BY <1>1 DEF ReceiveRequest, ReceiveCancel, ReceiveRelease, Done
  <2> QED
    BY <2>1, StopsFrame, RepliesFrame, FailuresFrame, CondemnedFrame DEF CleanupInv
<1>2. ASSUME NEW r \in Requests, ReceiveFailure(r)
      PROVE  CleanupInv'
  <2>1. /\ UNCHANGED <<current, generation, operation, cleanupError, stopCalls,
                       results, worker, resident, shuttingDown, shutdownReplies,
                       callerPhase, reply, returned, failOnce, lease>>
        /\ ~Done /\ ~Done' /\ failures' \subseteq failures /\ r \in failures
        /\ state' = state \/ OfCurrent(r)
    BY <1>2 DEF ReceiveFailure, Done
  <2>2. StopsSound' /\ CleanupRetriedOnce' /\ RepliesSound'
    BY <2>1, StopsFrame, RepliesFrame DEF CleanupInv
  <2>3. FailuresSound'
    BY <2>1 DEF CleanupInv, FailuresSound
  <2>4. CondemnedByOwnLease'
    BY <2>1 DEF CleanupInv, FailuresSound, CondemnedByOwnLease, OfCurrent
  <2> QED
    BY <2>2, <2>3, <2>4 DEF CleanupInv
<1>3. ASSUME NEW s \in Callers, ReceiveShutdown(s)
      PROVE  CleanupInv'
  <2>1. /\ UNCHANGED <<state, current, generation, operation, cleanupError,
                       stopCalls, results, resident, reply, returned, failures,
                       failOnce, lease>>
        /\ ~Done /\ ~Done' /\ shuttingDown'
        /\ callerPhase' = [callerPhase EXCEPT ![s] = "waiting"]
        /\ shutdownReplies' = shutdownReplies \cup {s}
    BY <1>3 DEF ReceiveShutdown, Done
  <2>2. worker'.kind = worker.kind
    BY <1>3 DEF ReceiveShutdown, TypeOK, Operations, NoOperation
  <2>3. StopsSound' /\ CleanupRetriedOnce'
    BY <2>1, <2>2, StopsFrame DEF CleanupInv
  <2>4. RepliesSound'
    BY <2>1 DEF CleanupInv, RepliesSound, TypeOK
  <2> QED
    BY <2>1, <2>3, <2>4, FailuresFrame, CondemnedFrame DEF CleanupInv
<1> QED
  BY <1>1, <1>2, <1>3

LEMMA ResultCleanup ==
    ASSUME TypeOK, SchedulerInv, CleanupInv, ReceiveAnyResult
    PROVE  CleanupInv'
<1>1. /\ results # NoResult /\ results' = NoResult /\ ~operation' /\ pc = "select"
      /\ UNCHANGED <<generation, shuttingDown, shutdownReplies, worker, resident,
                     lease, failOnce, failures, callerPhase, returned, stopCalls>>
  BY DEF ReceiveAnyResult, ReceiveStarted, ReceiveStartFailed,
     ReceiveStartUncertain, ReceiveStopped, ReceiveStopFailed, ReceiveResult,
     channelVars
<1>2. Fresh /\ worker = NoOperation /\ worker'.kind = "none"
      /\ results'.kind = "none"
  BY <1>1 DEF SchedulerInv, NoOperationUnderLease, NoOperation, NoResult
<1>3. FailuresSound'
  BY <1>1, FailuresFrame DEF CleanupInv
<1>4. CondemnedByOwnLease'
  BY <1>2 DEF ReceiveAnyResult, ReceiveStarted, ReceiveStartFailed,
     ReceiveStartUncertain, ReceiveStopped, ReceiveStopFailed, CondemnedByOwnLease
<1>5. stopCalls <= 2 /\ (stopCalls = 2 => shuttingDown) /\ stopCalls \in Nat
  BY DEF CleanupInv, CleanupRetriedOnce, TypeOK
<1>6. CleanupRetriedOnce'
  BY <1>1, <1>5 DEF CleanupRetriedOnce
<1>7. results.kind = "start" => stopCalls = 0
  BY DEF CleanupInv, StopsSound
<1>8. StopsSound'
  <2>1. CASE ReceiveStarted \/ ReceiveStartFailed \/ ReceiveStartUncertain
    <3>1. stopCalls' = 0
      BY <1>1, <1>2, <1>7, <2>1 DEF ReceiveStarted, ReceiveStartFailed,
         PlainStartFailure, ReceiveStartUncertain
    <3> QED
      BY <3>1 DEF StopsSound
  <2>2. CASE ReceiveStopped
    BY <1>2, <2>2 DEF ReceiveStopped, StopsSound
  <2>3. CASE ReceiveStopFailed
    BY <1>1, <1>2, <1>5, <2>3 DEF ReceiveStopFailed, Finish, StopsSound, Free, Done
  <2> QED
    BY <2>1, <2>2, <2>3 DEF ReceiveAnyResult
<1>9. RepliesSound'
  <2>1. CASE reply' = reply /\ ~Done'
    BY <1>1, <2>1, RepliesFrame DEF CleanupInv, Done
  <2>2. CASE Finish("error")
    <3>1. \A s \in shutdownReplies : reply'[s] = "error"
      BY <2>2 DEF Finish, TypeOK
    <3> QED
      BY <1>1, <2>2, <3>1 DEF CleanupInv, RepliesSound, TypeOK, Finish, Done
  <2> QED
    BY <2>1, <2>2 DEF ReceiveAnyResult, ReceiveStarted, ReceiveStartFailed,
       ReceiveStartUncertain, ReceiveStopped, ReceiveStopFailed, Done
<1> QED
  BY <1>3, <1>4, <1>6, <1>8, <1>9 DEF CleanupInv

LEMMA LifecycleCleanup ==
    ASSUME TypeOK, SchedulerInv, CleanupInv, Lifecycle
    PROVE  CleanupInv'
<1>1. PICK err, left : Outcome(err, left)
  BY DEF Lifecycle, LifecycleStart, LifecycleStop
<1>2. /\ UNCHANGED <<state, current, generation, operation, cleanupError,
                     stopCalls, shuttingDown, shutdownReplies, callerPhase, reply,
                     returned, failures, failOnce, lease>>
      /\ Done' = Done /\ resident' \subseteq resident
      /\ results'.kind = worker.kind /\ worker'.kind = "none"
  BY <1>1 DEF Outcome, runVars, requestVars, channelVars, callerVars, Done,
     NoOperation
<1>3. StopsSound' /\ CleanupRetriedOnce'
  BY <1>2 DEF CleanupInv, StopsSound, CleanupRetriedOnce, Free
<1> QED
  BY <1>2, <1>3, RepliesFrame, FailuresFrame, CondemnedFrame DEF CleanupInv

LEMMA RequestCleanup ==
    ASSUME TypeOK, CleanupInv, NEW r \in Requests, Request(r)
    PROVE  CleanupInv'
<1>1. /\ UNCHANGED <<pc, state, current, generation, operation, cleanupError,
                     stopCalls, results, worker, resident, shuttingDown,
                     shutdownReplies, callerPhase, reply, returned, lease>>
      /\ failOnce \subseteq failOnce'
      /\ \/ UNCHANGED <<failures, failOnce>>
         \/ /\ lease[r] # NoLease /\ failOnce' = failOnce \cup {r}
            /\ failures' \subseteq failures \cup {r}
  BY DEF Request, AcquireUnknown, Acquire, CancelContext, AcquireGivesUp,
     AcquireCancelled, SendCancel, Release, Fail, runVars, lifecycleVars,
     channelVars, callerVars
<1>2. FailuresSound'
  BY <1>1 DEF CleanupInv, FailuresSound
<1>3. StopsSound' /\ CleanupRetriedOnce' /\ RepliesSound' /\ CondemnedByOwnLease'
  BY <1>1, StopsFrame, RepliesFrame, CondemnedFrame DEF CleanupInv, Done
<1> QED
  BY <1>2, <1>3 DEF CleanupInv

LEMMA CallerCleanup ==
    ASSUME TypeOK, CleanupInv, NEW s \in Callers, Caller(s)
    PROVE  CleanupInv'
<1>1. /\ UNCHANGED <<pc, state, current, generation, operation, cleanupError,
                     stopCalls, results, worker, resident, shuttingDown,
                     shutdownReplies, reply, failures, failOnce, lease>>
  BY DEF Caller, Shutdown, ShutdownExpires, ShutdownReturns, callerUnchanged,
     runVars, lifecycleVars, requestVars, channelVars
<1>2. RepliesSound'
  <2>1. CASE Shutdown(s)
    BY <1>1, <2>1 DEF Shutdown, CleanupInv, RepliesSound, TypeOK, Done
  <2>2. CASE ShutdownExpires(s)
    BY <1>1, <2>2 DEF ShutdownExpires, CleanupInv, RepliesSound, TypeOK, Done
  <2>3. CASE ShutdownReturns(s)
    BY <1>1, <2>3 DEF ShutdownReturns, ShutdownResult, CleanupInv, RepliesSound,
       TypeOK, Done
  <2> QED
    BY <2>1, <2>2, <2>3 DEF Caller
<1> QED
  BY <1>1, <1>2, StopsFrame, FailuresFrame, CondemnedFrame DEF CleanupInv, Done

LEMMA CleanupInvStep ==
    TypeOK /\ SchedulerInv /\ QueueInv /\ CleanupInv /\ [Next]_vars => CleanupInv'
<1> SUFFICES ASSUME TypeOK, SchedulerInv, QueueInv, CleanupInv, [Next]_vars
             PROVE  CleanupInv'
  OBVIOUS
<1>1. CASE Terminating \/ UNCHANGED vars
  <2>1. UNCHANGED <<pc, state, current, generation, operation, cleanupError,
                    stopCalls, results, worker, resident, shuttingDown,
                    shutdownReplies, callerPhase, reply, returned, failures,
                    failOnce, lease>>
    BY <1>1 DEF Terminating, vars, runVars, lifecycleVars, requestVars,
       channelVars, callerVars
  <2> QED
    BY <2>1, StopsFrame, RepliesFrame, FailuresFrame, CondemnedFrame
       DEF CleanupInv, Done
<1> QED
  BY <1>1, ProgressCleanup, GrantCleanup, EventCleanup, ResultCleanup,
     LifecycleCleanup, RequestCleanup, CallerCleanup DEF Next, Progress, Receive

LEMMA CleanupInvInit == Init => CleanupInv
BY DEF Init, CleanupInv, FailuresSound, CondemnedByOwnLease, StopsSound,
   CleanupRetriedOnce, RepliesSound, NoOperation, NoResult, Done

\* A backend is condemned only by its own leases, cleaned up once, or twice
\* when Shutdown asks again, and a Shutdown that returned nil left no backend and
\* no lease behind.
THEOREM CleanedUp == Spec => []CleanupDiscipline
<1>1. TypeOK /\ SchedulerInv /\ CleanupInv => CleanupDiscipline
  <2> SUFFICES ASSUME TypeOK, SchedulerInv, CleanupInv
               PROVE  CleanShutdown
    BY DEF CleanupInv, CleanupDiscipline
  <2> QED
    BY DEF CleanupInv, RepliesSound, SchedulerInv, LoopSound, CleanShutdown, TypeOK
<1> QED
  BY <1>1, QueueInvInit, QueueInvStep, CleanupInvInit, CleanupInvStep, TypeCorrect,
     Invariance, PTL DEF Spec

=============================================================================
