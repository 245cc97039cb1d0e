----------------------------- MODULE LeaseManager -----------------------------
(***************************************************************************)
(* What the gateway's scheduler promises the rest of the gateway, without  *)
(* queues, channels or lifecycle goroutines: at most one backend owns the  *)
(* accelerator, leases are handed out only on that backend and within its  *)
(* concurrency limit, a condemned backend gets no further lease, and the   *)
(* owner changes only when no lease is out.  Scheduler implements it.      *)
(***************************************************************************)
EXTENDS Integers, FiniteSets

CONSTANTS Requests, Allocations, NoAllocation, Limits

VARIABLES
    owner,      \* the allocation whose backend may be resident, or NoAllocation
    epoch,      \* how many backends there have been
    holders,    \* requests with a lease on the owner's backend
    condemned   \* the owner gets no further lease

vars == <<owner, epoch, holders, condemned>>

Init ==
    /\ owner = NoAllocation
    /\ epoch = 0
    /\ holders = {}
    /\ condemned = FALSE

\* A backend of allocation a is about to be started.
Adopt(a) ==
    /\ owner = NoAllocation
    /\ owner' = a
    /\ epoch' = epoch + 1
    /\ condemned' = FALSE
    /\ UNCHANGED holders

Grant(r) ==
    /\ owner # NoAllocation
    /\ ~condemned
    /\ r \notin holders
    /\ Limits[owner] = 0 \/ Cardinality(holders) < Limits[owner]
    /\ holders' = holders \cup {r}
    /\ UNCHANGED <<owner, epoch, condemned>>

Return(r) ==
    /\ r \in holders
    /\ holders' = holders \ {r}
    /\ UNCHANGED <<owner, epoch, condemned>>

\* The backend failed, is being stopped, or the gateway shuts down.
Condemn ==
    /\ owner # NoAllocation
    /\ condemned' = TRUE
    /\ UNCHANGED <<owner, epoch, holders>>

\* The backend is gone.
Drop ==
    /\ owner # NoAllocation
    /\ holders = {}
    /\ owner' = NoAllocation
    /\ condemned' = FALSE
    /\ UNCHANGED <<epoch, holders>>

Next ==
    \/ \E a \in Allocations : Adopt(a)
    \/ \E r \in Requests : Grant(r) \/ Return(r)
    \/ Condemn
    \/ Drop

Spec == Init /\ [][Next]_vars

=============================================================================
