----------------------------- MODULE ChatRequest -----------------------------
(***************************************************************************)
(* Chat requests and the request ledger: chat and completeRequest of       *)
(* internal/gateway/server.go, Track, Untrack and Lookup of                *)
(* request_reports.go, Add, Recent and Snapshot of observability.go and    *)
(* usage.go, and the order in which commands_gateway.go shuts down.        *)
(*                                                                         *)
(* Each element of Requests is one handler goroutine.  The ledger is       *)
(* shared by them under its mutex, so each of its methods is one step.     *)
(* The scheduler is what Acquire can return (see Scheduler), the reverse   *)
(* proxy and the upstream are external: a round trip fails, or answers     *)
(* with a status and a body that is relayed whole or breaks off.           *)
(*                                                                         *)
(* A record keeps its request, its session and its outcome.  Of the usage  *)
(* aggregates only the number of requests is kept; the other sums are      *)
(* added alongside it.                                                     *)
(***************************************************************************)
EXTENDS Integers, Sequences, FiniteSets

CONSTANTS
    Requests, Sessions,
    None,            \* no session ID
    RecentLimit,     \* RecentRequestLimit
    ActiveLimit,     \* ActiveRequestLimit
    SessionLimit     \* RecentSessionLimit

ASSUME LimitsAssumption ==
    /\ {RecentLimit, ActiveLimit, SessionLimit} \subseteq Nat \ {0}
    /\ SessionLimit >= RecentLimit
    /\ None \notin Sessions \cup Requests

VARIABLES
    server,        \* runGateway: serving, draining, drained, closed
    pc, gone,      \* where each handler is; requests whose context has ended
    \* local variables of chat: record, lease, observedWriter.status
    session, known, outcome, status, lease, proxyFailed, proxyAborted,
    \* requestLedger
    active, sequence, entries, overall, sessions,
    \* calls of Statistics.Record and of Lease.Fail
    persisted, blamed,
    \* history: upstream failed, the response was relayed to its end, the
    \* records added so far
    broken, whole, added

ledgerVars == <<active, sequence, entries, overall, sessions, added>>
recordVars == <<session, known, outcome, status>>
proxyVars == <<lease, proxyFailed, proxyAborted, blamed, broken, whole>>
vars == <<server, pc, gone, recordVars, proxyVars, ledgerVars, persisted>>

-----------------------------------------------------------------------------
NoEntry == [sequence |-> 0, id |-> None]
NoSession == [last |-> 0, requests |-> 0]

InProgress(r) == pc[r] \notin {"idle", "done"}
Tracked == {r \in Requests : active[r] # "none"}
Retained == {s \in Sessions : sessions[s] # NoSession}

Init ==
    /\ server = "serving"
    /\ pc = [r \in Requests |-> "idle"]
    /\ gone = {}
    /\ session = [r \in Requests |-> None]
    /\ known = {}
    /\ outcome = [r \in Requests |-> "none"]
    /\ status = [r \in Requests |-> "none"]
    /\ lease = [r \in Requests |-> "none"]
    /\ proxyFailed = {} /\ proxyAborted = {}
    /\ blamed = {} /\ broken = {} /\ whole = {}
    /\ active = [r \in Requests |-> "none"]
    /\ sequence = 0
    /\ entries = [i \in 0..(RecentLimit - 1) |-> NoEntry]
    /\ overall = 0
    /\ sessions = [s \in Sessions |-> NoSession]
    /\ persisted = [r \in Requests |-> 0]
    /\ added = <<>>

-----------------------------------------------------------------------------
(* requestLedger.                                                          *)

\* Mutant: a full cache makes room.
Track_Evicts(r, phase) ==
    IF r \in Tracked \/ Cardinality(Tracked) < ActiveLimit
    THEN active' = [active EXCEPT ![r] = phase]
    ELSE \E old \in Tracked :
           active' = [active EXCEPT ![old] = "none", ![r] = phase]

\* Track: a full cache leaves the request untracked for now.
Track(r, phase) ==
    IF r \in Tracked \/ Cardinality(Tracked) < ActiveLimit
    THEN active' = [active EXCEPT ![r] = phase]
    ELSE UNCHANGED active

\* Mutant: the wrong end of the order of use.
Victim_Newest ==
    CHOOSE t \in Retained : \A u \in Retained : sessions[u].last <= sessions[t].last

\* The session that was used least recently.
Victim ==
    CHOOSE t \in Retained : \A u \in Retained : sessions[t].last <= sessions[u].last

\* addUsage for the n-th record, of session s: a new session replaces the
\* victim when the table is full.
addUsage(s, n) ==
    /\ overall' = overall + 1
    /\ LET full == /\ s # None /\ s \notin Retained
                   /\ Cardinality(Retained) = SessionLimit
       IN  sessions' =
             [t \in Sessions |->
                IF t = s THEN [last |-> n, requests |-> sessions[s].requests + 1]
                ELSE IF full /\ t = Victim THEN NoSession
                ELSE sessions[t]]

\* Add: into the ring and out of the active cache.
Add(r) ==
    LET n == sequence + 1
    IN  /\ sequence' = n
        /\ entries' = [entries EXCEPT ![(n - 1) % RecentLimit] =
                         [sequence |-> n, id |-> r]]
        /\ active' = [active EXCEPT ![r] = "none"]
        /\ addUsage(session[r], n)
        /\ added' = Append(added, r)

\* Lookup: what a report on r says.
Lookup(r) ==
    IF \E i \in DOMAIN entries : entries[i].id = r THEN "completed"
    ELSE active[r]

\* recentLocked(limit), newest first.
Recent(limit) ==
    LET count == IF limit < sequence THEN limit ELSE sequence
        slot(offset) == entries[(sequence - offset - 1) % RecentLimit]
        valid == {o \in 0..(count - 1) : slot(o).sequence = sequence - o}
        before(o) == Cardinality({v \in valid : v < o})
    IN  [k \in 1..Cardinality(valid) |->
            slot(CHOOSE o \in valid : before(o) = k - 1).id]

-----------------------------------------------------------------------------
(* chat.                                                                   *)

Goto(r, step) == pc' = [pc EXCEPT ![r] = step]

\* The outcome and what was written are settled; completeRequest follows.
Ends(r, result, written) ==
    /\ outcome' = [outcome EXCEPT ![r] = result]
    /\ status' = [status EXCEPT ![r] = written]
    /\ Goto(r, "completing")

\* A request arrives, with a session ID or without, and is tracked; accepting is
\* looked at once.
Chat(r, s) ==
    /\ pc[r] = "idle" /\ server \in {"serving", "draining"}
    /\ session' = [session EXCEPT ![r] = s]
    /\ Track(r, "receiving")
    /\ IF server = "serving"
       THEN Goto(r, "receiving") /\ UNCHANGED <<outcome, status>>
       ELSE Ends(r, "rejected", "error")
    /\ UNCHANGED <<server, gone, known, proxyVars, sequence, entries, overall,
                   sessions, added, persisted>>

\* The body cannot be read, is too large or malformed, or names no model here.
Refuse(r) ==
    /\ pc[r] = "receiving"
    /\ \/ r \in gone /\ Ends(r, "canceled", "none")
       \/ Ends(r, "rejected", "error")
    /\ UNCHANGED <<server, gone, session, known, proxyVars, ledgerVars,
                   persisted>>

\* The model is known, but its media or reasoning controls are not acceptable.
RefuseControls(r) ==
    /\ pc[r] = "receiving"
    /\ known' = known \cup {r}
    /\ Ends(r, "rejected", "error")
    /\ UNCHANGED <<server, gone, session, proxyVars, ledgerVars, persisted>>

\* Everything is acceptable: on to Acquire.
Accept(r) ==
    /\ pc[r] = "receiving"
    /\ known' = known \cup {r}
    /\ Track(r, "waiting")
    /\ Goto(r, "acquiring")
    /\ UNCHANGED <<server, gone, session, outcome, status, proxyVars, sequence,
                   entries, overall, sessions, added, persisted>>

\* Acquire returns an error.  ErrShuttingDown needs a scheduler shut down
\* before the handlers are gone, which runGateway never does.
AcquireFails(r) ==
    /\ pc[r] = "acquiring"
    /\ \/ r \in gone /\ Ends(r, "canceled", "none")
       \/ \E failure \in {"queue-full", "backend-start-failed"} :
             Ends(r, failure, "error")
    /\ UNCHANGED <<server, gone, session, known, proxyVars, ledgerVars,
                   persisted>>

\* Acquire returns a lease.
Acquired(r) ==
    /\ pc[r] = "acquiring"
    /\ lease' = [lease EXCEPT ![r] = "held"]
    /\ Track(r, "upstream")
    /\ Goto(r, "proxying")
    /\ UNCHANGED <<server, gone, recordVars, proxyFailed, proxyAborted, blamed,
                   broken, whole, sequence, entries, overall, sessions, added,
                   persisted>>

\* lease.Fail, with proxyFailed.
FailLease(r) == proxyFailed' = proxyFailed \cup {r} /\ blamed' = blamed \cup {r}

\* The round trip fails: ErrorHandler.  A request that is still wanted fails
\* because of its upstream.
RoundTripFails(r) ==
    /\ pc[r] = "proxying"
    /\ IF r \in gone
       THEN UNCHANGED <<proxyFailed, blamed, broken, status>>
       ELSE /\ FailLease(r)
            /\ broken' = broken \cup {r}
            /\ status' = [status EXCEPT ![r] = "error"]
    /\ Goto(r, "proxied")
    /\ UNCHANGED <<server, gone, session, known, outcome, lease, proxyAborted,
                   whole, ledgerVars, persisted>>

\* Upstream answers, with success or an error status.
Answers(r) == \E answer \in {"ok", "error"} : status' = [status EXCEPT ![r] = answer]

\* The body is relayed to its end.
Relayed(r) ==
    /\ pc[r] = "proxying"
    /\ Answers(r)
    /\ whole' = whole \cup {r}
    /\ Goto(r, "proxied")
    /\ UNCHANGED <<server, gone, session, known, outcome, lease, proxyFailed,
                   proxyAborted, blamed, broken, ledgerVars, persisted>>

\* Mutant: an abort is always the backend's fault.
Aborted_AnyContext(r) == TRUE

\* proxyAborted, and the client was still there.
Aborted(r) == r \notin gone'

\* It breaks off, and the proxy panics with ErrAbortHandler: upstream failed,
\* or the client did, in which case net/http has ended the context.  Then the
\* first look at the context.
RelayBreaks(r) ==
    /\ pc[r] = "proxying"
    /\ Answers(r)
    /\ \/ broken' = broken \cup {r} /\ UNCHANGED gone
       \/ gone' = gone \cup {r} /\ UNCHANGED broken
    /\ proxyAborted' = proxyAborted \cup {r}
    /\ IF Aborted(r) THEN FailLease(r) ELSE UNCHANGED <<proxyFailed, blamed>>
    /\ Goto(r, "proxied")
    /\ UNCHANGED <<server, session, known, outcome, lease, whole, ledgerVars,
                   persisted>>

\* The second look decides the outcome.
Outcome(r) ==
    /\ pc[r] = "proxied"
    /\ outcome' = [outcome EXCEPT ![r] =
         IF r \in gone THEN "canceled"
         ELSE IF r \in proxyFailed \/ status[r] = "error" THEN "upstream-error"
         ELSE "succeeded"]
    /\ Goto(r, "completing")
    /\ UNCHANGED <<server, gone, session, known, status, proxyVars, ledgerVars,
                   persisted>>

\* completeRequest: the ledger,
Complete(r) ==
    /\ pc[r] = "completing"
    /\ Add(r)
    /\ Goto(r, "returning")
    /\ UNCHANGED <<server, gone, recordVars, proxyVars, persisted>>

\* then the durable statistics, for models of the inventory; then the deferred
\* Release and Untrack, also when chat panics.
Return(r) ==
    /\ pc[r] = "returning"
    /\ persisted' = IF r \in known
                    THEN [persisted EXCEPT ![r] = @ + 1] ELSE persisted
    /\ lease' = [lease EXCEPT ![r] = IF @ = "held" THEN "released" ELSE @]
    /\ active' = [active EXCEPT ![r] = "none"]
    /\ Goto(r, "done")
    /\ UNCHANGED <<server, gone, recordVars, proxyFailed, proxyAborted, blamed,
                   broken, whole, sequence, entries, overall, sessions, added>>

\* The client closes its connection: net/http ends the context.
ClientLeaves(r) ==
    /\ InProgress(r) /\ r \notin gone
    /\ gone' = gone \cup {r}
    /\ UNCHANGED <<server, pc, recordVars, proxyVars, ledgerVars, persisted>>

-----------------------------------------------------------------------------
(* runGateway.                                                             *)

\* A stop request, a signal or a failing listener.
BeginShutdown ==
    /\ server = "serving"
    /\ server' = "draining"
    /\ UNCHANGED <<pc, gone, recordVars, proxyVars, ledgerVars, persisted>>

\* server.Shutdown returns when every handler has returned.
ServerShutdown ==
    /\ server = "draining"
    /\ \A r \in Requests : ~InProgress(r)
    /\ server' = "drained"
    /\ UNCHANGED <<pc, gone, recordVars, proxyVars, ledgerVars, persisted>>

\* The scheduler is shut down, then the statistics are closed.
CloseStatistics ==
    /\ server = "drained"
    /\ server' = "closed"
    /\ UNCHANGED <<pc, gone, recordVars, proxyVars, ledgerVars, persisted>>

-----------------------------------------------------------------------------
Handler(r) == \/ \E s \in Sessions \cup {None} : Chat(r, s)
              \/ Refuse(r) \/ RefuseControls(r) \/ Accept(r)
              \/ AcquireFails(r) \/ Acquired(r)
              \/ RoundTripFails(r) \/ Relayed(r) \/ RelayBreaks(r) \/ Outcome(r)
              \/ Complete(r) \/ Return(r)

Next == \/ \E r \in Requests : Handler(r) \/ ClientLeaves(r)
        \/ BeginShutdown \/ ServerShutdown \/ CloseStatistics

Spec == Init /\ [][Next]_vars

-----------------------------------------------------------------------------
(* Properties.                                                             *)

\* The last n records added, and those of them that belong to session s.
Newest(n) == {i \in DOMAIN added : i > Len(added) - n}
OfSession(s, I) == {i \in I : session[added[i]] = s}

\* How far the report on a request has come.
Progress(report) ==
    CASE report = "none" -> 0
      [] report = "receiving" -> 1
      [] report = "waiting" -> 2
      [] report = "upstream" -> 3
      [] report = "completed" -> 4

\* "Probes can poll until a report is completed" (gateway.md:642): once a
\* request is reported, a later report never goes back to an earlier phase and
\* never disappears, neither between the active cache and the ring nor to a
\* newcomer when the cache is full, before RecentLimit others have completed.
ReportContinuous ==
    [][\A r \in Requests :
         \/ Progress(Lookup(r))' >= Progress(Lookup(r))
         \/ /\ Lookup(r) = "completed"
            /\ \A i \in Newest(RecentLimit)' : added'[i] # r]_vars

\* Snapshot and Recent: for every limit the newest records in order, and for
\* every session of the recent window an aggregate that counts at least its
\* records in the window, however sessions replace each other.
SnapshotExact ==
    /\ \A limit \in 1..RecentLimit :
          Recent(limit) = [k \in 1..Cardinality(Newest(limit)) |->
                             added[Len(added) - k + 1]]
    /\ \A s \in Sessions :
          sessions[s].requests >=
            Cardinality(OfSession(s, Newest(RecentLimit)))
    /\ overall = Len(added)

\* On every way out of chat, a panic included, the request has been added to
\* the ledger once, given to the statistics once if its model is known, and
\* its lease is back; and the statistics close only after that ("HTTP drains
\* before the writer closes", architecture.md:855).
Accounted ==
    /\ \A r \in Requests : pc[r] = "done" =>
          /\ Cardinality({i \in DOMAIN added : added[i] = r}) = 1
          /\ persisted[r] = IF r \in known THEN 1 ELSE 0
          /\ lease[r] # "held"
    /\ server = "closed" => \A r \in Requests : ~InProgress(r)

\* What is recorded is what happened, whenever the client left: success means
\* a whole response without an error, a backend is condemned only when it
\* failed (never because a client went away), and an upstream error has an
\* upstream cause.
OutcomeIsTrue ==
    /\ blamed \subseteq broken
    /\ \A r \in Requests :
         /\ outcome[r] = "succeeded" =>
               r \in whole /\ status[r] = "ok" /\ r \notin blamed
         /\ outcome[r] = "canceled" => r \in gone
         /\ outcome[r] = "upstream-error" => r \in broken \/ status[r] = "error"

\* Every request is accounted for once and for what it was.
LedgerTrue == Accounted /\ OutcomeIsTrue

-----------------------------------------------------------------------------
(* The inductive invariant behind the properties.                          *)

Steps == {"idle", "receiving", "acquiring", "proxying", "proxied", "completing",
          "returning", "done"}

ControlTypeOK ==
    /\ server \in {"serving", "draining", "drained", "closed"}
    /\ pc \in [Requests -> Steps]
    /\ session \in [Requests -> Sessions \cup {None}]
    /\ outcome \in [Requests -> {"none", "succeeded", "canceled", "rejected",
                                 "queue-full", "backend-start-failed",
                                 "upstream-error"}]
    /\ status \in [Requests -> {"none", "ok", "error"}]
    /\ lease \in [Requests -> {"none", "held", "released"}]
    /\ persisted \in [Requests -> Nat]
    /\ blamed \subseteq Requests

LedgerTypeOK ==
    /\ active \in [Requests -> {"none", "receiving", "waiting", "upstream"}]
    /\ sequence \in Nat /\ overall \in Nat
    /\ entries \in [0..(RecentLimit - 1) ->
                       [sequence: Nat, id: Requests \cup {None}]]
    /\ sessions \in [Sessions -> [last: Nat, requests: Nat]]
    /\ added \in Seq(Requests)

TypeOK == ControlTypeOK /\ LedgerTypeOK

\* A request is in the ledger's history once, from completeRequest on.
AddedOnce ==
    /\ sequence = Len(added) /\ overall = Len(added)
    /\ \A i, j \in DOMAIN added : added[i] = added[j] => i = j
    /\ \A r \in Requests :
          pc[r] \in {"returning", "done"} <=> \E i \in DOMAIN added : added[i] = r

\* The ring holds the newest records, each in its slot, and nothing else.
RingSound ==
    /\ \A i \in Newest(RecentLimit) :
          entries[(i - 1) % RecentLimit] = [sequence |-> i, id |-> added[i]]
    /\ \A k \in DOMAIN entries :
          \/ entries[k] = NoEntry
          \/ /\ entries[k].sequence \in Newest(RecentLimit)
             /\ k = (entries[k].sequence - 1) % RecentLimit
             /\ entries[k].id = added[entries[k].sequence]

\* The table knows the last use of every session it retains; one that it does
\* not retain has no record in the recent window.
SessionsSound ==
    \A s \in Sessions :
        /\ sessions[s].requests >= Cardinality(OfSession(s, Newest(RecentLimit)))
        /\ s \in Retained =>
              /\ sessions[s].last \in DOMAIN added
              /\ session[added[sessions[s].last]] = s
              /\ \A i \in DOMAIN added :
                    session[added[i]] = s => i <= sessions[s].last
        /\ s \notin Retained => OfSession(s, Newest(RecentLimit)) = {}

\* What the place of a handler says of its report, its lease and its record.
HandlerSound(r) ==
    /\ pc[r] \in {"idle", "returning", "done"} => active[r] = "none"
    /\ pc[r] = "receiving" => active[r] \in {"none", "receiving"}
    /\ pc[r] = "acquiring" => active[r] \in {"none", "waiting"}
    /\ pc[r] \in {"proxying", "proxied"} => active[r] \in {"none", "upstream"}
    /\ pc[r] = "done" => lease[r] # "held"
    /\ persisted[r] = IF pc[r] = "done" /\ r \in known THEN 1 ELSE 0
    /\ pc[r] \notin {"completing", "returning", "done"} => outcome[r] = "none"

\* How the proxy left off decides the outcome.
ProxySound(r) ==
    /\ r \in proxyFailed <=> r \in blamed
    /\ r \in blamed => r \in broken
    /\ pc[r] = "proxied" =>
          \/ r \in gone \/ r \in proxyFailed
          \/ r \in whole /\ status[r] \in {"ok", "error"}
    /\ outcome[r] = "succeeded" => r \in whole /\ status[r] = "ok" /\ r \notin blamed
    /\ outcome[r] = "canceled" => r \in gone
    /\ outcome[r] = "upstream-error" => r \in broken \/ status[r] = "error"

ServerSound ==
    server \in {"drained", "closed"} => \A r \in Requests : ~InProgress(r)

ChatInv ==
    /\ TypeOK /\ AddedOnce /\ RingSound /\ SessionsSound /\ ServerSound
    /\ \A r \in Requests : HandlerSound(r) /\ ProxySound(r)

=============================================================================
