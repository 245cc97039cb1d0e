------------------------------ MODULE Statistics ------------------------------
(***************************************************************************)
(* Durable usage statistics of the gateway, internal/gateway/statistics.go *)
(* and statistics_sqlite.go.                                               *)
(*                                                                         *)
(* Request handlers call Record, which never waits: a full queue drops the *)
(* event and counts it.  One goroutine (writeLoop) moves batches into the  *)
(* database, a reader (Snapshot) reports totals, Close drains, and the     *)
(* process may be killed at any time and started again over the same       *)
(* database.                                                               *)
(*                                                                         *)
(* An event is its UTC day: of the nineteen counters only "requests" is    *)
(* kept, the others are added alongside it, and the model and application  *)
(* keys split the same sums.  Saturation at 2^63-1 is left out.  A SQLite  *)
(* transaction is one atomic step (external).                              *)
(***************************************************************************)
EXTENDS Integers, Sequences, FiniteSets

CONSTANTS
    Capacity,     \* capacity of queue, 1024 in NewStatistics
    BatchMax,     \* events per transaction, 128 in writeLoop
    Retention,    \* RetentionDays
    Period,       \* days a snapshot shows: 1, 7 or 30 in Snapshot
    MaxDay,       \* bound: days that pass
    MaxRecords,   \* bound: calls of Record
    MaxLives,     \* bound: times the gateway is started
    Faults        \* whether opening, reading or writing may fail

ASSUME StatisticsAssumption ==
    /\ {Capacity, BatchMax, Retention, Period, MaxDay} \subseteq Nat \ {0}
    /\ Period <= Retention
    /\ {MaxRecords, MaxLives} \subseteq Nat
    /\ Faults \in BOOLEAN

VARIABLES
    \* the database
    usage, health, clean,
    \* fields of Statistics
    life, queue, closed, dropped, pending, failed, persistedDropped,
    maintenanceDay, backoff, closeErr,
    \* Record under mu, writeLoop, and the owner of dbMu
    recorder, writer, batch, sampled, dbMu,
    \* the reader
    reader, snap,
    \* time and history: calls of Record that returned, per day of the event;
    \* calls made while there was no database; and what had been recorded when
    \* the reader started
    day, lives, recorded, missed, seen

dbVars == <<usage, health, clean>>
lifeVars == <<life, closed, closeErr>>
memoVars == <<persistedDropped, maintenanceDay, backoff>>
writerVars == <<writer, batch, sampled>>
counterVars == <<dropped, pending, failed>>
readerVars == <<reader, snap, seen>>
historyVars == <<lives, recorded, missed>>
vars == <<dbVars, lifeVars, queue, counterVars, memoVars, recorder,
          writerVars, dbMu, readerVars, day, historyVars>>

-----------------------------------------------------------------------------
Days == 1..MaxDay
NoDay == 0

\* life: not running, serving, serving without a database, in Close, closed.
Lives == {"stopped", "open", "unavailable", "closing", "closed"}
NoRecord == [step |-> "idle", event |-> NoDay]
NoSample == [dropped |-> 0, today |-> NoDay]
NoSnapshot == [usage |-> [d \in Days |-> 0], dropped |-> 0, pending |-> 0,
               incomplete |-> FALSE, cutoff |-> 0, to |-> 0, ready |-> FALSE]

\* The sum over all days.
Total(f) ==
    LET upTo[d \in 0..MaxDay] == IF d = 0 THEN 0 ELSE upTo[d - 1] + f[d]
    IN  upTo[MaxDay]

Zero == [d \in Days |-> 0]
NoLoss == [dropped |-> 0, incomplete |-> FALSE]
HealthDropped(h) == Total([d \in Days |-> h[d].dropped])
CountOf(events, d) == Cardinality({i \in DOMAIN events : events[i] = d})

\* The oldest day kept.
Cutoff == day + 1 - Retention

\* The days of a snapshot that ends on day to.
Shown(to) == {d \in Days : d > to - Period /\ d <= to}

\* expire(): rows before the cutoff go.
ExpireUsage(u) == [d \in Days |-> IF d < Cutoff THEN 0 ELSE u[d]]
ExpireHealth(h) == [d \in Days |-> IF d < Cutoff THEN NoLoss ELSE h[d]]

Init ==
    /\ usage = Zero
    /\ health = [d \in Days |-> NoLoss]
    /\ clean = TRUE
    /\ life = "stopped"
    /\ queue = <<>>
    /\ closed = FALSE
    /\ dropped = 0
    /\ pending = 0
    /\ failed = FALSE
    /\ persistedDropped = 0
    /\ maintenanceDay = NoDay
    /\ backoff = FALSE
    /\ closeErr = FALSE
    /\ recorder = NoRecord
    /\ writer = "done"
    /\ batch = <<>>
    /\ sampled = NoSample
    /\ dbMu = "free"
    /\ reader = "idle"
    /\ snap = NoSnapshot
    /\ day = 1
    /\ lives = 0
    /\ recorded = Zero
    /\ missed = 0
    /\ seen = Zero

-----------------------------------------------------------------------------
(* newStatistics and open.                                                 *)

\* Mutant: an unclean stop leaves no mark.
OpenTransaction_IgnoresUnclean ==
    /\ clean' = FALSE
    /\ usage' = ExpireUsage(usage)
    /\ health' = ExpireHealth(health)

\* The transaction of open(): an unclean stop is marked on today's row, the
\* new run is unclean until it closes, and old rows expire.
OpenTransaction ==
    /\ clean' = FALSE
    /\ usage' = ExpireUsage(usage)
    /\ health' = ExpireHealth(IF clean THEN health
                              ELSE [health EXCEPT ![day].incomplete = TRUE])

\* open() succeeds and the writer starts.
Open ==
    /\ life = "stopped" /\ lives < MaxLives
    /\ lives' = lives + 1
    /\ life' = "open"
    /\ OpenTransaction
    /\ dropped' = HealthDropped(health')
    /\ persistedDropped' = HealthDropped(health')
    /\ maintenanceDay' = day
    /\ pending' = 0
    /\ failed' = FALSE
    /\ closed' = FALSE
    /\ closeErr' = FALSE
    /\ backoff' = FALSE
    /\ writer' = "select"
    /\ UNCHANGED <<queue, recorder, batch, sampled, dbMu, readerVars, day,
                   recorded, missed>>

\* open() fails, before its transaction or after it: there is no queue, no
\* writer and no database, and Record does nothing.
OpenFails ==
    /\ Faults
    /\ life = "stopped" /\ lives < MaxLives
    /\ lives' = lives + 1
    /\ life' = "unavailable"
    /\ OpenTransaction \/ UNCHANGED dbVars
    /\ failed' = TRUE
    /\ dropped' = 0 /\ persistedDropped' = 0 /\ pending' = 0
    /\ closed' = FALSE
    /\ closeErr' = FALSE
    /\ UNCHANGED <<queue, maintenanceDay, backoff, recorder, writerVars, dbMu,
                   readerVars, day, recorded, missed>>

-----------------------------------------------------------------------------
(* Record, which holds mu from RecordBegins until it returns.              *)

\* The event is dated today.
RecordBegins ==
    /\ life \in {"open", "closing"}
    /\ recorder = NoRecord
    /\ ~closed
    /\ Total(recorded) + missed < MaxRecords
    /\ pending' = pending + 1
    /\ recorder' = [step |-> "sending", event |-> day]
    /\ UNCHANGED <<dbVars, lifeVars, queue, dropped, failed, memoVars,
                   writerVars, dbMu, readerVars, day, historyVars>>

\* The event fits into the queue.
RecordSends ==
    /\ recorder.step = "sending"
    /\ Len(queue) < Capacity
    /\ queue' = Append(queue, recorder.event)
    /\ recorded' = [recorded EXCEPT ![recorder.event] = @ + 1]
    /\ recorder' = NoRecord
    /\ UNCHANGED <<dbVars, lifeVars, counterVars, memoVars, writerVars, dbMu,
                   readerVars, day, lives, missed>>

\* It does not: pending goes down again,
RecordOverflows ==
    /\ recorder.step = "sending"
    /\ Len(queue) >= Capacity
    /\ pending' = pending - 1
    /\ recorder' = [recorder EXCEPT !.step = "dropping"]
    /\ UNCHANGED <<dbVars, lifeVars, queue, dropped, failed, memoVars,
                   writerVars, dbMu, readerVars, day, historyVars>>

\* and dropped goes up.
RecordDrops ==
    /\ recorder.step = "dropping"
    /\ dropped' = dropped + 1
    /\ recorded' = [recorded EXCEPT ![recorder.event] = @ + 1]
    /\ recorder' = NoRecord
    /\ UNCHANGED <<dbVars, lifeVars, queue, pending, failed, memoVars,
                   writerVars, dbMu, readerVars, day, lives, missed>>

\* Record when there is no queue.  (After Close it returns as well: HTTP has
\* drained by then.)
RecordIgnored ==
    /\ life = "unavailable"
    /\ recorder = NoRecord
    /\ Total(recorded) + missed < MaxRecords
    /\ missed' = missed + 1
    /\ UNCHANGED <<dbVars, lifeVars, queue, counterVars, memoVars, recorder,
                   writerVars, dbMu, readerVars, day, lives, recorded>>

-----------------------------------------------------------------------------
(* writeLoop, writeBatch and finish.                                       *)

writerUnchanged == <<lifeVars, recorder, readerVars, day, historyVars>>

\* An event arrives while the batch has room (and the first one wakes the
\* loop up).
WriterTakes ==
    /\ writer \in {"select", "drain"}
    /\ queue # <<>> /\ Len(batch) < BatchMax
    /\ batch' = Append(batch, Head(queue))
    /\ queue' = Tail(queue)
    /\ writer' = "drain"
    /\ UNCHANGED <<dbVars, counterVars, memoVars, sampled, dbMu,
                   writerUnchanged>>

\* The ticker fires.
WriterTicks ==
    /\ writer = "select"
    /\ writer' = "drain"
    /\ UNCHANGED <<dbVars, queue, counterVars, memoVars, batch, sampled, dbMu,
                   writerUnchanged>>

\* writeBatch returns nil at once: nothing to add, and either a failure is
\* recent or the losses are on disk and today's expiry has run.
NothingToWrite ==
    /\ batch = <<>>
    /\ \/ failed /\ backoff
       \/ dropped = persistedDropped /\ maintenanceDay = day

\* The batch is complete: the queue is empty (or closed) or the batch full.
WriterSkips ==
    /\ writer = "drain"
    /\ queue = <<>> \/ Len(batch) >= BatchMax
    /\ dbMu = "free"
    /\ NothingToWrite
    /\ writer' = "select"
    /\ UNCHANGED <<dbVars, queue, counterVars, memoVars, batch, sampled, dbMu,
                   writerUnchanged>>

\* dbMu is taken, the transaction begins, and dropped is sampled.
WriterBegins ==
    /\ writer = "drain"
    /\ queue = <<>> \/ Len(batch) >= BatchMax
    /\ dbMu = "free"
    /\ ~NothingToWrite
    /\ dbMu' = "writer"
    /\ sampled' = [dropped |-> dropped, today |-> day]
    /\ writer' = "commit"
    /\ UNCHANGED <<dbVars, queue, counterVars, memoVars, batch,
                   writerUnchanged>>

\* The queue is closed and empty: finish() writes the last row.
FinishBegins ==
    /\ writer = "select" /\ closed /\ queue = <<>>
    /\ dbMu = "free"
    /\ dbMu' = "writer"
    /\ sampled' = [dropped |-> dropped, today |-> day]
    /\ writer' = "finish"
    /\ UNCHANGED <<dbVars, queue, counterVars, memoVars, batch,
                   writerUnchanged>>

Closing == writer = "finish"

\* Mutant: every transaction marks the store clean.
CleanMark_EveryBatch == ~failed

\* clean_shutdown.
CleanMark == Closing /\ ~failed

\* Mutant: the counters are not rebased on what expiry left.
Commit_NoRebase ==
    LET delta == sampled.dropped - persistedDropped
        added == [d \in Days |-> usage[d] + CountOf(batch, d)]
        marked == IF delta > 0 \/ failed
                  THEN [health EXCEPT ![day] = [dropped |-> @.dropped + delta,
                                                incomplete |-> TRUE]]
                  ELSE health
    IN  /\ usage' = ExpireUsage(added)
        /\ health' = ExpireHealth(marked)
        /\ clean' = CleanMark
        /\ dropped' = dropped
        /\ persistedDropped' = sampled.dropped
        /\ maintenanceDay' = sampled.today

\* The transaction of writeBatch, and what it sets after the commit.  The
\* overflows since the sample stay outstanding.
Commit ==
    LET delta == sampled.dropped - persistedDropped
        added == [d \in Days |-> usage[d] + CountOf(batch, d)]
        marked == IF delta > 0 \/ failed
                  THEN [health EXCEPT ![day] = [dropped |-> @.dropped + delta,
                                                incomplete |-> TRUE]]
                  ELSE health
    IN  /\ usage' = ExpireUsage(added)
        /\ health' = ExpireHealth(marked)
        /\ clean' = CleanMark
        /\ dropped' = dropped + HealthDropped(health') - sampled.dropped
        /\ persistedDropped' = HealthDropped(health')
        /\ maintenanceDay' = sampled.today

WriterCommits ==
    /\ writer = "commit"
    /\ Commit
    /\ dbMu' = "free"
    /\ writer' = "settle"
    /\ UNCHANGED <<queue, pending, failed, backoff, batch, sampled,
                   writerUnchanged>>

FinishCommits ==
    /\ writer = "finish"
    /\ Commit
    /\ dbMu' = "free"
    /\ writer' = "done"
    /\ UNCHANGED <<queue, pending, failed, backoff, batch, sampled,
                   writerUnchanged>>

FinishFails ==
    /\ Faults /\ writer = "finish"
    /\ failed' = TRUE
    /\ dbMu' = "free"
    /\ writer' = "done"
    /\ UNCHANGED <<dbVars, queue, dropped, pending, memoVars, batch, sampled,
                   writerUnchanged>>

\* The transaction fails and is rolled back.
WriterFails ==
    /\ Faults /\ writer = "commit"
    /\ dbMu' = "free"
    /\ writer' = "lost"
    /\ UNCHANGED <<dbVars, queue, counterVars, memoVars, batch, sampled,
                   writerUnchanged>>

\* The batch is counted as dropped,
WriterCountsLoss ==
    /\ writer = "lost"
    /\ dropped' = dropped + Len(batch)
    /\ writer' = "failing"
    /\ UNCHANGED <<dbVars, queue, pending, failed, memoVars, batch, sampled,
                   dbMu, writerUnchanged>>

\* fail() is called,
WriterMarksFailure ==
    /\ writer = "failing"
    /\ failed' = TRUE
    /\ writer' = "delay"
    /\ UNCHANGED <<dbVars, queue, dropped, pending, memoVars, batch, sampled,
                   dbMu, writerUnchanged>>

\* nextHealthAttempt is set, under dbMu,
WriterDelays ==
    /\ writer = "delay" /\ dbMu = "free"
    /\ backoff' = TRUE
    /\ writer' = "settle"
    /\ UNCHANGED <<dbVars, queue, counterVars, persistedDropped,
                   maintenanceDay, batch, sampled, dbMu, writerUnchanged>>

\* and the batch is no longer pending.
WriterSettles ==
    /\ writer = "settle"
    /\ pending' = pending - Len(batch)
    /\ batch' = <<>>
    /\ writer' = "select"
    /\ UNCHANGED <<dbVars, queue, dropped, failed, memoVars, sampled, dbMu,
                   writerUnchanged>>

-----------------------------------------------------------------------------
(* Close, and the end of the process.                                      *)

\* Close marks the queue closed under mu.
CloseBegins ==
    /\ life = "open" /\ recorder = NoRecord
    /\ life' = "closing"
    /\ closed' = TRUE
    /\ UNCHANGED <<dbVars, queue, counterVars, memoVars, closeErr, recorder,
                   writerVars, dbMu, readerVars, day, historyVars>>

\* It waits for the writer, closes the database and reports any failure.
CloseReturns ==
    /\ life = "closing" /\ writer = "done" /\ dbMu = "free"
    /\ life' = "closed"
    /\ \/ UNCHANGED failed
       \/ Faults /\ failed' = TRUE
    /\ closeErr' = failed'
    /\ UNCHANGED <<dbVars, queue, closed, dropped, pending, memoVars,
                   recorder, writerVars, dbMu, readerVars, day, historyVars>>

\* Close of a Statistics that never opened.
CloseUnavailable ==
    /\ life = "unavailable"
    /\ life' = "closed"
    /\ closed' = TRUE
    /\ closeErr' = failed
    /\ UNCHANGED <<dbVars, queue, counterVars, memoVars, recorder, writerVars,
                   dbMu, readerVars, day, historyVars>>

\* The process exits after Close, or is killed at any point before.  What it
\* had in memory is gone.
Stop ==
    /\ life # "stopped"
    /\ life' = "stopped"
    /\ queue' = <<>> /\ batch' = <<>>
    /\ recorder' = NoRecord /\ writer' = "done" /\ reader' = "idle"
    /\ snap' = NoSnapshot /\ seen' = Zero
    /\ dbMu' = "free"
    /\ dropped' = 0 /\ persistedDropped' = 0 /\ pending' = 0 /\ sampled' = NoSample
    /\ failed' = FALSE /\ closed' = FALSE /\ closeErr' = FALSE
    /\ maintenanceDay' = NoDay /\ backoff' = FALSE
    /\ UNCHANGED <<dbVars, day, historyVars>>

\* A day, or the minute of nextHealthAttempt, passes.
Midnight ==
    /\ day < MaxDay
    /\ day' = day + 1
    /\ UNCHANGED <<dbVars, lifeVars, queue, counterVars, memoVars, recorder,
                   writerVars, dbMu, readerVars, historyVars>>

BackoffEnds ==
    /\ backoff
    /\ backoff' = FALSE
    /\ UNCHANGED <<dbVars, lifeVars, queue, counterVars, persistedDropped,
                   maintenanceDay, recorder, writerVars, dbMu, readerVars,
                   day, historyVars>>

-----------------------------------------------------------------------------
(* Snapshot.                                                               *)

readerUnchanged == <<dbVars, lifeVars, queue, dropped, pending, memoVars,
                     recorder, writerVars, day, historyVars>>

\* The period ends today; a failure so far makes the answer unavailable.
SnapshotBegins ==
    /\ life \in {"open", "closing"} /\ reader = "idle"
    /\ ~failed
    /\ reader' = "lock"
    /\ snap' = [NoSnapshot EXCEPT !.to = day]
    /\ seen' = recorded
    /\ UNCHANGED <<readerUnchanged, failed, dbMu>>

\* dbMu is taken and the tables are read in one transaction: the usage of the
\* period, and the health of the days since the cutoff of now, until the day
\* Snapshot was called on.
SnapshotReads ==
    /\ reader = "lock" /\ dbMu = "free" /\ life # "closed"
    /\ dbMu' = "reader"
    /\ LET retained == {d \in Days : d >= Cutoff /\ d <= snap.to}
       IN  snap' = [snap EXCEPT
                      !.usage = [d \in Days |-> IF d \in Shown(snap.to)
                                                THEN usage[d] ELSE 0],
                      !.dropped = HealthDropped(
                                     [d \in Days |-> IF d \in retained THEN health[d]
                                                     ELSE NoLoss]),
                      !.incomplete = \E d \in retained : health[d].incomplete,
                      !.cutoff = Cutoff]
    /\ reader' = "dropped"
    /\ UNCHANGED <<readerUnchanged, failed, seen>>

\* The request is cancelled, or the read fails, which marks the statistics
\* failed.
SnapshotFails ==
    /\ \/ reader = "lock" /\ UNCHANGED <<failed, dbMu>>
       \/ /\ Faults /\ reader = "lock" /\ dbMu = "free"
          /\ failed' = TRUE
          /\ UNCHANGED dbMu
    /\ reader' = "idle"
    /\ UNCHANGED <<readerUnchanged, snap, seen>>

\* Still under dbMu: the losses that are not on disk yet,
SnapshotAddsDropped ==
    /\ reader = "dropped"
    /\ snap' = [snap EXCEPT !.dropped = @ + dropped - persistedDropped]
    /\ reader' = "pending"
    /\ UNCHANGED <<readerUnchanged, failed, dbMu, seen>>

\* the events not written yet, and the verdict.
SnapshotReturns ==
    /\ reader = "pending"
    /\ snap' = [snap EXCEPT !.pending = pending,
                            !.incomplete = @ \/ snap.dropped > 0 \/ failed,
                            !.ready = TRUE]
    /\ dbMu' = "free"
    /\ reader' = "idle"
    /\ UNCHANGED <<readerUnchanged, failed, seen>>

-----------------------------------------------------------------------------
Record == RecordBegins \/ RecordSends \/ RecordOverflows \/ RecordDrops
            \/ RecordIgnored
Writer == \/ WriterTakes \/ WriterTicks \/ WriterSkips \/ WriterBegins
          \/ FinishBegins \/ WriterCommits \/ FinishCommits \/ FinishFails
          \/ WriterFails \/ WriterCountsLoss \/ WriterMarksFailure
          \/ WriterDelays \/ WriterSettles
Snapshot == SnapshotBegins \/ SnapshotReads \/ SnapshotFails
              \/ SnapshotAddsDropped \/ SnapshotReturns
Close == CloseBegins \/ CloseReturns \/ CloseUnavailable

Next == Open \/ OpenFails \/ Record \/ Writer \/ Snapshot \/ Close \/ Stop
          \/ Midnight \/ BackoffEnds

Spec == Init /\ [][Next]_vars

-----------------------------------------------------------------------------
(* Properties.                                                             *)

\* Every variable has its type.  The counters are unsigned in the code, so
\* none of the subtractions may go below zero.
TablesOK ==
    /\ usage \in [Days -> Nat]
    /\ health \in [Days -> [dropped: Nat, incomplete: BOOLEAN]]
    /\ seen \in [Days -> Nat] /\ recorded \in [Days -> Nat]
    /\ day \in Days /\ lives \in Nat /\ missed \in Nat

CountersOK ==
    /\ queue \in Seq(Days) /\ Len(queue) <= Capacity
    /\ batch \in Seq(Days) /\ Len(batch) <= BatchMax
    /\ dropped \in Nat /\ pending \in Nat /\ persistedDropped \in Nat

StagesOK ==
    /\ life \in Lives
    /\ sampled \in [dropped: Nat, today: Days \cup {NoDay}]
    /\ maintenanceDay \in Days \cup {NoDay}
    /\ recorder \in [step: {"idle", "sending", "dropping"},
                     event: Days \cup {NoDay}]
    /\ writer \in {"select", "drain", "commit", "settle", "lost", "failing",
                   "delay", "finish", "done"}
    /\ dbMu \in {"free", "writer", "reader"}
    /\ reader \in {"idle", "lock", "dropped", "pending"}

FlagsOK ==
    /\ clean \in BOOLEAN /\ closed \in BOOLEAN /\ failed \in BOOLEAN
    /\ backoff \in BOOLEAN /\ closeErr \in BOOLEAN

SnapOK ==
    snap \in [usage: [Days -> Nat], dropped: Nat, pending: Nat,
              incomplete: BOOLEAN, cutoff: Int, to: Days \cup {NoDay},
              ready: BOOLEAN]

TypeOK == TablesOK /\ CountersOK /\ StagesOK /\ FlagsOK /\ SnapOK

Serving == life \in {"open", "closing"}

\* pending counts exactly the events between Record and the end of their
\* transaction, though three goroutines change it without a common lock.
PendingExact ==
    Serving => pending = Len(queue) + Len(batch)
                           + (IF recorder.step = "sending" THEN 1 ELSE 0)

\* The losses on disk are persistedDropped, after expiry too, and dropped
\* never falls behind them: the unsigned difference that writeBatch and
\* readSnapshot compute is the number of losses not on disk yet.
LossAccounting ==
    Serving => /\ persistedDropped = HealthDropped(health)
               /\ dropped >= persistedDropped

\* An event is added to the totals at most once, whatever transaction failed
\* and whenever the process was killed.
NeverDoubleCounted == \A d \in Days : usage[d] <= recorded[d]

\* The three unlocked counters and the two tables agree about every event, so
\* that no unsigned difference of them can be wrong.
CountersExact == TypeOK /\ PendingExact /\ LossAccounting /\ NeverDoubleCounted

\* "Shutdown drains accepted updates": when Close returns nil, everything
\* accepted is in the database or counted there as dropped.
CloseDrains ==
    life = "closed" /\ ~closeErr =>
        /\ queue = <<>> /\ batch = <<>> /\ pending = 0
        /\ clean
        /\ dropped = persistedDropped

\* A store marked clean has no unmarked loss in its retained days: the next
\* open may trust it.
CleanStoreIsSound ==
    clean => \/ \E d \in Days : health[d].incomplete
             \/ \A d \in Days : d >= Cutoff => usage[d] = recorded[d]

\* A snapshot that is ready, not incomplete and has nothing pending accounts
\* for every event recorded before it was asked for, on every day it shows,
\* also across restarts (if no midnight passed while it waited for dbMu).
CompleteMeansComplete ==
    snap.ready /\ ~snap.incomplete /\ snap.pending = 0
               /\ snap.to + 1 - Retention = snap.cutoff
        => \A d \in Shown(snap.to) :
             d >= snap.cutoff => snap.usage[d] >= seen[d]

\* Before anything expired or was killed, written, dropped and pending events
\* of a ready snapshot add up to at least those recorded before it was asked
\* for: an event on its way from one counter to another is never in neither.
NeverUnderReported ==
    snap.ready /\ lives = 1 /\ day = 1 =>
        Total(snap.usage) + snap.dropped + snap.pending >= Total(seen)

\* What a reader may conclude from a snapshot.
SnapshotHonest == CompleteMeansComplete /\ NeverUnderReported

\* The end of a run: what Close says was drained is drained, and the mark it
\* leaves is one the next run may trust.
ShutdownSound == CloseDrains /\ CleanStoreIsSound

-----------------------------------------------------------------------------
(* The inductive invariant behind CountersExact, SnapshotHonest and        *)
(* ShutdownSound (see StatisticsProofs).                                   *)

\* The stages of the writer and of the life of a Statistics go together.
WriterSound ==
    /\ writer \in {"select", "finish", "done"} => batch = <<>>
    /\ dbMu = "writer" <=> writer \in {"commit", "finish"}
    /\ writer \in {"commit", "finish"} =>
         persistedDropped <= sampled.dropped /\ sampled.dropped <= dropped
    /\ writer = "finish" => closed /\ queue = <<>> /\ sampled.dropped = dropped
    /\ writer = "delay" => failed
    /\ clean /\ Serving => writer = "done"

LifeSound ==
    /\ life = "open" => writer # "done" /\ ~closed
    /\ ~Serving => /\ writer = "done" /\ dbMu = "free" /\ queue = <<>> /\ pending = 0
    /\ life \in {"closing", "closed"} => closed
    /\ life = "unavailable" => failed
    /\ closed \/ ~Serving => recorder = NoRecord
    /\ life = "closing" /\ writer = "done" =>
         queue = <<>> /\ (failed \/ (clean /\ dropped = persistedDropped))
    /\ lives = 0 => life = "stopped" /\ recorded = Zero

\* Nothing is dated later than today.
DatesSound ==
    /\ \A i \in DOMAIN queue : queue[i] <= day
    /\ \A i \in DOMAIN batch : batch[i] <= day
    /\ recorder # NoRecord => recorder.event \in 1..day
    /\ \A d \in Days : d > day =>
         recorded[d] = 0 /\ snap.usage[d] = 0 /\ health[d] = NoLoss

\* The events of the batch that no transaction has settled, and those that have
\* not been counted as dropped either.
Unsettled == IF writer = "settle" THEN <<>> ELSE batch
Uncounted == IF writer \in {"failing", "delay", "settle"} THEN <<>> ELSE batch

\* The events of day d in memory that no transaction has added.
Unwritten(d) == CountOf(queue, d) + CountOf(Unsettled, d)

\* Day d or a later one is marked.
Marked(d) == \E e \in Days : e >= d /\ health[e].incomplete

\* Losses in memory that the next transaction will mark.
Unmarked == dropped > persistedDropped \/ failed

\* Every retained event is on disk or in memory, or its loss is marked on its
\* day or a later one, so that the mark stays as long as the day, or will be.
EventsSound ==
    /\ \A d \in Days : usage[d] + Unwritten(d) <= recorded[d]
    /\ clean => \A d \in Days : d >= Cutoff => usage[d] = recorded[d] \/ Marked(d)
    /\ Serving => \A d \in Days : d >= Cutoff =>
         usage[d] + Unwritten(d) = recorded[d] \/ Marked(d) \/ Unmarked

\* On the first day of the first life nothing is lost without being counted.
FirstDay == lives = 1 /\ day = 1
FirstDaySound ==
    FirstDay /\ Serving =>
        usage[1] + Len(queue) + Len(Uncounted) + dropped >= recorded[1]

\* The stages of the reader, and what it looks back at.
Reading == reader \in {"dropped", "pending"}
ReaderStages ==
    /\ \A d \in Days : seen[d] <= recorded[d]
    /\ reader # "idle" => ~snap.ready /\ life \notin {"stopped", "unavailable"}
    /\ reader = "lock" => snap.to \in 1..day
    /\ dbMu = "reader" <=> Reading

\* What a reader that has the tables still has to learn: of a day it shows, an
\* event it did not find is in memory, or it has seen or will see a loss.
ReaderMarks ==
    Reading /\ snap.to + 1 - Retention = snap.cutoff =>
        \A d \in Shown(snap.to) : d >= snap.cutoff =>
          \/ snap.usage[d] + Unwritten(d) >= seen[d]
          \/ snap.incomplete \/ failed
          \/ IF reader = "dropped" THEN dropped > persistedDropped ELSE snap.dropped > 0

\* On the first day, the events it has seen in one counter or another.
ReaderCounts ==
    /\ FirstDay /\ reader = "dropped" =>
         snap.usage[1] + Len(queue) + Len(Uncounted)
           + (snap.dropped + dropped - persistedDropped) >= seen[1]
    /\ FirstDay /\ reader = "pending" =>
         snap.usage[1] + Len(queue) + Len(Unsettled) + snap.dropped >= seen[1]
    /\ FirstDay /\ snap.ready =>
         snap.usage[1] + snap.dropped + snap.pending >= seen[1]

ReaderSound == ReaderStages /\ ReaderMarks /\ ReaderCounts

StatisticsInv ==
    /\ TypeOK /\ PendingExact /\ LossAccounting
    /\ WriterSound /\ LifeSound /\ DatesSound /\ EventsSound /\ FirstDaySound
    /\ ReaderSound /\ CompleteMeansComplete /\ CloseDrains

=============================================================================
