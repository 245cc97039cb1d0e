# Paracetamol: TLA+ models of the controller and gateway

Paracetamol is a Go program that installs model files, builds and runs
containers with Podman, and puts an authenticated gateway in front of one
inference backend at a time. This directory holds TLA+ models of the parts of
it whose correctness depends on the order in which things happen: goroutines,
processes, system calls, crashes and restarts. TLC checks the models on small
instances; TLAPS proves every invariant and action property the passing runs check,
for instances of every size: scheduler, gateway process, stream keepalive, chat
requests and chat exchanges, model status, durable statistics, atomic files,
content installation, containers, images and benchmarks. Liveness is left to TLC.

Line numbers refer to the files under `src/`. `PROJECT.json` maps every
definition to the lines it models.

## 1. The system

### Components, their state and their operations

| Component | State | Operations | Interacts with |
|---|---|---|---|
| Backend scheduler (`gateway/scheduler.go`) | current allocation, generation, number of active leases, queue, operation in flight, cleanup error | `Acquire`, `Lease.Release`, `Lease.Fail`, `Shutdown`, `Status`; the goroutine `run` with `progress` | request handlers over channels; one goroutine per lifecycle call |
| Container lifecycle (`gateway/lifecycle.go`, `podman`) | the container name, labels, log follower | `Preflight`, `Start`, `Stop` | scheduler; Podman; router preset |
| Chat requests (`gateway/server.go`, `request_reports.go`, `observability.go`) | bounded ledger of active and completed requests | track, acquire, probe, proxy, complete | scheduler, statistics, stream keepalive |
| Stream keepalive (`gateway/stream_keepalive.go`) | one buffer, a demand channel, framing state | `Read`, `readUpstream`, `Close` | reverse proxy, upstream body |
| Durable statistics (`gateway/statistics.go`, `statistics_sqlite.go`) | bounded queue, atomic counters, SQLite database with usage, health and a clean-shutdown mark | `Record`, `writeLoop`, `Snapshot`, `Close`, open | request handlers, dashboards, disk |
| Gateway process and local control (`cli/commands_gateway.go`, `gateway/control.go`) | container name, `models.ini`, lock file, socket path | `run gateway`, `stop gateway`, stale-socket recovery | other gateways and stop commands of the same user |
| Atomic file publication (`atomicfile/file.go`) | one destination path and its temporary files | `Ensure`, `Write`, `Publish`, `JSON` | content, configuration, router preset, receipts, image archives |
| Content installation and verification (`content`, `verification`, `storage`, `cli/commands_content.go`) | staged files and archives, installed files, the receipt, a lock, workflows, import packs | `content install`, `content import`, `workflows install`, `cleanup` | downloader containers, atomic files, the user's own edits |
| Commands on containers (`cli/commands_basic.go`, `commands_cleanup.go`, `podman`) | Podman's containers, known by names and labels | `run`, `shell`, `stop`, `cleanup containers`, benchmarks, the gateway's backend | each other, through Podman only |
| Images (`cli/commands_images.go`, `imagearchive`, `buildplan`) | Podman's tags and images, archive files | `build`, `images export`, `images import`, `cleanup images` | each other, through Podman and the archive path |
| Benchmarks and acceptance (`benchmark`, `cli/commands_benchmark*.go`, `commands_acceptance.go`) | a checkpoint, result files, media, cache directories, a report | start, resume, measure, publish, conclude | containers, atomic files |
| Request controls and sampling (`gateway/sampling.go`, `media.go`, `observability.go`) | none (per request) | inspect, validate, apply the defaults of a mode | chat requests |
| Response observation and usage (`gateway/observability.go`, `completion.go`, `usage.go`) | the line, the event and the counts of one response; the aggregate | `Observe`, `Finish`, add a record | chat requests |
| Registry and residency (`gateway/registry.go`, `residency.go`) | the inventory frozen at start | discover, status, probe the router | scheduler, llama.cpp router |
| Remote import metadata, catalog, configuration, host checks, terminal | none, or one file | parsing, listing, one-shot commands | disk |

`PROJECT.json` lists the components in more detail, including the ones that are
not modelled and the reason for each.

### What is hard about it

* The scheduler's callers can disappear at any moment. A waiter whose context
  ends while it is being offered a lease must not be counted; a failure report
  can arrive after the backend it is about has been replaced; a start or stop
  can fail and leave it unknown whether a container still exists.
* The statistics move an event between a queue, a batch, a transaction and two
  loss counters with no lock over all of them, while a reader adds the counters
  up; the process can be killed in between.
* The keepalive body hands out slices of a buffer that another goroutine fills.
* File publication has to be atomic and durable between unrelated processes,
  across kills and power loss.
* Gateways of one user are serialised by a lock and a socket, but some start-up
  work happens before the lock is taken.
* Installers share staging with downloader containers that outlive them, and keep
  a receipt that vouches for files it describes by their identity.
* Commands see containers and images only through queries that are out of date
  when they are answered, and remove by name what they knew by labels.
* Measurements run for hours: checkpoints are written, killed, resumed, resumed
  twice, and refer to files the user may delete.
* Responses are observed in whatever pieces they arrive, within bounded memory.

The `hazards` of `PROJECT.json` give each of these at the line where it bites,
with the property that would catch it.

### What makes each component correct

* Scheduler: a backend is never stopped under a request; at most one backend
  exists; leases are counted exactly; first come, first served; cleanup is not
  retried endlessly; shutdown ends and tells the truth.
* Statistics: no event is written twice; every loss is marked, also after a kill
  or a restart; `Close` drains.
* Keepalive: without its comments the stream is what upstream sent, and comments
  fall between events only.
* Atomic files: never partial, durable on success, one creator.
* Gateway process: one gateway per user, its socket stays reachable, and what
  `stop gateway` reports is true.
* Chat requests: every way out accounts for the request once and gives its lease
  back; the recorded outcome is what happened; reports and snapshots are
  consistent.
* Content: what the receipt vouches for is what the catalog names; one writer in
  staging; success lasts; nothing of the user's is lost.
* Containers: no container is taken for gone that is still there; the gateway
  removes gateway backends only; a cleanup that succeeded removed what it listed.
* Images: an export or import is one moment's state; nothing is built on the
  leftovers of a failed prerequisite; an import keeps tags it did not look at.
* Benchmarks: entries match their evidence, status is true, accepted work is not
  repeated, checkpoints can be resumed.
* Chat data: a request gets the mode it asked for; completion, tokens and usage
  are those of the whole response, however it was cut.
* Status: a model is reported in a state it was in, or as unknown.

## 2. Modules

| Module | Models | Kind |
|---|---|---|
| `LeaseManager` | what the scheduler promises: an owner with an epoch, and the holders of leases on it | abstract |
| `Scheduler` | `scheduler.go` | detailed |
| `...Proofs` | TLAPS proofs about `Scheduler`, `AtomicFile`, `Statistics`, `ContentInstall` and `Benchmarks`, one module each, about `GatewayProcess`, `StreamKeepalive` and `ChatExchange` in `GatewayProofs`, about `ChatRequest` and `ModelStatus` in `ChatRequestProofs`, and about `Containers` and `Images` in `PodmanProofs` (section 4) | proofs |
| `AtomicFile` | `atomicfile/file.go` | detailed |
| `Statistics` | `statistics.go`, `statistics_sqlite.go` | detailed |
| `StreamKeepalive` | `stream_keepalive.go` | detailed |
| `GatewayProcess` | `commands_gateway.go` (order of steps), `control.go`, `gateway_listeners.go`, outcomes of `lifecycle.go` | detailed |
| `ChatRequest` | `chat` and `completeRequest` of `server.go`, the ledger (`request_reports.go`, `observability.go`, `usage.go`), the order of shutdown | detailed |
| `ContentInstall` | `install.go`, `inspect.go`, `store.go` and the commands that drive them | detailed |
| `Containers` | the Podman calls of every command that creates or removes containers, `lifecycle.go` included | detailed |
| `Images` | `build`, `images export`, `images import`, `cleanup images` | detailed |
| `Benchmarks` | the ComfyUI suite, the speculative sweep and acceptance with their checkpoints | detailed |
| `RequestControls` | inspection, media and sampling policy of a request body | operators |
| `ResponseObserver` | the incremental response observer and completion collector | operators |
| `ChatExchange` | composes the two and adds the usage aggregate | composition |
| `ModelStatus` | the frozen inventory, the status handler, the router probe | detailed |
| `MC...` | instances, symmetry and views for TLC | instances |

Compositions. `ChatExchange` extends `RequestControls` and `ResponseObserver`.
`MCContainers` puts `Containers` beside `Images`, `MCGatewayProcess` puts
`GatewayProcess` beside `StreamKeepalive`, and `MCChatExchange` puts
`ChatExchange` beside `ModelStatus`: the two parts share no variable, so a
behaviour explores either the one or the other, which loses no interleaving that
could matter and saves the product of their states. The fairness that
`MCGatewayProcess` adds asks nothing of the part a behaviour leaves alone: none of
its actions is enabled in an initial state. Where one module relies on
another it takes its promise as an atomic step: `Benchmarks` and
`ContentInstall` write files as `AtomicFile` allows, `Scheduler` and `ChatRequest`
see of `Containers` the three outcomes of a lifecycle call, and `ChatExchange` is
the data of the handler whose control flow is `ChatRequest`.

Many properties are conjunctions of named parts, one per hazard; the comment on
each part says what it is about. A module that is proved about ends with the
inductive invariant behind its properties, from its `TypeOK` on. The runs check the
properties that follow from it; TLC has also checked each inductive invariant as
such, on the instance of its run, before it was proved. The exception is
`ChatExchange`, whose invariant says of the observer what has been read in all and
is stated with the lemmas about it, in `GatewayProofs`; of it TLC has checked
`ForwardingSound` and what follows from the rest.

Operators named `X_Something` with a comment "Mutant" are plausible faulty
versions of `X`. No specification uses them; they exist to confirm that each
property fails when the code is broken in that way.

### Scheduler

`run()` is one goroutine; `pc` says whether it is about to call `progress()`, is
in the loop that grants leases, is blocked in `select`, or has returned. Every
branch of `progress()` and every case of the `select` is one action. A grant is a
step of its own because a waiter's context may end between two of them; if the
reply and the ended context are both possible, both outcomes are.

`Acquire`, `Release`, `Fail` and `Shutdown` are modelled from the caller's side
too, including the two selects of `Acquire`, blocking sends to full channels, and
`Shutdown`'s own deadline. The queue is a set ordered by arrival tickets, and a
channel's contents are a set of senders; the header of the module says why that
is enough. `resident` is the set of allocations whose backend may exist. It
belongs to the world outside the scheduler: a start may leave a backend, and
only a successful stop, or a start that failed with an ordinary error, is known
to leave none. That contract is the one stated on the `Lifecycle` interface
(`scheduler.go:32-37`).

Two observations came out of the modelling. A waiter that is cancelled between
`prune()` and its reply leaves the loop asleep with other waiters queued; only
that waiter's later message on `cancels` wakes it (`NoMissedWakeup`). And the
`done` branches of `Release` and `Fail`, and the test for stale results in
`run()`, are never taken with effect: no lease is out and no other operation can
be in flight at those points (`NoOperationUnderLease`). A `Shutdown` call that
has not been accepted when `done` closes returns nil even if the cleanup failed;
`CleanShutdown` is therefore stated for accepted calls.

### AtomicFile

Each writer is one call, interleaved with the others at system calls. A call owns
one inode, its temporary file. Contents and permissions are one value because
`Ensure` compares both. The file system is external: `link` and `rename` are
atomic; names changed since the last directory sync, and data never synced, may
be undone by a power loss (`survivors`, `ghosts`, `synced`). A kill ends one
call, a power loss ends all.

The checks confirm that after a kill between `Link` and the deferred `Remove` the
destination keeps two links, so that later calls of `Ensure` and
`ReplaceRegular` refuse it. That is the documented fail-closed behaviour, and it
needs a manual repair. `Ensure` also reports success when its own `Write` failed
in the directory sync (the bytes are there, though not yet durable); `Durable`
therefore speaks of `Write` and `Publish`. `Ensure` is called by tests only.

### Statistics

An event is the UTC day it is dated with; the other counters travel with the
request counter. `Record` is split at its atomic operations (count as pending,
try to send, undo, count as dropped), `writeLoop` at its receive, its sampling of
`dropped`, its transaction and its settling, and `Snapshot` at each counter it
reads, because their interleavings are what the accounting properties are about.
A transaction is atomic. The database outlives the process: `MaxLives` bounds
the number of starts.

`CompleteMeansComplete` requires that no midnight passed while the snapshot was
waiting for `dbMu`: the reader fixes its last day before it waits, so a loss
that the writer dates with the new day in the meantime is outside its bounds.

### StreamKeepalive

The model works on bytes of three kinds (CR, LF, anything else), because CRLF is
where the framing is delicate. `pending` is a range of positions in the shared
buffer, not a copy, as in the code. `sent` and `out` are history variables.
`BetweenEvents` is an independent definition of an event boundary over the whole
stream, against which the incremental `observe()` is checked. `out` records of each
delivered byte which part of a comment it is, 0 for upstream's own, so that "a
comment is delivered whole" can be said of the history alone (`CommentsSound`).

### GatewayProcess

Several processes started with `run gateway`, several `stop gateway` clients, and
the four things they share: the container name, `models.ini`, the lock file and
the socket path. The stages of `pc` follow `runGateway` statement by statement.
Closing the control socket, unlinking its path and unlocking are separate steps,
and so are the client's dial, its wait and its recovery of a stale socket.

### ChatRequest

One handler goroutine per request. The ledger's methods hold its mutex and are one
step each. The scheduler appears as what `Acquire` may return, the reverse proxy
and the upstream as their outcomes: a failed round trip, a response relayed to
its end, a response that breaks off. A client may leave at any moment, so the two
looks at the request's context after the proxy returns can disagree. Steps that
only touch a handler's own variables are merged with the shared step next to
them. Of the aggregates only the number of requests is kept.

Two observations. `ErrShuttingDown` cannot reach `chat` under `runGateway`, which
shuts the scheduler down only after `server.Shutdown` has returned; the branch
serves other callers. And a session that was pushed out of the session table and
returns starts a new aggregate, so its numbers are not since the gateway's start
(`gateway.md:591`); `SnapshotExact` bounds what can be lost: never a record of
the recent window, because `SessionLimit >= RecentLimit`.

### ContentInstall

Each installer is one invocation, split where another process can act: the lock,
the query for downloaders, staging, the download (a container that writes on
although its launcher is dead), extraction, hashing, the last look at the
destination, the rename, the record, the save of the receipt, pruning, the
workflow. A file is reduced to what it is to its catalog entry, and a remembered
file identity to whether it is still that of the file. `Edit`, `CleanupPlan`,
`CleanupContainers` and `CleanupPaths` are the user. What an edit hits between
two adjacent system calls (last look and rename, comparison and record) is kept
in `raced` and excused: no order of the code's own calls could prevent it.

### Containers

A process runs one command, and every Podman call is a step that may fail.
Containers end on their own, the user takes names, clients are killed after
Podman has done its work. The gateway's `Start`, `Stop` and `removeOwned` are
here call by call, with what the scheduler then believes; `NoSilentLeftover` is
the contract that `Scheduler` assumes of its lifecycle goroutine, stated from the
other side. The gateway removes by name what it identified by labels; the window
between the two is in the model. `GatewayRemovesBackends` has two parts.
`LabelsRespected` is about the containers whose labels it has really read: these
are removed only if they are backends, whatever was listed or found before under
that name. `UsedSpared` has no such excuse: past the preflight, nothing a gateway
removes belongs to a command that still runs, also when the name changed hands in
the window, because only the holder of the control lock creates backends. Before
the lock that is false, which the run `stale_reclaim` demonstrates (section 6).

### Images

An image is the build that made it; a tag moves whenever another build, import or
cleanup says so, between any two of the per-tag calls of `podman save` and
`podman load`. The units of a build, an export or an import are a set that is taken
in the order of the registry, which lists prerequisites first. A cleanup takes what
its scope names and nothing it is built on (`CleanupScope`), in the order of
`cleanupImages`, applications first (`CleanupRank`), and ends at the first removal
that Podman refuses. Limits of the code appear as conditions
of the properties. An import that finds every image present returns without
loading and compares the tags one after another, so that it may call a mix
complete (`OneMoment` is about exports and about imports that loaded something). A
tag that is moved away and back between the two comparisons of a command is not
noticed (`back`), and neither is a tag that moves after it was verified when the
archive was exchanged before the load. A tag that moves after the import compared
it is overwritten (`late` in `TagsKept`).

### Benchmarks

The three drivers are one loop with a parameter. A checkpoint is replaced, a
result created once; a process may be killed, a write or a removal may fail, and
two processes may resume one checkpoint. Metrics and times are reduced to the
attempt they come from and to whether they are set.

### RequestControls, ResponseObserver, ChatExchange

The operators follow the functions of the same names. JSON is external: a field
is absent, null, of the wrong type, or a value; a JSON object of a response is a
model value whose text comes in two halves, so that an event can be cut inside
it. The references are independent of the incremental code: `Selections` collects
what a request says anywhere; `Lines`, `Events` and `Received` take the whole
response apart, without buffers or limits; `Fits` says whether anything in it was
too large to keep, and an observer that had to drop such a line or event must say
"partial". `TokensExact` compares the counts of one response with the last value of
each number in it, `UsageExact` the aggregate with the records, and `CountsExact` is
both. `UsageExact` takes every number of the aggregate that is no duration: the
requests, the outcomes, the metrics, and the two counts of each rate and ratio, which
are sums over the same requests, those that reported both (the backend does not time
the first token it generates). The loops are recursive functions of the position, in the code's operators and
in the references, because the prover can unfold those (section 4). The observer ends
lines at LF only, whereas the keepalive body also accepts a lone CR; upstreams send
LF or CRLF, and the responses of the model do too.

### ModelStatus

The inventory is frozen when the gateway starts. A status request takes the
scheduler's snapshot, may ask the router, and projects the answer; meanwhile
backends start, stop and die, models are loaded and unloaded, files come and go
and the gateway shuts down. `seen` collects the states each model was really in.


## 3. Runs

| Run | Instance | Shows |
|---|---|---|
| `scheduler_safety` | 3 requests, 2 allocations (limits: none and 1), 1 shutdown caller, queue of 2 | type, accounting, exclusivity, order and wake-up, cleanup and shutdown, refinement of `LeaseManager` |
| `scheduler_liveness` | 2 requests, otherwise the same | every request is answered, a failed backend is recycled, shutdown ends |
| `atomic_file_safety` | 3 calls, 2 contents, faults, 1 crash | never partial, durable, one creator |
| `statistics_safety` | queue of 1, batches of 2, 3 records, 2 days, retention 1 day, 2 lives, faults | exact counters, honest snapshots, marks that survive a kill |
| `gateway_process` | 2 gateways on different ports, 1 client, faults, 1 kill; or a stream of 3 bytes, a buffer of 2, reads of 1 or 2, 2 comments | process: one reachable gateway, true answers, stops that end; stream: transparent, well placed comments, `Close` and `Read` end |
| `chat_request` | 3 requests, 3 sessions, room for 2 in the active cache, the ring and the session table | continuous reports, exact snapshots, one true account per request |
| `content_install` | 2 installers, a plain artifact and an archive member, 5 kinds of request, 2 starts, 1 kill, 1 edit or cleanup | sound receipt, one staging writer, lasting success, nothing lost |
| `containers` | 2 processes with any of 9 commands, 2 containers each, 1 of the user's, 1 kill; or 2 workers with 3 jobs on 2 units, 4 images, 1 edit | containers: no silent leftover, right removals, complete cleanup; images: one moment, fresh bases, kept tags |
| `stale_reclaim` | the two processes serve the gateway, nothing else happens | a disagreement, section 6 |
| `benchmarks` | 2 processes, plans of 2 items of each kind, 2 attempts, 1 fault, 1 deleted result | truthful checkpoints, nothing accepted rerun, resumable |
| `benchmarks_resume` | 1 process, a sweep of 2 trials | a disagreement, section 6 |
| `chat_exchange` | every combination of controls on 4 kinds of model; responses of up to 4 lines or 3 events in every chunking, 2 requests; or 3 candidate models and listings of up to 2 entries | exact policy, completion, counts and aggregate; truthful status |

### Bounds, and why they are enough

* Scheduler: three requests are the fewest with a holder, a waiter for the same
  allocation and a waiter for another; two allocations are enough for a switch,
  and one is unlimited while the other admits one lease, as in
  `scheduler_test.go`. `QueueMax = 2` lets three requests fill the queue.
  `MCView` forgets data of answered requests that nothing reads again and keeps
  of the arrival tickets only the order of the queue; the requests are symmetric.
  The proofs need none of these bounds.
* Atomic files: a winner, a loser and a bystander, each with any call, policy
  and contents. One crash is enough: every variable a crash changes is either
  reset by it or already reachable without it.
* Statistics: `Capacity = 1` makes overflow ordinary, `BatchMax = 2` lets one
  batch span two days, `Retention = 1` with two days makes everything from the
  first day expire, two lives give one restart. Saturation of the counters at
  2^63-1 is left out.
* Keepalive: three bytes give every position of CR, LF and data in a line, an
  empty line split over two chunks, and a chunk or a read that ends inside CRLF;
  the buffer is smaller than the stream, so it is reused. Two comments put one at
  the start and one later.
* Gateway process: a second gateway is enough for observations of the first to go
  stale. Different ports take the port out of the way, so that only the lock
  separates them; a port that is taken is a bind that fails.
* Chat requests: three requests overflow each of the three bounded tables by one,
  and three sessions make the choice of the session to drop matter. `MCView`
  forgets what a handler knew once its outcome is settled, and all but the number
  of records that have left the ring.
* Content: two installers are concurrent or, with one kill, one repeats the other;
  the requests cover both orders of a plain file and an archive member, a mirror
  to copy or to move from, force, missing acknowledgement, an import, and
  workflows alone. One edit is one stale identity. `MCView` forgets the memory of
  invocations that have returned.
* Containers and images: every pair of commands meets; a gateway starts twice, so
  that it reuses its name. Two units are one prerequisite and what is built on it;
  four images let both be rebuilt once.
* Benchmarks: two items are one skipped and one run; two attempts are a first and
  a retry.
* Exchange: sizes are scaled (`MaxEventBytes = 4`), so that lines and events
  exceed them at both joints; `MaxInt = 2` and `MaxCount = 3` make sums overflow
  and saturate. Four lines are two events of two lines, or one with a blank line
  in every place. Listings of two entries can repeat, omit and contradict;
  `ChildStates` bounds only what a child is in, not what the router says of it.

Deadlock checking is off where a component may really stop: a closed response
body, a closed statistics store, gateways that have all exited, a server that has
drained, and commands that have returned.

### Fairness

* Scheduler: weak fairness for the loop, the lifecycle goroutine (`Start` and
  `Stop` run under timeouts), the selects of callers that can proceed, and
  `Release` (the handler defers it). Nobody is forced to call, cancel, fail or
  shut down.
* Keepalive: both goroutines run. Strong fairness for the case that sees
  `closed`, because Go's `select` chooses at random among the ready cases.
  Upstream may stay silent until it is closed.
* Gateway process: started processes and clients go on; a stop request in the
  channel is eventually received. Nobody has to start, and signals need not come.
* The other modules are checked for safety: their commands are sequences of calls
  that end when the calls do, and nothing in them waits for another process.

## 4. Proofs

Every theorem is about the specification that TLC checks, for every value of its
constants that satisfies the assumptions named in the module. None of them bounds
the number of processes, requests, units or artifacts; the counters that bound a
run (`MaxCrashes`, `MaxJobs`, ...) are arbitrary, so that the theorems hold for
behaviours of every length. The assumptions say that placeholders differ from real
values, that limits are natural numbers (and positive where the code divides by
them or makes a channel of them), that the sets of requests and callers of the
scheduler and the calls on one file are finite, and that

* `SessionLimit >= RecentLimit` (`ChatRequest`), as the constants of
  `observability.go` have it;
* commands and requests have the shapes that the command line can produce
  (`CommandOK`, `RequestOK`, `JobsAssumption`);
* the container of a shell, whose name Podman generates, has none of the fixed names
  (`NamesAssumption`);
* the units of a build come after their prerequisites, each once
  (`UnitsAssumption`), as in the table of `registry.go`, and each has a place in the
  list of `cleanupImages` (`RanksAssumption`);
* the items of a plan are of the classes that its command has
  (`PlanAssumption`);
* an object of a response is typed as the observer reads it: lists of choices,
  counts that are natural numbers or absent (`ObjectsAssumption`); there are responses
  for every request that may be made, and they are bytes (`ExchangeAssumption`);
* `Period <= Retention` (`StatisticsAssumption`), as the periods that `Snapshot`
  admits and `RetentionDays` have it;
* the candidates of an inventory are distinct, the supported ones are among them,
  and a router names foreign models differently (`StatusAssumption`).

| Module | Theorem | Statement |
|---|---|---|
| `SchedulerProofs` | `TypeCorrect` | `Spec => []TypeOK` |
| | `LeasesAccounted` | `Spec => []LeaseAccounting` |
| | `OperationsExclusive` | `Spec => []NoOperationUnderLease` |
| | `ResidencyExclusive` | `Spec => []ExclusiveResidency` |
| | `ServedInOrder` | `Spec => []QueueServed` |
| | `CleanedUp` | `Spec => []CleanupDiscipline` |
| | `Refinement` | `Spec => ImplementsLeaseManager` |
| `GatewayProofs` | `ProcessInvariant` | `Spec => []ProcessInv` |
| | `Exclusive`, `Truthful` | `Spec => []GatewayExclusive`, `Spec => AnswersTrue` |
| | `KeepaliveInvariant` | `KeepaliveSpec => []KeepaliveInv` |
| | `StreamIsTransparent`, `CommentsKeepFrames` | `KeepaliveSpec => []Transparent`, `[]CommentsBetweenEvents` |
| | `ExchangeInvariant` | `ExchangeSpec => []ExchangeInv` |
| | `PolicyIsExact`, `CompletionIsExact` | `ExchangeSpec => []PolicyExact`, `[]CompletionExact` |
| | `CountsAreExact` | `ExchangeSpec => []CountsExact` (from `TokensAreExact` and `UsageIsExact`) |
| `AtomicFileProofs` | `FileInvariant` | `Spec => []FileInv` |
| | `Crashes`, `SingleCreator` | `Spec => []CrashSafe`, `Spec => []AtMostOneCreator` |
| `ChatRequestProofs` | `ChatInvariant` | `Spec => []ChatInv` |
| | `LedgerIsTrue`, `SnapshotIsExact` | `Spec => []LedgerTrue`, `Spec => []SnapshotExact` |
| | `ReportsContinue` | `Spec => ReportContinuous` |
| | `StatusInvariant`, `ReportsAreTrue` | `StatusSpec => []StatusInv`, `StatusSpec => []ReportTruthful` |
| `StatisticsProofs` | `StatisticsInvariant` | `Spec => []StatisticsInv` |
| | `CountersAreExact`, `SnapshotsAreHonest`, `ShutdownIsSound` | `Spec => []CountersExact`, `[]SnapshotHonest`, `[]ShutdownSound` |
| `ContentInstallProofs` | `InstallInvariant` | `Spec => []InstallInv` |
| | `RecordsAreTrue`, `StagingExclusive`, `SuccessIsLasting` | `Spec => []ReadyIsGood`, `[]OneStagingWriter`, `[]SuccessLasts` |
| | `NothingIsLost` | `Spec => NothingLost` |
| `PodmanProofs` | `ContainersInvariant` | `Spec => []ContainersInv` |
| | `NothingLeftSilently`, `OnlyBackendsRemoved`, `CleanupIsComplete` | `Spec => []NoSilentLeftover`, `[]GatewayRemovesBackends`, `[]CleanupComplete` |
| | `ImagesInvariant` | `ImagesSpec => []ImagesInv` |
| | `ExportsOneMoment`, `BuildsAreFresh`, `ImportsKeepTags` | `ImagesSpec => []OneMoment`, `[]BuiltOnFresh`, `[]TagsKept` |
| `BenchmarksProofs` | `BenchmarksInvariant` | `Spec => []BenchmarksInv` |
| | `CheckpointsAreTrue`, `AcceptedStands`, `SuitesResume` | `Spec => []CheckpointTruthful`, `[]AcceptedNotRerun`, `[]SuiteResumable` |

A proof has one lemma per action, or per group of actions that change the same
variables, and frame lemmas that say what a step of one process leaves alone of
another's part of the invariant.

**Scheduler.** None of the safety properties is inductive. `ExclusiveResidency`
needs to know that a result which makes `run()` forget the allocation means the
backend is gone (`ResultSound`); that needs the only result in flight to be about
the current generation (`NoOperationUnderLease`); that needs operations to begin
only when `active = 0` really means that no lease is out (`LeaseAccounting`); and
keeping the count exact needs every lease to carry the current generation, and
none to exist for a generation still starting (`LeasesSound`, `StartSound`).
`LoopSound` says what the loop may rely on when it grants leases. So

    SchedulerInv == LeaseAccounting /\ NoOperationUnderLease /\ ExclusiveResidency
                    /\ LeasesSound /\ StartSound /\ ResultSound /\ LoopSound

is proved together, on top of `TypeOK`. `Refinement` uses the same invariant: a
grant maps to a grant of the abstract manager, a processed release to a return, a
start to a change of owner, and everything else to a condemnation or to a stutter.

`QueueServed` needs `QueueInv`: tickets are distinct and below the counter
(`TicketsSound`), a queued request is waiting for its reply or has a cancellation
on its way (`WaitersSound`), and a loop that has granted what it can sees the head
of the queue blocked or is about to be woken (`GrantSound`). `CleanupDiscipline`
needs `CleanupInv`: only a lease that was handed out can be reported as failed
(`FailuresSound`), the number of stops per generation follows from where the loop
is (`StopsSound`), and a reply of nil means that nothing is resident
(`RepliesSound`, with `SchedulerInv` for the meaning of `resident`).

**Gateway process.** `ProcessInv` says that the lock names whoever is between
locking and unlocking (`LockSound`; a client holds it only while it checks a
socket), that a socket at the path belongs to a gateway that accepts, is about to
unlink it, or was killed (`SocketSound`), that a backend is accounted for unless
its gateway was killed, and that a gateway whose result is "ok" has none
(`BackendSound`), and what a client with an answer has heard and from whom
(`ClientSound`).

**Stream keepalive.** `BytesSound` says where every byte is: what upstream sent is
what was delivered, plus what `pending` still stands for, plus what a finished
upstream read has put in the buffer and `Read` has not taken over. The buffer is one
and reused, so this rests on `StagesSound`: a read of upstream is demanded only when
nothing is pending, and at most one is under way. `FramingSound` says what the three
flags of the framing mean for the whole stream that was delivered (`Framed`): a
boundary is the start of the stream or the end of an empty line. Hence a comment,
which starts only at a boundary, starts between two events, and `CommentsSound` adds
that it goes on where it stopped.

**Loops.** What `observe`, `observeSSE` or `Events` computes for every input is a
matter of induction over the input. The library's induction theorems take an
operator as a parameter and cannot be used, but a set can take its place:
`Positions` says that a set which contains 0 and with a position the next one
contains all of them (proved from the minimum principle of `WellFoundedInduction`).
For each recursive function of the models there is a lemma `...Loop`: there is a
function of the positions with the given first value and one turn of the loop
between neighbours. A lemma about one turn and `Positions` then give the whole loop.

**Chat exchange.** `ExchangeInv` has three independent parts. `ForwardingSound`: what
is forwarded is what the policy makes of the request that was inspected. The policy
is then a statement about operators: `Selected` carries through `requestThinking`
that the mode agrees with everything selected so far, and `Seen` through
`reasoningControlsConflict` that a conflict is found exactly if there is one.
`ObservationSound`: after every `Read` the observer stands where the bytes read so
far, taken as one text, put it (`Observed`). That is built from the inside out, one
lemma per turn: `Counted` for a choice (its state tracks all that was said of its
index), `Heard` for an object or [DONE], `Reading` for a line (the event buffer is
what is left of `Events`), `Follows` for a byte (the line buffer is what is left of
`Lines`), and `ChunkTaken` and `BytesObserved` for a chunk, wherever it was cut.
Once something did not fit, all that is kept is `Lost`: the response is marked
partial, whatever comes later (`Behind`). At the end `StreamEnded` accounts for a
line and an event that nothing has ended, and `VerdictExact` compares the collector's
verdict with the reference. `UsageSound`: every counter is the capped sum over the
records, since capping after each addition is capping the sum (`CounterAdded`), and
a saturated pair keeps its order. The two counts of a pair are columns of values
selected of each record (`ColumnAppended`), with one set of members for both, so that
one record adds to both or to neither (`TotalsAdded`).

**Atomic files.** `StepsSound` ties each system call of a writer to the state of
its own inode, `VersionsSound` orders the files that have been at the destination,
and `PublicationsSound` bounds what a power loss may bring back: from its
publication until its sync only a later one can change the destination, afterwards
no power loss can undo it either. That is why a second `link` never finds the name
free while a creator waits for its sync or has returned nil (`OneCreator`).

**Chat requests.** The ring of completed records is an array with a next position;
`RingSound` equates it, modulo the limit, with the newest entries of the sequence
of all records, which is what makes `Recent` exact for every size of the ring.
`SessionsSound` is the pigeonhole argument behind `SessionLimit >= RecentLimit`:
the sessions of the recent window have been used later than any other, so the one
that is dropped is not among them. `HandlerSound` and `ProxySound` relate the
place of a handler to its presence in the active cache, its lease and its outcome.

**Model status.** `RouterSound` (no router without an allocation, nothing loaded
without a router) makes the answer "unloaded" true when the scheduler has no
allocation; `StatusHandlerSound` says that the inventory stays while a request is
handled and that `seen` holds what every model is. A state in the report is then
one that a model had, whatever the listing leaves out or contradicts.

**Statistics.** `WriterSound`, `LifeSound` and `DatesSound` say which stages of the
writer, the shutdown and the days go together. `EventsSound` is the core: every
event of a retained day is in its table, or in memory (`Unwritten`), or its day or
a later one is marked, or the next transaction will mark today (`Unmarked`). Losses
are marked on the day of the transaction, which no recorded event comes after, so
expiry never removes a mark and keeps the day it vouches for. `ReaderMarks` and
`ReaderCounts` say the same of a reader that has read the tables and not yet the
counters. They are stable because the reader holds `dbMu`, and the writer needs it
to commit a batch and, when the transaction failed, once more to set the delay
between counting the batch as dropped and taking it out of `pending`: what the
reader did not find in the tables is in one of the counters it still has to read.
An event that overflows the queue is in neither for a moment, but its `Record` has
not returned then. That the counters are sums costs the facts
that open `StatisticsProofs`: the sum over the days exists and unfolds
(`SumsExist`, `TotalSums`), and while only day 1 has entries it is that entry
(`TotalFirst`). They are proved from the minimum principle: a first day at which
they fail would have a predecessor at which they do not.

**Content.** `LockSound` (who holds the lock), `StagingSound` (which of them may be
in staging, and which containers write there) and `RecordsSound` (a record that
fits a file vouches for it) are shared; `InstallerSound` says for one installer
what its copy of the receipt, its current artifact and its finished part are worth
against the disk, given what others have touched since.

**Containers.** A container is known by who created it and as which of his;
`DatesSound` says that no new one will be taken for one that exists or was listed.
`ProcessSound` relates what a process has seen, created and removed to what Podman
has under those names. For `UsedSpared` the invariant is extended by `ControlHeld`: a
gateway past `StartLocalControl` holds the control lock until it ends. One that
removes a container after its preflight is such a gateway, and a gateway with a
container that is still running is another; both would hold the lock.

**Images.** The difficult property is `OneMoment`: an export inspects the tags one
after another, saves them one after another and compares. `Agreed` says that there
was one moment at which every tag had the image that is wanted of it, except for
tags that no longer have it and did not when they were saved; such a tag would have
to be moved back, which `Met` recognises (`back`), or the comparison fails. With
nothing left to save the exceptions are empty and the moment is the archive's.
`Needs` (the closure of a unit) is defined as the least closed set, and
`BuiltOnFresh` rests on the fact that a loop in the order of the registry takes
prerequisites first: a set of units has a foremost one, by the minimum principle of
`WellFoundedInduction`.

**Benchmarks.** Nothing locks a checkpoint, so the invariant says of each process
what its own copy is worth while others write and the user deletes. A passed entry
names the result that is there, unless a result was deleted at any time
(`EntrySound`); what a process has accepted is there, unless it was deleted since
that process began (`Backed`, with the history variable `gone`). This rests on
results being created once: a process that has published one cannot be overtaken
by another, because the second finds the file and fails (`AttemptSound`). `Settled`
is the loop invariant, every item behind the current one is accepted or has set
`failed`, from which the status at the end is true; `SkippedSound` says that what
was skipped on resuming is still accepted in the copy the loop works from.

### What proving changed

* `OneMoment` held in the runs only because their bounds left no room to move a
  tag away and back. It now says so, with the history variable `back`.
* The user's own containers all had one identity in `Containers`; each has its
  own now.
* Some CASE expressions of `ContentInstall` and `ModelStatus` had overlapping
  guards, of which TLC takes the first and TLA+ any. They are IF ... ELSE now.
* `Benchmarks` named the classes of items without saying which command has which;
  several definitions are only right because a sweep has trials and an acceptance
  no bundles, which `PlanAssumption` states now.
* The loops of `Images` were recursive operators over sequences, which the prover
  cannot use; they are sets taken in order. `Recent` of `ChatRequest` is written as
  a function of the ring, and `Total` of `Statistics` as a recursive function of the
  day in place of a fold.
* `ResponseObserver` cut a chunk into its lines at once and folded over them, and the
  references took a response apart with selections and folds. Both are recursive
  functions of the position now: the observer byte by byte, the references as
  `Lines`, `Events` and `Meanings`. `out` of `StreamKeepalive` records which part of a
  comment a byte is, in place of where it came from.
* `CountsExact` said of the aggregate that its counters of observations equal the
  numbers of records, which is false once a counter is full; the instance had too few
  requests to show it. `UsageExact` is now about the saturated sums, for every metric
  and outcome.
* Four cases that the instance did not have: a field that occurs twice in
  `chat_template_kwargs` matters only if that is an object; a model whose default is
  "none" does not think, as with "off"; two different unknown finish reasons agree,
  because both are "other"; and [DONE] is compared after the white space around it
  was trimmed. The code is as before, the references say so now.
* The type invariant of `Statistics` and what its reader may rely on are
  conjunctions of named parts, since each action disturbs only some of them.

### What is only model-checked

* Liveness: `NothingStuck` and `ShutdownCompletes` of `Scheduler`, `StopCompletes`
  of `GatewayProcess`, `CloseUnblocks` of `StreamKeepalive`. The prover has
  neither fairness nor `ENABLED`.
* `SweepResumable` of `Benchmarks` and `ReclaimsOnlyStale` of `Containers` are false:
  see section 6.

## 5. Abstractions

Logging, formatting, JSON, HTTP details and the wording of errors are left out.
An error is kept as a value only where the code distinguishes it
(`backendCleanupError`, the error of a failed stop). Podman, SQLite, the kernel's
file system, sockets and locks are external, and modelled by what the code relies
on. Time appears as nondeterministic ticks, timeouts and midnights.

## 6. Disagreements and limits

Two runs demonstrate a disagreement between the code and its own text:

* `benchmarks_resume`: a speculative sweep without `--keep-going` ends at its
  first failed trial with status "failed" and no completion time
  (`commands_benchmark_speculative.go:484`), and the validation of `--resume`
  refuses a failed checkpoint without one (line 541). The trials measured so far
  cannot be taken up. A suite or an acceptance does not have the problem
  (`SuiteResumable`).
* `stale_reclaim`: `runGateway` calls `Preflight` (`commands_gateway.go:155`) before
  it takes the control lock (line 181). A second `run gateway` finds a container with
  the labels of a backend, which the one that serves has as well, removes it as stale
  and is then refused, whether its port is free or not. `lifecycle.go:112` and
  `architecture.md:821` say that only a stale container is reclaimed
  (`ReclaimsOnlyStale`).

The models also reach the following, which the properties are worded around:

* `Ensure` promises that losing a race against identical contents is success
  (`file.go:58`), but the loser refuses the winner's file if it looks between the
  winner's `Link` and its deferred `Remove`, while the link count is 2.
* A run that cannot open the statistics database leaves the clean mark of the
  previous run in place, so that the next run reports the period as complete;
  `gateway.md:745` says that statistics are marked incomplete when storage fails.
* `runGateway` writes `models.ini` before it takes the control lock as well (line
  169): a second one whose port is free replaces the router preset of the one that
  serves before it is refused. A gateway that starts while a stop client holds the
  lock to clear a dead socket is refused too.
* A command whose `podman run` fails because another command or the user has just
  taken the name removes the container that has it (`commands_basic.go:946`).
* Completing one member of an archive removes the staging directory it shares
  with other members, staged bytes included (`install.go:230`), though "failed or
  interrupted staging remains resumable" (`architecture.md:711`).
* The windows excused by `raced`, `seen` and `late` (section 2) are those of
  system calls and Podman commands that cannot be made atomic.

## 7. Not modelled, and what could follow

Not modelled: the catalog, its validation and the configuration file (static data;
what other parts take from it are constants of their modules); validation of
remote metadata and content packs (pure functions of one answer; the saved pack is
in `ContentInstall`); the tar and JSON checks of one image archive; argument
parsing, listings, doctor, terminal output and host inspection; the dashboards,
authentication and one-shot HTTP clients of the gateway, which keep no state;
prompt calibration and summary arithmetic of the benchmarks; container recipes,
patches, evaluations and development tools.

What could follow: an abstract module for the lifecycle contract that `Scheduler`
assumes and `Containers` provides, a module in which `ChatRequest` and `ChatExchange`
run together, so that the outcome of a record and what its response said are those
of one handler, and a liveness run for the statistics writer.

## 8. Running it

    tlc -workers 2 -config SchedulerSafety.cfg MCScheduler
    tlapm SchedulerProofs.tla

The other proof modules are checked in the same way; `GatewayProofs`, the largest,
takes about ten minutes. The other runs are listed in `PROJECT.json` with their
modules and configurations; each takes less than four minutes.
