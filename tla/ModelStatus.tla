----------------------------- MODULE ModelStatus -----------------------------
(***************************************************************************)
(* The frozen model inventory and the residency the gateway reports:       *)
(* BuildRegistry and DiscoverRegistry of internal/gateway/registry.go, the *)
(* status handler of server.go and the router probe of residency.go.       *)
(*                                                                         *)
(* The scheduler is reduced to what its Status answers: the allocation and *)
(* the upstream it holds (see Scheduler for how it comes to hold them).    *)
(* The llama.cpp router is external.  It loads and unloads its models on   *)
(* its own, may die, and answers GET /models with any sequence of entries: *)
(* a model it lists once has the status it is in or one the gateway cannot *)
(* read; a model it lists twice may have contradicting ones; the answer    *)
(* may leave models out, hold others, or be no listing at all.             *)
(*                                                                         *)
(* One status request is in the handler at a time; the handler keeps no    *)
(* state between requests and shares none with another one.                *)
(***************************************************************************)
EXTENDS Naturals, Sequences, FiniteSets, Functions

CONSTANTS
    Candidates,      \* textmodel.All: the catalog's presets, sorted
    Supported,       \* those that support the backend on this profile
    Others,          \* names the router may list beside them
    Statuses,        \* decoded values of an entry's "status"
    Invalid,         \* a status that is absent or no object
    ChildStates,     \* bound: the states a child of the router takes
    MaxListed        \* bound on the entries of a listing

\* The states of a child of the router; a status report adds "unknown".
ModelState == {"unloaded", "loading", "loaded", "sleeping", "failed"}

ASSUME StatusAssumption ==
    /\ IsInjective(Candidates)
    /\ Supported \subseteq Range(Candidates)
    /\ Others \cap Range(Candidates) = {}
    /\ "unloaded" \in ChildStates /\ ChildStates \subseteq ModelState
    /\ MaxListed \in Nat

Models == Range(Candidates)

VARIABLES
    installed,   \* models whose artifacts are all ready (content.InspectBundle)
    gateway,     \* runGateway: off, building, serving, draining, done
    selection,   \* the applications it was started with; <<>> discovers them
    position,    \* candidates buildRegistry has gone through
    registry,    \* Registry.Models, frozen once the gateway serves
    \* the scheduler's current allocation and upstream
    allocation, upstream,
    \* the router: whether its process lives, the state of each child
    alive, child,
    \* the status handler: its stage, the scheduler's answer, the response
    handler, snapshot, report,
    \* history: the states each model was in since the handler began
    seen

inventory == <<installed, gateway, selection, position, registry>>
scheduler == <<allocation, upstream>>
router == <<alive, child>>
request == <<handler, snapshot, report>>
statusVars == <<inventory, scheduler, router, request, seen>>

NoReport == [m \in {} |-> 0]
AllUnloaded == [m \in Models |-> "unloaded"]

StatusInit ==
    /\ installed \in SUBSET Models
    /\ gateway = "off" /\ selection = <<>> /\ position = 0 /\ registry = {}
    /\ allocation = FALSE /\ upstream = FALSE
    /\ alive = FALSE /\ child = AllUnloaded
    /\ handler = "idle" /\ snapshot = [allocation |-> FALSE, upstream |-> FALSE]
    /\ report = NoReport
    /\ seen = [m \in Models |-> {}]

-----------------------------------------------------------------------------
(* The registry.                                                           *)

\* buildRegistry refuses an application twice.  Without a selection the
\* gateway takes the applications whose image is built.
RunGateway(applications) ==
    /\ gateway = "off" /\ IsInjective(applications)
    /\ gateway' = "building"
    /\ selection' = applications
    /\ position' = 0 /\ registry' = {}
    /\ UNCHANGED <<installed, scheduler, router, request, seen>>

\* One candidate: a preset the hardware does not support, or with an
\* artifact that is not ready, becomes a diagnostic.
InspectCandidate ==
    /\ gateway = "building" /\ position < Len(Candidates)
    /\ LET m == Candidates[position + 1]
       IN  registry' = IF m \in Supported \cap installed
                       THEN registry \cup {m} ELSE registry
    /\ position' = position + 1
    /\ UNCHANGED <<installed, gateway, selection, scheduler, router, request, seen>>

\* An application none of whose models is ready is an error: the selected
\* one in BuildRegistry, the last candidate in DiscoverRegistry.
RegistryBuilt ==
    /\ gateway = "building" /\ position = Len(Candidates)
    /\ gateway' = IF registry = {} THEN "off" ELSE "serving"
    /\ UNCHANGED <<installed, selection, position, registry, scheduler, router,
                   request, seen>>

\* Files are installed, removed and damaged at any time.
ContentChanges(m) ==
    /\ installed' = IF m \in installed THEN installed \ {m} ELSE installed \cup {m}
    /\ UNCHANGED <<gateway, selection, position, registry, scheduler, router,
                   request, seen>>

-----------------------------------------------------------------------------
(* The backend.                                                            *)

\* What the handler could have observed of each model since it began.
Watch ==
    seen' = [m \in Models |->
               IF handler = "idle" THEN {} ELSE seen[m] \cup {child'[m]}]

StartBackend ==
    /\ gateway \in {"serving", "draining"} /\ ~allocation
    /\ allocation' = TRUE
    /\ UNCHANGED <<inventory, upstream, router, request, seen>>

RouterRuns ==
    /\ allocation /\ ~upstream /\ ~alive
    /\ alive' = TRUE
    /\ UNCHANGED <<inventory, scheduler, child, request, seen>>

Started ==
    /\ allocation /\ ~upstream /\ alive
    /\ upstream' = TRUE
    /\ UNCHANGED <<inventory, allocation, router, request, seen>>

\* Start fails and removes what it started.
StartFailed ==
    /\ allocation /\ ~upstream
    /\ allocation' = FALSE
    /\ alive' = FALSE /\ child' = AllUnloaded
    /\ Watch
    /\ UNCHANGED <<inventory, upstream, request>>

Stopped ==
    /\ allocation /\ upstream
    /\ allocation' = FALSE /\ upstream' = FALSE
    /\ alive' = FALSE /\ child' = AllUnloaded
    /\ Watch
    /\ UNCHANGED <<inventory, request>>

ChildChanges(m, state) ==
    /\ alive /\ m \in registry /\ child[m] # state
    /\ child' = [child EXCEPT ![m] = state]
    /\ Watch
    /\ UNCHANGED <<inventory, scheduler, alive, request>>

RouterDies ==
    /\ alive
    /\ alive' = FALSE /\ child' = AllUnloaded
    /\ Watch
    /\ UNCHANGED <<inventory, scheduler, request>>

\* handler.BeginShutdown and then http.Server.Shutdown.
StatusBeginShutdown ==
    /\ gateway = "serving" /\ gateway' = "draining"
    /\ UNCHANGED <<installed, selection, position, registry, scheduler, router,
                   request, seen>>

\* Mutant: the backends are shut down before the HTTP server has drained.
SchedulerShutdown_Early(stopped) ==
    /\ gateway = "draining"
    /\ gateway' = "done"
    /\ IF stopped
       THEN allocation' = FALSE /\ upstream' = FALSE /\ alive' = FALSE
            /\ child' = AllUnloaded /\ Watch
       ELSE UNCHANGED <<allocation, upstream, alive, child, seen>>
    /\ UNCHANGED <<installed, selection, position, registry, request>>

\* scheduler.Shutdown, once Server.Shutdown has waited for every handler:
\* it stops the backend once, and ends whether that succeeds or not.
SchedulerShutdown(stopped) ==
    /\ gateway = "draining" /\ handler = "idle"
    /\ gateway' = "done"
    /\ IF stopped
       THEN allocation' = FALSE /\ upstream' = FALSE /\ alive' = FALSE
            /\ child' = AllUnloaded /\ Watch
       ELSE UNCHANGED <<allocation, upstream, alive, child, seen>>
    /\ UNCHANGED <<installed, selection, position, registry, request>>

-----------------------------------------------------------------------------
(* The status handler.                                                     *)

StatusArrives ==
    /\ handler = "idle" /\ gateway = "serving"
    /\ handler' = "asking"
    /\ report' = NoReport
    /\ seen' = [m \in Models |-> {child[m]}]
    /\ UNCHANGED <<inventory, scheduler, router, snapshot>>

\* A query it does not accept, or a context that ends: an error response.
StatusRefused ==
    /\ handler = "asking"
    /\ handler' = "idle"
    /\ seen' = [m \in Models |-> {}]
    /\ UNCHANGED <<inventory, scheduler, router, snapshot, report>>

\* Scheduler.Status; once the scheduler is done, an empty answer.
SchedulerStatus ==
    /\ handler = "asking"
    /\ snapshot' = [allocation |-> allocation /\ gateway # "done",
                    upstream |-> upstream /\ gateway # "done"]
    /\ handler' = "answered"
    /\ UNCHANGED <<inventory, scheduler, router, report, seen>>

Row(state, runtime) == [state |-> state, runtime |-> runtime]
UnknownLlamaResidency == [m \in registry |-> Row("unknown", FALSE)]

DecodeRouterModelStatus(status) ==
    IF status = Invalid THEN "unknown"
    ELSE IF status.failed THEN "failed"
    ELSE IF status.value \in {"downloading", "downloaded", "loading"} THEN "loading"
    ELSE IF status.value \in ModelState THEN status.value ELSE "unknown"

\* Which entries of a listing name the model.
Mentions(listing, m) == {i \in DOMAIN listing : listing[i].id = m}

\* The loop over listed.Data, its "seen" map included: an entry outside the
\* registry is skipped, one that comes twice makes its model unknown, one
\* that does not come leaves it unknown.  decodeRouterModelRuntime yields
\* the metadata of a resident model, if there is any.
Residency(listing) ==
    [m \in registry |->
       IF Cardinality(Mentions(listing, m)) # 1 THEN Row("unknown", FALSE)
       ELSE LET entry == listing[CHOOSE i \in Mentions(listing, m) : TRUE]
                state == DecodeRouterModelStatus(entry.status)
            IN  Row(state, state \in {"loaded", "sleeping"} /\ entry.meta)]

Respond(rows) ==
    /\ report' = rows
    /\ handler' = "reported"
    /\ UNCHANGED <<inventory, scheduler, router, snapshot, seen>>

\* modelStatus without a router to ask.
ModelStatusUnasked ==
    /\ handler = "answered" /\ ~(snapshot.allocation /\ snapshot.upstream)
    /\ Respond(IF snapshot.allocation THEN UnknownLlamaResidency
               ELSE [m \in registry |-> Row("unloaded", FALSE)])

\* The probe fails: no connection, two seconds, a status that is not 2xx, a
\* body too long or followed by another, no JSON.
ProbeFails ==
    /\ handler = "answered" /\ snapshot.allocation /\ snapshot.upstream
    /\ Respond(UnknownLlamaResidency)

\* The listings the router may answer with now.
Entry == [id : registry \cup Others, status : Statuses \cup {Invalid},
          meta : BOOLEAN]
Truthful(listing) ==
    \A m \in registry :
      \A i \in Mentions(listing, m) :
        \/ Cardinality(Mentions(listing, m)) > 1
        \/ DecodeRouterModelStatus(listing[i].status) \in {"unknown", child[m]}

ProbeLlamaResidency ==
    /\ handler = "answered" /\ snapshot.allocation /\ snapshot.upstream
    /\ alive
    /\ \E n \in 0..MaxListed : \E listing \in [1..n -> Entry] :
         /\ Truthful(listing)
         /\ Respond(Residency(listing))

StatusReturns ==
    /\ handler = "reported"
    /\ handler' = "idle"
    /\ report' = NoReport
    /\ seen' = [m \in Models |-> {}]
    /\ UNCHANGED <<inventory, scheduler, router, snapshot>>

StatusNext ==
    \/ \E applications \in {<<>>, <<"llama-cpp">>, <<"llama-cpp", "llama-cpp">>} :
         RunGateway(applications)
    \/ InspectCandidate \/ RegistryBuilt
    \/ \E m \in Models : ContentChanges(m)
    \/ StartBackend \/ RouterRuns \/ Started \/ StartFailed \/ Stopped
    \/ \E m \in Models, state \in ChildStates : ChildChanges(m, state)
    \/ RouterDies
    \/ StatusBeginShutdown
    \/ \E stopped \in BOOLEAN : SchedulerShutdown(stopped)
    \/ StatusArrives \/ StatusRefused \/ SchedulerStatus
    \/ ModelStatusUnasked \/ ProbeFails \/ ProbeLlamaResidency \/ StatusReturns

StatusSpec == StatusInit /\ [][StatusNext]_statusVars

-----------------------------------------------------------------------------
(* Properties.                                                             *)

\* A report lists the frozen inventory, whatever was installed or damaged
\* since, and gives a model a state only if the model was in that state at
\* some moment while the request was handled: a snapshot of the scheduler
\* that is stale when the router answers, a router that dies, a listing with
\* holes or contradictions and a shutdown make it "unknown", never wrong.
\* Runtime metadata is that of a resident model.
ReportTruthful ==
    handler = "reported" =>
      /\ DOMAIN report = registry
      /\ \A m \in registry :
           /\ report[m].state \in seen[m] \cup {"unknown"}
           /\ report[m].runtime => report[m].state \in {"loaded", "sleeping"}

-----------------------------------------------------------------------------
(* The inductive invariant behind ReportTruthful (see ChatRequestProofs).  *)

StatusTypeOK ==
    /\ gateway \in {"off", "building", "serving", "draining", "done"}
    /\ registry \subseteq Models
    /\ allocation \in BOOLEAN /\ upstream \in BOOLEAN /\ alive \in BOOLEAN
    /\ child \in [Models -> ModelState]
    /\ handler \in {"idle", "asking", "answered", "reported"}
    /\ snapshot \in [allocation: BOOLEAN, upstream: BOOLEAN]
    /\ seen \in [Models -> SUBSET ModelState]

\* Without an allocation no router runs, and without a router no model is
\* loaded.
RouterSound ==
    /\ allocation \/ ~alive
    /\ alive \/ child = AllUnloaded

\* While the handler works the inventory and the scheduler stay, what a model is
\* has been watched, and an answer without an allocation was true of every model.
StatusHandlerSound ==
    handler # "idle" =>
      /\ gateway \in {"serving", "draining"}
      /\ \A m \in Models : child[m] \in seen[m]
      /\ handler = "answered" /\ ~snapshot.allocation =>
           \A m \in Models : "unloaded" \in seen[m]

StatusInv == StatusTypeOK /\ RouterSound /\ StatusHandlerSound /\ ReportTruthful

=============================================================================
