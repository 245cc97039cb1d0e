----------------------------- MODULE Containers -----------------------------
(***************************************************************************)
(* Who creates, finds and removes containers: the Podman calls of          *)
(* podman/podman.go as made by `run`, `shell`, `stop`, `cleanup            *)
(* containers`, the benchmarks and the gateway's backend lifecycle, each   *)
(* in a process of its own.  Every call is a step: containers come and go  *)
(* between two calls of one command.                                       *)
(*                                                                         *)
(* A process runs one command.  An application has one name, each kind of  *)
(* benchmark and the gateway's backend have one of their own, and a shell  *)
(* has a generated one.  Every container but that of the speculative       *)
(* benchmark is removed by Podman when it ends (--rm).                     *)
(*                                                                         *)
(* The listing of a cleanup is one step.  `stop all` also asks the gateway *)
(* to end through its control socket: that is in GatewayProcess.           *)
(***************************************************************************)
EXTENDS Integers, Sequences

CONSTANTS
    Processes,
    Commands,      \* what a process may run: see CommandOK
    Foreign,       \* owner of the containers that are not this program's
    None,
    MaxMade,       \* containers one process creates
    MaxForeign, MaxKills

Apps == {"comfyui", "llama-cpp"}
Transient == {"comfy-bench", "llama-bench", "spec-bench"}
Names == Apps \cup Transient \cup {"gateway"} \cup Processes

CommandOK(c) ==
    /\ c.op \in {"run", "shell", "stop", "cleanup", "gateway"} \cup Transient
    /\ c.app \in Apps \/ (c.app = "all" /\ c.op \in {"stop", "cleanup"})
    /\ c.detach \in BOOLEAN

ASSUME CommandsAssumption == \A c \in Commands : CommandOK(c)
ASSUME OwnersAssumption == Foreign \notin Processes
\* A shell's name is like no other.
ASSUME NamesAssumption == Processes \cap (Apps \cup Transient \cup {"gateway"}) = {}

\* The roles and the applications in the labels.
Roles == {"none", "run", "shell", "benchmark", "stop", "cleanup", "gateway"}
Container == [by: Processes \cup {Foreign}, id: Nat, managed: BOOLEAN,
              role: Roles, app: Apps \cup {"none"}]

ASSUME NoneAssumption == None \notin Container \cup Commands \cup {"ok", "error"}
ASSUME HolderAssumption == None \notin Processes

VARIABLES
    ctr,        \* Podman's containers: [Names -> a container or None]
    control,    \* the gateway that holds the control lock
    cmd, pc, todo, failed, made, result,   \* of each process
    phase, believes,   \* of a gateway: the operation, and what it takes its
                       \* backend to be
    listed, plan,   \* what a cleanup has listed, or a gateway looked at, as
                    \* <<name, container>>; the names it has still to remove
    removed,    \* what gateways have removed (history)
    strangers, kills

command == <<cmd, todo, made, listed, plan>>
gateway == <<phase, believes, control>>
bounds == <<strangers, kills>>
vars == <<ctr, command, gateway, pc, failed, result, removed, bounds>>

Init ==
    /\ ctr = [n \in Names |-> None]
    /\ control = None
    /\ cmd = [p \in Processes |-> None]
    /\ pc = [p \in Processes |-> "idle"]
    /\ todo = [p \in Processes |-> <<>>]
    /\ failed = [p \in Processes |-> "no"]
    /\ made = [p \in Processes |-> 0]
    /\ result = [p \in Processes |-> None]
    /\ phase = [p \in Processes |-> None]
    /\ believes = [p \in Processes |-> "absent"]
    /\ listed = [p \in Processes |-> {}]
    /\ plan = [p \in Processes |-> {}]
    /\ removed = {}
    /\ strangers = 0 /\ kills = 0

-----------------------------------------------------------------------------
(* Podman.                                                                 *)

Exists(n) == ctr[n] # None

ManagedContainerNames(app) ==
    {n \in Names : Exists(n) /\ ctr[n].managed /\ app \in {"all", ctr[n].app}}

\* ContainerLabels, compared with those of the gateway's backend.
GatewayLabels(n) == ctr[n].managed /\ ctr[n].role = "gateway"

NameOf(p) ==
    CASE cmd[p].op = "run" -> cmd[p].app
      [] cmd[p].op = "shell" -> p
      [] OTHER -> cmd[p].op

Mine(p) == Exists(NameOf(p)) /\ ctr[NameOf(p)].by = p

\* ManagedArguments: the labels every container of this program is given.
NewContainer(p) ==
    [by |-> p, id |-> made[p], managed |-> TRUE,
     role |-> IF cmd[p].op \in Transient THEN "benchmark" ELSE cmd[p].op,
     app |-> CASE cmd[p].op \in {"run", "shell"} -> cmd[p].app
               [] cmd[p].op = "comfy-bench" -> "comfyui"
               [] OTHER -> "llama-cpp"]

\* The container of another command that is still running.
InUse(p, n) == ctr[n].by \in Processes \ {p} /\ pc[ctr[n].by] \notin {"done", "killed"}

\* RemoveContainer by name: `podman rm --force --ignore`, whoever's it is.  Of
\* a gateway's removal it is recorded whether the gateway had read the labels
\* of this container, whose it was, and whether it had passed its preflight.
RemoveContainer(p, n) ==
    /\ ctr' = [ctr EXCEPT ![n] = None]
    /\ removed' = removed \cup
        (IF Exists(n) /\ cmd[p].op = "gateway"
         THEN {[role |-> ctr[n].role, seen |-> <<n, ctr[n]>> \in listed[p],
                used |-> InUse(p, n), early |-> phase[p] = "preflight"]}
         ELSE {})

RemovalFails == UNCHANGED <<ctr, removed>>

Goto(p, label) == pc' = [pc EXCEPT ![p] = label] /\ UNCHANGED <<result, control>>

Return(p, value) ==
    /\ pc' = [pc EXCEPT ![p] = "done"]
    /\ result' = [result EXCEPT ![p] =
                    IF failed[p] = "leftover" THEN "leftover" ELSE value]
    /\ control' = IF control = p THEN None ELSE control

-----------------------------------------------------------------------------
(* `run`, `shell` and the benchmarks.                                      *)

\* The names a command asks Podman for, one after the other: commandStop those
\* of its applications, startManaged and executeComfyBenchmark those that have
\* to be free.
Lookups(c) ==
    CASE c.op = "run" -> <<c.app>>
      [] c.op = "comfy-bench" -> <<"comfy-bench", "comfyui">>
      [] c.op = "stop" -> IF c.app = "all" THEN <<"comfyui", "llama-cpp">>
                                           ELSE <<c.app>>
      [] OTHER -> <<>>

First(c) ==
    CASE c.op = "run" -> "managed"
      [] c.op \in {"comfy-bench", "stop"} -> "lookup"
      [] c.op \in {"llama-bench", "spec-bench", "shell"} -> "create"
      [] c.op = "cleanup" -> "plan"
      [] c.op = "gateway" -> "list"

\* commandRun and its like pick the command; its flags, devices and content
\* are checked, and nothing has been created yet.
Begin(p) ==
    /\ pc[p] = "idle"
    /\ \E c \in Commands :
        /\ cmd' = [cmd EXCEPT ![p] = c]
        /\ todo' = [todo EXCEPT ![p] = Lookups(c)]
        /\ phase' = [phase EXCEPT ![p] = "preflight"]
        /\ Goto(p, First(c))
    /\ UNCHANGED <<ctr, failed, made, believes, listed, plan, removed, bounds>>

\* startManaged: a managed container of the application, under any name.
CheckManaged(p) ==
    /\ pc[p] = "managed"
    /\ IF ManagedContainerNames(cmd[p].app) = {} THEN Goto(p, "lookup")
                                                 ELSE Return(p, "error")
    /\ UNCHANGED <<ctr, command, phase, believes, failed, removed, bounds>>

\* Then the names themselves must be free.
CheckFree(p) ==
    /\ pc[p] = "lookup" /\ cmd[p].op # "stop"
    /\ IF todo[p] = <<>>
       THEN Goto(p, "create") /\ UNCHANGED todo
       ELSE /\ todo' = [todo EXCEPT ![p] = Tail(@)]
            /\ IF Exists(Head(todo[p])) THEN Return(p, "error")
                                        ELSE Goto(p, "lookup")
    /\ UNCHANGED <<ctr, cmd, made, listed, plan, phase, believes, failed, removed, bounds>>

Attached(p) ==
    \/ cmd[p].op \in {"shell", "llama-bench"}
    \/ cmd[p].op = "run" /\ ~cmd[p].detach

\* What a command does when `podman run` has failed.
RunFailed(p) ==
    CASE cmd[p].op = "gateway" -> Goto(p, "owned") /\ UNCHANGED failed
      [] cmd[p].op = "shell" \/ (cmd[p].op = "run" /\ cmd[p].detach) ->
            Return(p, "error") /\ UNCHANGED failed
      [] OTHER ->
            /\ failed' = [failed EXCEPT ![p] = IF @ = "no" THEN "yes" ELSE @]
            /\ Goto(p, "remove")

\* `podman run`.  It fails when the name is taken; its client may also fail, or
\* be killed with the context, before or after the container was created.
Create(p) ==
    /\ pc[p] = "create"
    /\ \/ /\ ~Exists(NameOf(p)) /\ made[p] < MaxMade
          /\ ctr' = [ctr EXCEPT ![NameOf(p)] = NewContainer(p)]
          /\ made' = [made EXCEPT ![p] = @ + 1]
          /\ \/ /\ IF cmd[p].op = "run" /\ cmd[p].detach
                   THEN Return(p, "ok")
                   ELSE Goto(p, IF Attached(p) THEN "attached" ELSE "working")
                /\ UNCHANGED failed
             \/ RunFailed(p)
       \/ RunFailed(p) /\ UNCHANGED <<ctr, made>>
    /\ UNCHANGED <<cmd, todo, listed, plan, phase, believes, removed, bounds>>

\* The client of an attached container returns when the container has ended,
\* with its status, or is killed while the container runs on.
AttachedReturns(p) ==
    /\ pc[p] = "attached"
    /\ \/ /\ ~Mine(p)
          /\ IF cmd[p].op = "llama-bench" THEN Goto(p, "remove")
                                          ELSE Return(p, "ok")
          /\ UNCHANGED failed
       \/ RunFailed(p)
    /\ UNCHANGED <<ctr, command, phase, believes, removed, bounds>>

\* A detached benchmark measures, or fails; its container is removed anyway.
Measure(p) ==
    /\ pc[p] = "working" /\ cmd[p].op \in Transient
    /\ \/ Mine(p) /\ Goto(p, "remove") /\ UNCHANGED failed
       \/ RunFailed(p)
    /\ UNCHANGED <<ctr, command, phase, believes, removed, bounds>>

\* More backends, trials or bundles, or the end of the command.
NextOrReturn(p) ==
    \/ /\ cmd[p].op \in Transient /\ made[p] < MaxMade
       /\ todo' = [todo EXCEPT ![p] = Lookups(cmd[p])]
       /\ Goto(p, First(cmd[p]))
    \/ Return(p, IF failed[p] = "no" THEN "ok" ELSE "error") /\ UNCHANGED todo

\* The removal after a failed `run`, and after every benchmark.
RemoveAfter(p) ==
    /\ pc[p] = "remove"
    /\ \/ RemoveContainer(p, NameOf(p)) /\ NextOrReturn(p) /\ UNCHANGED failed
       \/ /\ RemovalFails
          /\ failed' = [failed EXCEPT ![p] = "leftover"]
          /\ Goto(p, "unremoved") /\ UNCHANGED todo
    /\ UNCHANGED <<cmd, made, listed, plan, phase, believes, bounds>>

\* withCleanupFailure: the failed removal becomes part of the error.
WithCleanupFailure(p) ==
    /\ pc[p] = "unremoved"
    /\ NextOrReturn(p)
    /\ UNCHANGED <<ctr, cmd, made, listed, plan, failed, phase, believes, removed,
                   bounds>>

-----------------------------------------------------------------------------
(* `stop` and `cleanup containers`.                                        *)

\* commandStop removes each name it finds.
StopApplication(p) ==
    /\ pc[p] = "lookup" /\ cmd[p].op = "stop"
    /\ CASE todo[p] = <<>> -> Return(p, "ok") /\ UNCHANGED todo
         [] todo[p] # <<>> /\ Exists(Head(todo[p])) ->
                Goto(p, "stop") /\ UNCHANGED todo
         [] OTHER -> Goto(p, "lookup") /\ todo' = [todo EXCEPT ![p] = Tail(@)]
    /\ UNCHANGED <<ctr, cmd, made, listed, plan, phase, believes, failed, removed,
                   bounds>>

StopRemoves(p) ==
    /\ pc[p] = "stop"
    /\ \/ /\ RemoveContainer(p, Head(todo[p]))
          /\ todo' = [todo EXCEPT ![p] = Tail(@)]
          /\ Goto(p, "lookup")
       \/ RemovalFails /\ Return(p, "error") /\ UNCHANGED todo
    /\ UNCHANGED <<cmd, made, listed, plan, phase, believes, failed, bounds>>

\* managedContainers: the known names that exist, and whatever is labelled.
Cleanable(app) ==
    LET owner(n) == CASE n \in Apps -> n
                      [] n = "comfy-bench" -> "comfyui"
                      [] OTHER -> "llama-cpp"
        known == {n \in Apps \cup Transient : app \in {"all", owner(n)}}
    IN  {n \in known : Exists(n)} \cup ManagedContainerNames(app)

\* The plan is printed and has to be confirmed.
CleanupPlan(p) ==
    /\ pc[p] = "plan"
    /\ LET names == Cleanable(cmd[p].app) IN
       /\ listed' = [listed EXCEPT ![p] = {<<n, ctr[n]>> : n \in names}]
       /\ plan' = [plan EXCEPT ![p] = names]
    /\ Goto(p, "cleanup") \/ Return(p, "error")
    /\ UNCHANGED <<ctr, cmd, todo, made, phase, believes, failed, removed, bounds>>

\* Mutant: a removal that reports an error is taken to have worked.
CleanupRemoves_Trusting(p) ==
    /\ pc[p] = "cleanup"
    /\ \/ plan[p] = {} /\ Return(p, "ok") /\ UNCHANGED <<plan, ctr, removed>>
       \/ \E n \in plan[p] :
            /\ plan' = [plan EXCEPT ![p] = @ \ {n}]
            /\ RemoveContainer(p, n) \/ RemovalFails
            /\ Goto(p, "cleanup")
    /\ UNCHANGED <<cmd, todo, made, listed, phase, believes, failed, bounds>>

\* cleanupContainers: a removal that fails is forgiven if the name is gone.
CleanupRemoves(p) ==
    /\ pc[p] = "cleanup"
    /\ \/ plan[p] = {} /\ Return(p, "ok") /\ UNCHANGED <<plan, ctr, removed>>
       \/ \E n \in plan[p] :
            /\ plan' = [plan EXCEPT ![p] = @ \ {n}]
            /\ \/ RemoveContainer(p, n) /\ Goto(p, "cleanup")
               \/ /\ RemovalFails
                  /\ IF Exists(n) THEN Return(p, "error") ELSE Goto(p, "cleanup")
    /\ UNCHANGED <<cmd, todo, made, listed, phase, believes, failed, bounds>>

-----------------------------------------------------------------------------
(* The gateway's backend: gateway/lifecycle.go as the scheduler calls it.  *)

RequireFailed(p) ==
    IF phase[p] = "preflight" THEN Return(p, "error") ELSE Goto(p, "served")

RequireMet(p) == Goto(p, IF phase[p] = "preflight" THEN "lock" ELSE "create")

\* requireAvailable: another managed container of the application is respected.
RequireAvailable(p) ==
    /\ pc[p] = "list"
    /\ LET names == ManagedContainerNames("llama-cpp") IN
       /\ todo' = [todo EXCEPT ![p] =
                    IF "gateway" \in names THEN <<"gateway">> ELSE <<>>]
       /\ IF names \subseteq {"gateway"} THEN Goto(p, "exists")
                                         ELSE RequireFailed(p)
    /\ UNCHANGED <<ctr, cmd, made, listed, plan, phase, believes, failed, removed,
                   bounds>>

TargetExists(p) ==
    /\ pc[p] = "exists"
    /\ CASE ~Exists("gateway") -> RequireMet(p)
         [] Exists("gateway") /\ todo[p] = <<>> -> RequireFailed(p)
         [] OTHER -> Goto(p, "labels")
    /\ UNCHANGED <<ctr, command, phase, believes, failed, removed, bounds>>

\* What the labels are read of (history).
LookAt(p) == listed' = [listed EXCEPT ![p] = {<<"gateway", ctr["gateway"]>>}]

TargetLabels(p) ==
    /\ pc[p] = "labels"
    /\ IF Exists("gateway") /\ GatewayLabels("gateway") THEN Goto(p, "reclaim")
                                                        ELSE RequireFailed(p)
    /\ LookAt(p)
    /\ UNCHANGED <<ctr, cmd, todo, made, plan, phase, believes, failed, removed,
                   bounds>>

Reclaim(p) ==
    /\ pc[p] = "reclaim"
    /\ \/ RemoveContainer(p, "gateway") /\ RequireMet(p)
       \/ RemovalFails /\ RequireFailed(p)
    /\ listed' = [listed EXCEPT ![p] = {}]
    /\ UNCHANGED <<cmd, todo, made, plan, phase, believes, failed, bounds>>

\* Mutant: the lock is taken although another gateway holds it.
TakeControl_Any(p) ==
    /\ pc[p] = "lock"
    /\ control' = p
    /\ pc' = [pc EXCEPT ![p] = "served"] /\ UNCHANGED result
    /\ UNCHANGED <<ctr, command, phase, believes, failed, removed, bounds>>

\* StartLocalControl comes after the preflight.
TakeControl(p) ==
    /\ pc[p] = "lock"
    /\ IF control = None
       THEN /\ control' = p
            /\ pc' = [pc EXCEPT ![p] = "served"] /\ UNCHANGED result
       ELSE Return(p, "error")
    /\ UNCHANGED <<ctr, command, phase, believes, failed, removed, bounds>>

\* The scheduler starts a backend it takes to be absent, stops one that is
\* ready, and at shutdown also one that it could not remove before.
StartBackend(p) ==
    /\ pc[p] = "served" /\ believes[p] = "absent" /\ made[p] < MaxMade
    /\ phase' = [phase EXCEPT ![p] = "start"]
    /\ Goto(p, "list")
    /\ UNCHANGED <<ctr, command, believes, failed, removed, bounds>>

\* waitReady: the backend answers, or it is gone, or the time is over.
WaitReady(p) ==
    /\ pc[p] = "working" /\ cmd[p].op = "gateway"
    /\ \/ /\ Mine(p)
          /\ believes' = [believes EXCEPT ![p] = "ready"]
          /\ Goto(p, "served") /\ UNCHANGED failed
       \/ RunFailed(p) /\ UNCHANGED believes
    /\ UNCHANGED <<ctr, command, phase, removed, bounds>>

StopBackend(p) ==
    /\ pc[p] = "served" /\ believes[p] = "ready"
    /\ phase' = [phase EXCEPT ![p] = "stop"]
    /\ Goto(p, "owned")
    /\ UNCHANGED <<ctr, command, believes, failed, removed, bounds>>

Shutdown(p) ==
    /\ pc[p] = "served"
    /\ phase' = [phase EXCEPT ![p] = "shutdown"]
    /\ IF believes[p] = "absent" THEN Return(p, "ok") ELSE Goto(p, "owned")
    /\ UNCHANGED <<ctr, command, believes, failed, removed, bounds>>

\* The scheduler's view after removeOwned.
OwnedGone(p) ==
    IF phase[p] = "shutdown"
    THEN Return(p, "ok") /\ UNCHANGED believes
    ELSE Goto(p, "served") /\ believes' = [believes EXCEPT ![p] = "absent"]

\* Mutant: a failed cleanup is reported like any failed start.
OwnedFailed_Plain(p) == OwnedGone(p)

\* backendCleanupError: the allocation is kept.
OwnedFailed(p) ==
    IF phase[p] = "shutdown"
    THEN Return(p, "leftover") /\ UNCHANGED believes
    ELSE Goto(p, "served") /\ believes' = [believes EXCEPT ![p] = "uncertain"]

RemoveOwned(p) ==
    /\ pc[p] = "owned"
    /\ IF Exists("gateway") THEN Goto(p, "ownedLabels") /\ UNCHANGED believes
                            ELSE OwnedGone(p)
    /\ UNCHANGED <<ctr, command, phase, failed, removed, bounds>>

\* Mutant: the labels are not looked at.
OwnedLabels_Trusting(p) ==
    /\ pc[p] = "ownedLabels"
    /\ Goto(p, "ownedRemove") /\ UNCHANGED believes
    /\ LookAt(p)
    /\ UNCHANGED <<ctr, cmd, todo, made, plan, phase, failed, removed, bounds>>

OwnedLabels(p) ==
    /\ pc[p] = "ownedLabels"
    /\ IF Exists("gateway") /\ GatewayLabels("gateway")
       THEN Goto(p, "ownedRemove") /\ UNCHANGED believes
       ELSE OwnedFailed(p)
    /\ LookAt(p)
    /\ UNCHANGED <<ctr, cmd, todo, made, plan, phase, failed, removed, bounds>>

OwnedRemove(p) ==
    /\ pc[p] = "ownedRemove"
    /\ \/ RemoveContainer(p, "gateway") /\ OwnedGone(p)
       \/ RemovalFails /\ OwnedFailed(p)
    /\ listed' = [listed EXCEPT ![p] = {}]
    /\ UNCHANGED <<cmd, todo, made, plan, phase, failed, bounds>>

-----------------------------------------------------------------------------
(* The outside.                                                            *)

\* A query fails, or the context has ended.
QueryFails(p) ==
    /\ \/ pc[p] \in {"managed", "lookup", "plan"} /\ Return(p, "error")
          /\ UNCHANGED believes
       \/ pc[p] \in {"list", "exists", "labels"} /\ RequireFailed(p)
          /\ UNCHANGED believes
       \/ pc[p] \in {"owned", "ownedLabels"} /\ OwnedFailed(p)
    /\ UNCHANGED <<ctr, command, phase, failed, removed, bounds>>

\* A container ends, and --rm removes it.
ContainerExits(n) ==
    /\ Exists(n) /\ n # "spec-bench"
    /\ ctr' = [ctr EXCEPT ![n] = None]
    /\ UNCHANGED <<command, gateway, pc, failed, result, removed, bounds>>

\* The user runs a container of their own under one of the names.
ForeignRun ==
    /\ strangers < MaxForeign /\ strangers' = strangers + 1
    /\ \E n \in Apps \cup {"gateway"} :
        /\ ~Exists(n)
        /\ ctr' = [ctr EXCEPT ![n] = [by |-> Foreign, id |-> strangers,
                                      managed |-> FALSE,
                                      role |-> "none", app |-> "none"]]
    /\ UNCHANGED <<command, gateway, pc, failed, result, removed, kills>>

Kill(p) ==
    /\ pc[p] \notin {"idle", "done", "killed"} /\ kills < MaxKills
    /\ kills' = kills + 1
    /\ pc' = [pc EXCEPT ![p] = "killed"]
    /\ control' = IF control = p THEN None ELSE control
    /\ UNCHANGED <<ctr, command, phase, believes, failed, result, removed,
                   strangers>>

Step(p) ==
    \/ Begin(p) \/ CheckManaged(p) \/ CheckFree(p) \/ Create(p)
    \/ AttachedReturns(p) \/ Measure(p) \/ RemoveAfter(p) \/ WithCleanupFailure(p)
    \/ StopApplication(p) \/ StopRemoves(p) \/ CleanupPlan(p) \/ CleanupRemoves(p)
    \/ RequireAvailable(p) \/ TargetExists(p) \/ TargetLabels(p) \/ Reclaim(p)
    \/ TakeControl(p) \/ StartBackend(p) \/ WaitReady(p) \/ StopBackend(p)
    \/ Shutdown(p) \/ RemoveOwned(p) \/ OwnedLabels(p) \/ OwnedRemove(p)
    \/ QueryFails(p) \/ Kill(p)

Next ==
    \/ \E p \in Processes : Step(p)
    \/ \E n \in Names : ContainerExits(n)
    \/ ForeignRun

Spec == Init /\ [][Next]_vars

-----------------------------------------------------------------------------
(* Properties.                                                             *)

\* A command that has returned left no container behind, unless its error says
\* that the removal failed, or it is a shell or a detached run, whose
\* containers are meant to be on their own.  A client that was killed after
\* Podman created the container is included.
LeftoversReported ==
    \A p \in Processes :
        /\ result[p] \in {"ok", "error"}
        /\ cmd[p].op # "shell" /\ ~cmd[p].detach
        => \A n \in Names : Exists(n) => ctr[n].by # p

\* When the scheduler takes its backend to be absent, no container of this
\* gateway is left: a start that failed in any way was cleaned up, or the
\* failed cleanup is remembered.  A second backend never comes beside the first.
AbsentMeansGone ==
    \A p \in Processes :
        /\ pc[p] \in {"served", "list", "exists", "labels", "reclaim", "create"}
        /\ cmd[p].op = "gateway" /\ believes[p] = "absent"
        => ~Mine(p)

\* No process takes a container for gone that is still there, whichever of the
\* Podman calls failed.
NoSilentLeftover == LeftoversReported /\ AbsentMeansGone

LabelsRespected == \A r \in removed : r.seen => r.role = "gateway"
UsedSpared == \A r \in removed : r.used => r.early

\* The gateway removes backends of gateways and nothing else, whatever the
\* user runs under that name (lifecycle.go: "direct, benchmark, and foreign
\* containers are preserved"), unless the name changed hands after the gateway
\* had read the labels: the removal is by name.  And once it has the control
\* lock, these are its own or those of gateways that have ended, even when
\* the name has changed hands.
GatewayRemovesBackends == LabelsRespected /\ UsedSpared

\* What lifecycle.go:112 promises of the preflight too: "Only a stale container
\* bearing the exact gateway ownership labels is reclaimed".  The preflight
\* comes before the control lock, and takes the backend of a gateway that
\* serves.
ReclaimsOnlyStale == \A r \in removed : r.seen => ~r.used

\* A cleanup that succeeded removed every container it had listed, also when
\* Podman reported errors or others removed some of them.
CleanupComplete ==
    \A p \in Processes : cmd[p] # None /\ cmd[p].op = "cleanup" /\ result[p] = "ok" =>
        \A l \in listed[p] : ctr[l[1]] # l[2]

-----------------------------------------------------------------------------
(* The inductive invariant behind the properties.                          *)

\* Where a process can be that runs the command c.
Places(c) ==
    {"idle", "done", "killed"} \cup
    CASE c.op = "run" -> {"managed", "lookup", "create", "attached", "remove",
                          "unremoved"}
      [] c.op = "shell" -> {"create", "attached"}
      [] c.op = "stop" -> {"lookup", "stop"}
      [] c.op = "cleanup" -> {"plan", "cleanup"}
      [] c.op = "gateway" -> {"list", "exists", "labels", "reclaim", "lock",
                              "create", "working", "served", "owned",
                              "ownedLabels", "ownedRemove"}
      [] c.op \in Transient -> {"lookup", "create", "attached", "working",
                                "remove", "unremoved"}

TypeOK ==
    /\ ctr \in [Names -> Container \cup {None}]
    /\ cmd \in [Processes -> Commands \cup {None}]
    /\ made \in [Processes -> Nat]
    /\ failed \in [Processes -> {"no", "yes", "leftover"}]
    /\ believes \in [Processes -> {"absent", "ready", "uncertain"}]
    /\ listed \in [Processes -> SUBSET (Names \X (Container \cup {None}))]
    /\ plan \in [Processes -> SUBSET Names]
    /\ strangers \in Nat
    /\ DOMAIN pc = Processes /\ DOMAIN result = Processes
    /\ DOMAIN phase = Processes /\ DOMAIN todo = Processes

\* A process is where its command can be; it has a result once it returned.
ControlSound(p) ==
    /\ IF pc[p] = "idle" THEN cmd[p] = None /\ believes[p] = "absent"
       ELSE cmd[p] \in Commands /\ pc[p] \in Places(cmd[p])
    /\ pc[p] # "done" => result[p] = None

\* The container c has been created: its like will not come again.
Dated(c) == c.id < IF c.by = Foreign THEN strangers ELSE made[c.by]

\* Every container there is, or that a process has listed, is an old one.
DatesSound ==
    /\ \A n \in Names : Exists(n) => Dated(ctr[n])
    /\ \A p \in Processes : \A l \in listed[p] : l[2] # None => Dated(l[2])

\* Nothing of p is there.
Clean(p) == \A n \in Names : Exists(n) => ctr[n].by # p

\* What p created has the one name that its command uses.
NameSound(p) ==
    \A n \in Names : Exists(n) /\ ctr[n].by = p => pc[p] # "idle" /\ n = NameOf(p)

\* A run that is waited for, or a benchmark, may have a container only between
\* its creation and the end of its removal, or if a removal has failed, which
\* is then remembered to the end.
LeftoverSound(p) ==
    /\ pc[p] \in {"managed", "lookup", "create", "stop", "plan", "cleanup"}
       /\ cmd[p].op \notin {"shell", "gateway"} /\ ~cmd[p].detach
       /\ failed[p] # "leftover"
       => Clean(p)
    /\ pc[p] = "unremoved" => failed[p] = "leftover"
    /\ result[p] \in {"ok", "error"} /\ cmd[p].op # "shell" /\ ~cmd[p].detach
       => Clean(p)

\* Before a gateway creates a backend, and while it takes it to be absent,
\* there is none of its own; the labels it reads let it remove only backends.
GatewaySound(p) ==
    pc[p] # "idle" /\ cmd[p].op = "gateway" =>
    /\ pc[p] \in {"list", "exists", "labels", "reclaim", "lock", "create",
                 "working"}
       => believes[p] = "absent"
    /\ pc[p] \in {"served", "list", "exists", "labels", "reclaim", "lock",
                 "create"} /\ believes[p] = "absent"
       => Clean(p)
    /\ pc[p] \in {"reclaim", "ownedRemove"} =>
          \A l \in listed[p] : l[2].role = "gateway"

\* What a cleanup has listed is in its plan or gone.
CleanupSound(p) ==
    pc[p] # "idle" /\ cmd[p].op = "cleanup"
    /\ (pc[p] = "cleanup" \/ result[p] = "ok") =>
       /\ \A l \in listed[p] :
             l[2] # None /\ (l[1] \in plan[p] \/ ctr[l[1]] # l[2])
       /\ result[p] = "ok" => plan[p] = {}

ProcessSound(p) ==
    /\ ControlSound(p) /\ NameSound(p)
    /\ LeftoverSound(p) /\ GatewaySound(p) /\ CleanupSound(p)

ContainersInv ==
    /\ TypeOK
    /\ DatesSound
    /\ \A p \in Processes : ProcessSound(p)
    /\ LabelsRespected

\* A gateway that has come past StartLocalControl.
Serves(p) ==
    /\ \/ pc[p] \in {"create", "working", "served", "owned", "ownedLabels",
                     "ownedRemove"}
       \/ pc[p] \in {"list", "exists", "labels", "reclaim"} /\ phase[p] # "preflight"
    /\ cmd[p].op = "gateway"

\* It holds the control lock to its end, which is why no other gateway can be
\* using what it removes.
ControlHeld == \A p \in Processes : Serves(p) => control = p

=============================================================================
