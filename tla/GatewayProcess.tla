---------------------------- MODULE GatewayProcess ----------------------------
(***************************************************************************)
(* The life of a gateway process and of the commands that stop it: the     *)
(* order of steps in runGateway (internal/cli/commands_gateway.go), the    *)
(* control socket and its lock (internal/gateway/control.go), the public   *)
(* listeners (internal/cli/gateway_listeners.go) and the backend container *)
(* (Preflight, Start and Stop of internal/gateway/lifecycle.go).           *)
(*                                                                         *)
(* Every element of Gateways is one process started with "run gateway" by  *)
(* the same user on the same data root, every element of Clients one "stop *)
(* gateway".  They share the container name, the router preset, the lock   *)
(* file and the socket path.  A socket inode is named by the gateway that  *)
(* bound it.  All backend containers carry the same name and the same      *)
(* ownership labels, so one gateway cannot tell another's from its own;    *)
(* containers with other labels make a gateway give up and are left out.   *)
(***************************************************************************)
EXTENDS Integers, FiniteSets

CONSTANTS
    Gateways, Clients, None,
    PortOf,        \* the port each gateway was told to listen on
    Faults,        \* whether Podman or a bind may fail
    MaxCrashes     \* bound: killed gateways

ASSUME ProcessesDiffer == /\ Gateways \cap Clients = {}
                          /\ None \notin Gateways \cup Clients
ASSUME PortOfAssumption == DOMAIN PortOf = Gateways
ASSUME ProcessAssumption == Faults \in BOOLEAN /\ MaxCrashes \in Nat

VARIABLES
    \* shared by the processes
    container,   \* whose backend runs under the container name
    router,      \* who wrote models.ini last
    lock,        \* holder of gateway.lock
    socket,      \* inode at gateway.sock
    \* the gateways
    pc, result,
    up,          \* gateways whose scheduler holds an allocation
    stop,        \* gateways whose channel stop is filled
    \* the clients
    step, observed, peer, answer,
    serving,     \* history: gateways that were serving when the client began
    crashes

backendVars == <<container, up>>
clientVars == <<step, observed, peer, answer, serving>>
vars == <<backendVars, router, lock, socket, pc, result, stop, clientVars,
          crashes>>

-----------------------------------------------------------------------------
Stages == {"idle", "listen", "prepare", "lock", "socket", "bind", "serving",
           "draining", "stopping", "closing", "unlinking", "unlocking",
           "finishing", "exited", "killed"}

\* The control listener is open.
Accepting(g) == pc[g] \in {"serving", "draining", "stopping", "closing"}

\* The public listeners are open.
Published(g) == pc[g] \in {"prepare", "lock", "socket", "bind", "serving"}

\* LocalControl.done is closed.
Done(g) == pc[g] \in {"finishing", "exited"}

\* Clients whose connection a handler of g serves.
Handlers(g) == {c \in Clients : peer[c] = g /\ step[c] \in {"accepted",
                                                            "waiting"}}

Init ==
    /\ container = None
    /\ router = None
    /\ lock = None
    /\ socket = None
    /\ pc = [g \in Gateways |-> "idle"]
    /\ result = [g \in Gateways |-> "none"]
    /\ up = {}
    /\ stop = {}
    /\ step = [c \in Clients |-> "idle"]
    /\ observed = [c \in Clients |-> None]
    /\ peer = [c \in Clients |-> None]
    /\ answer = [c \in Clients |-> "none"]
    /\ serving = [c \in Clients |-> {}]
    /\ crashes = 0

\* An interrupted client no longer reads its connection.
Hears(c, what) == IF answer[c] = "interrupted" THEN answer[c] ELSE what

Goto(g, stage) == pc' = [pc EXCEPT ![g] = stage] /\ UNCHANGED result

Exits(g, outcome) ==
    /\ pc' = [pc EXCEPT ![g] = "exited"]
    /\ result' = [result EXCEPT ![g] = outcome]

-----------------------------------------------------------------------------
(* Startup, in the order of runGateway.                                    *)

\* requireAvailable with reclaim: whatever bears the labels is removed.
Reclaim == container' = None

\* Preflight.
Preflight(g) ==
    /\ pc[g] = "idle"
    /\ \/ Reclaim /\ Goto(g, "listen")
       \/ Faults /\ Exits(g, "error") /\ UNCHANGED container
    /\ UNCHANGED <<up, router, lock, socket, stop, clientVars, crashes>>

\* openGatewayListeners: all of them or none.
OpenListeners(g) ==
    /\ pc[g] = "listen"
    /\ LET busy == \E h \in Gateways : Published(h) /\ PortOf[h] = PortOf[g]
       IN  \/ ~busy /\ Goto(g, "prepare")
           \/ (busy \/ Faults) /\ Exits(g, "error")
    /\ UNCHANGED <<backendVars, router, lock, socket, stop, clientVars, crashes>>

\* PrepareRuntime and WriteRouter.
WriteRouter(g) ==
    /\ pc[g] = "prepare"
    /\ router' = g
    /\ Goto(g, "lock")
    /\ UNCHANGED <<backendVars, lock, socket, stop, clientVars, crashes>>

\* StartLocalControl: flock without waiting.
TakeLock(g) ==
    /\ pc[g] = "lock"
    /\ \/ lock = None /\ lock' = g /\ Goto(g, "socket")
       \/ lock # None /\ Exits(g, "refused") /\ UNCHANGED lock
    /\ UNCHANGED <<backendVars, router, socket, stop, clientVars, crashes>>

\* A socket left by a killed gateway is removed,
RemoveStaleSocket(g) ==
    /\ pc[g] = "socket"
    /\ socket' = None
    /\ Goto(g, "bind")
    /\ UNCHANGED <<backendVars, router, lock, stop, clientVars, crashes>>

\* and a new one is bound; then HTTP is served.
Bind(g) ==
    /\ pc[g] = "bind"
    /\ \/ socket' = g /\ Goto(g, "serving") /\ UNCHANGED lock
       \/ Faults /\ lock' = None /\ Exits(g, "error") /\ UNCHANGED socket
    /\ UNCHANGED <<backendVars, router, stop, clientVars, crashes>>

-----------------------------------------------------------------------------
(* The backend while HTTP requests are served or drained.                  *)

\* The scheduler calls Start, which reclaims the name first.  A start that
\* fails removes what it started; if that fails too, the scheduler keeps the
\* allocation.
StartBackend(g) ==
    /\ pc[g] \in {"serving", "draining"} /\ g \notin up
    /\ \/ container' = g /\ up' = up \cup {g}
       \/ Faults /\ Reclaim /\ UNCHANGED up
    /\ UNCHANGED <<router, lock, socket, pc, result, stop, clientVars, crashes>>

\* It calls Stop after a proxy failure: removeOwned.
RecycleBackend(g) ==
    /\ pc[g] \in {"serving", "draining"} /\ g \in up
    /\ Reclaim
    /\ up' = up \ {g}
    /\ UNCHANGED <<router, lock, socket, pc, result, stop, clientVars, crashes>>

\* The backend process ends, and its container is removed with it (--rm).
BackendExits ==
    /\ container # None
    /\ Reclaim
    /\ UNCHANGED <<up, router, lock, socket, pc, result, stop, clientVars,
                   crashes>>

-----------------------------------------------------------------------------
(* Shutdown.                                                               *)

\* A stop request or, at any time, Ctrl-C or a failing listener.
StopRequested(g) ==
    /\ pc[g] = "serving"
    /\ Goto(g, "draining")
    /\ stop' = stop \ {g}
    /\ UNCHANGED <<backendVars, router, lock, socket, clientVars, crashes>>

\* server.Shutdown returns when the requests are done.
Drained(g) ==
    /\ pc[g] = "draining"
    /\ Goto(g, "stopping")
    /\ UNCHANGED <<backendVars, router, lock, socket, stop, clientVars, crashes>>

\* Mutant: the result of the backend's removal is ignored.
StopBackend_Ignored(g) ==
    /\ pc[g] = "stopping"
    /\ result' = [result EXCEPT ![g] = "ok"]
    /\ pc' = [pc EXCEPT ![g] = "closing"]
    /\ UNCHANGED <<backendVars, router, lock, socket, stop, clientVars, crashes>>

\* scheduler.Shutdown, with its final removeOwned; then statistics close.  The
\* error of a listener or of the HTTP server is joined to the result.
StopBackend(g) ==
    /\ pc[g] = "stopping"
    /\ \/ /\ \/ result' = [result EXCEPT ![g] = "ok"]
             \/ Faults /\ result' = [result EXCEPT ![g] = "error"]
          /\ IF g \in up THEN Reclaim ELSE UNCHANGED container
          /\ up' = up \ {g}
       \/ /\ Faults /\ g \in up
          /\ result' = [result EXCEPT ![g] = "error"]
          /\ UNCHANGED backendVars
    /\ pc' = [pc EXCEPT ![g] = "closing"]
    /\ UNCHANGED <<router, lock, socket, stop, clientVars, crashes>>

\* Mutant: Close waits for the handlers instead of the accept loop.
CloseControl_JoinsHandlers(g) ==
    /\ pc[g] = "closing" /\ Handlers(g) = {}
    /\ Goto(g, "unlinking")
    /\ UNCHANGED <<backendVars, router, lock, socket, stop, clientVars, crashes>>

\* Mutant: the lock is released before the path is removed.
CloseControl_UnlocksFirst(g) ==
    /\ pc[g] = "closing"
    /\ Goto(g, "unlinking")
    /\ lock' = None
    /\ LET reset == {c \in Clients : peer[c] = g /\ step[c] = "backlog"}
       IN  /\ step' = [c \in Clients |->
                         IF c \in reset THEN "returned" ELSE step[c]]
           /\ answer' = [c \in Clients |->
                           IF c \in reset THEN Hears(c, "error") ELSE answer[c]]
    /\ UNCHANGED <<backendVars, router, socket, stop, observed, peer,
                   serving, crashes>>

\* LocalControl.Close closes the listener and joins accept(): connections
\* nobody accepted are reset,
CloseControl(g) ==
    /\ pc[g] = "closing"
    /\ Goto(g, "unlinking")
    /\ LET reset == {c \in Clients : peer[c] = g /\ step[c] = "backlog"}
       IN  /\ step' = [c \in Clients |->
                         IF c \in reset THEN "returned" ELSE step[c]]
           /\ answer' = [c \in Clients |->
                           IF c \in reset THEN Hears(c, "error") ELSE answer[c]]
    /\ UNCHANGED <<backendVars, router, lock, socket, stop, observed, peer,
                   serving, crashes>>

\* removes the path,
Unlink(g) ==
    /\ pc[g] = "unlinking"
    /\ socket' = None
    /\ Goto(g, "unlocking")
    /\ UNCHANGED <<backendVars, router, lock, stop, clientVars, crashes>>

\* and releases the lock.  Finish then closes done.
Unlock(g) ==
    /\ pc[g] = "unlocking"
    /\ lock' = None
    /\ Goto(g, "finishing")
    /\ UNCHANGED <<backendVars, router, socket, stop, clientVars, crashes>>

\* Finish waits for the handlers; the process exits.
Exit(g) ==
    /\ pc[g] = "finishing" /\ Handlers(g) = {}
    /\ Goto(g, "exited")
    /\ UNCHANGED <<backendVars, router, lock, socket, stop, clientVars, crashes>>

\* The gateway is killed: its lock and its connections go, its socket and its
\* backend stay.
Kill(g) ==
    /\ crashes < MaxCrashes
    /\ pc[g] \notin {"idle", "exited", "killed"}
    /\ crashes' = crashes + 1
    /\ Goto(g, "killed")
    /\ lock' = IF lock = g THEN None ELSE lock
    /\ up' = up \ {g}
    /\ LET cut == {c \in Clients : peer[c] = g /\ step[c] # "returned"}
       IN  /\ step' = [c \in Clients |->
                         IF c \in cut THEN "returned" ELSE step[c]]
           /\ answer' = [c \in Clients |->
                           IF c \in cut THEN Hears(c, "error") ELSE answer[c]]
    /\ UNCHANGED <<container, router, socket, stop, observed, peer,
                   serving>>

-----------------------------------------------------------------------------
(* The control connection: accept(), handle() and StopLocalGateway.        *)

ClientReturns(c, what) ==
    /\ step' = [step EXCEPT ![c] = "returned"]
    /\ answer' = [answer EXCEPT ![c] = Hears(c, what)]

gatewayUnchanged == <<backendVars, router, pc, result, crashes>>

\* StopLocalGateway looks for the socket.
StopLocalGateway(c) ==
    /\ step[c] = "idle"
    /\ serving' = [serving EXCEPT ![c] = {g \in Gateways : pc[g] = "serving"}]
    /\ \/ socket = None /\ ClientReturns(c, "absent") /\ UNCHANGED observed
       \/ /\ socket # None
          /\ observed' = [observed EXCEPT ![c] = socket]
          /\ step' = [step EXCEPT ![c] = "dial"]
          /\ UNCHANGED answer
    /\ UNCHANGED <<gatewayUnchanged, lock, socket, stop, peer>>

\* It connects; a dead socket refuses.
Dial(c) ==
    /\ step[c] = "dial"
    /\ \/ socket = None /\ ClientReturns(c, "absent") /\ UNCHANGED peer
       \/ /\ socket # None /\ Accepting(socket)
          /\ peer' = [peer EXCEPT ![c] = socket]
          /\ step' = [step EXCEPT ![c] = "backlog"]
          /\ UNCHANGED answer
       \/ /\ socket # None /\ ~Accepting(socket)
          /\ step' = [step EXCEPT ![c] = "clear"]
          /\ UNCHANGED <<peer, answer>>
    /\ UNCHANGED <<gatewayUnchanged, lock, socket, stop, observed, serving>>

\* accept() starts a handler.
Accept(c) ==
    /\ step[c] = "backlog" /\ Accepting(peer[c])
    /\ step' = [step EXCEPT ![c] = "accepted"]
    /\ UNCHANGED <<gatewayUnchanged, lock, socket, stop, observed, peer,
                   answer, serving>>

\* handle() reads "stop" and fills the channel, unless it is full.
HandleStop(c) ==
    /\ step[c] = "accepted"
    /\ stop' = stop \cup {peer[c]}
    /\ step' = [step EXCEPT ![c] = "waiting"]
    /\ UNCHANGED <<gatewayUnchanged, lock, socket, observed, peer, answer,
                   serving>>

\* When done is closed it replies with the result.
Reply(c) ==
    /\ step[c] = "waiting" /\ Done(peer[c])
    /\ ClientReturns(c, IF result[peer[c]] = "ok" THEN "stopped" ELSE "failed")
    /\ UNCHANGED <<gatewayUnchanged, lock, socket, stop, observed, peer,
                   serving>>

\* Ctrl-C ends the command; its connection, once written to, is served on.
Interrupt(c) ==
    /\ step[c] \in {"backlog", "accepted", "waiting"}
    /\ answer' = [answer EXCEPT ![c] = "interrupted"]
    /\ UNCHANGED <<gatewayUnchanged, lock, socket, stop, step, observed, peer,
                   serving>>

\* clearStaleControl takes the lock,
ClearLock(c) ==
    /\ step[c] = "clear"
    /\ \/ lock = None /\ lock' = c /\ step' = [step EXCEPT ![c] = "check"]
            /\ UNCHANGED answer
       \/ lock # None /\ ClientReturns(c, "error") /\ UNCHANGED lock
    /\ UNCHANGED <<gatewayUnchanged, socket, stop, observed, peer, serving>>

\* checks that the socket is the one it saw, and removes it.
ClearStale(c) ==
    /\ step[c] = "check"
    /\ lock' = None
    /\ \/ socket = None /\ ClientReturns(c, "absent") /\ UNCHANGED socket
       \/ /\ socket # None /\ socket = observed[c]
          /\ socket' = None /\ ClientReturns(c, "absent")
       \/ /\ socket # None /\ socket # observed[c]
          /\ ClientReturns(c, "error") /\ UNCHANGED socket
    /\ UNCHANGED <<gatewayUnchanged, stop, observed, peer, serving>>

-----------------------------------------------------------------------------
Startup(g) == Preflight(g) \/ OpenListeners(g) \/ WriteRouter(g)
                \/ TakeLock(g) \/ RemoveStaleSocket(g) \/ Bind(g)
Backend(g) == StartBackend(g) \/ RecycleBackend(g)
Ending(g) == Drained(g) \/ StopBackend(g) \/ CloseControl(g) \/ Unlink(g)
               \/ Unlock(g) \/ Exit(g)
Client(c) == StopLocalGateway(c) \/ Dial(c) \/ Accept(c) \/ HandleStop(c)
               \/ Reply(c) \/ ClearLock(c) \/ ClearStale(c)

Next ==
    \/ \E g \in Gateways : Startup(g) \/ Backend(g) \/ StopRequested(g)
                             \/ Ending(g) \/ Kill(g)
    \/ \E c \in Clients : Client(c) \/ Interrupt(c)
    \/ BackendExits

Spec == Init /\ [][Next]_vars

\* Processes that have begun go on; requests drain, and a filled channel stop
\* is received.  Nobody has to start a gateway or a client.
Fairness ==
    /\ \A g \in Gateways :
         /\ WF_vars(pc[g] # "idle" /\ Startup(g))
         /\ WF_vars(g \in stop /\ StopRequested(g))
         /\ WF_vars(Ending(g))
    /\ \A c \in Clients : WF_vars(step[c] # "idle" /\ Client(c))

FairSpec == Spec /\ Fairness

-----------------------------------------------------------------------------
(* Properties.                                                             *)

\* Every variable has its type; what is left in a channel or at a path was
\* put there by a gateway.
TypeOK ==
    /\ {container, router, socket} \subseteq Gateways \cup {None}
    /\ lock \in Gateways \cup Clients \cup {None}
    /\ pc \in [Gateways -> Stages]
    /\ result \in [Gateways -> {"none", "ok", "error", "refused"}]
    /\ up \subseteq Gateways /\ stop \subseteq Gateways
    /\ step \in [Clients -> {"idle", "dial", "backlog", "accepted", "waiting",
                             "clear", "check", "returned"}]
    /\ observed \in [Clients -> Gateways \cup {None}]
    /\ peer \in [Clients -> Gateways \cup {None}]
    /\ answer \in [Clients -> {"none", "absent", "stopped", "failed", "error",
                            "interrupted"}]
    /\ serving \in [Clients -> SUBSET Gateways]

\* The gateway's part of the lock's life.
Owns(g) == pc[g] \in {"socket", "bind", "serving", "draining", "stopping",
                      "closing", "unlinking", "unlocking"}

\* "One gateway may run per user" (gateway.md:173): at most one process is
\* between taking the lock and releasing it, across kills and stop clients
\* that take the lock themselves.
OneGateway == \A g, h \in Gateways : Owns(g) /\ Owns(h) => g = h

\* The socket of a serving gateway stays at its path: neither a stop client
\* that saw an older socket nor another gateway removes it.
SocketReachable == \A g \in Gateways : Accepting(g) => socket = g

\* The gateway that holds the lock is the only one, and can be reached.
GatewayExclusive == OneGateway /\ SocketReachable

\* "stopped" is the truth: that gateway has removed its backend and given up
\* the lock and the socket, so that the next one can start.
StoppedMeansFree ==
    \A c \in Clients : answer[c] = "stopped" =>
        /\ container # peer[c]
        /\ lock # peer[c]
        /\ socket # peer[c]

\* What "stop" prints is true, whichever gateway came or went meanwhile:
\* "stopped" as StoppedMeansFree says; and control.go:198-199, "A missing
\* socket means that no controllable gateway is present": a client that reports
\* none did not overlook a gateway that was serving all along.
AnswersTrue ==
    [][/\ StoppedMeansFree'
       /\ \A c \in Clients :
            step[c] # "returned" /\ answer'[c] = "absent"
            => \A g \in serving'[c] : pc'[g] # "serving"]_vars

\* Every stop client returns.
StopReturns == \A c \in Clients : step[c] # "idle" ~> step[c] = "returned"

\* A stop that a gateway has read ends that gateway.
StopEndsGateway ==
    \A g \in Gateways : g \in stop ~> pc[g] \in {"exited", "killed"}

\* A stop runs to its end on both sides: no circular wait between Close, Finish
\* and the handlers.
StopCompletes == StopReturns /\ StopEndsGateway

-----------------------------------------------------------------------------
(* The inductive invariant behind GatewayExclusive and AnswersTrue (see    *)
(* GatewayProofs).                                                         *)

\* The lock is held from TakeLock to Unlock by a gateway, while it checks a
\* socket by a client, and by nobody else.
LockSound ==
    /\ \A g \in Gateways : lock = g <=> Owns(g)
    /\ \A c \in Clients : lock = c <=> step[c] = "check"

\* The path names the socket of the gateway that accepts; it outlives only a
\* gateway that was killed, or one about to unlink it.
SocketSound ==
    /\ SocketReachable
    /\ \A g \in Gateways :
         socket = g => Accepting(g) \/ pc[g] \in {"unlinking", "killed"}

\* A backend that runs is accounted for by a scheduler, or its gateway was
\* killed; and a gateway that says "ok" has none.
BackendSound ==
    \A g \in Gateways :
        /\ container = g => g \in up \/ pc[g] = "killed"
        /\ result[g] = "ok" =>
             /\ g \notin up /\ container # g
             /\ pc[g] \in {"closing", "unlinking", "unlocking", "finishing",
                          "exited", "killed"}

\* A client that has an answer has returned, unless it was interrupted; one that
\* heard "stopped" heard it from a gateway that was through.
ClientSound ==
    \A c \in Clients :
        /\ answer[c] \notin {"none", "interrupted"} => step[c] = "returned"
        /\ step[c] \in {"backlog", "accepted", "waiting"} => peer[c] \in Gateways
        /\ step[c] \in {"idle", "dial", "clear", "check"} => peer[c] = None
        /\ answer[c] = "stopped" =>
             /\ peer[c] \in Gateways
             /\ result[peer[c]] = "ok"
             /\ pc[peer[c]] \in {"finishing", "exited", "killed"}

ProcessInv ==
    /\ TypeOK /\ LockSound /\ SocketSound /\ BackendSound /\ ClientSound
    /\ StoppedMeansFree

=============================================================================
