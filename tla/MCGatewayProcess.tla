--------------------------- MODULE MCGatewayProcess ---------------------------
(* An instance of GatewayProcess and one of StreamKeepalive for TLC.  They *)
(* share no variable, so a behaviour explores the one or the other.        *)
EXTENDS GatewayProcess, StreamKeepalive

\* Gateways on the same port keep each other from starting before they reach
\* the lock; what they do to each other shows when the ports differ.
OwnPort == [g \in Gateways |-> g]

MCInit == Init /\ KeepaliveInit

MCNext ==
    \/ KeepaliveInit /\ Next /\ UNCHANGED keepaliveVars
    \/ Init /\ KeepaliveNext /\ UNCHANGED vars

\* No action that is owed fairness is enabled in the initial state of its
\* module: the part that a behaviour leaves alone asks nothing of it.
MCFairSpec ==
    MCInit /\ [][MCNext]_<<vars, keepaliveVars>> /\ Fairness /\ KeepaliveFairness

=============================================================================
