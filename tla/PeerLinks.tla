------------------------------- MODULE PeerLinks -------------------------------
(***************************************************************************)
(* What InterSchemeProxyAdapter relies on of its PeerServers: a peer gets  *)
(* ready once and stays so until a signal, whatever its connection does; a *)
(* signal disconnects both peers, and ends what a ready peer does; only a  *)
(* start that was under way goes on after it.                              *)
(***************************************************************************)

CONSTANT Peers

VARIABLES
    phase,      \* of a PeerServer: being started, isReady with its peer JWS loop on,
                \* or nothing of these any more
    connected,  \* its control agent has a socket that opens or is open
    stopped,    \* a signal was received: stop() has been called for both peers
    listening   \* the HTTP server of the peer has not stopped: it has its listener

vars == <<phase, connected, stopped, listening>>

Init ==
    /\ phase = [p \in Peers |-> "starting"]
    /\ connected = [p \in Peers |-> FALSE]
    /\ stopped = FALSE
    /\ listening = [p \in Peers |-> TRUE]

\* A control agent connects, at the start or again.  A stop does not end a start.
Connect(p) ==
    /\ ~connected[p] /\ phase[p] # "closed"
    /\ connected' = [connected EXCEPT ![p] = TRUE]
    /\ UNCHANGED <<phase, stopped, listening>>

\* initControlAgent is done.  After a stop the certs may come from a connection that is
\* being closed.
BecomesReady(p) ==
    /\ phase[p] = "starting" /\ (connected[p] \/ stopped)
    /\ phase' = [phase EXCEPT ![p] = "ready"]
    /\ UNCHANGED <<connected, stopped, listening>>

Disconnect(p) ==
    /\ connected[p]
    /\ connected' = [connected EXCEPT ![p] = FALSE]
    /\ UNCHANGED <<phase, stopped, listening>>

\* SIGINT or SIGTERM: stop() of both peers up to their await of close().  The JWS loop of
\* a peer that is ready ends, and so does a retry that waits for its timer.
Stop ==
    /\ stopped' = TRUE
    /\ connected' = [p \in Peers |-> FALSE]
    /\ phase' \in [Peers -> {"starting", "closed"}]
    /\ \A p \in Peers : phase[p] # "starting" => phase'[p] = "closed"
    /\ UNCHANGED listening

\* httpServer.stop() has ended and has removed the 'serverState' listener.
HttpStopped(p) ==
    /\ stopped /\ listening[p]
    /\ listening' = [listening EXCEPT ![p] = FALSE]
    /\ UNCHANGED <<phase, connected, stopped>>

Next ==
    \/ \E p \in Peers : Connect(p) \/ BecomesReady(p) \/ Disconnect(p) \/ HttpStopped(p)
    \/ Stop

Spec == Init /\ [][Next]_vars
================================================================================
