---------------------------- MODULE AgentLifecycle ----------------------------
(***************************************************************************)
(* What PeerServer.ts relies on of its control agent, whatever the sockets *)
(* do (PeerServer.ts:67-129): an initialisation that succeeds has passed   *)
(* certs to onCert, one that fails leaves an agent that can be closed and  *)
(* initialised again, and a closed agent stays so until its owner acts.    *)
(*                                                                         *)
(* It is as well what ControlAgent relies on of its owner: an agent is     *)
(* initialised only when it is down, and closed after every failure.       *)
(* ControlAgent and PeerServer implement it, each from its side.           *)
(*                                                                         *)
(* Certs may arrive at any time, and the process may end at any time:      *)
(* nobody catches what the handlers and timers of the agent throw.         *)
(***************************************************************************)

VARIABLES
    phase,  \* where the owner is with the agent
    given,  \* onCert has been called
    alive   \* the process is running

vars == <<phase, given, alive>>

Init == phase = "down" /\ given = FALSE /\ alive = TRUE

\* The agent goes from one phase to another when condition holds.
Goes(from, to, condition) ==
    /\ alive /\ phase = from /\ condition
    /\ phase' = to
    /\ UNCHANGED <<given, alive>>

Initialise == Goes("down", "initialising", TRUE)
Succeed    == Goes("initialising", "ready", given)
Fail       == Goes("initialising", "closing", TRUE)
Close      == Goes("down", "closing", TRUE)
Closed     == Goes("closing", "down", TRUE)
Shutdown   == Goes(phase, "stopping", phase \notin {"stopping", "stopped"})
Stopped    == Goes("stopping", "stopped", TRUE)

\* onCert is called.
Give ==
    /\ alive /\ phase # "stopped"
    /\ given' = TRUE
    /\ UNCHANGED <<phase, alive>>

Crash ==
    /\ alive /\ phase # "stopped"
    /\ alive' = FALSE
    /\ UNCHANGED <<phase, given>>

Next ==
    \/ Initialise \/ Succeed \/ Fail \/ Close \/ Closed \/ Shutdown \/ Stopped
    \/ Give \/ Crash

Spec == Init /\ [][Next]_vars
================================================================================
