------------------------------ MODULE PeerServer ------------------------------
(***************************************************************************)
(* PeerServer.ts: how a peer starts, retries and stops, for the two peers  *)
(* of InterSchemeProxyAdapter.ts under startingProcess.ts.                 *)
(*                                                                         *)
(* Every async function is a chain of steps between its awaits.  A peer    *)
(* has one run of startPm4mlPart() at most, begun by start() or by the     *)
(* retry timer, and one chain of stop() per signal the process receives;   *)
(* stop() does not wait for the run, so the chains interleave.             *)
(*                                                                         *)
(* The collaborators are abstracted to what the chains see of them: the    *)
(* outcome of a token request, of init() with loadCerts() and of close()   *)
(* (modules AuthClient, ControlAgent), and the phases of the hapi server.  *)
(* An init() whose handshake fails has no outcome: its run waits for ever. *)
(* AgentLifecycle is what this module and ControlAgent agree on.           *)
(*                                                                         *)
(* A definition marked "Variant" is what a plausible bug would make of the *)
(* definition that follows it; no specification uses it.                   *)
(***************************************************************************)
EXTENDS Integers

CONSTANTS
    Peers,        \* {A, B}
    Signals,      \* bound: the signals the process receives, numbered as they come
    pm4mlEnabled

ASSUME PeerServerAssumption ==
    /\ Signals \subseteq Nat
    /\ pm4mlEnabled \in BOOLEAN

VARIABLES
    run,          \* the await startPm4mlPart() is at
    starting,     \* the await start() is at
    stopping,     \* the await the stop() of a signal is at
    retryTimer,   \* retryStartTimer is armed
    updates,      \* the token loop of the last run was not stopped (but see AuthClient
                  \* for a request in flight, which stopUpdates() misses)
    jwsLoops,     \* how many peerJwsRefreshLoop intervals are active
    isReady,
    agent,        \* the connection of the control agent
    http,         \* phase of the hapi server
    interrupted,  \* history: the first signal came before the peer had started
    exit          \* how the process has ended

vars == <<run, starting, stopping, retryTimer, updates, jwsLoops, isReady,
          agent, http, interrupted, exit>>

TypeOK ==
    /\ run \in [Peers -> {"none", "token", "init", "refused", "closing"}]
    /\ starting \in [Peers -> {"pm4ml", "http", "listen", "done"}]
    /\ stopping \in [Peers -> [Signals -> {"none", "close", "http", "done"}]]
    /\ retryTimer \in [Peers -> BOOLEAN]
    /\ updates \in [Peers -> BOOLEAN]
    /\ jwsLoops \in [Peers -> Nat]
    /\ isReady \in [Peers -> BOOLEAN]
    /\ agent \in [Peers -> {"closed", "opening", "open", "closing"}]
    /\ http \in [Peers -> {"down", "starting", "up", "stopping", "stopped"}]
    /\ interrupted \in [Peers -> BOOLEAN]
    /\ exit \in {"running", "stopped", "start failed", "stop failed"}  \* codes 0, 1, 4

\* startingProcess() has registered the signal handlers and called start() of both
\* peers, which run up to their first await.
Init ==
    /\ run = [p \in Peers |-> IF pm4mlEnabled THEN "token" ELSE "none"]
    /\ starting = [p \in Peers |-> IF pm4mlEnabled THEN "pm4ml" ELSE "http"]
    /\ stopping = [p \in Peers |-> [n \in Signals |-> "none"]]
    /\ retryTimer = [p \in Peers |-> FALSE]
    /\ updates = [p \in Peers |-> FALSE]
    /\ jwsLoops = [p \in Peers |-> 0]
    /\ isReady = [p \in Peers |-> ~pm4mlEnabled]
    /\ agent = [p \in Peers |-> "closed"]
    /\ http = [p \in Peers |-> "down"]
    /\ interrupted = [p \in Peers |-> FALSE]
    /\ exit = "running"

Running      == exit = "running"
signalled(n) == \E p \in Peers : stopping[p][n] # "none"
Stopping     == \E n \in Signals : signalled(n)
isNext(n)    == ~signalled(n) /\ \A m \in Signals : m < n => signalled(m)

--------------------------------------------------------------------------------
(* The parts of startPm4mlPart and stopPm4mlPart between awaits *)

\* startPm4mlPart() has returned: start() goes on with the HTTP server.
started(p) == [starting EXCEPT ![p] = IF @ = "pm4ml" THEN "http" ELSE @]

\* Variant of loopCleared: the interval is kept.
loopKept(p) == jwsLoops[p]

\* stopPeerJwsRefreshLoop clears the interval it has a handle of.
loopCleared(p) == IF jwsLoops[p] = 0 THEN 0 ELSE jwsLoops[p] - 1

\* close(): there may be no connection to close.
closing(connection) == IF connection = "closed" THEN "closed" ELSE "closing"

\* stopPm4mlPart() of a run up to its await of close().
stopPm4mlPart(p) ==
    /\ updates' = [updates EXCEPT ![p] = FALSE]
    /\ jwsLoops' = [jwsLoops EXCEPT ![p] = loopCleared(p)]
    /\ agent' = [agent EXCEPT ![p] = closing(@)]

--------------------------------------------------------------------------------
(* A run of startPm4mlPart *)

\* Variant of TokenArrives: isReady is set before the agent is initialised.
TokenArrivesReady(p) ==
    /\ Running /\ run[p] = "token"
    /\ run' = [run EXCEPT ![p] = "init"]
    /\ updates' = [updates EXCEPT ![p] = TRUE]
    /\ agent' = [agent EXCEPT ![p] = "opening"]
    /\ isReady' = [isReady EXCEPT ![p] = TRUE]
    /\ UNCHANGED <<starting, stopping, retryTimer, jwsLoops, http, interrupted, exit>>

\* getAccessToken() resolves: initControlAgent() opens the connection.
TokenArrives(p) ==
    /\ Running /\ run[p] = "token"
    /\ run' = [run EXCEPT ![p] = "init"]
    /\ updates' = [updates EXCEPT ![p] = TRUE]
    /\ agent' = [agent EXCEPT ![p] = "opening"]
    /\ UNCHANGED <<starting, stopping, retryTimer, jwsLoops, isReady, http, interrupted, exit>>

\* The handshake of open() fails: nothing settles the promise of init(), and the run stays
\* where it is.  The ping timer of the agent connects again, on its own behalf, which for
\* the owner is still an agent that opens.  (A run whose handshake is cut short by stop()
\* stays in "init": nothing makes it go on once there is a stop.)
HandshakeFails(p) ==
    /\ Running /\ run[p] = "init" /\ agent[p] = "opening"
    /\ run' = [run EXCEPT ![p] = "refused"]
    /\ UNCHANGED <<starting, stopping, retryTimer, updates, jwsLoops, isReady, agent, http, interrupted, exit>>

\* Variant of StepFails: the retry is scheduled without closing the agent.
StepFailsUnclosed(p) ==
    /\ Running /\ run[p] \in {"token", "init"}
    /\ run' = [run EXCEPT ![p] = "none"]
    /\ retryTimer' = [retryTimer EXCEPT ![p] = TRUE]
    /\ updates' = [updates EXCEPT ![p] = FALSE]
    /\ starting' = started(p)
    /\ UNCHANGED <<stopping, jwsLoops, isReady, agent, http, interrupted, exit>>

\* getAccessToken() or initControlAgent() rejects (loadCerts() fails, or init() finds a
\* connection open): retryStartPm4ml() closes the agent.
StepFails(p) ==
    /\ Running /\ run[p] \in {"token", "init"}
    /\ run' = [run EXCEPT ![p] = "closing"]
    /\ stopPm4mlPart(p)
    /\ UNCHANGED <<starting, stopping, retryTimer, isReady, http, interrupted, exit>>

\* Variant of InitSucceeds: start() is not resumed by it.
InitSucceedsSilently(p) ==
    /\ Running /\ run[p] = "init"
    /\ run' = [run EXCEPT ![p] = "none"]
    /\ agent' = [agent EXCEPT ![p] = IF @ = "opening" THEN "open" ELSE @]
    /\ jwsLoops' = [jwsLoops EXCEPT ![p] = @ + 1]
    /\ isReady' = [isReady EXCEPT ![p] = TRUE]
    /\ UNCHANGED <<starting, stopping, retryTimer, updates, http, interrupted, exit>>

\* initControlAgent() resolves.  The agent may have been closed meanwhile by stop(): a
\* frame that still arrived has resolved loadCerts().
InitSucceeds(p) ==
    /\ Running /\ run[p] = "init"
    /\ run' = [run EXCEPT ![p] = "none"]
    /\ agent' = [agent EXCEPT ![p] = IF @ = "opening" THEN "open" ELSE @]
    /\ jwsLoops' = [jwsLoops EXCEPT ![p] = @ + 1]
    /\ isReady' = [isReady EXCEPT ![p] = TRUE]
    /\ starting' = started(p)
    /\ UNCHANGED <<stopping, retryTimer, updates, http, interrupted, exit>>

\* Variant of RetryScheduled: only a failed first start is retried.
RetryScheduledOnce(p) ==
    /\ Running /\ run[p] = "closing"
    /\ run' = [run EXCEPT ![p] = "none"]
    /\ agent' = [agent EXCEPT ![p] = "closed"]
    /\ isReady' = [isReady EXCEPT ![p] = FALSE]
    /\ retryTimer' = [retryTimer EXCEPT ![p] = starting[p] = "pm4ml"]
    /\ starting' = started(p)
    /\ UNCHANGED <<stopping, updates, jwsLoops, http, interrupted, exit>>

\* close() has ended in retryStartPm4ml(): the retry is scheduled, whatever failed.
RetryScheduled(p) ==
    /\ Running /\ run[p] = "closing"
    /\ run' = [run EXCEPT ![p] = "none"]
    /\ agent' = [agent EXCEPT ![p] = "closed"]
    /\ isReady' = [isReady EXCEPT ![p] = FALSE]
    /\ retryTimer' = [retryTimer EXCEPT ![p] = TRUE]
    /\ starting' = started(p)
    /\ UNCHANGED <<stopping, updates, jwsLoops, http, interrupted, exit>>

\* Variant of RetryFires: an interval instead of a timeout.
RetryFiresAgain(p) ==
    /\ Running /\ retryTimer[p]
    /\ run' = [run EXCEPT ![p] = "token"]
    /\ UNCHANGED <<starting, stopping, retryTimer, updates, jwsLoops, isReady, agent, http, interrupted, exit>>

RetryFires(p) ==
    /\ Running /\ retryTimer[p]
    /\ retryTimer' = [retryTimer EXCEPT ![p] = FALSE]
    /\ run' = [run EXCEPT ![p] = "token"]
    /\ UNCHANGED <<starting, stopping, updates, jwsLoops, isReady, agent, http, interrupted, exit>>

--------------------------------------------------------------------------------
(* The HTTP server at the start *)

\* hapi refuses to start while it is stopping: start() rejects and ends the process.
HttpStart(p) ==
    /\ Running /\ starting[p] = "http"
    /\ \/ /\ http[p] \in {"down", "stopped"}
          /\ http' = [http EXCEPT ![p] = "starting"]
          /\ starting' = [starting EXCEPT ![p] = "listen"]
          /\ UNCHANGED exit
       \/ /\ http[p] = "stopping"
          /\ exit' = "start failed"
          /\ UNCHANGED <<http, starting>>
    /\ UNCHANGED <<run, stopping, retryTimer, updates, jwsLoops, isReady, agent, interrupted>>

HttpStarted(p) ==
    /\ Running /\ http[p] = "starting"
    /\ http' = [http EXCEPT ![p] = "up"]
    /\ starting' = [starting EXCEPT ![p] = "done"]
    /\ UNCHANGED <<run, stopping, retryTimer, updates, jwsLoops, isReady, agent, interrupted, exit>>

\* The port is taken, for example.
HttpStartFails(p) ==
    /\ Running /\ http[p] = "starting"
    /\ exit' = "start failed"
    /\ UNCHANGED <<run, starting, stopping, retryTimer, updates, jwsLoops, isReady, agent, http, interrupted>>

--------------------------------------------------------------------------------
(* stop, for every signal *)

\* Variant of Signal: stop() does not clear the retry timer.
SignalKeepsTimer(n) ==
    /\ Running /\ isNext(n)
    /\ stopping' = [p \in Peers |-> [stopping[p] EXCEPT ![n] = "close"]]
    /\ updates' = [p \in Peers |-> FALSE]
    /\ jwsLoops' = [p \in Peers |-> loopCleared(p)]
    /\ agent' = [p \in Peers |-> closing(agent[p])]
    /\ interrupted' = IF Stopping THEN interrupted
                      ELSE [p \in Peers |-> run[p] # "none" \/ starting[p] # "done"]
    /\ UNCHANGED <<run, starting, retryTimer, isReady, http, exit>>

\* SIGINT or SIGTERM: stop() of both peers up to their await of close().
Signal(n) ==
    /\ Running /\ isNext(n)
    /\ stopping' = [p \in Peers |-> [stopping[p] EXCEPT ![n] = "close"]]
    /\ retryTimer' = [p \in Peers |-> FALSE]
    /\ updates' = [p \in Peers |-> FALSE]
    /\ jwsLoops' = [p \in Peers |-> loopCleared(p)]
    /\ agent' = [p \in Peers |-> closing(agent[p])]
    /\ interrupted' = IF Stopping THEN interrupted
                      ELSE [p \in Peers |-> run[p] # "none" \/ starting[p] # "done"]
    /\ UNCHANGED <<run, starting, isReady, http, exit>>

\* close() has ended in stop(), which goes on with the HTTP server.  hapi refuses to stop
\* while it is starting or already stopping: stop() rejects and ends the process.
HttpStop(p, n) ==
    /\ Running /\ stopping[p][n] = "close"
    /\ agent' = [agent EXCEPT ![p] = "closed"]
    /\ isReady' = [isReady EXCEPT ![p] = FALSE]
    /\ \/ /\ http[p] \notin {"starting", "stopping"}
          /\ http' = [http EXCEPT ![p] = "stopping"]
          /\ stopping' = [stopping EXCEPT ![p][n] = "http"]
          /\ UNCHANGED exit
       \/ /\ http[p] \in {"starting", "stopping"}
          /\ exit' = "stop failed"
          /\ UNCHANGED <<http, stopping>>
    /\ UNCHANGED <<run, starting, retryTimer, updates, jwsLoops, interrupted>>

\* Variant of ended: the first peer to stop ends the process.
endedByFirst(p, n) == TRUE

\* Promise.all of the two stop(): every other peer is done, too.
ended(p, n) == \A q \in Peers \ {p} : stopping[q][n] = "done"

\* Variant of HttpStopped: the process waits for its event loop to empty, which the timers of
\* a retry or of a socket prevent.
HttpStoppedSilently(p, n) ==
    /\ Running /\ stopping[p][n] = "http"
    /\ http' = [http EXCEPT ![p] = "stopped"]
    /\ isReady' = [isReady EXCEPT ![p] = FALSE]
    /\ stopping' = [stopping EXCEPT ![p][n] = "done"]
    /\ UNCHANGED <<run, starting, retryTimer, updates, jwsLoops, agent, interrupted, exit>>

\* The HTTP server has stopped, and stop() returns.
HttpStopped(p, n) ==
    /\ Running /\ stopping[p][n] = "http"
    /\ http' = [http EXCEPT ![p] = "stopped"]
    /\ isReady' = [isReady EXCEPT ![p] = FALSE]
    /\ stopping' = [stopping EXCEPT ![p][n] = "done"]
    /\ exit' = IF ended(p, n) THEN "stopped" ELSE exit
    /\ UNCHANGED <<run, starting, retryTimer, updates, jwsLoops, agent, interrupted>>

--------------------------------------------------------------------------------

PeerStep(p) ==
    \/ TokenArrives(p) \/ HandshakeFails(p) \/ StepFails(p) \/ InitSucceeds(p)
    \/ RetryScheduled(p) \/ RetryFires(p)
    \/ HttpStart(p) \/ HttpStarted(p) \/ HttpStartFails(p)

StopStep(p, n) == HttpStop(p, n) \/ HttpStopped(p, n)

Next ==
    \/ \E p \in Peers : PeerStep(p)
    \/ \E p \in Peers, n \in Signals : StopStep(p, n)
    \/ \E n \in Signals : Signal(n)

Spec == Init /\ [][Next]_vars

--------------------------------------------------------------------------------
(* Safety *)

\* A peer that reports itself ready, and nobody stops, has a token loop, its peer JWS loop
\* and an agent that was connected and has not been closed since (the network may take the
\* connection away, which isReady does not say), and no restart is pending
\* (PeerServer.ts:67-108).
ReadyMeansStarted ==
    \A p \in Peers : pm4mlEnabled /\ isReady[p] /\ ~Stopping =>
        /\ run[p] = "none" /\ ~retryTimer[p]
        /\ updates[p] /\ agent[p] = "open" /\ jwsLoops[p] = 1

\* A peer that is not ready has its retry scheduled or a run of startPm4mlPart(), after any
\* number of failures at any step; a run whose handshake was refused counts, although
\* it never ends (PeerServer.ts:67-108).
NeverGivesUp ==
    \A p \in Peers : Running /\ ~isReady[p] /\ ~Stopping => run[p] # "none" \/ retryTimer[p]

\* No interleaving of starts, retries and stops leaves two peer JWS loops behind, of
\* which only one could be cleared (PeerServer.ts:133-142).
OneJwsLoop == \A p \in Peers : jwsLoops[p] <= 1

\* A peer that was started when it was stopped stays stopped: no retry and no loop is
\* left to bring it back (PeerServer.ts:42-51, 84-97).
StopIsFinal ==
    \A p \in Peers : Stopping /\ ~interrupted[p] =>
        run[p] = "none" /\ ~retryTimer[p] /\ jwsLoops[p] = 0

\* The process reports a graceful stop only when neither peer serves requests or keeps
\* its connection, if it was started (InterSchemeProxyAdapter.ts:18-25).
StopsBothPeers ==
    exit = "stopped" => \A p \in Peers : ~interrupted[p] =>
        http[p] \in {"stopping", "stopped"} /\ agent[p] = "closed"

\* No chain waits for one that is gone, whatever signals and failed starts have met: a
\* start waits for a run of startPm4mlPart() or for a server that is starting, and of the
\* two stop() of a signal one at least is still under way.  A run that waits for a refused
\* handshake is not gone; that it never ends is up to the agent
\* (PeerServer.ts:35-51, InterSchemeProxyAdapter.ts:18-25).
AwaitsEnd ==
    Running =>
        /\ \A p \in Peers : /\ starting[p] = "pm4ml" => run[p] # "none"
                            /\ starting[p] = "listen" => http[p] = "starting"
        /\ \A n \in Signals : signalled(n) => \E p \in Peers : stopping[p][n] \in {"close", "http"}

\* Where a peer is with its control agent.  The first stop() that closes it ends what the
\* models of the agent and its owner share; what goes on after it is up to the process.
agentPhase(p) ==
    CASE ~Stopping /\ run[p] = "closing" -> "closing"
      [] ~Stopping /\ run[p] \in {"init", "refused"} -> "initialising"
      [] ~Stopping /\ run[p] \in {"token", "none"} /\ ~isReady[p] -> "down"
      [] ~Stopping /\ run[p] \in {"token", "none"} /\ isReady[p] -> "ready"
      [] Stopping /\ (\A n \in Signals : stopping[p][n] \in {"none", "close"}) -> "stopping"
      [] OTHER -> "stopped"

Agent(p) == INSTANCE AgentLifecycle WITH phase <- agentPhase(p), given <- TRUE, alive <- TRUE

\* A peer uses its agent as the agent is modelled to be used, through any number of failed
\* starts, retries and signals: it is initialised again only when it has been closed, and
\* closed after every failure.  ControlAgent implements the same AgentLifecycle, with the
\* certs and the end of the process that a peer takes for granted (PeerServer.ts:67-129).
UsesAgent == [][\A p \in Peers : agentPhase(p)' # agentPhase(p) => Agent(p)!Next]_vars

\* What a peer is for InterSchemeProxyAdapter: after a signal only what is left of a start
\* that was under way counts.
phaseOf(p) ==
    CASE ~Stopping /\ ~isReady[p] -> "starting"
      [] ~Stopping /\ isReady[p]  -> "ready"
      [] Stopping /\ jwsLoops[p] # 0 -> "ready"
      [] Stopping /\ jwsLoops[p] = 0 /\ (run[p] # "none" \/ retryTimer[p]) -> "starting"
      [] OTHER -> "closed"

linkPhase     == [p \in Peers |-> phaseOf(p)]
linkConnected == [p \in Peers |-> agent[p] \in {"opening", "open"}]
linkListening == [p \in Peers |-> \A n \in Signals : stopping[p][n] # "done"]

Links == INSTANCE PeerLinks WITH
    phase <- linkPhase, connected <- linkConnected, stopped <- Stopping, listening <- linkListening

\* The peers behave as InterSchemeProxyAdapter relies on: once ready they stay so until a
\* signal, which ends all they do but a start that is under way (PeerServer.ts:35-108).
ImplementsLinks == Links!Spec

--------------------------------------------------------------------------------
(* Liveness *)

\* Timers expire, close() and hapi's stop() give up after five seconds each, and the
\* operating system answers listen().  Peers and signals take the steps of a server and of a
\* stop once each, so that one of them is taken as long as there are any is enough.
RuntimeFairness ==
    /\ \A p \in Peers : WF_vars(RetryScheduled(p) \/ RetryFires(p))
    /\ WF_vars(\E p \in Peers : HttpStart(p) \/ HttpStarted(p) \/ HttpStartFails(p))
    /\ WF_vars(\E p \in Peers, n \in Signals : StopStep(p, n))

\* As long as nobody stops the peer, a token request ends, a handshake ends or fails, and
\* loadCerts() ends, as modules AuthClient and ControlAgent show of them; tokens and
\* initialisations succeed now and then.
RunGoesOn(p) ==
    ~Stopping /\ (TokenArrives(p) \/ HandshakeFails(p) \/ InitSucceeds(p) \/ StepFails(p))
HubFairness ==
    \A p \in Peers :
        /\ WF_vars(RunGoesOn(p))
        /\ SF_vars(~Stopping /\ TokenArrives(p)) /\ SF_vars(~Stopping /\ InitSucceeds(p))

FairSpec == Spec /\ RuntimeFairness /\ HubFairness

\* The HTTP server of a peer comes up, whether its first start succeeds or fails, unless
\* that start waits for a handshake that was refused: then start() never gets to it
\* (PeerServer.ts:35-40, 74-79, ControlAgent.ts:71-115).
ServesAnyway ==
    <>(Stopping \/ ~Running \/ \A p \in Peers : http[p] = "up" \/ (starting[p] = "pm4ml" /\ run[p] = "refused"))

\* A peer becomes ready in the end, however often its token request or its loadCerts()
\* fail, unless a handshake is refused: no retry comes after that
\* (PeerServer.ts:99-108, ControlAgent.ts:71-115).
BecomesReady == <>(Stopping \/ ~Running \/ \A p \in Peers : isReady[p] \/ run[p] = "refused")

\* A signal ends the process, in the middle of a start or of a retry too
\* (startingProcess.ts:27-41).
StopEnds == Stopping ~> ~Running
================================================================================
