----------------------------- MODULE ControlAgent -----------------------------
(***************************************************************************)
(* ControlAgent.ts: the WebSocket client of one peer's management API      *)
(* (MCM), together with the life of the sockets it has created.            *)
(*                                                                         *)
(* A socket keeps its handlers after the agent has replaced it, so every   *)
(* socket that is not CLOSED still acts on the agent.  The callers of the  *)
(* agent are "init" (PeerServer.initControlAgent: init() then loadCerts(), *)
(* and close() when either fails) and "reconnect" (the callback of the     *)
(* ping timer: open() then loadCerts(), nobody catches its rejections).    *)
(*                                                                         *)
(* One event handler runs to completion before the promises it settled     *)
(* continue, and those continue before the next event: tasks is the set of *)
(* pending continuations, and events wait until it is empty.               *)
(*                                                                         *)
(* A definition marked "Variant" is what a plausible bug would make of the *)
(* definition that follows it; no specification uses it.                   *)
(***************************************************************************)
EXTENDS Mcm, Naturals, Sequences

CONSTANTS
    Sockets,      \* identities of WebSocket objects, recycled once CLOSED and unused
    NoSocket,     \* this._ws === null
    Inbox,        \* the frames the management API may send
    MaxCerts,     \* bound: how many versions of the client certificate the hub issues
    PingsOnTime,  \* pings keep the ping timer from expiring while a connection works
    LateFrames    \* frames already sent still arrive on a socket the agent is closing

ASSUME ControlAgentAssumption ==
    /\ NoSocket \notin Sockets
    /\ Inbox \subseteq Frames
    /\ MaxCerts \in Nat \ {0}
    /\ PingsOnTime \in BOOLEAN
    /\ LateFrames \in BOOLEAN

VARIABLES
    sock,             \* state of every socket: readyState, and what the network did
    opener,           \* the caller whose open() promise waits for the socket's 'open'
    answer,           \* versions of the certs in transit to the socket, in order
    ws,               \* this._ws
    pingTimer,        \* this._pingTimeout is armed
    shouldReconnect,  \* this._shouldReconnect
    recv,             \* <<caller, socket>>: receive() is pending on the socket
    stale,            \* sockets that keep a message listener whose receive() timed out
    initCall,         \* where the owner of the agent is
    tasks,            \* continuations that run before the next event
    certs,            \* version last given to onCert, 0: none yet
    overtaken,        \* history: it came on a socket that was not this._ws
    hubCerts,         \* version the hub has issued last
    exit              \* exit code of the process, 0: it is running

sockVars == <<sock, opener, answer>>
recvVars == <<recv, stale>>
certVars == <<certs, overtaken>>
vars == <<sock, opener, answer, ws, pingTimer, shouldReconnect, recv, stale,
          initCall, tasks, certs, overtaken, hubCerts, exit>>

\* CONNECTING, OPEN, CLOSING and CLOSED are readyStates.  HALFOPEN: still OPEN for the
\* client, the network has silently lost the peer.  DROPPED: CLOSING, no more frames
\* come.  ABORTING: CLOSING before it ever was OPEN.
SocketStates == {"CONNECTING", "OPEN", "HALFOPEN", "CLOSING", "DROPPED", "ABORTING", "CLOSED"}
Callers      == {"init", "reconnect"}
InitStates   == {"idle", "opening", "loading", "ready", "closing", "closed", "stopping", "stopped"}
Tasks        == (Callers \cup {"close"}) \X {"opened", "loaded", "failed", "done"}

TypeOK ==
    /\ sock \in [Sockets -> SocketStates]
    /\ opener \in [Sockets -> Callers \cup {"none"}]
    /\ answer \in [Sockets -> Seq(1..MaxCerts)]
    /\ ws \in Sockets \cup {NoSocket}
    /\ pingTimer \in BOOLEAN
    /\ shouldReconnect \in BOOLEAN
    /\ recv \subseteq Callers \X Sockets
    /\ stale \subseteq Sockets
    /\ initCall \in InitStates
    /\ tasks \subseteq Tasks
    /\ certs \in 0..MaxCerts
    /\ overtaken \in BOOLEAN
    /\ hubCerts \in 1..MaxCerts
    /\ exit \in {0, 2, 3}

Init ==
    /\ sock = [s \in Sockets |-> "CLOSED"]
    /\ opener = [s \in Sockets |-> "none"]
    /\ answer = [s \in Sockets |-> <<>>]
    /\ ws = NoSocket
    /\ pingTimer = FALSE
    /\ shouldReconnect = TRUE
    /\ recv = {}
    /\ stale = {}
    /\ initCall = "idle"
    /\ tasks = {}
    /\ certs = 0
    /\ overtaken = FALSE
    /\ hubCerts = 1
    /\ exit = 0

--------------------------------------------------------------------------------
(* Helpers *)

Running == exit = 0 /\ initCall # "stopped"
Quiet   == Running /\ tasks = {}
Closing == initCall \in {"closing", "stopping"}

IsOpen(s)    == sock[s] \in {"OPEN", "HALFOPEN"}      \* readyState === OPEN
Delivers(state) == state = "OPEN" \/ (LateFrames /\ state = "CLOSING")
Receives(s)  == Delivers(sock[s])
Waiting(s)   == {c \in Callers : <<c, s>> \in recv}
Listening(s) == Waiting(s) # {} \/ s \in stale
Free(s)      == sock[s] = "CLOSED" /\ Waiting(s) = {}

_checkSocketState == ws # NoSocket /\ IsOpen(ws)

\* Variant of Closed: close() leaves a handshake alone.
ClosedUnlessConnecting(state) ==
    CASE state = "OPEN"     -> "CLOSING"
      [] state = "HALFOPEN" -> "DROPPED"
      [] OTHER              -> state

\* WebSocket.close(): aborts a handshake, starts the closing handshake of an open
\* socket, and does nothing otherwise.
Closed(state) ==
    CASE state = "CONNECTING" -> "ABORTING"
      [] state = "OPEN"       -> "CLOSING"
      [] state = "HALFOPEN"   -> "DROPPED"
      [] OTHER                -> state

\* What is left in transit when the sockets are in these states.
inTransit(states) == [s \in Sockets |-> IF Delivers(states[s]) THEN answer[s] ELSE <<>>]

\* this._ws?.close()
CloseCurrent(states) ==
    IF ws = NoSocket THEN states ELSE [states EXCEPT ![ws] = Closed(@)]

\* Variant of rearmed: the 'close' handler clears the ping timer.
notRearmed == FALSE

\* The handlers of 'close': re-arm the ping timer, and settle a pending close().
rearmed == pingTimer \/ shouldReconnect
settled(s) == IF Closing /\ s = ws THEN {<<"close", "done">>} ELSE {}

--------------------------------------------------------------------------------
(* The methods *)

\* Variant of open: the ping timer is armed only if shouldReconnect is still set.
openIfReconnecting(caller) ==
    /\ pingTimer' = (pingTimer \/ shouldReconnect)
    /\ \/ /\ _checkSocketState
          /\ tasks' = tasks \cup {<<caller, "failed">>}
          /\ UNCHANGED <<sock, opener, ws>>
       \/ /\ ~_checkSocketState
          /\ \E s \in Sockets :
                /\ Free(s)
                /\ sock' = [sock EXCEPT ![s] = "CONNECTING"]
                /\ opener' = [opener EXCEPT ![s] = caller]
                /\ ws' = s
          /\ UNCHANGED tasks

\* Variant of open: a new socket even if the current one is open.
openAlways(caller) ==
    /\ pingTimer' = TRUE
    /\ \E s \in Sockets :
          /\ Free(s)
          /\ sock' = [sock EXCEPT ![s] = "CONNECTING"]
          /\ opener' = [opener EXCEPT ![s] = caller]
          /\ ws' = s
    /\ UNCHANGED tasks

\* open(): arms the ping timer first; rejects when the current socket is open,
\* otherwise replaces it by a new one.
open(caller) ==
    /\ pingTimer' = TRUE
    /\ \/ /\ _checkSocketState
          /\ tasks' = tasks \cup {<<caller, "failed">>}
          /\ UNCHANGED <<sock, opener, ws>>
       \/ /\ ~_checkSocketState
          /\ \E s \in Sockets :
                /\ Free(s)
                /\ sock' = [sock EXCEPT ![s] = "CONNECTING"]
                /\ opener' = [opener EXCEPT ![s] = caller]
                /\ ws' = s
          /\ UNCHANGED tasks

\* close() up to its await.
close ==
    /\ pingTimer' = FALSE
    /\ shouldReconnect' = FALSE
    /\ sock' = CloseCurrent(sock)
    /\ answer' = inTransit(sock')

\* loadCerts() up to its await: CONFIGURATION READ, then receive(), which rejects at
\* once when the socket is not open.
loadCerts(caller) ==
    \/ /\ _checkSocketState
       /\ answer' = IF sock[ws] = "OPEN" THEN [answer EXCEPT ![ws] = Append(@, hubCerts)] ELSE answer
       /\ recv' = recv \cup {<<caller, ws>>}
       /\ tasks' = tasks \ {<<caller, "opened">>}
    \/ /\ ~_checkSocketState
       /\ tasks' = (tasks \ {<<caller, "opened">>}) \cup {<<caller, "failed">>}
       /\ UNCHANGED <<answer, recv>>

--------------------------------------------------------------------------------
(* The owner *)

\* PeerServer.initControlAgent, at the start or from the retry timer.
CallInit ==
    /\ Quiet /\ initCall \in {"idle", "closed"}
    /\ initCall' = "opening"
    /\ open("init")
    /\ UNCHANGED <<answer, shouldReconnect, recvVars, certVars, hubCerts, exit>>

\* PeerServer closes an agent it has not initialised: getAccessToken failed.
CloseUnopened ==
    /\ Quiet /\ initCall \in {"idle", "closed"}
    /\ initCall' = "closing"
    /\ close
    /\ UNCHANGED <<opener, ws, recvVars, tasks, certVars, hubCerts, exit>>

\* PeerServer.stop on SIGINT or SIGTERM.  An initialisation that is pending goes on; what
\* becomes of it does not matter to its owner any more, who is "stopping".
Shutdown ==
    /\ Quiet /\ initCall \in {"opening", "loading", "ready"}
    /\ initCall' = "stopping"
    /\ close
    /\ UNCHANGED <<opener, ws, recvVars, tasks, certVars, hubCerts, exit>>

--------------------------------------------------------------------------------
(* Continuations of settled promises *)

\* An open() has resolved: its caller goes on with loadCerts().
Opened(caller) ==
    /\ Running /\ <<caller, "opened">> \in tasks
    /\ loadCerts(caller)
    /\ initCall' = IF caller = "init" /\ initCall = "opening" /\ _checkSocketState
                   THEN "loading" ELSE initCall
    /\ UNCHANGED <<sock, opener, ws, pingTimer, shouldReconnect, stale, certVars, hubCerts, exit>>

\* loadCerts() has resolved; the certs it passes to onCert are those _handle has just
\* passed to it.
Loaded(caller) ==
    /\ Running /\ <<caller, "loaded">> \in tasks
    /\ tasks' = tasks \ {<<caller, "loaded">>}
    /\ initCall' = IF caller = "init" /\ initCall # "stopping" THEN "ready" ELSE initCall
    /\ UNCHANGED <<sockVars, ws, pingTimer, shouldReconnect, recvVars, certVars, hubCerts, exit>>

\* init() or loadCerts() has rejected: PeerServer catches it and closes the agent.  When a
\* stop() does so already, that one ends first.
InitFailed ==
    /\ Running /\ <<"init", "failed">> \in tasks
    /\ tasks' = tasks \ {<<"init", "failed">>}
    /\ initCall' = IF initCall = "stopping" THEN "stopping" ELSE "closing"
    /\ close
    /\ UNCHANGED <<opener, ws, recvVars, certVars, hubCerts, exit>>

\* The ping timer's callback has rejected, which ends the process.
ReconnectFailed ==
    /\ Running /\ <<"reconnect", "failed">> \in tasks
    /\ exit' = 3
    /\ UNCHANGED <<sockVars, ws, pingTimer, shouldReconnect, recvVars, initCall, tasks, certVars, hubCerts>>

\* close() after its await.
CloseDone ==
    /\ Running /\ <<"close", "done">> \in tasks
    /\ tasks' = tasks \ {<<"close", "done">>}
    /\ ws' = NoSocket
    /\ initCall' = IF initCall = "stopping" THEN "stopped" ELSE "closed"
    /\ UNCHANGED <<sockVars, pingTimer, shouldReconnect, recvVars, certVars, hubCerts, exit>>

Continuation ==
    \/ \E c \in Callers : Opened(c) \/ Loaded(c)
    \/ InitFailed
    \/ ReconnectFailed
    \/ CloseDone

--------------------------------------------------------------------------------
(* Timers.  The ping timer (30s + timeout) is armed no earlier than close() begins, and
   close() gives up after 5s, so the ping timer does not expire while it waits. *)

\* Variant of PingTimeout: it reconnects by the path of the first start.
PingTimeoutInits ==
    /\ Quiet /\ pingTimer /\ ~Closing
    /\ open("init")
    /\ UNCHANGED <<answer, shouldReconnect, recvVars, initCall, certVars, hubCerts, exit>>

PingTimeout ==
    /\ Quiet /\ pingTimer /\ ~Closing
    /\ PingsOnTime => \A s \in Sockets : sock[s] # "OPEN"
    /\ open("reconnect")
    /\ UNCHANGED <<answer, shouldReconnect, recvVars, initCall, certVars, hubCerts, exit>>

\* Variant of ReceiveTimeout: it removes the listener and rejects nothing.
ReceiveTimeoutSilent(caller, s) ==
    /\ Quiet /\ <<caller, s>> \in recv
    /\ recv' = recv \ {<<caller, s>>}
    /\ UNCHANGED <<sockVars, ws, pingTimer, shouldReconnect, stale, initCall, tasks, certVars, hubCerts, exit>>

\* The listener stays on the socket, unless the socket is already CLOSED.
ReceiveTimeout(caller, s) ==
    /\ Quiet /\ <<caller, s>> \in recv
    /\ recv' = recv \ {<<caller, s>>}
    /\ stale' = IF sock[s] = "CLOSED" THEN stale ELSE stale \cup {s}
    /\ tasks' = tasks \cup {<<caller, "failed">>}
    /\ UNCHANGED <<sockVars, ws, pingTimer, shouldReconnect, initCall, certVars, hubCerts, exit>>

\* Variant of CloseTimeout: the timer is only set when there is a socket to close.
CloseTimeoutOfSocket ==
    /\ Quiet /\ Closing /\ ws # NoSocket
    /\ tasks' = tasks \cup {<<"close", "done">>}
    /\ UNCHANGED <<sockVars, ws, pingTimer, shouldReconnect, recvVars, initCall, certVars, hubCerts, exit>>

CloseTimeout ==
    /\ Quiet /\ Closing
    /\ tasks' = tasks \cup {<<"close", "done">>}
    /\ UNCHANGED <<sockVars, ws, pingTimer, shouldReconnect, recvVars, initCall, certVars, hubCerts, exit>>

--------------------------------------------------------------------------------
(* Events of a socket, whether or not it still is this._ws *)

\* Variant of WsOpened: 'open' may be emitted again.
WsOpenedAgain(s) ==
    /\ Quiet /\ sock[s] \in {"CONNECTING", "OPEN"}
    /\ sock' = [sock EXCEPT ![s] = "OPEN"]
    /\ opener' = [opener EXCEPT ![s] = "none"]
    /\ tasks' = tasks \cup {<<opener[s], "opened">>}
    /\ UNCHANGED <<answer, ws, pingTimer, shouldReconnect, recvVars, initCall, certVars, hubCerts, exit>>

WsOpened(s) ==
    /\ Quiet /\ sock[s] = "CONNECTING"
    /\ sock' = [sock EXCEPT ![s] = "OPEN"]
    /\ opener' = [opener EXCEPT ![s] = "none"]
    /\ tasks' = tasks \cup {<<opener[s], "opened">>}
    /\ UNCHANGED <<answer, ws, pingTimer, shouldReconnect, recvVars, initCall, certVars, hubCerts, exit>>

WsPing(s) ==
    /\ Quiet /\ Receives(s)
    /\ pingTimer' = TRUE
    /\ UNCHANGED <<sockVars, ws, shouldReconnect, recvVars, initCall, tasks, certVars, hubCerts, exit>>

\* Variant of handled: onCert is left to loadCerts.
handledByLoadCerts(s, m) == IF handle(m) = "onCert" /\ Waiting(s) # {} THEN Head(answer[s]) ELSE certs

\* The certs after _handle.
handled(s, m) == IF handle(m) = "onCert" THEN Head(answer[s]) ELSE certs

\* Variant of received: loadCerts() takes any valid payload for the certs.
receivedAny(m) == IF isWsPayload(m) THEN "loaded" ELSE "failed"

\* How the loadCerts() that receives the frame goes on.
received(m) == IF isWsPayload(m) /\ isCertsPayload(m) THEN "loaded" ELSE "failed"

\* 'message': _handle, then the listeners of receive().  A certs payload is the next
\* one in transit to this socket.  A listener that cannot parse the frame throws, and so
\* does _handle for null: the process ends.
WsMessage(s, m) ==
    /\ Quiet /\ Receives(s) /\ m \in Inbox
    /\ isCertsPayload(m) => answer[s] # <<>>
    /\ \/ /\ handle(m) = "throw" \/ (m = Unparsable /\ Listening(s))
          /\ exit' = 2
          /\ UNCHANGED <<answer, recvVars, tasks, certVars>>
       \/ /\ ~(handle(m) = "throw" \/ (m = Unparsable /\ Listening(s)))
          /\ certs' = handled(s, m)
          /\ overtaken' = IF handle(m) = "onCert" THEN s # ws ELSE overtaken
          /\ answer' = IF isCertsPayload(m) THEN [answer EXCEPT ![s] = Tail(@)] ELSE answer
          /\ recv' = recv \ (Callers \X {s})
          /\ stale' = stale \ {s}
          /\ tasks' = tasks \cup {<<c, received(m)>> : c \in Waiting(s)}
          /\ UNCHANGED exit
    /\ UNCHANGED <<sock, opener, ws, pingTimer, shouldReconnect, initCall, hubCerts>>

\* Variant of WsClosed: the listeners of receive() go with the socket.
WsClosedForgets(s) ==
    /\ Quiet /\ sock[s] \in {"CLOSING", "DROPPED"}
    /\ sock' = [sock EXCEPT ![s] = "CLOSED"]
    /\ answer' = inTransit(sock')
    /\ stale' = stale \ {s}
    /\ recv' = recv \ (Callers \X {s})
    /\ pingTimer' = rearmed
    /\ tasks' = tasks \cup settled(s)
    /\ UNCHANGED <<opener, ws, shouldReconnect, initCall, certVars, hubCerts, exit>>

\* 'close' at the end of the closing handshake or after the connection was lost.
WsClosed(s) ==
    /\ Quiet /\ sock[s] \in {"CLOSING", "DROPPED"}
    /\ sock' = [sock EXCEPT ![s] = "CLOSED"]
    /\ answer' = inTransit(sock')
    /\ stale' = stale \ {s}
    /\ pingTimer' = rearmed
    /\ tasks' = tasks \cup settled(s)
    /\ UNCHANGED <<opener, ws, shouldReconnect, recv, initCall, certVars, hubCerts, exit>>

\* The handshake failed or was aborted: 'error', whose handler closes the current
\* socket, then 'close'.  The promise of open() is never settled.
WsFailed(s) ==
    /\ Quiet /\ sock[s] \in {"CONNECTING", "ABORTING"}
    /\ sock' = CloseCurrent([sock EXCEPT ![s] = "CLOSED"])
    /\ answer' = inTransit(sock')
    /\ opener' = [opener EXCEPT ![s] = "none"]
    /\ pingTimer' = rearmed
    /\ tasks' = tasks \cup settled(s)
    /\ UNCHANGED <<ws, shouldReconnect, recvVars, initCall, certVars, hubCerts, exit>>

\* A frame the library rejects: it closes the socket and emits 'error', whose handler
\* closes the current socket.
WsError(s) ==
    /\ Quiet /\ Receives(s)
    /\ sock' = CloseCurrent([sock EXCEPT ![s] = "DROPPED"])
    /\ answer' = inTransit(sock')
    /\ tasks' = tasks \cup settled(s)
    /\ UNCHANGED <<opener, ws, pingTimer, shouldReconnect, recvVars, initCall, certVars, hubCerts, exit>>

SocketEvent(s) ==
    \/ WsOpened(s) \/ WsPing(s) \/ WsClosed(s) \/ WsFailed(s) \/ WsError(s)
    \/ \E m \in Inbox : WsMessage(s, m)

--------------------------------------------------------------------------------
(* The network and the management API *)

\* The peer or the network resets an open connection, and the client notices.
Drop(s) ==
    /\ Running /\ IsOpen(s)
    /\ sock' = [sock EXCEPT ![s] = "DROPPED"]
    /\ answer' = inTransit(sock')
    /\ UNCHANGED <<opener, ws, pingTimer, shouldReconnect, recvVars, initCall, tasks, certVars, hubCerts, exit>>

\* The connection is lost and the client does not notice.
Blackhole(s) ==
    /\ Running /\ sock[s] = "OPEN"
    /\ sock' = [sock EXCEPT ![s] = "HALFOPEN"]
    /\ answer' = inTransit(sock')
    /\ UNCHANGED <<opener, ws, pingTimer, shouldReconnect, recvVars, initCall, tasks, certVars, hubCerts, exit>>

\* The hub issues a new client certificate: the API notifies every connected socket.
Rotate ==
    /\ Running /\ hubCerts < MaxCerts
    /\ hubCerts' = hubCerts + 1
    /\ answer' = [s \in Sockets |-> IF sock[s] = "OPEN" THEN Append(answer[s], hubCerts + 1) ELSE answer[s]]
    /\ UNCHANGED <<sock, opener, ws, pingTimer, shouldReconnect, recvVars, initCall, tasks, certVars, exit>>

--------------------------------------------------------------------------------

Next ==
    \/ CallInit \/ CloseUnopened \/ Shutdown
    \/ Continuation
    \/ PingTimeout \/ CloseTimeout
    \/ \E c \in Callers, s \in Sockets : ReceiveTimeout(c, s)
    \/ \E s \in Sockets : SocketEvent(s) \/ Drop(s) \/ Blackhole(s)
    \/ Rotate

Spec == Init /\ [][Next]_vars

--------------------------------------------------------------------------------
(* Safety *)

\* While its owner wants a connection the ping timer is armed, so that whatever happens
\* to the sockets the agent will try again: after a failed start shouldReconnect stays
\* FALSE for ever and the 'close' handler no longer re-arms it (ControlAgent.ts:104).
ReconnectArmed ==
    exit = 0 /\ initCall \in {"opening", "loading", "ready"} => pingTimer

\* The places from which the pending initControlAgent() can still go on: a socket whose
\* 'open' resolves it, a settled promise, a receive() in progress.
initOpeners     == {s \in Sockets : sock[s] = "CONNECTING" /\ opener[s] = "init"}
initTasks       == {t \in tasks : t[1] = "init"}
initReceives    == {s \in Sockets : <<"init", s>> \in recv}

\* initControlAgent() goes on at most once, and never once it has settled: no socket,
\* listener or promise of an earlier call makes a started or closed agent start its
\* peer again; a stop in the middle of it adds no other way to go on
\* (PeerServer.ts:42-51, 119-129).
InitContinuesOnce ==
    /\ initOpeners # {} => initCall \in {"opening", "stopping", "stopped"} /\ initTasks = {} /\ initReceives = {}
    /\ initReceives # {} => initCall \in {"loading", "stopping", "stopped"} /\ initTasks = {}
    /\ initTasks # {} => initCall \in {"opening", "loading", "stopping", "stopped"}
    /\ \A s, t \in initOpeners : s = t
    /\ \A s, t \in initReceives : s = t
    /\ \A s, t \in initTasks : s = t

\* A start that waits for the certs always has something left that ends its wait: its
\* receive() with a running timer, or a continuation (ControlAgent.ts:162-185).
LoadHasAnEnd ==
    exit = 0 /\ initCall = "loading" => initReceives # {} \/ initTasks # {}

\* No step replaces or forgets a current socket that is open, whether or not its peer is
\* still there: the agent takes a new one only when the current one is closing, closed or
\* still connecting (ControlAgent.ts:83-88, 144).
NeverAbandonsOpen ==
    [][ws # NoSocket /\ ws' # ws => ~IsOpen(ws)]_vars

\* Closing the agent closes its current socket: while close() waits, the current socket is
\* not alive and none takes its place, although a start that is stopped in its middle goes
\* on (ControlAgent.ts:118-146).
ClosingIsFinal ==
    Closing /\ ws # NoSocket => sock[ws] \notin {"CONNECTING", "OPEN", "HALFOPEN"}

\* Certs reach onCert in the order the hub has issued them, up to the newest: nothing
\* older than what the agent has been given is in transit to its current socket, and once
\* that socket is open and the agent has asked on it, the newest version has been given or
\* is in transit.  Only a frame of a socket that was replaced or closed breaks this, until
\* the next one of the current socket (ControlAgent.ts:73-116, 187-201, 249-256).
asked == \A c \in Callers : <<c, "opened">> \notin tasks
newest(s) == answer[s] # <<>> /\ answer[s][Len(answer[s])] = hubCerts
CertsInOrder ==
    ws # NoSocket /\ ~overtaken =>
        /\ \A i \in 1..Len(answer[ws]) : certs <= answer[ws][i]
        /\ Running /\ sock[ws] = "OPEN" /\ asked => certs = hubCerts \/ newest(ws)

--------------------------------------------------------------------------------
(* Liveness *)

\* What Node.js and the ws library guarantee: pending continuations run, a handshake
\* ends, a socket that is closing is closed, armed timers expire.  The timers of
\* receive() and close() only run out, so other events cannot put them off for ever;
\* the ping timer is armed anew by pings, so it must expire only if it stays enabled.
HandshakeEnds(s) == WsOpened(s) \/ WsFailed(s) \/ WsClosed(s)
SomeReceiveTimeout == \E c \in Callers, s \in Sockets : ReceiveTimeout(c, s)
RuntimeFairness ==
    /\ WF_vars(Continuation)
    /\ WF_vars(PingTimeout)
    /\ SF_vars(CloseTimeout)
    /\ SF_vars(SomeReceiveTimeout)
    /\ \A s \in Sockets : SF_vars(HandshakeEnds(s))

\* PeerServer calls init() when it starts and again after every failed start.
OwnerFairness == SF_vars(CallInit)

\* A management API that is up again and again: an agent that keeps trying connects
\* some time, and the certs sent on its socket arrive some time.
ConnectCurrent == \E s \in Sockets : s = ws /\ WsOpened(s)
CertsOnCurrent == \E s \in Sockets : s = ws /\ WsMessage(s, CertsNotify)
ApiFairness == SF_vars(ConnectCurrent) /\ SF_vars(CertsOnCurrent)

FairSpec == Spec /\ RuntimeFairness /\ OwnerFairness /\ ApiFairness

\* A start that has connected ends: with the certs, or by closing the agent for a
\* retry or a stop, or with the process (PeerServer.ts:119-129).
LoadSettles == initCall = "loading" ~> initCall \in {"ready", "closing", "stopping"} \/ exit # 0

\* A failed start lets go of the agent, however its socket behaves, so that the retry
\* can be scheduled (PeerServer.ts:99-106).
CloseSettles == Closing ~> initCall \in {"closed", "stopped"} \/ exit # 0

\* A socket the agent has replaced that is nevertheless open.
Orphan == \E s \in Sockets : s # ws /\ sock[s] \in {"CONNECTING", "OPEN", "CLOSING"}

\* A started agent whose current socket is closed gets an open one again, unless a
\* socket it has replaced stays open (ControlAgent.ts:73-107).
Lost == initCall = "ready" /\ ws # NoSocket /\ sock[ws] = "CLOSED"
ReconnectsUnlessOrphan ==
    Lost ~> \/ ws # NoSocket /\ IsOpen(ws)
            \/ Orphan
            \/ exit # 0
            \/ initCall # "ready"

\* A certificate the hub has issued reaches onCert of a started agent, also when the
\* connection is lost meanwhile, unless a replaced socket stays open or had the last
\* word (ControlAgent.ts:187-201, 249-256).
CertsConverge ==
    initCall = "ready" /\ certs # hubCerts
        ~> certs = hubCerts \/ Orphan \/ overtaken \/ exit # 0 \/ initCall # "ready"

--------------------------------------------------------------------------------
(* What the code says of itself, and does not do *)

\* config.ts:83, "Connection timeout for control agent A": a first connection that is
\* not made ends the attempt.
InitSettles == initCall = "opening" ~> initCall # "opening" \/ exit # 0

\* ControlAgent.ts:100, "Reconnect on close".
ReconnectsOnClose ==
    Lost ~> (ws # NoSocket /\ IsOpen(ws)) \/ exit # 0 \/ initCall # "ready"

\* ControlAgent.ts:76, "Ping timeout, possible broken connection. Restarting server...":
\* an expired ping timer starts a new connection.
PingTimeoutReopens == [][PingTimeout => sock'[ws'] = "CONNECTING"]_vars

\* ControlAgent.test.ts:209, "should handle error if deserialisation fails in _handle":
\* a frame that does not parse does not end the process.
BadFrameHandled == [][\A s \in Sockets : WsMessage(s, Unparsable) => exit' = 0]_vars
================================================================================
