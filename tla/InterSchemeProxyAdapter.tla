------------------------ MODULE InterSchemeProxyAdapter ------------------------
(***************************************************************************)
(* What the two peers tell each other through InterSchemeProxyAdapter.ts.  *)
(*                                                                         *)
(* The signing certificates (JWS) of one scheme are relayed to the hub of  *)
(* the other: from the connection of one control agent, through the events *)
(* of the PeerServers, to the connection of the other agent.  An event is  *)
(* dropped when the other peer is not ready or not connected; a loop that  *)
(* asks for the JWS again makes up for it.                                 *)
(*                                                                         *)
(* The access token and the certs of one hub go to the HttpServer of the   *)
(* peer that proxies requests to it, and to the ping service of the other  *)
(* peer, which sends its PUT /ping callbacks to that hub.  A peer opens    *)
(* its control agent once it has had a token, so certs come later.         *)
(*                                                                         *)
(* A signal runs stop() of both peers up to their first await.  It takes   *)
(* the JWS listeners away at once, but the start of a peer that is under   *)
(* way goes on, and credentials are taken until the HTTP server has        *)
(* stopped; the ping service takes them even then.                         *)
(*                                                                         *)
(* Every connection of an agent keeps the order of its frames.  A socket   *)
(* that the agent has replaced or is closing keeps its handlers: what is   *)
(* still on its way there arrives some time, in any order with the frames  *)
(* of later connections, or never.  How peers connect, get ready and stop  *)
(* is what module PeerLinks says, which PeerServer implements.             *)
(*                                                                         *)
(* A definition marked "Variant" is what a plausible bug would make of the *)
(* definition that follows it; no specification uses it.                   *)
(***************************************************************************)
EXTENDS Wiring, Naturals, Sequences

CONSTANTS
    MaxJws,     \* bound: how often the JWS of the schemes change
    MaxCreds,   \* bound: versions of a token and of the certs
    MaxDrops,   \* bound: how often connections are lost
    MaxFrames   \* bound: frames in transit when the peer JWS loop asks again

ASSUME AdapterAssumption ==
    /\ MaxJws \in Nat /\ MaxCreds \in Nat /\ MaxDrops \in Nat
    /\ MaxFrames \in Nat \ {0}

VARIABLES
    phase, connected, stopped, listening,  \* of the peers: module PeerLinks
    jws,          \* version of the JWS of a scheme
    inbound,      \* JWS versions on their way from a management API to a control agent, on
                  \* each of its connections
    outbound,     \* JWS on their way from a control agent to its management API, likewise
    known,        \* JWS version of each scheme the hub of a scheme was told last
    inTurn,       \* history: the last one that came by way of connections not replaced by then
    accessToken,  \* state.accessToken of the HttpServer of a peer
    certs,        \* the certs of state.httpsAgent
    pingToken,    \* accessToken of the ping service of a peer
    pingCerts,    \* its mTlsCreds
    sent,         \* the last request or callback that was sent to a hub
    drops         \* how many connections the agent of a peer has lost: the number of the
                  \* present one

linkVars == <<phase, connected, stopped, listening, drops>>
jwsVars  == <<jws, inbound, outbound, known, inTurn>>
authVars == <<accessToken, certs, pingToken, pingCerts, sent>>
vars     == <<linkVars, jwsVars, authVars>>

Links == INSTANCE PeerLinks

Versions    == 0..MaxJws
Connections == 0..MaxDrops

\* late: history, the frame came on a connection that was no longer the present one.
JwsEvent == [scheme : Schemes, version : Versions, late : BOOLEAN]

\* A token or certs, by the scheme that has issued them; None stands for '', null, undefined.
None     == [issuer |-> "none", version |-> 0]
Creds    == [issuer : Schemes, version : 1..MaxCreds] \cup {None}
Requests == [to : Schemes, token : Creds, certs : Creds]
Nothing  == [to |-> "none", token |-> None, certs |-> None]

TypeOK ==
    /\ phase \in [Peers -> {"starting", "ready", "closed"}]
    /\ connected \in [Peers -> BOOLEAN]
    /\ stopped \in BOOLEAN
    /\ listening \in [Peers -> BOOLEAN]
    /\ jws \in [Schemes -> Versions]
    /\ inbound \in [Peers -> [Connections -> Seq(Versions)]]
    /\ outbound \in [Peers -> [Connections -> Seq(JwsEvent)]]
    /\ known \in [Schemes -> [Schemes -> Versions]]
    /\ inTurn \in [Schemes -> [Schemes -> Versions]]
    /\ accessToken \in [Peers -> Creds]
    /\ certs \in [Peers -> Creds]
    /\ pingToken \in [Peers -> Creds]
    /\ pingCerts \in [Peers -> Creds]
    /\ sent \in Requests \cup {Nothing}
    /\ drops \in [Peers -> Connections]

Init ==
    /\ Links!Init
    /\ jws = [s \in Schemes |-> 0]
    /\ inbound = [p \in Peers |-> [c \in Connections |-> <<>>]]
    /\ outbound = [p \in Peers |-> [c \in Connections |-> <<>>]]
    /\ known = [h \in Schemes |-> [s \in Schemes |-> 0]]
    /\ inTurn = [h \in Schemes |-> [s \in Schemes |-> 0]]
    /\ accessToken = [p \in Peers |-> None]
    /\ certs = [p \in Peers |-> None]
    /\ pingToken = [p \in Peers |-> None]
    /\ pingCerts = [p \in Peers |-> None]
    /\ sent = Nothing
    /\ drops = [p \in Peers |-> 0]

peer(p) == createProxyAdapter[p]
hub(p)  == peer(p).controlAgent  \* the scheme whose management API the agent of p talks to

\* The process exits when both servers have stopped.
Running == \E p \in Peers : listening[p]

--------------------------------------------------------------------------------
(* Connections: what module PeerLinks says of them, and what it means here *)

\* getAccessToken() has resolved once: the ping service of the other peer has kept its
\* token ever since.
hadToken(p) == pingToken[other(p)] # None

\* Variant of Connect: an agent does not reconnect.
ConnectOnce(p) == Links!Connect(p) /\ hadToken(p) /\ drops[p] = 0 /\ UNCHANGED <<drops, jwsVars, authVars>>

\* The agent is opened once getAccessToken() has resolved.
Connect(p) == Links!Connect(p) /\ hadToken(p) /\ UNCHANGED <<drops, jwsVars, authVars>>

BecomesReady(p) == Links!BecomesReady(p) /\ UNCHANGED <<drops, jwsVars, authVars>>

\* The connection is lost, closed or about to be replaced: its frames may still arrive.
Disconnect(p) ==
    /\ Links!Disconnect(p) /\ drops[p] + drops[other(p)] < MaxDrops
    /\ drops' = [drops EXCEPT ![p] = @ + 1]
    /\ UNCHANGED <<jwsVars, authVars>>

\* The agents cannot send any more, and what they still receive goes nowhere: which of the
\* connections it comes on makes no difference any more.
Stop == Links!Stop /\ UNCHANGED <<drops, jwsVars, authVars>>

HttpStopped(p) == Links!HttpStopped(p) /\ UNCHANGED <<drops, jwsVars, authVars>>

--------------------------------------------------------------------------------
(* Peer JWS *)

\* The JWS of a scheme change: the management API notifies a connected agent, and whichever
\* of its earlier connections the API still holds open.
JwsChange(s) ==
    /\ jws[s] + jws[other(s)] < MaxJws
    /\ jws' = [jws EXCEPT ![s] = @ + 1]
    /\ \E held \in SUBSET Connections :
          inbound' = [p \in Peers |-> [c \in Connections |->
              IF hub(p) = s /\ IF c = drops[p] THEN connected[p] ELSE c < drops[p] /\ c \in held
              THEN Append(inbound[p][c], jws'[s]) ELSE inbound[p][c]]]
    /\ UNCHANGED <<outbound, known, inTurn, linkVars, authVars>>

\* propagatePeerJWSEvent and sendPeerJWS: dropped unless the peer is ready and connected.
propagated(q, event) ==
    IF phase[q] = "ready" /\ connected[q] THEN [outbound EXCEPT ![q][drops[q]] = Append(@, event)]
                                          ELSE outbound

\* emitPeerJWSEvent: the listener of the adapter passes it on, until stop() removes it.
emitted(p, event) == IF stopped THEN outbound ELSE propagated(other(p), event)

\* PEER_JWS NOTIFY arrives on any of the connections: onPeerJWS emits the event.
PeerJws(p, c) ==
    /\ inbound[p][c] # <<>>
    /\ inbound' = [inbound EXCEPT ![p][c] = Tail(@)]
    /\ outbound' = emitted(p, [scheme |-> hub(p), version |-> Head(inbound[p][c]), late |-> c # drops[p]])
    /\ UNCHANGED <<jws, known, inTurn, linkVars, authVars>>

\* Frames on the present connections, from the agent of p and to the other one.
inTransit(p) == Len(inbound[p][drops[p]]) + Len(outbound[other(p)][drops[other(p)]])

\* Variant of JwsLoop: instead of asking again, the loop repeats the JWS of the start.
JwsLoopRepeats(p) ==
    /\ phase[p] = "ready" /\ connected[p] /\ inTransit(p) < MaxFrames
    /\ outbound' = emitted(p, [scheme |-> hub(p), version |-> 0, late |-> FALSE])
    /\ UNCHANGED <<jws, inbound, known, inTurn, linkVars, authVars>>

\* The interval of startPeerJwsRefreshLoop: PEER_JWS READ, which the API answers.
JwsLoop(p) ==
    /\ phase[p] = "ready" /\ connected[p] /\ inTransit(p) < MaxFrames
    /\ inbound' = [inbound EXCEPT ![p][drops[p]] = Append(@, jws[hub(p)])]
    /\ UNCHANGED <<jws, outbound, known, inTurn, linkVars, authVars>>

\* The management API receives PEER_JWS NOTIFY on any of the connections it had.
Deliver(q, c) ==
    LET event == Head(outbound[q][c])
    IN  /\ outbound[q][c] # <<>>
        /\ outbound' = [outbound EXCEPT ![q][c] = Tail(@)]
        /\ known' = [known EXCEPT ![hub(q)][event.scheme] = event.version]
        /\ inTurn' = IF event.late \/ c # drops[q] THEN inTurn
                     ELSE [inTurn EXCEPT ![hub(q)][event.scheme] = event.version]
        /\ UNCHANGED <<jws, inbound, linkVars, authVars>>

--------------------------------------------------------------------------------
(* Credentials: emitServerStateEvent *)

issued(scheme, version) ==
    IF version = 0 THEN None ELSE [issuer |-> scheme, version |-> version]

\* The 'serverState' event: the HttpServer of p takes the value, as long as it listens.
taken(state, p, value) == IF listening[p] THEN [state EXCEPT ![p] = value] ELSE state

\* Variant of UpdateToken: the token goes to the peer's own ping service.
UpdateTokenToSelf(p, v) ==
    LET token == issued(peer(p).authClient, v)
    IN  /\ accessToken' = taken(accessToken, p, token)
        /\ pingToken' = IF token = None THEN pingToken ELSE [pingToken EXCEPT ![p] = token]
        /\ UNCHANGED <<certs, pingCerts, sent, linkVars, jwsVars>>

\* A new token, or '': the HttpServer of p takes it, and the ping service of the other peer
\* unless it is empty.
UpdateToken(p, v) ==
    LET token == issued(peer(p).authClient, v)
    IN  /\ accessToken' = taken(accessToken, p, token)
        /\ pingToken' = IF token = None THEN pingToken ELSE [pingToken EXCEPT ![other(p)] = token]
        /\ UNCHANGED <<certs, pingCerts, sent, linkVars, jwsVars>>

\* Certs that the control agent of p has received, perhaps on a connection that is lost
\* by now.
UpdateCerts(p, v) ==
    /\ v # 0 /\ hadToken(p)
    /\ certs' = taken(certs, p, issued(hub(p), v))
    /\ pingCerts' = [pingCerts EXCEPT ![other(p)] = issued(hub(p), v)]
    /\ UNCHANGED <<accessToken, pingToken, sent, linkVars, jwsVars>>

--------------------------------------------------------------------------------
(* Requests from the schemes *)

\* sendProxyRequest: a request is proxied when the state has a token and an https agent;
\* otherwise it is answered with 503.
Proxy(p) ==
    /\ listening[p] /\ accessToken[p] # None /\ certs[p] # None
    /\ sent' = [to |-> peer(p).proxyService, token |-> accessToken[p], certs |-> certs[p]]
    /\ UNCHANGED <<accessToken, certs, pingToken, pingCerts, linkVars, jwsVars>>

\* createMlPingRequests and putPing: what a ping service sends.
putPing(p) == [to |-> peer(p).pingService, token |-> pingToken[p], certs |-> pingCerts[p]]

\* PUT /ping goes to the other scheme, unless there are no certs.
sendPutPingRequest(p) == pingCerts[p] # None /\ sent' = putPing(p)

\* handlePostPing: a valid POST /ping is answered with 202 at once; an error of the callback
\* is only logged.
PostPing(p) ==
    /\ listening[p] /\ sendPutPingRequest(p)
    /\ UNCHANGED <<accessToken, certs, pingToken, pingCerts, linkVars, jwsVars>>

--------------------------------------------------------------------------------

JwsStep(p)  == JwsChange(p) \/ JwsLoop(p) \/ \E c \in Connections : PeerJws(p, c) \/ Deliver(p, c)
AuthStep(p) == \E v \in 0..MaxCreds : UpdateToken(p, v) \/ UpdateCerts(p, v)
LinkStep(p) == Connect(p) \/ BecomesReady(p) \/ Disconnect(p) \/ HttpStopped(p)

Next ==
    /\ Running
    /\ \/ \E p \in Peers : JwsStep(p) \/ AuthStep(p) \/ LinkStep(p) \/ Proxy(p) \/ PostPing(p)
       \/ Stop

Spec == Init /\ [][Next]_vars

--------------------------------------------------------------------------------
(* Safety *)

\* What reaches the hubs is what relaying promises: a hub is told the JWS of the other
\* scheme only and none that scheme never had, and it goes back to an older one only by a
\* frame of a connection that an agent had replaced; what comes by the present ones goes on
\* from where it was, however notifications, answers to the loop and lost connections mix
\* (InterSchemeProxyAdapter.ts:34-43, ControlAgent.ts:114).
Relay == INSTANCE JwsRelay
ImplementsRelay == Relay!Spec

\* PUT /ping callbacks to a hub carry the certs and the token the proxied requests to that
\* hub carry; when those have no token, the last one they had
\* (PeerServer.ts:144-155, InboundPingService.ts:89-96).
PingCredentialsAgree ==
    \A p \in Peers : listening[p] =>
        /\ pingCerts[other(p)] = certs[p]
        /\ accessToken[p] # None => pingToken[other(p)] = accessToken[p]

\* Whatever is sent to a hub, a proxied request or a PUT /ping callback, has a token and a
\* client certificate issued by that hub's scheme, in whatever order the peers start, stop
\* and fail to renew: the endpoints come from the configuration, the credentials by events
\* of one peer or the other (config.ts:12-222, InboundPingService.ts:89-105).
CredentialsOfDestination ==
    sent # Nothing => sent.token.issuer = sent.to /\ sent.certs.issuer = sent.to

--------------------------------------------------------------------------------
(* Liveness *)

\* Token requests succeed some time, agents reconnect, peers start, intervals expire, and
\* frames arrive on a connection that stays; on one that was lost they need not.
FirstToken(p) == Running /\ ~hadToken(p) /\ \E v \in 1..MaxCreds : UpdateToken(p, v)
FairSpec == Spec /\ \A p \in Peers :
    /\ WF_vars(FirstToken(p))
    /\ WF_vars(Running /\ Connect(p)) /\ WF_vars(Running /\ BecomesReady(p))
    /\ WF_vars(Running /\ PeerJws(p, drops[p])) /\ WF_vars(Running /\ JwsLoop(p))
    /\ WF_vars(Running /\ Deliver(p, drops[p]))

\* The other hub learns the JWS a scheme has, although events are dropped and replaced
\* connections bring older ones: the loop makes up for it, until the peers are stopped
\* (PeerServer.ts:131-138).
JwsConverges ==
    \A p \in Peers : []<>(stopped \/ \A q \in Peers \ {p} : known[hub(q)][hub(p)] = jws[hub(p)])
================================================================================
