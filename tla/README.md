# Verification of the Mojaloop inter-scheme proxy adapter

The inter-scheme proxy adapter (ISPA) connects two Mojaloop schemes, A and B. It
runs one HTTP server per scheme ("peer"), proxies every request of one scheme to
the hub of the other, and keeps for each hub an access token (OIDC) and the client
certificates, which a management API (MCM) delivers over a WebSocket.

This directory holds TLA+ models of the program in `src/src`, TLC configurations
that check them on small instances, and TLAPS proofs of what matters most for every
instance. `PROJECT.json` maps every definition to the lines it models.

## The system

| Part | Source (under `src/src`) | State | Operations | Talks to |
|---|---|---|---|---|
| Process | `utils/startingProcess.ts`, `index.ts` | exit code | start, signals, uncaught errors | adapter |
| Adapter | `domain/InterSchemeProxyAdapter.ts` | none of its own | start and stop both peers, pass events between them | peers |
| Peer server | `domain/PeerServer.ts` | `isReady`, retry timer, peer JWS loop | start, retry, stop, propagate JWS | all parts of its peer |
| Control agent | `infra/controlAgent/` | current socket, ping timer, `shouldReconnect`, handlers and promises on old and new sockets | open, close, receive, loadCerts, send | management API; callbacks to the peer server |
| Token updates | `infra/AuthClient.ts` | one timer handle, the loops behind it | startAccessTokenUpdates, stopUpdates | token endpoint; callback to the peer server |
| HTTP server | `infra/httpServer/HttpServer.ts` | token, https agent, shutdown timer of old agents, hapi phase | start, stop, state events, routes | proxy service, ping service |
| Proxying | `domain/ProxyService.ts`, `infra/HttpClient.ts`, `infra/configureAxios.ts`, `dto.ts` | requests in flight | send, retry, answer | the hub |
| Ping service | `domain/InboundPingService.ts`, `infra/mlPingRequests.ts` | credentials of the other hub | answer POST /ping, update credentials | the other hub |
| Configuration and wiring | `config.ts`, `createProxyAdapter.ts` | none after the start | build both peers from the environment | all parts |

What is hard in it: everything is asynchronous and single-threaded. A handler runs
to completion, the promises it settled continue before the next event, and between
two awaits anything may happen. In particular

* a WebSocket keeps its handlers after the agent has replaced it, so old sockets act
  on the state of the new one and deliver late (control agent, adapter);
* a start and a stop of the same peer do not wait for each other (peer server);
* a timer that has expired cannot be cleared, though its work goes on (tokens);
* credentials change while requests that use them are in flight (HTTP server);
* events between the peers are dropped when the receiver is not ready (adapter).

The complete list, with lines and the properties that cover each item, is under
`hazards` in `PROJECT.json`.

What makes each part correct:

* control agent: it keeps trying to reconnect while its owner wants a connection; a
  start continues once and never after it has failed; a load ends; a closed agent
  stays closed; certificates arrive in the order they were issued, and new ones in the
  end;
* tokens: one loop at a time; a published token is renewed before it expires; a failed
  update is repeated;
* peer server: ready means that everything behind it runs; a failed start is always
  retried, unless it is refused its handshake; none waits for one that is gone; a stop is
  final and ends the process;
* HTTP server and proxying: requests carry credentials; a renewal of the certificates
  does not disturb short requests; every request is answered;
* adapter: each hub gets the signing certificates (JWS) of the other scheme in the end, and
  goes back to an older version only by a frame of a connection that was replaced;
* configuration, events and ping service: whatever is sent to a hub, a proxied request or
  a callback, carries a token and a certificate that the scheme of that hub has issued.

## Modules

| Module | Models | Runs |
|---|---|---|
| `Mcm` | the messages of the management API and what `_handle` does with a frame | through `ControlAgent` |
| `ControlAgent` | `ControlAgent.ts` with all sockets it has created, its owner in `PeerServer.ts` | `agent_*` |
| `AgentLifecycle` | abstract: what the peer server and its agent rely on of each other | `agent_safety`, `peers` |
| `ControlAgentLifecycle` | the refinement mapping from `ControlAgent` to `AgentLifecycle` | `agent_safety` |
| `AuthClient` | `AuthClient.ts` with the token loops, in discrete time | `token*` |
| `PeerServer` | start, retry and stop of both peers, hapi phases, signals and exit codes | `peers` |
| `HttpServer` | server state, rotation of https agents, requests with their attempts | `proxy*` |
| `PeerLinks` | abstract: how peers connect, get ready and stop, as far as the other peer notices | `peers`, `relay` |
| `Wiring` | which scheme the endpoints of each peer belong to, what its parts talk to, where its events go | `relay` |
| `InterSchemeProxyAdapter` | JWS and credentials passed between the peers, and what is sent to the hubs with them | `relay` |
| `JwsRelay` | abstract: what relaying the JWS promises | `relay` |
| `*Proofs` | theorems and their proofs about the module they are named after | |
| `MC*` | symmetry and the sets of frames for TLC | |

Definitions have the names of the source where there is one (`_checkSocketState`,
`loadCerts`, `reCreateHttpsAgent`). A definition whose comment starts with "Variant"
is what a plausible bug would make of the definition after it. No specification uses
the variants: each shows that some property would notice that bug (`mutants` in
`PROJECT.json`).

### ControlAgent

`answer` holds, for every socket, the versions of the certs that are in transit to it: a
`loadCerts()` and every renewal append one, a frame with certs takes the first, and what is
in transit is lost with the connection. The content of the certs has no version in the code;
the model numbers them to tell old from new. `overtaken` is a history variable, which no
guard reads: the certs the agent has came on a socket that was not its current one.

`sock` has the readyState of every WebSocket the agent has created, refined by what
the network did to it: HALFOPEN is a connection that is lost without the client
noticing, DROPPED one that will not deliver frames any more, ABORTING a handshake that
`close()` has cut short. `ws`, `pingTimer` and `shouldReconnect` are the fields of the
class. `opener`, `recv` and `stale` are the promises and listeners that hang on the
sockets, `tasks` the continuations of settled promises, which run before the next
event. `initCall` is where the owner is (`PeerServer.initControlAgent` and the
`close()` after it); a stop may come while the start still waits, whose promises and
listeners then go on unnoticed until the stop has ended. `exit` is 2 after an uncaught exception and 3 after an unhandled
rejection, as in `startingProcess.ts`.

Every handler is an action that does all the handler does: `WsMessage` runs `_handle`
and then the listeners of `receive()`; `WsFailed` is 'error' and 'close' of a failed
handshake. `Drop`, `Blackhole` and `Rotate` are the network and the management API.
Socket identities are reused when a socket is CLOSED and nothing waits for it.

`PingsOnTime` says that pings keep the ping timer from expiring while a connection
works; the safety run does without. `LateFrames` says that frames already under way
still arrive on a socket the agent is closing; the safety run has them, and there
`CertsInOrder` says what remains true of the certs. A frame of an old socket may bring an old
certificate back, since the code has no versions; `overtaken` stands for that case in
`CertsInOrder` and `CertsConverge`. The liveness run is without late frames, which would
take it beyond what TLC checks in minutes.

### AuthClient

A loop is one call of `startAccessTokenUpdates()` with all the calls its timer makes
after it; the client has a handle of the last timer only (`timer`). Time is discrete:
`due` counts down to the expiry of a timer, `age` is the time a request has taken, `ttl`
the remaining life of the published token. `raced` remembers that `stopUpdates()` was
called while a request was in flight; that race is finding `token_stop`, and `OneLoop`
is stated for behaviours without it: in those a stop does stop the updates, so the race is
the only way to the finding.

### PeerServer

The variables `run`, `starting` and `stopping` say at which await each async chain of
each peer is: `startPm4mlPart()` (by `start()` or the retry timer), `start()`, and the
`stop()` of each signal; signals are numbered as they come. The collaborators are reduced to outcomes. One of them is that
nothing comes back: a handshake that fails leaves the promise of `init()` pending
(`HandshakeFails`, `run` is "refused"), which is finding `agent_connect`; such a run neither
goes on nor fails, and `start()` waits behind it. The hapi server has
its phases because it refuses to stop while it starts or stops and to start while it
stops; such a rejection ends the process with code 1 or 4. `interrupted` remembers
that the first signal came before the peer had started: then the start goes on beside
the stop, which is the reason for that premise in `StopIsFinal` and `StopsBothPeers`.

### HttpServer

Agents are numbered as they are created. `shutdown` and `due` are the shutdown timers of
old agents, `oldAgentShutdownTimer` the one handle the server keeps. A request is a
record of its phase, the token and agent it took from the state when it arrived, its
attempts and how often the hub has executed it. Whether pm4ml is enabled is not a
parameter here: without it there are no credentials and no agents to rotate.

### InterSchemeProxyAdapter

`phase`, `connected`, `stopped` and `listening` are the variables of `PeerLinks`, whose
actions it uses for connections and stops, adding the number of the present connection
(`drops`) and the token an agent waits for (`hadToken`: a control agent is opened after the
first token of its hub has arrived). `inbound` and `outbound` are the frames with JWS in
transit between management APIs and agents, one queue for each connection: a connection keeps
the order of its frames, but a socket that the agent has replaced or is closing keeps its
handlers, so what is on its way there arrives at any later time, or never. The API may even
hold an earlier connection open and notify both. `known` is what each hub was told last,
`inTurn` what it was told last by a frame that came and went on connections not replaced by
then; `inTurn` and the field `late` of an event are history, which no guard reads. `accessToken`, `certs`,
`pingToken` and `pingCerts` are the credentials as the HTTP server and the ping service
hold them; each is labelled with the scheme that has issued it. `sent` is the last proxied
request or PUT /ping callback: where it goes and with which credentials. That a callback
has a token follows from the order in which the other peer starts, since the ping service
looks at its certs only.

A signal (`Stop`) may come more than once. It disconnects both agents and takes the JWS
listeners away, but a start that is under way goes on: it may connect, get ready and start
its loop, whose answers find no listener any more. A stop does not count as a loss of a
connection: what its frames would emit goes nowhere. Credentials are taken until the HTTP
server has stopped and has removed its listener; the ping service takes them even then.

### Wiring

`config.ts` describes the two peers in two blocks that differ by letters only, and
`createProxyAdapter.ts` hands each endpoint to a part of a peer. `Wiring` keeps of an
address the scheme it belongs to. The credentials a peer uses come by events of one peer
or the other, the endpoints from the configuration, and `CredentialsOfDestination` says
that the two always agree.

### How the modules compose

Each module relies on what another one is shown to promise:

* `ControlAgent` and `PeerServer` implement `AgentLifecycle` from their two sides. Of the
  agent it says that an initialisation succeeds with certs or fails, and that a closing ends:
  those are the outcomes `PeerServer` has for its agent (property `ImplementsLifecycle`). Of the
  owner it says that it initialises the agent only when that is down and closes it after every
  failure, which is what `ControlAgent` has as its guards (property `UsesAgent`, mapping
  `agentPhase`; the certs and the end of the process are the agent's side, so `given` and
  `alive` are TRUE there).
* `AuthClient` gives `PeerServer` the outcome of the first token request.
* `PeerServer` implements `PeerLinks` (property `ImplementsLinks`): a peer gets ready once and stays
  ready until a signal; a signal disconnects both peers and ends everything but a start
  under way. `phaseOf` is the mapping: before a signal it is `isReady`; after one, whether
  a JWS loop, a run or a retry is left.
* `InterSchemeProxyAdapter` is built on `PeerLinks` and implements `JwsRelay`: a hub
  learns only versions the other scheme has had (`Learn`, `LearnLate`). What comes in turn,
  by connections not replaced, never goes back (`Learn`); a late frame may bring an older
  version back (`LearnLate`), until the next one in turn.

The link to `AuthClient` is by outcomes only. The others are refinements that TLC checks and
TLAPS proves. After the first `close()` of a stop has ended, a start that is under way may
still use the agent until the process ends; `AgentLifecycle` does not say how, and only
`PeerServer` models it.

## Runs

| Run | Question | Bounds | Result |
|---|---|---|---|
| `agent_safety` | do timers, promises and sockets stay consistent, do certs come in order, and is the agent what the peer server relies on? | 3 sockets (current, replaced, replaced again), 2 versions of the certs, all six kinds of frames | holds |
| `agent_live` | do loads and closes end, does it reconnect and get new certs? | 2 sockets, 2 versions of the certs, certs and JWS frames | holds |
| `agent_connect` | does a first connection that fails end the attempt? | 2 sockets | violated |
| `agent_reconnect` | does it reconnect on close? | 2 sockets | violated |
| `agent_ping_timeout` | does a ping timeout reopen the connection? | 2 sockets | violated |
| `agent_bad_frame` | is a frame that does not parse handled? | 2 sockets | violated |
| `token` | one loop, renewed in time, recovering from failures? | 3 loops; interval 5, 4 in advance, lives 3, 5 and 7 | holds |
| `token_stop` | does stopping stop the updates? | 2 loops | violated |
| `peers` | are start, retry and stop consistent, is the agent used in turn, does each await have what would end it, and are the peers what the adapter relies on? | 2 peers, 2 signals | holds |
| `proxy` | are requests and agents consistent under renewal, is every request answered? | 1 request, 3 agents, 2 tokens, 2 retries, grace of 2 | holds |
| `proxy_grace` | does shutting down an agent wait for its requests? | 1 request, 2 agents, 3 retries | violated |
| `relay` | do hubs get the JWS of the other scheme, in order but for replaced connections and in the end, and requests and callbacks the credentials of their destination? | 1 change of the JWS of either scheme, 1 lost connection of either peer, 1 version of credentials and its absence, 1 frame in transit before the loop asks again | holds |

Why the bounds are enough: the agent has one current socket and acts on others only
through shared state, so a second replaced socket already repeats what the first does;
three token loops are one more than any race needs; three agents are one more than one
pending shutdown needs; requests meet only in the
agents they share, so one is enough; a second retry repeats the first; two versions are
enough to tell new from old, and an inversion of any two versions shows with those two
(the proofs have no such bound); one lost connection makes an old one beside the present
one, and a second old one could bring back what the first could. The intervals of `token` are chosen so that each of interval and life
is the smaller one in some behaviour, and so that the delay is zero in some.
Counters that would grow without end are bounded by constants (`MaxCerts`, `MaxDrops`,
`MaxAgents`, `MaxFrames`, `MaxJws`, ...), all named in the modules. Deadlock is not checked: all
these systems may really stop, when the process has ended or a bound is reached.

### What the code says and does not do

Six runs find a disagreement between the code and what a comment, a log line, the
documentation of an option or a test says (`findings` in `PROJECT.json`): the connection
timeout that is configured and not used; a reconnection that the pings of a replaced
socket put off; a ping timeout that ends the process instead of reconnecting; a frame
that is not JSON and ends the process; token updates that survive being stopped; and the
graceful shutdown of an https agent, which does not wait for the requests in flight.

One more needs no run: `AuthClient.ts:43` subtracts the 30 seconds in advance from the
configured interval as well as from the life of a token (`nextUpdate`), so with the default
of 60 a token is renewed every 30 seconds, and an interval of 30 or less renews it without a
pause.

## Fairness

* Node.js: continuations of settled promises run, timers expire, `close()` and hapi's
  stop end after their timeouts (weak fairness). The timers of `receive()` and `close()`
  only run out, so nothing puts them off for ever (strong fairness); the ping timer is
  re-armed by pings and has weak fairness only.
* ws library: a handshake ends, a closing socket is closed.
* Management API, token endpoint and hub: up again and again. A connection attempt that
  is repeated for ever succeeds some time, as does a token request; an attempt of a
  request ends. Nothing is assumed about when.
* `peers` assumes that as long as nobody stops a peer, a token request ends, a handshake
  ends or fails, and a load ends, which `AuthClient` and `ControlAgent` show of them; and that
  tokens and initialisations that come up again and again succeed some time. It does not
  assume that an initialisation ends: a refused handshake leaves it pending. Then that peer
  does not get ready, and when it was its first start it does not serve either, which is how
  `BecomesReady` and `ServesAnyway` put it. `StopEnds` holds of those peers as well: a stop
  does not wait for the start.
* `relay` assumes finitely many lost connections (`MaxDrops`), that frames on a connection
  that stays arrive (those on an earlier one need not), that a token arrives some time and
  that a peer that has its token connects and gets ready. `peers` shows the last unless the
  first handshake was refused, `agent_live` that an agent connects again.

## Proofs

TLAPS proves, for every value of the constants that satisfies the named assumptions:

* `ControlAgentProofs`: the type invariant, `ReconnectArmed`, `InitContinuesOnce`,
  `LoadHasAnEnd`, `ClosingIsFinal` and the action property `NeverAbandonsOpen`. None of
  them is inductive alone. `IInv` adds that a socket in its handshake is awaited by the
  caller it belongs to and that a pending end of `close()` belongs to a closing owner;
  without the first, an 'open' of a forgotten socket could start a peer twice. Each
  action has a lemma per conjunct it can disturb. `OnlyBadFramesEndIt` is the other side of
  finding `agent_bad_frame`: null, and a frame that is not JSON while a `receive()` listens,
  are the only frames that end the process. It rests on `HandleReacts`, that `_handle` has a
  reaction to every frame.
* `ControlAgentCertsProofs`: `CertsArriveInOrder` (`CertsInOrder`) and `CertsOnlyAdvance`
  (certs never go back, but for `overtaken`). `CertsInv` strengthens `CertsInOrder` by
  `TransitInv`: what is in transit to any socket is in order and lost with the connection, and
  what is in transit to an open one ends with the newest version. A socket in its handshake has nothing in transit, so one that becomes current cannot
  bring anything older than what the agent has.
* `AuthClientProofs`: the type invariant, `OneLoop`, `RunningHasLoop` and `TokenFresh`,
  for any number of loops and all times within `LatencyAssumption` (the 30 seconds in
  advance cover the request that brought the token and the one that replaces it).
  `OneLoop` needs that the one loop waits for the timer the client remembers; `TokenFresh`
  an invariant that bounds how late the next request of a loop may be against the remaining
  life of the token.
* `ControlAgentLifecycleProofs`: `ControlAgent` implements `AgentLifecycle`, as a theorem.
  Every action maps to a step of the lifecycle or to a stutter; a `loadCerts()` that
  resolves maps to `Succeed` because its certs have been passed to `onCert` before
  (`LoadedHasCerts`, proved beside `IInv`).
* `PeerServerProofs`: the type invariant and `ReadyMeansStarted`, `NeverGivesUp`,
  `OneJwsLoop`, `StopIsFinal`, `StopsBothPeers` and `AwaitsEnd`, for any set of peers and of
  signals. `AwaitsEnd` (`NoneIsAbandoned`) is the safety half of `ServesAnyway` and `StopEnds`:
  no chain waits for one that is gone, where a run whose handshake was refused is there but
  never ends. Its invariant `ChainsInv` says that a signal
  stops both peers, and that hapi lets one `stop()` of a peer wait for the server at a time.
  `RunInv` says that the retry timer is not armed during a run and that no JWS loop is
  left when one begins, so the interval a run starts is the only one; `StartedInv` that a
  peer which had started when it was stopped does not start its server again.
  `AgentIsUsedInTurn` is the action property `UsesAgent`: every step of a peer that moves
  its agent is one of `AgentLifecycle`. A retry, for example, finds the agent down because the
  retry timer is armed by the end of `close()` only, and a peer that is ready has no run.
  `LinksImplemented` shows that `PeerServer` implements `PeerLinks` (with pm4ml; without it
  there are no agents to link). Its lemmas say what each step does to the mapped state; that
  a signal leaves nothing of a ready peer uses `StartingPhase`: a run or a pending retry
  excludes that the peer is ready, by `RunInv` and `ReadyMeansStarted`.
* `HttpServerProofs`: the type invariant, `AnswersMeanExecution`, `OldAgentsGo`, the action property `FirstAttemptHasGrace`, and that nothing is sent without
  credentials (`CredentialsAreSent`). That a first attempt has its grace follows from
  `GraceInv`: its age and what is left of the timer of its agent add up to the graceful period
  at least. `RequestsEnd` is the safety half of `RequestsAnswered`: `remaining` is a natural
  number and every step of a request, or the end of the agent under it, makes it smaller, so
  no order of failures, renewals and retries keeps a request going round.
* `InterSchemeProxyAdapterProofs`: the type invariant, `PingCredentialsAgree` and
  `CredentialsOfDestination`, and that the module implements `JwsRelay`
  (`RelayImplemented`), for any number of versions, frames and connections. `RelayInv` says
  that the JWS of a scheme are in the order of their versions all along the present
  connections: what the other hub was told in turn, the frames to it that are not late, the
  frames from the hub of the scheme, its JWS; so what is delivered in turn is never older
  than what was told in turn before, and a delivery is a `Learn`. Of the earlier connections
  `Bounded` says only that they carry no version the scheme never had: a delivery there, or
  of a late event, is a `LearnLate`. A lost connection leaves an empty queue as the present
  one, where the order starts again.
  `CredentialInv` says who has issued what is kept where, and that certs come after a token.

Every safety invariant and action property that a passing run checks is thus a theorem.
The type invariants of `AuthClient`, `PeerServer` and `InterSchemeProxyAdapter` are theorems
that no run repeats. Four properties are theorems only, stated beside their proofs: that nothing is sent without
credentials, that every step of a request brings its answer nearer, that certs never go back
(TLC checks `CertsInOrder`, which is stronger on the current socket), and which frames end the
process.

Only model-checked:

* the liveness properties (`LoadSettles`, `CloseSettles`, `ReconnectsUnlessOrphan`,
  `CertsConverge`, `TokenRecovers`, `ServesAnyway`, `BecomesReady`, `StopEnds`,
  `RequestsAnswered`, `JwsConverges`): fairness and ENABLED are out of the reach of the prover.
  What is proved of some of them is the half that needs no fairness, as said above;
* the counterexamples, which are behaviours of the small instances.

A failed proof has changed the model once: the arms of `handle` overlapped for the two frames
that are no objects, which TLC resolves by their order and TLA+ does not; the last arm is now
what is left.

## Not modelled

* Keys, intervals, timeouts and ports of the configuration: they are constants of the modules or
  play no role.
* Request validation, the logging plugin and type declarations: stateless.
* The content of headers, bodies, certificates and JWS.
* The outcome of a PUT /ping callback, which is logged only; its sending is modelled.
* The mock servers, docker files, vault scripts and tests: not part of the program.
* In `ControlAgent`, a stop of the process while the first token is requested or while the
  `close()` of a failed start is pending: `PeerServer` has both, with abstract outcomes.
  What happens after the `close()` of the stop: the process ends then.
* Two hazards have no property: a token request has no timeout of its own
  (`AuthClient.ts:64`); `MaxLatency` bounds it in `AuthClient`. And a reconnect whose
  `loadCerts()` fails ends the process (`ControlAgent.ts:78`): `ReconnectFailed` models it, and
  nothing in the repository says that it should be otherwise.

## What is left

* `AuthClient` and `PeerServer` agree by outcomes; an abstract token client that both
  implement, as they do `AgentLifecycle`, would make that link a formal one, too.
* `CertsConverge` with late frames, which is beyond what TLC checks in minutes.
