------------------------------ MODULE HttpServer ------------------------------
(***************************************************************************)
(* The path of a proxied request through one peer: HttpServer.ts, whose    *)
(* credentials change while requests are in flight, ProxyService.ts,       *)
(* HttpClient.ts and the retries configureAxios.ts sets up.                *)
(*                                                                         *)
(* A request takes its target, token and https agent from the server state *)
(* when it arrives and keeps them for all its attempts.  The hub may have  *)
(* executed an attempt whose answer never comes back.  No attempt has a    *)
(* timeout: the one of the agent closes free sockets only.                 *)
(*                                                                         *)
(* Time is counted in units of a Tick; the shutdown timers of old agents   *)
(* expire when they are due.                                               *)
(*                                                                         *)
(* A definition marked "Variant" is what a plausible bug would make of the *)
(* definition that follows it; no specification uses it.                   *)
(***************************************************************************)
EXTENDS Naturals

CONSTANTS
    Requests,   \* bound: the requests the peer receives
    MaxAgents,  \* bound: how often certs are received
    MaxTokens,  \* bound: the access tokens received
    Grace,      \* GRACEFUL_AGENT_SHUTDOWN_MS
    Retries     \* DEFAULT_RETRIES

ASSUME HttpServerAssumption ==
    /\ MaxAgents \in Nat /\ MaxTokens \in Nat
    /\ Grace \in Nat \ {0}
    /\ Retries \in Nat

Agents == 1..MaxAgents
Tokens == 1..MaxTokens

VARIABLES
    server,       \* the hapi server: up, draining its connections, stopped
    accessToken,  \* this.state.accessToken, 0: ''
    httpsAgent,   \* this.state.httpsAgent, 0: null; agents are numbered as created
    shutdown,     \* the shutdown timer of every agent
    due,          \* time until that timer expires
    oldAgentShutdownTimer,  \* the agent whose timer the server has a handle of, 0: null
    req,          \* where every request is, with what it took from the state
    age           \* time since the attempt in flight was sent, Grace at most

vars == <<server, accessToken, httpsAgent, shutdown, due, oldAgentShutdownTimer, req, age>>

\* What can become of an attempt: a response that is final or whose status is retried, an
\* error of the connection that axios-retry retries, or one that it does not.
Responses == {"response", "unavailable"}
Errors    == {"network", "fatal"}
Retryable == {"unavailable", "network"}
Answers   == Responses \cup Errors \cup {"notReady"}

RequestRecords ==
    [phase : {"idle", "sent", "executed", "failed", "answered"},
     token : Tokens \cup {0}, agent : Agents \cup {0},
     attempts : Nat, executions : Nat,
     outcome : Answers \cup {"none"}]

TypeOK ==
    /\ server \in {"up", "draining", "stopped"}
    /\ accessToken \in Tokens \cup {0}
    /\ httpsAgent \in Agents \cup {0}
    /\ shutdown \in [Agents -> {"none", "pending", "cleared", "destroyed"}]
    /\ due \in [Agents -> 0..Grace]
    /\ oldAgentShutdownTimer \in Agents \cup {0}
    /\ req \in [Requests -> RequestRecords]
    /\ age \in [Requests -> 0..Grace]

NewRequest == [phase |-> "idle", token |-> 0, agent |-> 0,
               attempts |-> 0, executions |-> 0, outcome |-> "none"]

Init ==
    /\ server = "up"
    /\ accessToken = 0
    /\ httpsAgent = 0
    /\ shutdown = [a \in Agents |-> "none"]
    /\ due = [a \in Agents |-> 0]
    /\ oldAgentShutdownTimer = 0
    /\ req = [r \in Requests |-> NewRequest]
    /\ age = [r \in Requests |-> 0]

inFlight(r) == req[r].phase \in {"sent", "executed"}

--------------------------------------------------------------------------------
(* The 'serverState' events *)

\* A new token, or '' after a failed update.
UpdateToken(t) ==
    /\ server # "stopped"
    /\ accessToken' = t
    /\ UNCHANGED <<server, httpsAgent, shutdown, due, oldAgentShutdownTimer, req, age>>

\* Variant of reCreateHttpsAgent: the server keeps one shutdown timer at a time.
reCreateHttpsAgentOneTimer ==
    /\ httpsAgent' = httpsAgent + 1
    /\ IF httpsAgent = 0
       THEN UNCHANGED <<shutdown, due, oldAgentShutdownTimer>>
       ELSE /\ shutdown' = [a \in Agents |-> CASE a = httpsAgent -> "pending"
                                               [] a = oldAgentShutdownTimer -> "cleared"
                                               [] OTHER -> shutdown[a]]
            /\ due' = [due EXCEPT ![httpsAgent] = Grace]
            /\ oldAgentShutdownTimer' = httpsAgent

reCreateHttpsAgent ==
    /\ httpsAgent' = httpsAgent + 1
    /\ IF httpsAgent = 0
       THEN UNCHANGED <<shutdown, due, oldAgentShutdownTimer>>
       ELSE /\ shutdown' = [shutdown EXCEPT ![httpsAgent] = "pending"]
            /\ due' = [due EXCEPT ![httpsAgent] = Grace]
            /\ oldAgentShutdownTimer' = httpsAgent

UpdateCerts ==
    /\ server # "stopped" /\ httpsAgent < MaxAgents
    /\ reCreateHttpsAgent
    /\ UNCHANGED <<server, accessToken, req, age>>

\* Variant of doomed: the timer reads the agent from the state.
doomedCurrent(a) == httpsAgent

\* The agent the timer of a destroys: the one it was set for.
doomed(a) == a

\* Variant of AgentShutdown: the attempts it breaks are left without an outcome.
AgentShutdownKeepsAttempt(a) ==
    /\ shutdown[a] = "pending" /\ due[a] = 0
    /\ shutdown' = [shutdown EXCEPT ![a] = "destroyed"]
    /\ oldAgentShutdownTimer' = 0
    /\ req' = [r \in Requests |-> IF inFlight(r) /\ req[r].agent = a
                                  THEN [req[r] EXCEPT !.phase = "failed", !.outcome = "undefined"]
                                  ELSE req[r]]
    /\ UNCHANGED <<server, accessToken, httpsAgent, due, age>>

\* The shutdown timer expires: destroying an agent breaks the attempts that use it.
AgentShutdown(a) ==
    /\ shutdown[a] = "pending" /\ due[a] = 0
    /\ shutdown' = [shutdown EXCEPT ![doomed(a)] = "destroyed"]
    /\ oldAgentShutdownTimer' = 0
    /\ req' = [r \in Requests |-> IF inFlight(r) /\ req[r].agent = doomed(a)
                                  THEN [req[r] EXCEPT !.phase = "failed", !.outcome = "network"]
                                  ELSE req[r]]
    /\ UNCHANGED <<server, accessToken, httpsAgent, due, age>>

--------------------------------------------------------------------------------
(* A request *)

\* serverStateToHealthcheckDetailsDto
isReady == accessToken # 0 /\ httpsAgent # 0

\* sendProxyRequest: an unready peer answers 503 itself.
Receive(r) ==
    /\ server = "up" /\ req[r].phase = "idle"
    /\ \/ /\ isReady
          /\ req' = [req EXCEPT ![r].phase = "sent", ![r].attempts = 1,
                                ![r].token = accessToken, ![r].agent = httpsAgent]
       \/ /\ ~isReady
          /\ req' = [req EXCEPT ![r].phase = "answered", ![r].outcome = "notReady"]
    /\ age' = [age EXCEPT ![r] = 0]
    /\ UNCHANGED <<server, accessToken, httpsAgent, shutdown, due, oldAgentShutdownTimer>>

\* The hub executes the request.
Execute(r) ==
    /\ req[r].phase = "sent"
    /\ req' = [req EXCEPT ![r].phase = "executed", ![r].executions = @ + 1]
    /\ UNCHANGED <<server, accessToken, httpsAgent, shutdown, due, oldAgentShutdownTimer, age>>

\* The attempt ends: with a response of the hub that executed the request, of one that
\* did not (unavailable), or with an error.
AttemptEnds(r, o) ==
    /\ \/ req[r].phase = "executed" /\ o \in Responses \cup {"network"}
       \/ req[r].phase = "sent" /\ o \in {"unavailable"} \cup Errors
    /\ req' = [req EXCEPT ![r].phase = "failed", ![r].outcome = o]
    /\ UNCHANGED <<server, accessToken, httpsAgent, shutdown, due, oldAgentShutdownTimer, age>>

retries(r) == req[r].outcome \in Retryable /\ req[r].attempts <= Retries

\* Variant of Retry: the count starts again with the new attempt.
RetryUncounted(r) ==
    /\ req[r].phase = "failed" /\ retries(r)
    /\ req' = [req EXCEPT ![r].phase = "sent", ![r].outcome = "none"]
    /\ age' = [age EXCEPT ![r] = 0]
    /\ UNCHANGED <<server, accessToken, httpsAgent, shutdown, due, oldAgentShutdownTimer>>

\* axios-retry sends the same options again, after a delay shorter than a unit of time.
Retry(r) ==
    /\ req[r].phase = "failed" /\ retries(r)
    /\ req' = [req EXCEPT ![r].phase = "sent", ![r].attempts = @ + 1, ![r].outcome = "none"]
    /\ age' = [age EXCEPT ![r] = 0]
    /\ UNCHANGED <<server, accessToken, httpsAgent, shutdown, due, oldAgentShutdownTimer>>

\* HttpClient: the response of the last attempt, or 503 when it had none.
Answer(r) ==
    /\ req[r].phase = "failed" /\ ~retries(r)
    /\ req' = [req EXCEPT ![r].phase = "answered"]
    /\ UNCHANGED <<server, accessToken, httpsAgent, shutdown, due, oldAgentShutdownTimer, age>>

--------------------------------------------------------------------------------
(* stop, and time *)

Stop ==
    /\ server = "up"
    /\ server' = "draining"
    /\ UNCHANGED <<accessToken, httpsAgent, shutdown, due, oldAgentShutdownTimer, req, age>>

\* hapi has stopped: no more events, and the remembered timer is cleared.
Stopped ==
    /\ server = "draining"
    /\ server' = "stopped"
    /\ shutdown' = [a \in Agents |-> IF a = oldAgentShutdownTimer THEN "cleared" ELSE shutdown[a]]
    /\ UNCHANGED <<accessToken, httpsAgent, due, oldAgentShutdownTimer, req, age>>

Tick ==
    /\ \A a \in Agents : shutdown[a] = "pending" => due[a] > 0
    /\ due' = [a \in Agents |-> IF shutdown[a] = "pending" THEN due[a] - 1 ELSE 0]
    /\ age' = [r \in Requests |-> IF inFlight(r) /\ age[r] < Grace THEN age[r] + 1 ELSE age[r]]
    /\ UNCHANGED <<server, accessToken, httpsAgent, shutdown, oldAgentShutdownTimer, req>>

--------------------------------------------------------------------------------

RequestStep(r) ==
    \/ Receive(r) \/ Execute(r) \/ Retry(r) \/ Answer(r)
    \/ \E o \in Responses \cup Errors : AttemptEnds(r, o)

Next ==
    \/ \E t \in Tokens \cup {0} : UpdateToken(t)
    \/ UpdateCerts
    \/ \E a \in Agents : AgentShutdown(a)
    \/ \E r \in Requests : RequestStep(r)
    \/ Stop \/ Stopped
    \/ Tick

Spec == Init /\ [][Next]_vars

--------------------------------------------------------------------------------
(* Safety *)

\* A caller told that the adapter is not ready may repeat its request: the hub has not
\* seen it.  One told anything else can be sure of this only when no attempt of it was
\* ever sent; a positive answer means that the hub has executed it, up to once for every
\* attempt (ProxyService.ts:20-26, HttpClient.ts:13-45, configureAxios.ts:20-36).
AnswersMeanExecution ==
    \A r \in Requests : req[r].phase = "answered" =>
        /\ req[r].outcome = "notReady" => req[r].executions = 0
        /\ req[r].outcome = "response" => req[r].executions > 0
        /\ req[r].executions <= req[r].attempts
        /\ req[r].attempts <= Retries + 1

\* The agents that go are those that were replaced: the one new requests use is neither
\* destroyed nor about to be, and however fast certs are renewed every older one has been
\* destroyed or will be, as long as the server runs (HttpServer.ts:169-184).
OldAgentsGo ==
    /\ httpsAgent # 0 => shutdown[httpsAgent] = "none"
    /\ server # "stopped" => \A a \in Agents : a < httpsAgent => shutdown[a] \in {"pending", "destroyed"}

\* The first attempt of a request has the whole graceful period: a renewal of the certs
\* breaks it only if it takes longer.  Not so a retry, which may be sent with an agent
\* that is about to be destroyed (HttpServer.ts:178-182).
FirstAttemptHasGrace ==
    [][\A a \in Agents, r \in Requests :
           AgentShutdown(a) /\ req'[r] # req[r] /\ req[r].attempts = 1 => age[r] = Grace]_vars

--------------------------------------------------------------------------------
(* Liveness *)

\* An attempt ends some time, and the chain of promises behind it goes on.
FairSpec == Spec /\ \A r \in Requests :
    /\ WF_vars(Retry(r)) /\ WF_vars(Answer(r))
    /\ WF_vars(\E o \in Responses \cup Errors : AttemptEnds(r, o))

\* A request that was sent is answered: retries, destroyed agents and renewed tokens do
\* not keep it in flight for ever (HttpClient.ts:13-30, configureAxios.ts:20-36).
RequestsAnswered == \A r \in Requests : req[r].phase = "sent" ~> req[r].phase = "answered"

(* What the code says of itself, and does not do *)

\* HttpServer.ts:176, "gracefully shutdown old agent by waiting for in-flight requests to
\* complete": destroying an agent breaks no attempt.
ShutdownIsGraceful == [][\A a \in Agents : AgentShutdown(a) => req' = req]_vars
================================================================================
