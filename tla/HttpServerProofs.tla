--------------------------- MODULE HttpServerProofs ---------------------------
(***************************************************************************)
(* The safety properties of HttpServer, for any set of requests, any       *)
(* number of tokens, agents and retries, and any graceful period.          *)
(***************************************************************************)
EXTENDS HttpServer, TLAPS

\* What a request is and has been through fits its phase.
RequestInv(r) ==
    /\ req[r].attempts <= Retries + 1
    /\ req[r].executions <= req[r].attempts
    /\ req[r].phase = "idle" => req[r].attempts = 0
    /\ req[r].phase = "sent" => req[r].executions < req[r].attempts
    /\ req[r].phase = "executed" => req[r].executions > 0
    /\ req[r].phase = "failed" => req[r].outcome # "notReady" /\ req[r].attempts > 0
    /\ req[r].phase \in {"failed", "answered"} =>
         /\ req[r].outcome = "response" => req[r].executions > 0
         /\ req[r].outcome = "notReady" => req[r].executions = 0
    /\ req[r].phase \in {"sent", "executed", "failed"} => req[r].token # 0 /\ req[r].agent # 0

RequestsInv == \A r \in Requests : RequestInv(r)

\* The current agent, and those to come, have no timer; the timer remembered is one of an
\* older agent.
AgentsInv ==
    /\ \A a \in Agents : a >= httpsAgent => shutdown[a] = "none"
    /\ oldAgentShutdownTimer < httpsAgent \/ oldAgentShutdownTimer = 0

\* A first attempt and the timer of its agent are due in the order they began.
GraceInv ==
    \A r \in Requests :
        inFlight(r) /\ req[r].attempts = 1 /\ req[r].agent # 0 /\ shutdown[req[r].agent] = "pending"
            => age[r] + due[req[r].agent] >= Grace

IInv == TypeOK /\ RequestsInv /\ AgentsInv /\ OldAgentsGo /\ GraceInv

\* Every step keeps every variable in its domain.
LEMMA TypeStep == TypeOK /\ RequestsInv /\ [Next]_vars => TypeOK'
<1> SUFFICES ASSUME TypeOK, RequestsInv, [Next]_vars PROVE TypeOK'
  OBVIOUS
<1> USE HttpServerAssumption DEF TypeOK
<1>1. ASSUME NEW t \in Tokens \cup {0}, UpdateToken(t) PROVE TypeOK'
  BY <1>1 DEF UpdateToken
<1>2. CASE UpdateCerts
  <2>1. httpsAgent' \in Agents
    BY <1>2 DEF UpdateCerts, reCreateHttpsAgent, Agents
  <2>2. httpsAgent # 0 => httpsAgent \in Agents
    OBVIOUS
  <2>3. QED
    BY <1>2, <2>1, <2>2 DEF UpdateCerts, reCreateHttpsAgent
<1>3. ASSUME NEW a \in Agents, AgentShutdown(a) PROVE TypeOK'
  <2>1. ASSUME NEW r \in Requests PROVE req'[r] \in RequestRecords
    <3>1. req[r] \in RequestRecords
      OBVIOUS
    <3>2. [req[r] EXCEPT !.phase = "failed", !.outcome = "network"] \in RequestRecords
      BY <3>1 DEF RequestRecords, Answers, Errors
    <3>3. QED
      BY <1>3, <3>1, <3>2 DEF AgentShutdown
  <2>2. QED
    BY <1>3, <2>1 DEF AgentShutdown, doomed
<1>4. ASSUME NEW r \in Requests, Receive(r) PROVE TypeOK'
  <2>1. req' \in [Requests -> RequestRecords]
    BY <1>4 DEF Receive, RequestRecords, Answers
  <2>2. QED
    BY <1>4, <2>1 DEF Receive
<1>5. ASSUME NEW r \in Requests, Execute(r) PROVE TypeOK'
  BY <1>5 DEF Execute, RequestRecords
<1>6. ASSUME NEW r \in Requests, NEW o \in Responses \cup Errors, AttemptEnds(r, o) PROVE TypeOK'
  <2>1. o \in Answers
    BY DEF Answers
  <2>2. req' \in [Requests -> RequestRecords]
    <3>1. [req[r] EXCEPT !.phase = "failed", !.outcome = o] \in RequestRecords
      BY <2>1 DEF RequestRecords
    <3>2. req' = [req EXCEPT ![r] = [req[r] EXCEPT !.phase = "failed", !.outcome = o]]
      BY <1>6 DEF AttemptEnds
    <3>3. QED
      BY <3>1, <3>2
  <2>3. QED
    BY <1>6, <2>2 DEF AttemptEnds
<1>7. ASSUME NEW r \in Requests, Retry(r) PROVE TypeOK'
  BY <1>7 DEF Retry, RequestRecords
<1>8. ASSUME NEW r \in Requests, Answer(r) PROVE TypeOK'
  BY <1>8 DEF Answer, RequestRecords
<1>9. CASE Stop
  BY <1>9 DEF Stop
<1>10. CASE Stopped
  BY <1>10 DEF Stopped
<1>11. CASE Tick
  <2>1. due' \in [Agents -> 0..Grace]
    BY <1>11 DEF Tick
  <2>2. age' \in [Requests -> 0..Grace]
    BY <1>11 DEF Tick
  <2>3. QED
    BY <1>11, <2>1, <2>2 DEF Tick
<1>12. CASE UNCHANGED vars
  BY <1>12 DEF vars
<1>13. QED
  BY <1>1, <1>2, <1>3, <1>4, <1>5, <1>6, <1>7, <1>8, <1>9, <1>10, <1>11, <1>12
     DEF Next, RequestStep

\* A request counts its attempts before the hub can execute them.
LEMMA RequestsStep == TypeOK /\ RequestsInv /\ [Next]_vars => RequestsInv'
<1> SUFFICES ASSUME TypeOK, RequestsInv, [Next]_vars PROVE RequestsInv'
  OBVIOUS
<1> USE HttpServerAssumption DEF RequestsInv, RequestInv
<1>type. req \in [Requests -> RequestRecords]
  BY DEF TypeOK
<1>same. req' = req => RequestsInv'
  OBVIOUS
<1>1. ASSUME NEW a \in Agents, AgentShutdown(a) PROVE RequestsInv'
  <2>1. SUFFICES ASSUME NEW r \in Requests PROVE RequestInv(r)'
    OBVIOUS
  <2>2. CASE req'[r] = req[r]
    BY <2>2
  <2>3. CASE inFlight(r) /\ req'[r] = [req[r] EXCEPT !.phase = "failed", !.outcome = "network"]
    BY <1>type, <2>3 DEF RequestRecords, inFlight
  <2>4. QED
    BY <1>1, <2>2, <2>3 DEF AgentShutdown
<1>2. ASSUME NEW r \in Requests, Receive(r) PROVE RequestsInv'
  <2>1. accessToken \in Nat /\ httpsAgent \in Nat
    BY DEF TypeOK, Tokens, Agents
  <2>2. QED
    BY <1>2, <1>type, <2>1 DEF Receive, RequestRecords, isReady
<1>3. ASSUME NEW r \in Requests, Execute(r) PROVE RequestsInv'
  BY <1>3, <1>type DEF Execute, RequestRecords
<1>4. ASSUME NEW r \in Requests, NEW o \in Responses \cup Errors, AttemptEnds(r, o) PROVE RequestsInv'
  BY <1>4, <1>type DEF AttemptEnds, RequestRecords, Responses, Errors
<1>5. ASSUME NEW r \in Requests, Retry(r) PROVE RequestsInv'
  BY <1>5, <1>type DEF Retry, RequestRecords, retries
<1>6. ASSUME NEW r \in Requests, Answer(r) PROVE RequestsInv'
  BY <1>6, <1>type DEF Answer, RequestRecords
<1>7. ASSUME NEW t \in Tokens \cup {0}, UpdateToken(t) PROVE RequestsInv'
  BY <1>7, <1>same DEF UpdateToken
<1>8. CASE UpdateCerts \/ Stop \/ Stopped \/ Tick
  BY <1>8, <1>same DEF UpdateCerts, Stop, Stopped, Tick
<1>9. CASE UNCHANGED vars
  BY <1>9, <1>same DEF vars
<1>10. QED
  BY <1>1, <1>2, <1>3, <1>4, <1>5, <1>6, <1>7, <1>8, <1>9 DEF Next, RequestStep

\* Timers are set for the agent that is replaced, and end as they were set.
LEMMA AgentsStep == TypeOK /\ AgentsInv /\ OldAgentsGo /\ [Next]_vars => AgentsInv' /\ OldAgentsGo'
<1> SUFFICES ASSUME TypeOK, AgentsInv, OldAgentsGo, [Next]_vars PROVE AgentsInv' /\ OldAgentsGo'
  OBVIOUS
<1> USE HttpServerAssumption DEF TypeOK, AgentsInv, OldAgentsGo, Agents
<1>1. CASE UpdateCerts
  BY <1>1 DEF UpdateCerts, reCreateHttpsAgent
<1>2. ASSUME NEW a \in Agents, AgentShutdown(a) PROVE AgentsInv' /\ OldAgentsGo'
  BY <1>2 DEF AgentShutdown, doomed
<1>3. CASE Stopped
  BY <1>3 DEF Stopped
<1>4. CASE Stop
  BY <1>4 DEF Stop
<1>5. ASSUME NEW t \in Tokens \cup {0}, UpdateToken(t) PROVE AgentsInv' /\ OldAgentsGo'
  BY <1>5 DEF UpdateToken
<1>6. ASSUME NEW r \in Requests, RequestStep(r) PROVE AgentsInv' /\ OldAgentsGo'
  BY <1>6 DEF RequestStep, Receive, Execute, AttemptEnds, Retry, Answer
<1>7. CASE Tick \/ UNCHANGED vars
  BY <1>7 DEF Tick, vars
<1>8. QED
  BY <1>1, <1>2, <1>3, <1>4, <1>5, <1>6, <1>7 DEF Next

\* The agent a request takes has no timer yet; a timer that is set has the whole period
\* left; and a retry is not a first attempt.
LEMMA GraceStep == TypeOK /\ RequestsInv /\ AgentsInv /\ GraceInv /\ [Next]_vars => GraceInv'
<1> SUFFICES ASSUME TypeOK, RequestsInv, AgentsInv, GraceInv, [Next]_vars,
                    NEW r \in Requests, inFlight(r)', req'[r].attempts = 1, req'[r].agent # 0,
                    shutdown'[req'[r].agent] = "pending"
             PROVE  age'[r] + due'[req'[r].agent] >= Grace
  BY DEF GraceInv
<1> USE HttpServerAssumption
<1>type. req[r] \in RequestRecords /\ age[r] \in 0..Grace
  BY DEF TypeOK
<1>old. ASSUME inFlight(r), req'[r].attempts = req[r].attempts, req'[r].agent = req[r].agent,
               age'[r] = age[r],
               shutdown[req[r].agent] = "pending", due'[req[r].agent] = due[req[r].agent]
        PROVE  age'[r] + due'[req'[r].agent] >= Grace
  BY <1>old DEF GraceInv
<1>1. CASE UpdateCerts
  <2>1. req' = req /\ age' = age
    BY <1>1 DEF UpdateCerts
  <2>2. req[r].agent \in Agents
    BY <1>type, <2>1 DEF RequestRecords
  <2>3. CASE req[r].agent = httpsAgent
    <3>1. due'[httpsAgent] = Grace
      BY <1>1, <2>1, <2>2, <2>3 DEF UpdateCerts, reCreateHttpsAgent, TypeOK
    <3>2. QED
      BY <1>type, <2>1, <2>3, <3>1
  <2>4. CASE req[r].agent # httpsAgent
    <3>1. shutdown'[req[r].agent] = shutdown[req[r].agent] /\ due'[req[r].agent] = due[req[r].agent]
      BY <1>1, <2>2, <2>4 DEF UpdateCerts, reCreateHttpsAgent, TypeOK
    <3>2. QED
      BY <2>1, <3>1, <1>old DEF inFlight
  <2>5. QED
    BY <2>3, <2>4
<1>2. ASSUME NEW a \in Agents, AgentShutdown(a) PROVE age'[r] + due'[req'[r].agent] >= Grace
  <2>1. req'[r] = req[r]
    BY <1>2, <1>type DEF AgentShutdown, inFlight, RequestRecords
  <2>2. req[r].agent \in Agents
    BY <1>type, <2>1 DEF RequestRecords
  <2>3. shutdown[req[r].agent] = "pending"
    BY <1>2, <2>1, <2>2 DEF AgentShutdown, doomed, TypeOK
  <2>4. QED
    BY <1>2, <2>1, <2>3, <1>old DEF AgentShutdown, inFlight
<1>3. CASE Receive(r)
  <2>1. req'[r].agent = httpsAgent /\ httpsAgent \in Agents /\ shutdown' = shutdown
    BY <1>3, <1>type DEF Receive, isReady, TypeOK, inFlight, RequestRecords
  <2>2. shutdown[httpsAgent] = "none"
    BY <2>1 DEF AgentsInv, Agents
  <2>3. QED
    BY <2>1, <2>2
<1>4. CASE Execute(r)
  <2>1. req'[r].attempts = req[r].attempts /\ req'[r].agent = req[r].agent /\ inFlight(r)
    BY <1>4, <1>type DEF Execute, TypeOK, inFlight, RequestRecords
  <2>2. QED
    BY <1>4, <2>1, <1>old DEF Execute
<1>5. ASSUME NEW o \in Responses \cup Errors, AttemptEnds(r, o) \/ Answer(r) PROVE FALSE
  BY <1>5, <1>type DEF AttemptEnds, Answer, TypeOK, inFlight, RequestRecords
<1>6. CASE Retry(r)
  <2>1. req[r].attempts > 0 /\ req'[r].attempts = req[r].attempts + 1
    BY <1>6, <1>type DEF Retry, TypeOK, RequestRecords, RequestsInv, RequestInv
  <2>2. QED
    BY <1>type, <2>1 DEF RequestRecords
<1>7. ASSUME NEW q \in Requests, q # r, RequestStep(q) PROVE age'[r] + due'[req'[r].agent] >= Grace
  <2>1. req'[r] = req[r] /\ age'[r] = age[r] /\ shutdown' = shutdown /\ due' = due
    BY <1>7 DEF RequestStep, Receive, Execute, AttemptEnds, Retry, Answer, TypeOK
  <2>2. QED
    BY <2>1, <1>old DEF inFlight
<1>8. CASE Tick
  <2>1. req' = req /\ shutdown' = shutdown /\ inFlight(r)
    BY <1>8 DEF Tick, inFlight
  <2>2. req[r].agent \in Agents
    BY <1>type, <2>1 DEF RequestRecords
  <2>3. age[r] + due[req[r].agent] >= Grace
    BY <2>1 DEF GraceInv
  <2>4. due[req[r].agent] \in 1..Grace /\ due'[req[r].agent] = due[req[r].agent] - 1
    BY <1>8, <2>1, <2>2 DEF Tick, TypeOK
  <2>5. age'[r] = IF age[r] < Grace THEN age[r] + 1 ELSE age[r]
    BY <1>8, <2>1 DEF Tick
  <2>6. QED
    BY <1>type, <2>1, <2>3, <2>4, <2>5
<1>9. CASE Stopped
  <2>1. req' = req /\ age' = age /\ due' = due
    BY <1>9 DEF Stopped
  <2>2. req[r].agent \in Agents
    BY <1>type, <2>1 DEF RequestRecords
  <2>3. shutdown[req[r].agent] = "pending"
    BY <1>9, <2>1, <2>2 DEF Stopped
  <2>4. QED
    BY <2>1, <2>3, <1>old DEF inFlight
<1>10. ASSUME NEW t \in Tokens \cup {0}, UpdateToken(t) PROVE age'[r] + due'[req'[r].agent] >= Grace
  BY <1>10, <1>old DEF UpdateToken, inFlight
<1>11. CASE Stop \/ UNCHANGED vars
  BY <1>11, <1>old DEF Stop, vars, inFlight
<1>12. QED
  <2>1. "fatal" \in Responses \cup Errors
    BY DEF Errors
  <2>2. QED
    BY <2>1, <1>1, <1>2, <1>3, <1>4, <1>5, <1>6, <1>7, <1>8, <1>9, <1>10, <1>11
       DEF Next, RequestStep

--------------------------------------------------------------------------------
(* The theorems *)

\* The conjunction of all parts is inductive.
THEOREM Invariance == Spec => []IInv
<1>1. Init => IInv
  <2>1. SUFFICES ASSUME Init PROVE IInv
    OBVIOUS
  <2>2. TypeOK
    <3>1. NewRequest \in RequestRecords
      BY DEF NewRequest, RequestRecords
    <3>2. QED
      BY <2>1, <3>1, HttpServerAssumption DEF Init, TypeOK
  <2>3. RequestsInv
    <3>1. 0 <= Retries + 1 /\ 0 <= 0
      BY HttpServerAssumption
    <3>2. \A r \in Requests : /\ req[r].phase = "idle"
                              /\ req[r].attempts = 0
                              /\ req[r].executions = 0
      BY <2>1 DEF Init, NewRequest
    <3>3. QED
      BY <3>1, <3>2, HttpServerAssumption DEF RequestsInv, RequestInv
  <2>4. AgentsInv /\ OldAgentsGo
    BY <2>1 DEF Init, AgentsInv, OldAgentsGo, Agents
  <2>5. GraceInv
    BY <2>1 DEF Init, GraceInv, inFlight, NewRequest
  <2>6. QED
    BY <2>2, <2>3, <2>4, <2>5 DEF IInv
<1>2. IInv /\ [Next]_vars => IInv'
  BY TypeStep, RequestsStep, AgentsStep, GraceStep DEF IInv
<1>3. QED
  BY <1>1, <1>2, PTL DEF Spec

\* Every variable stays in its domain (HttpServer.ts:22-36 and what its requests hold).
THEOREM TypeCorrect == Spec => []TypeOK
<1>1. IInv => TypeOK
  BY DEF IInv
<1>2. QED
  BY <1>1, Invariance, PTL

\* Nothing is ever sent to the hub without a token and a client certificate, whatever
\* happens to them between the attempts of a request (ProxyService.ts:22-36).
SentWithCredentials == \A r \in Requests : inFlight(r) => req[r].token # 0 /\ req[r].agent # 0

\* No request is sent without credentials, nor sent again without them when they have been
\* withdrawn meanwhile: it keeps those it began with (ProxyService.ts:22-36).
THEOREM CredentialsAreSent == Spec => []SentWithCredentials
<1>1. IInv => SentWithCredentials
  BY DEF IInv, RequestsInv, RequestInv, SentWithCredentials, inFlight
<1>2. QED
  BY <1>1, Invariance, PTL

\* What the caller is told fits what the hub has executed
\* (HttpClient.ts:13-45, configureAxios.ts:20-36).
THEOREM AnswersAreTrue == Spec => []AnswersMeanExecution
<1>1. IInv => AnswersMeanExecution
  BY DEF IInv, RequestsInv, RequestInv, AnswersMeanExecution
<1>2. QED
  BY <1>1, Invariance, PTL

\* No replaced agent is forgotten while the server runs, and no other is destroyed
\* (HttpServer.ts:169-184).
THEOREM NoAgentForgotten == Spec => []OldAgentsGo
<1>1. IInv => OldAgentsGo
  BY DEF IInv
<1>2. QED
  BY <1>1, Invariance, PTL

\* A renewal of the certs breaks a first attempt only after the whole graceful period,
\* however often and fast the certs are renewed (HttpServer.ts:178-182).
THEOREM GraceIsKept == Spec => FirstAttemptHasGrace
<1>1. ASSUME IInv, NEW a \in Agents, NEW r \in Requests,
             AgentShutdown(a), req'[r] # req[r], req[r].attempts = 1
      PROVE  age[r] = Grace
  <2>1. inFlight(r) /\ req[r].agent = a /\ shutdown[a] = "pending" /\ due[a] = 0
    BY <1>1 DEF AgentShutdown, doomed, IInv, TypeOK
  <2>2. a # 0
    BY DEF Agents
  <2>3. age[r] + 0 >= Grace /\ age[r] \in 0..Grace
    BY <1>1, <2>1, <2>2 DEF IInv, GraceInv, TypeOK
  <2>4. QED
    BY <2>3, HttpServerAssumption
<1>2. IInv => [\A a \in Agents, r \in Requests :
                AgentShutdown(a) /\ req'[r] # req[r] /\ req[r].attempts = 1 => age[r] = Grace]_vars
  BY <1>1
<1>3. QED
  BY <1>2, Invariance, PTL DEF FirstAttemptHasGrace

\* How many steps a request can still take: those of the attempt in flight, and four for
\* every attempt that is left.
remaining(r) ==
    LET attempt == CASE req[r].phase = "sent"     -> 3
                     [] req[r].phase = "executed" -> 2
                     [] req[r].phase = "failed"   -> 1
                     [] OTHER                     -> 0
    IN  IF req[r].phase = "answered" THEN 0 ELSE 4 * (Retries + 2 - req[r].attempts) + attempt

\* Whatever happens to a request brings its answer nearer, also when agents are destroyed
\* under it and every attempt fails: no order of these keeps it going round
\* (HttpClient.ts:13-30, configureAxios.ts:20-36).
StepsTowardsAnswer ==
    [][\A r \in Requests : req'[r] # req[r] => remaining(r)' < remaining(r)]_vars

\* A step of a request, or the end of the agent under it, leaves it fewer steps to take.
LEMMA StepCounts ==
    ASSUME TypeOK, RequestsInv, [Next]_vars, NEW r \in Requests, req'[r] # req[r]
    PROVE  remaining(r)' < remaining(r)
<1>1. /\ req[r] \in RequestRecords
      /\ req[r].attempts \in Nat /\ req[r].attempts <= Retries + 1
      /\ req[r].phase = "idle" => req[r].attempts = 0
      /\ Retries \in Nat
  BY HttpServerAssumption DEF TypeOK, RequestRecords, RequestsInv, RequestInv
<1>2. CASE inFlight(r) /\ req'[r].phase = "failed" /\ req'[r].attempts = req[r].attempts
  BY <1>1, <1>2 DEF remaining, inFlight
<1>3. ASSUME NEW a \in Agents, AgentShutdown(a) PROVE remaining(r)' < remaining(r)
  <2>1. inFlight(r) /\ req'[r] = [req[r] EXCEPT !.phase = "failed", !.outcome = "network"]
    BY <1>3 DEF AgentShutdown
  <2>2. req'[r].phase = "failed" /\ req'[r].attempts = req[r].attempts
    BY <1>1, <2>1 DEF RequestRecords
  <2>3. QED
    BY <1>2, <2>1, <2>2
<1>4. CASE Receive(r)
  <2>1. CASE req'[r].phase = "sent" /\ req'[r].attempts = 1
    BY <1>1, <1>4, <2>1 DEF Receive, remaining
  <2>2. CASE req'[r].phase = "answered"
    BY <1>1, <1>4, <2>2 DEF Receive, remaining
  <2>3. QED
    BY <1>1, <1>4, <2>1, <2>2 DEF Receive, TypeOK, RequestRecords
<1>5. CASE Execute(r)
  <2>1. req'[r].phase = "executed" /\ req'[r].attempts = req[r].attempts
    BY <1>1, <1>5 DEF Execute, TypeOK, RequestRecords
  <2>2. QED
    BY <1>1, <1>5, <2>1 DEF Execute, remaining
<1>6. ASSUME NEW o \in Responses \cup Errors, AttemptEnds(r, o) PROVE remaining(r)' < remaining(r)
  <2>1. req'[r].phase = "failed" /\ req'[r].attempts = req[r].attempts
    BY <1>1, <1>6 DEF AttemptEnds, TypeOK, RequestRecords
  <2>2. QED
    BY <1>2, <1>6, <2>1 DEF AttemptEnds, inFlight
<1>7. CASE Retry(r)
  <2>1. req'[r].phase = "sent" /\ req'[r].attempts = req[r].attempts + 1
    BY <1>1, <1>7 DEF Retry, TypeOK, RequestRecords
  <2>2. QED
    BY <1>1, <1>7, <2>1 DEF Retry, remaining
<1>8. CASE Answer(r)
  <2>1. req'[r].phase = "answered"
    BY <1>1, <1>8 DEF Answer, TypeOK, RequestRecords
  <2>2. QED
    BY <1>1, <1>8, <2>1 DEF Answer, remaining
<1>9. \A s \in Requests \ {r} : ~RequestStep(s)
  BY DEF RequestStep, Receive, Execute, AttemptEnds, Retry, Answer, TypeOK
<1>10. QED
  BY <1>3, <1>4, <1>5, <1>6, <1>7, <1>8, <1>9
     DEF Next, RequestStep, UpdateToken, UpdateCerts, Stop, Stopped, Tick, vars

\* A request takes at most 4 * (Retries + 2) steps of its own, with the certs and tokens
\* renewed, and agents destroyed, at any time: with steps that are not put off for ever it
\* is answered (HttpClient.ts:13-30, configureAxios.ts:20-36).
THEOREM RequestsEnd == Spec => StepsTowardsAnswer /\ [](\A r \in Requests : remaining(r) \in 0..4 * (Retries + 2))
<1>1. IInv /\ [Next]_vars => \A r \in Requests : req'[r] # req[r] => remaining(r)' < remaining(r)
  BY StepCounts DEF IInv
<1>2. IInv => \A r \in Requests : remaining(r) \in 0..4 * (Retries + 2)
  <2>1. SUFFICES ASSUME IInv, NEW r \in Requests PROVE remaining(r) \in 0..4 * (Retries + 2)
    OBVIOUS
  <2>2. /\ req[r].attempts \in Nat /\ req[r].attempts <= Retries + 1 /\ Retries \in Nat
        /\ req[r].phase = "sent" => req[r].attempts > 0
        /\ req[r].phase = "executed" => req[r].attempts > 0
        /\ req[r].phase = "failed" => req[r].attempts > 0
    BY <2>1, HttpServerAssumption DEF IInv, TypeOK, RequestRecords, RequestsInv, RequestInv
  <2>3. QED
    BY <2>2 DEF remaining
<1>3. QED
  BY <1>1, <1>2, Invariance, PTL DEF Spec, StepsTowardsAnswer
================================================================================
