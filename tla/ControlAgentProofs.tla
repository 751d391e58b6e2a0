-------------------------- MODULE ControlAgentProofs --------------------------
(***************************************************************************)
(* The safety properties of ControlAgent, for every set of sockets, every  *)
(* inbox, any number of certificate versions, and whether or not pings are *)
(* on time and frames arrive late.                                         *)
(***************************************************************************)
EXTENDS ControlAgent, TLAPS

\* The promise of a close() is only settled while the agent is closing.
CloseTaskInv == <<"close", "done">> \in tasks => Closing

\* A socket that is connecting has a caller that waits for it.
ConnectingIsAwaited == \A s \in Sockets : sock[s] = "CONNECTING" => opener[s] \in Callers

IInv ==
    /\ TypeOK
    /\ ConnectingIsAwaited
    /\ CloseTaskInv
    /\ InitContinuesOnce
    /\ ReconnectArmed
    /\ LoadHasAnEnd
    /\ ClosingIsFinal

\* WebSocket.close() leaves no socket connecting or open, and never opens one.
LEMMA ClosedState ==
    ASSUME NEW state \in SocketStates
    PROVE  /\ Closed(state) \in SocketStates
           /\ Closed(state) \notin {"CONNECTING", "OPEN", "HALFOPEN"}
           /\ state \notin {"CONNECTING", "OPEN", "HALFOPEN"} => Closed(state) = state
BY DEF Closed, SocketStates

\* this._ws?.close() changes no socket but the current one, which it leaves closing.
LEMMA CloseCurrentStates ==
    ASSUME TypeOK,
           NEW states \in [Sockets -> SocketStates]
    PROVE  /\ CloseCurrent(states) \in [Sockets -> SocketStates]
           /\ \A s \in Sockets \ {ws} : CloseCurrent(states)[s] = states[s]
           /\ ws # NoSocket =>
                CloseCurrent(states)[ws] \notin {"CONNECTING", "OPEN", "HALFOPEN"}
           /\ \A s \in Sockets :
                CloseCurrent(states)[s] \in {"CONNECTING", "OPEN", "HALFOPEN"}
                    => CloseCurrent(states)[s] = states[s]
<1>1. CASE ws = NoSocket
  BY <1>1, ControlAgentAssumption DEF CloseCurrent
<1>2. CASE ws # NoSocket
  <2>1. ws \in Sockets
    BY <1>2 DEF TypeOK
  <2>2. CloseCurrent(states) = [states EXCEPT ![ws] = Closed(states[ws])]
    BY <1>2 DEF CloseCurrent
  <2>3. Closed(states[ws]) \in SocketStates /\ Closed(states[ws]) \notin {"CONNECTING", "OPEN", "HALFOPEN"}
    BY <2>1, ClosedState
  <2>4. QED
    BY <2>1, <2>2, <2>3
<1>3. QED
  BY <1>1, <1>2

\* What is left in transit is part of what was.
LEMMA InTransitType ==
    ASSUME TypeOK, NEW states
    PROVE  inTransit(states) \in [Sockets -> Seq(1..MaxCerts)]
<1>1. <<>> \in Seq(1..MaxCerts)
  OBVIOUS
<1>2. \A s \in Sockets : answer[s] \in Seq(1..MaxCerts)
  BY DEF TypeOK
<1>3. \A s \in Sockets : (IF Delivers(states[s]) THEN answer[s] ELSE <<>>) \in Seq(1..MaxCerts)
  BY <1>1, <1>2
<1>4. QED
  BY <1>3 DEF inTransit

\* A frame lets the callers that wait for it go on, and no others.
LEMMA MessageTasks ==
    ASSUME NEW s \in Sockets, NEW m \in Inbox, WsMessage(s, m), NEW t \in tasks'
    PROVE  \/ t \in tasks
           \/ \E c \in Waiting(s) : t \in {<<c, "loaded">>, <<c, "failed">>}
<1>1. received(m) \in {"loaded", "failed"}
  BY DEF received
<1>2. t \in tasks \cup {<<c, received(m)>> : c \in Waiting(s)}
  BY DEF WsMessage
<1>3. QED
  BY <1>1, <1>2

\* _handle passes certs to onCert, and nothing else.
LEMMA OnCertIsCerts == \A m \in Inbox : handle(m) = "onCert" <=> isCertsPayload(m)
<1>1. SUFFICES ASSUME NEW m \in Inbox PROVE handle(m) = "onCert" <=> isCertsPayload(m)
  OBVIOUS
<1>2. m \in Frames
  BY ControlAgentAssumption
<1>3. /\ m.form \in {"object", "unparsable", "null"} /\ m.msg \in MESSAGE \cup {"unknown"}
      /\ m.form # "object" => m.verb = "unknown"
  BY <1>2 DEF Frames, WsPayload, Unparsable, JsonNull
<1>4. QED
  BY <1>3 DEF handle, isCertsPayload, MESSAGE

\* _handle reacts to every frame, and throws on null only.
LEMMA HandleReacts == \A m \in Frames : handle(m) \in Reactions /\ (handle(m) = "throw" <=> m = JsonNull)
<1>1. SUFFICES ASSUME NEW m \in Frames
               PROVE  handle(m) \in Reactions /\ (handle(m) = "throw" <=> m = JsonNull)
  OBVIOUS
<1>2. CASE m = Unparsable
  <2>1. m.form = "unparsable" /\ m.msg = "unknown" /\ m # JsonNull
    BY <1>2 DEF Unparsable, JsonNull
  <2>2. handle(m) = "JSON_PARSE_ERROR"
    BY <2>1 DEF handle
  <2>3. QED
    BY <2>1, <2>2 DEF Reactions, Replies
<1>3. CASE m = JsonNull
  <2>1. m.form = "null" /\ m.msg = "unknown"
    BY <1>3 DEF JsonNull
  <2>2. handle(m) = "throw"
    BY <2>1 DEF handle
  <2>3. QED
    BY <1>3, <2>2 DEF Reactions
<1>4. CASE \E v \in VERB \cup {"unknown"}, k \in MESSAGE \cup {"unknown"}, d \in Data : m = WsPayload(v, k, d)
  <2>1. PICK v \in VERB \cup {"unknown"}, k \in MESSAGE \cup {"unknown"}, d \in Data : m = WsPayload(v, k, d)
    BY <1>4
  <2>2. m.form = "object" /\ m.verb = v /\ m.msg = k /\ m # JsonNull
    BY <2>1 DEF WsPayload, JsonNull
  <2>3. CASE k = "CONFIGURATION"
    BY <2>2, <2>3 DEF handle, Reactions, Replies
  <2>4. CASE k = "PEER_JWS"
    BY <2>2, <2>4, <2>1 DEF handle, Reactions, Replies, VERB
  <2>5. CASE k \in {"ERROR", "unknown"}
    BY <2>2, <2>5 DEF handle, Reactions, Replies
  <2>6. QED
    BY <2>3, <2>4, <2>5 DEF MESSAGE
<1>5. QED
  BY <1>2, <1>3, <1>4 DEF Frames

\* Every step keeps every variable in its domain.
LEMMA TypeStep == TypeOK /\ ConnectingIsAwaited /\ [Next]_vars => TypeOK'
<1> SUFFICES ASSUME TypeOK, ConnectingIsAwaited, [Next]_vars PROVE TypeOK'
  OBVIOUS
<1>types. /\ sock \in [Sockets -> SocketStates]
          /\ opener \in [Sockets -> Callers \cup {"none"}]
          /\ ws \in Sockets \cup {NoSocket}
          /\ tasks \subseteq Tasks
  BY DEF TypeOK
<1>open. ASSUME NEW c \in Callers, open(c)
        PROVE  /\ sock' \in [Sockets -> SocketStates]
               /\ opener' \in [Sockets -> Callers \cup {"none"}]
               /\ ws' \in Sockets \cup {NoSocket}
               /\ pingTimer' \in BOOLEAN
               /\ tasks' \subseteq Tasks
  BY <1>open, <1>types DEF open, Callers, Tasks, SocketStates
<1>close. close => /\ sock' \in [Sockets -> SocketStates]
                   /\ answer' \in [Sockets -> Seq(1..MaxCerts)]
                   /\ pingTimer' \in BOOLEAN
                   /\ shouldReconnect' \in BOOLEAN
  <2>1. CloseCurrent(sock) \in [Sockets -> SocketStates]
    BY <1>types, CloseCurrentStates
  <2>2. inTransit(CloseCurrent(sock)) \in [Sockets -> Seq(1..MaxCerts)]
    BY InTransitType
  <2>3. QED
    BY <2>1, <2>2 DEF close
<1> USE ControlAgentAssumption DEF TypeOK, sockVars, recvVars, certVars
<1>rearmed. rearmed \in BOOLEAN
  BY DEF rearmed
<1>settled. \A s : settled(s) \subseteq Tasks
  BY DEF settled, Tasks
<1>1. CASE CallInit
  BY <1>1, <1>open DEF CallInit, Callers, InitStates
<1>2. CASE CloseUnopened
  BY <1>2, <1>close DEF CloseUnopened, InitStates
<1>3. CASE Shutdown
  BY <1>3, <1>close DEF Shutdown, InitStates
<1>4. ASSUME NEW c \in Callers, Opened(c) PROVE TypeOK'
  <2>1. \A q \in Seq(1..MaxCerts) : Append(q, hubCerts) \in Seq(1..MaxCerts)
    OBVIOUS
  <2>2. answer' \in [Sockets -> Seq(1..MaxCerts)]
    <3>1. CASE answer' = answer
      BY <3>1
    <3>2. CASE ws \in Sockets /\ answer' = [answer EXCEPT ![ws] = Append(@, hubCerts)]
      <4>1. answer[ws] \in Seq(1..MaxCerts)
        BY <3>2
      <4>2. Append(answer[ws], hubCerts) \in Seq(1..MaxCerts)
        BY <4>1, <2>1
      <4>3. QED
        BY <3>2, <4>2
    <3>3. QED
      BY <1>4, <3>1, <3>2 DEF Opened, loadCerts, _checkSocketState
  <2>3. recv' \subseteq Callers \X Sockets /\ tasks' \subseteq Tasks
    BY <1>4 DEF Opened, loadCerts, _checkSocketState, Tasks
  <2>4. QED
    BY <1>4, <2>2, <2>3 DEF Opened, InitStates
<1>5. ASSUME NEW c \in Callers, Loaded(c) PROVE TypeOK'
  BY <1>5 DEF Loaded, InitStates
<1>6. CASE InitFailed
  BY <1>6, <1>close DEF InitFailed, InitStates
<1>7. CASE ReconnectFailed
  BY <1>7 DEF ReconnectFailed
<1>8. CASE CloseDone
  BY <1>8 DEF CloseDone, InitStates
<1>9. CASE PingTimeout
  BY <1>9, <1>open DEF PingTimeout, Callers
<1>10. CASE CloseTimeout
  BY <1>10 DEF CloseTimeout, Tasks
<1>11. ASSUME NEW c \in Callers, NEW s \in Sockets, ReceiveTimeout(c, s) PROVE TypeOK'
  BY <1>11 DEF ReceiveTimeout, Tasks
<1>12. ASSUME NEW s \in Sockets, WsOpened(s) PROVE TypeOK'
  <2>1. opener[s] \in Callers
    BY <1>12 DEF WsOpened, ConnectingIsAwaited
  <2>2. tasks' \subseteq Tasks
    BY <1>12, <2>1 DEF WsOpened, Tasks
  <2>3. QED
    BY <1>12, <2>2 DEF WsOpened, SocketStates
<1>13. ASSUME NEW s \in Sockets, WsPing(s) PROVE TypeOK'
  BY <1>13 DEF WsPing
<1>14. ASSUME NEW s \in Sockets, NEW m \in Inbox, WsMessage(s, m) PROVE TypeOK'
  <2>1. tasks' \subseteq Tasks
    <3>1. SUFFICES ASSUME NEW t \in tasks', t \notin tasks PROVE t \in Tasks
      OBVIOUS
    <3>2. PICK c \in Waiting(s) : t \in {<<c, "loaded">>, <<c, "failed">>}
      BY <1>14, <3>1, MessageTasks
    <3>3. c \in Callers
      BY DEF Waiting
    <3>4. QED
      BY <3>2, <3>3 DEF Tasks
  <2>2. certs' \in 0..MaxCerts /\ answer' \in [Sockets -> Seq(1..MaxCerts)] /\ overtaken' \in BOOLEAN
    <3>1. CASE UNCHANGED <<answer, certVars>>
      BY <3>1
    <3>2. CASE ~UNCHANGED <<answer, certVars>>
      <4>1. /\ certs' = handled(s, m)
            /\ overtaken' \in BOOLEAN
            /\ answer' = IF isCertsPayload(m) THEN [answer EXCEPT ![s] = Tail(@)] ELSE answer
            /\ isCertsPayload(m) => answer[s] # <<>>
        BY <1>14, <3>2 DEF WsMessage
      <4>2. answer[s] # <<>> => Head(answer[s]) \in 0..MaxCerts /\ Tail(answer[s]) \in Seq(1..MaxCerts)
        OBVIOUS
      <4>3. handle(m) = "onCert" => isCertsPayload(m)
        BY OnCertIsCerts
      <4>4. certs' \in 0..MaxCerts
        BY <4>1, <4>2, <4>3 DEF handled
      <4>5. QED
        BY <4>1, <4>2, <4>4
    <3>3. QED
      BY <3>1, <3>2
  <2>3. recv' \subseteq Callers \X Sockets /\ stale' \subseteq Sockets /\ exit' \in {0, 2, 3}
    BY <1>14 DEF WsMessage
  <2>4. QED
    BY <1>14, <2>1, <2>2, <2>3 DEF WsMessage
<1>15. ASSUME NEW s \in Sockets, WsClosed(s) PROVE TypeOK'
  <2>1. sock' \in [Sockets -> SocketStates]
    BY <1>15, <1>types DEF WsClosed, SocketStates
  <2>2. tasks' \subseteq Tasks /\ pingTimer' \in BOOLEAN
    BY <1>15, <1>types, <1>rearmed, <1>settled DEF WsClosed
  <2>3. answer' \in [Sockets -> Seq(1..MaxCerts)]
    BY <1>15, InTransitType DEF WsClosed
  <2>4. QED
    BY <1>15, <2>1, <2>2, <2>3 DEF WsClosed
<1>16. ASSUME NEW s \in Sockets, WsFailed(s) PROVE TypeOK'
  <2>1. [sock EXCEPT ![s] = "CLOSED"] \in [Sockets -> SocketStates]
    BY DEF SocketStates
  <2>2. sock' \in [Sockets -> SocketStates]
    BY <1>16, <2>1, CloseCurrentStates DEF WsFailed
  <2>3. QED
    BY <1>16, <1>rearmed, <1>settled, <2>2, InTransitType DEF WsFailed
<1>17. ASSUME NEW s \in Sockets, WsError(s) PROVE TypeOK'
  <2>1. [sock EXCEPT ![s] = "DROPPED"] \in [Sockets -> SocketStates]
    BY DEF SocketStates
  <2>2. sock' \in [Sockets -> SocketStates]
    BY <1>17, <2>1, CloseCurrentStates DEF WsError
  <2>3. tasks' \subseteq Tasks
    BY <1>17, <1>settled DEF WsError
  <2>4. answer' \in [Sockets -> Seq(1..MaxCerts)]
    BY <1>17, InTransitType DEF WsError
  <2>5. QED
    BY <1>17, <2>2, <2>3, <2>4 DEF WsError
<1>18. ASSUME NEW s \in Sockets, Drop(s) \/ Blackhole(s) PROVE TypeOK'
  <2>1. sock' \in [Sockets -> SocketStates]
    BY <1>18, <1>types DEF Drop, Blackhole, SocketStates
  <2>2. answer' \in [Sockets -> Seq(1..MaxCerts)]
    BY <1>18, InTransitType DEF Drop, Blackhole
  <2>3. QED
    BY <1>18, <2>1, <2>2 DEF Drop, Blackhole
<1>19. CASE Rotate
  <2>1. hubCerts + 1 \in 1..MaxCerts
    BY <1>19 DEF Rotate
  <2>2. \A q \in Seq(1..MaxCerts) : Append(q, hubCerts + 1) \in Seq(1..MaxCerts)
    BY <2>1
  <2>3. answer' \in [Sockets -> Seq(1..MaxCerts)]
    BY <1>19, <2>2 DEF Rotate
  <2>4. QED
    BY <1>19, <2>1, <2>3 DEF Rotate
<1>20. CASE UNCHANGED vars
  BY <1>20 DEF vars
<1>21. QED
  BY <1>1, <1>2, <1>3, <1>4, <1>5, <1>6, <1>7, <1>8, <1>9, <1>10, <1>11, <1>12,
     <1>13, <1>14, <1>15, <1>16, <1>17, <1>18, <1>19, <1>20
     DEF Next, Continuation, SocketEvent

\* A connecting socket keeps the caller that waits for it.
LEMMA AwaitedStep == TypeOK /\ ConnectingIsAwaited /\ [Next]_vars => ConnectingIsAwaited'
<1> SUFFICES ASSUME TypeOK, ConnectingIsAwaited, [Next]_vars PROVE ConnectingIsAwaited'
  OBVIOUS
<1> USE DEF ConnectingIsAwaited, sockVars, recvVars
<1>unchanged. UNCHANGED <<sock, opener>> => ConnectingIsAwaited'
  OBVIOUS
<1>open. ASSUME NEW c \in Callers, open(c) PROVE ConnectingIsAwaited'
  BY <1>open DEF open, TypeOK
<1>types. sock \in [Sockets -> SocketStates] /\ ws \in Sockets \cup {NoSocket}
  BY DEF TypeOK
<1>close. sock' = CloseCurrent(sock) /\ UNCHANGED opener => ConnectingIsAwaited'
  BY <1>types, CloseCurrentStates
<1>1. CASE CallInit
  BY <1>1, <1>open DEF CallInit, Callers
<1>2. CASE CloseUnopened \/ Shutdown \/ InitFailed
  BY <1>2, <1>close DEF CloseUnopened, Shutdown, InitFailed, close
<1>3. ASSUME NEW c \in Callers, Opened(c) \/ Loaded(c) PROVE ConnectingIsAwaited'
  BY <1>3, <1>unchanged DEF Opened, Loaded
<1>4. CASE ReconnectFailed \/ CloseDone \/ CloseTimeout \/ Rotate
  BY <1>4, <1>unchanged DEF ReconnectFailed, CloseDone, CloseTimeout, Rotate
<1>5. CASE PingTimeout
  BY <1>5, <1>open DEF PingTimeout, Callers
<1>6. ASSUME NEW c \in Callers, NEW s \in Sockets, ReceiveTimeout(c, s) PROVE ConnectingIsAwaited'
  BY <1>6, <1>unchanged DEF ReceiveTimeout
<1>7. ASSUME NEW s \in Sockets, WsOpened(s) PROVE ConnectingIsAwaited'
  BY <1>7 DEF WsOpened, TypeOK
<1>8. ASSUME NEW s \in Sockets, WsPing(s) \/ \E m \in Inbox : WsMessage(s, m)
      PROVE  ConnectingIsAwaited'
  BY <1>8, <1>unchanged DEF WsPing, WsMessage
<1>9. ASSUME NEW s \in Sockets, WsClosed(s) \/ Drop(s) \/ Blackhole(s) PROVE ConnectingIsAwaited'
  BY <1>9 DEF WsClosed, Drop, Blackhole, TypeOK
<1>10. ASSUME NEW s \in Sockets, WsFailed(s) PROVE ConnectingIsAwaited'
  <2>1. [sock EXCEPT ![s] = "CLOSED"] \in [Sockets -> SocketStates]
    BY DEF SocketStates, TypeOK
  <2>2. ASSUME NEW t \in Sockets, sock'[t] = "CONNECTING" PROVE t # s /\ sock[t] = "CONNECTING"
    <3>1. [sock EXCEPT ![s] = "CLOSED"][t] = "CONNECTING"
      <4>1. sock' = CloseCurrent([sock EXCEPT ![s] = "CLOSED"])
        BY <1>10 DEF WsFailed
      <4>2. QED
        BY <2>1, <2>2, <4>1, CloseCurrentStates
    <3>2. QED
      BY <3>1 DEF TypeOK
  <2>3. QED
    BY <1>10, <2>2 DEF WsFailed, TypeOK
<1>11. ASSUME NEW s \in Sockets, WsError(s) PROVE ConnectingIsAwaited'
  <2>1. [sock EXCEPT ![s] = "DROPPED"] \in [Sockets -> SocketStates]
    BY DEF SocketStates, TypeOK
  <2>2. QED
    BY <1>11, <2>1, CloseCurrentStates DEF WsError, TypeOK
<1>12. CASE UNCHANGED vars
  BY <1>12, <1>unchanged DEF vars
<1>13. QED
  BY <1>1, <1>2, <1>3, <1>4, <1>5, <1>6, <1>7, <1>8, <1>9, <1>10, <1>11, <1>12
     DEF Next, Continuation, SocketEvent

\* Only CloseDone takes the promise of a close() from the queue, and it ends the closing.
LEMMA CloseTaskStep == CloseTaskInv /\ InitContinuesOnce /\ [Next]_vars => CloseTaskInv'
<1> SUFFICES ASSUME CloseTaskInv, InitContinuesOnce, [Next]_vars PROVE CloseTaskInv'
  OBVIOUS
<1> USE DEF CloseTaskInv, Closing
<1>quiet. Quiet => tasks = {}
  BY DEF Quiet
<1>1. CASE CallInit \/ PingTimeout
  BY <1>1, <1>quiet DEF CallInit, PingTimeout, open
<1>2. CASE CloseUnopened \/ Shutdown
  BY <1>2, <1>quiet DEF CloseUnopened, Shutdown
<1>3. ASSUME NEW c \in Callers, Opened(c) PROVE CloseTaskInv'
  <2>1. tasks' \subseteq tasks \cup {<<c, "failed">>}
    BY <1>3 DEF Opened, loadCerts
  <2>2. initCall' = initCall \/ initCall = "opening"
    BY <1>3 DEF Opened
  <2>3. QED
    BY <2>1, <2>2 DEF Callers
<1>4. ASSUME NEW c \in Callers, Loaded(c) PROVE CloseTaskInv'
  <2>1. CASE c = "init"
    <3>1. initTasks # {}
      BY <1>4, <2>1 DEF Loaded, initTasks
    <3>2. initCall \in {"opening", "loading", "stopping", "stopped"}
      BY <3>1 DEF InitContinuesOnce
    <3>3. initCall # "stopped" /\ tasks' = tasks \ {<<c, "loaded">>}
      BY <1>4 DEF Loaded, Running
    <3>4. initCall' = IF initCall # "stopping" THEN "ready" ELSE initCall
      BY <1>4, <2>1 DEF Loaded
    <3>5. QED
      BY <3>2, <3>3, <3>4
  <2>2. CASE c # "init"
    BY <1>4, <2>2 DEF Loaded
  <2>3. QED
    BY <2>1, <2>2
<1>5. CASE InitFailed \/ ReconnectFailed \/ CloseDone
  BY <1>5 DEF InitFailed, ReconnectFailed, CloseDone
<1>6. CASE CloseTimeout \/ Rotate
  BY <1>6 DEF CloseTimeout, Rotate
<1>7. ASSUME NEW c \in Callers, NEW s \in Sockets, ReceiveTimeout(c, s) PROVE CloseTaskInv'
  BY <1>7, <1>quiet DEF ReceiveTimeout, Callers
<1>8. ASSUME NEW s \in Sockets, WsOpened(s) \/ WsPing(s) PROVE CloseTaskInv'
  BY <1>8, <1>quiet DEF WsOpened, WsPing
<1>9. ASSUME NEW s \in Sockets, NEW m \in Inbox, WsMessage(s, m) PROVE CloseTaskInv'
  BY <1>9, <1>quiet, MessageTasks DEF WsMessage, Waiting, Callers
<1>10. ASSUME NEW s \in Sockets, WsClosed(s) \/ WsFailed(s) \/ WsError(s) PROVE CloseTaskInv'
  BY <1>10, <1>quiet DEF WsClosed, WsFailed, WsError, settled
<1>11. ASSUME NEW s \in Sockets, Drop(s) \/ Blackhole(s) PROVE CloseTaskInv'
  BY <1>11 DEF Drop, Blackhole
<1>12. CASE UNCHANGED vars
  BY <1>12 DEF vars
<1>13. QED
  BY <1>1, <1>2, <1>3, <1>4, <1>5, <1>6, <1>7, <1>8, <1>9, <1>10, <1>11, <1>12
     DEF Next, Continuation, SocketEvent

\* The parts of InitContinuesOnce that a step can disturb are the three sets, and each
\* step moves the pending init from one of them to the next or leaves it alone.
LEMMA InitOnceStep ==
    TypeOK /\ ConnectingIsAwaited /\ CloseTaskInv /\ InitContinuesOnce /\ [Next]_vars => InitContinuesOnce'
<1> SUFFICES ASSUME TypeOK, ConnectingIsAwaited, CloseTaskInv, InitContinuesOnce, [Next]_vars PROVE InitContinuesOnce'
  OBVIOUS
<1> USE DEF InitContinuesOnce, initOpeners, initTasks, initReceives, sockVars, recvVars
<1>quiet. Quiet => tasks = {}
  BY DEF Quiet
\* A step that adds to none of the sets, and changes initCall only for a stop or when they
\* are empty.
<1>shrink. ASSUME initOpeners' \subseteq initOpeners,
                  initTasks' \subseteq initTasks,
                  initReceives' \subseteq initReceives,
                  \/ initCall' = initCall \/ initCall' \in {"stopping", "stopped"}
                  \/ initOpeners' = {} /\ initTasks' = {} /\ initReceives' = {}
           PROVE  InitContinuesOnce'
  BY <1>shrink
<1>current. ASSUME NEW states \in [Sockets -> SocketStates], sock' = CloseCurrent(states),
                   \A s \in Sockets : states[s] = "CONNECTING" => sock[s] = "CONNECTING" /\ opener'[s] = opener[s]
            PROVE  initOpeners' \subseteq initOpeners
  <2>1. SUFFICES ASSUME NEW s \in Sockets, sock'[s] = "CONNECTING", opener'[s] = "init"
                 PROVE  s \in initOpeners
    OBVIOUS
  <2>2. states[s] = "CONNECTING"
    BY <1>current, <2>1, CloseCurrentStates
  <2>3. QED
    BY <1>current, <2>1, <2>2
<1>1. CASE CallInit
  <2>1. tasks = {} /\ initOpeners = {} /\ initReceives = {} /\ initCall' = "opening" /\ recv' = recv
    BY <1>1, <1>quiet DEF CallInit
  <2>2. CASE _checkSocketState
    BY <1>1, <2>1, <2>2 DEF CallInit, open
  <2>3. CASE ~_checkSocketState
    <3>1. tasks' = {}
      BY <1>1, <2>1, <2>3 DEF CallInit, open
    <3>2. PICK s \in Sockets : /\ sock' = [sock EXCEPT ![s] = "CONNECTING"]
                              /\ opener' = [opener EXCEPT ![s] = "init"]
      BY <1>1, <2>3 DEF CallInit, open
    <3>3. initOpeners' \subseteq {s}
      BY <2>1, <3>2 DEF TypeOK
    <3>4. initReceives' = {} /\ initTasks' = {}
      BY <2>1, <3>1
    <3>5. QED
      BY <2>1, <3>3, <3>4
  <2>4. QED
    BY <2>2, <2>3
<1>2. CASE CloseUnopened \/ Shutdown
  <2>1. initOpeners' \subseteq initOpeners
    BY <1>2, <1>current DEF CloseUnopened, Shutdown, close, TypeOK
  <2>2. tasks' = tasks /\ recv' = recv
    BY <1>2 DEF CloseUnopened, Shutdown
  <2>3. initTasks' = initTasks /\ initReceives' = initReceives
    BY <2>2
  <2>4. CASE CloseUnopened
    <3>1. initOpeners = {} /\ initTasks = {} /\ initReceives = {}
      BY <2>4, <1>quiet DEF CloseUnopened
    <3>2. QED
      BY <2>1, <2>3, <3>1, <1>shrink
  <2>5. CASE Shutdown
    BY <2>1, <2>3, <2>5, <1>shrink DEF Shutdown
  <2>6. QED
    BY <1>2, <2>4, <2>5
<1>3. ASSUME NEW c \in Callers, Opened(c) PROVE InitContinuesOnce'
  <2>1. initOpeners' = initOpeners
    BY <1>3 DEF Opened
  <2>2. CASE c = "reconnect"
    <3>1. initTasks' = initTasks /\ initReceives' = initReceives /\ initCall' = initCall
      BY <1>3, <2>2 DEF Opened, loadCerts
    <3>2. QED
      BY <2>1, <3>1, <1>shrink
  <2>3. CASE c = "init"
    <3>1. /\ initOpeners = {} /\ initReceives = {} /\ initTasks = {<<"init", "opened">>}
          /\ initCall \in {"opening", "loading", "stopping", "stopped"}
      BY <1>3, <2>3 DEF Opened
    <3>2. CASE _checkSocketState
      <4>1. initTasks' = {} /\ initReceives' \subseteq {ws} /\ initCall' \in {"loading", "stopping", "stopped"}
        BY <1>3, <2>3, <3>1, <3>2 DEF Opened, loadCerts
      <4>2. QED
        BY <2>1, <3>1, <4>1
    <3>3. CASE ~_checkSocketState
      <4>1. initTasks' = {<<"init", "failed">>} /\ initReceives' = {} /\ initCall' = initCall
        BY <1>3, <2>3, <3>1, <3>3 DEF Opened, loadCerts
      <4>2. QED
        BY <2>1, <3>1, <4>1
    <3>4. QED
      BY <3>2, <3>3
  <2>4. QED
    BY <2>2, <2>3 DEF Callers
<1>4. ASSUME NEW c \in Callers, Loaded(c) PROVE InitContinuesOnce'
  <2>1. initOpeners' = initOpeners /\ initReceives' = initReceives /\ initTasks' \subseteq initTasks
    BY <1>4 DEF Loaded
  <2>2. CASE c = "reconnect"
    BY <1>4, <2>1, <2>2, <1>shrink DEF Loaded
  <2>3. CASE c = "init"
    <3>1. initOpeners = {} /\ initReceives = {} /\ initTasks = {<<"init", "loaded">>}
      BY <1>4, <2>3 DEF Loaded
    <3>2. initTasks' = {}
      BY <1>4, <2>3, <3>1 DEF Loaded
    <3>3. QED
      BY <2>1, <3>1, <3>2
  <2>4. QED
    BY <2>2, <2>3 DEF Callers
<1>5. CASE InitFailed
  <2>1. initOpeners = {} /\ initReceives = {} /\ initTasks = {<<"init", "failed">>}
    BY <1>5 DEF InitFailed
  <2>2. initTasks' = {} /\ initReceives' = {}
    BY <1>5, <2>1 DEF InitFailed
  <2>3. initOpeners' \subseteq initOpeners
    BY <1>5, <1>current DEF InitFailed, close, TypeOK
  <2>4. QED
    BY <2>1, <2>2, <2>3
<1>6. CASE ReconnectFailed \/ CloseTimeout \/ Rotate
  <2>1. initOpeners' = initOpeners /\ initReceives' = initReceives /\ initTasks' = initTasks /\ initCall' = initCall
    BY <1>6 DEF ReconnectFailed, CloseTimeout, Rotate
  <2>2. QED
    BY <2>1, <1>shrink
<1>7. CASE CloseDone
  <2>1. initOpeners' = initOpeners /\ initReceives' = initReceives /\ initTasks' \subseteq initTasks
    BY <1>7 DEF CloseDone
  <2>2. CASE initCall = "stopping"
    BY <1>7, <2>1, <2>2, <1>shrink DEF CloseDone
  <2>3. CASE initCall = "closing"
    <3>1. initOpeners = {} /\ initTasks = {} /\ initReceives = {}
      BY <2>3
    <3>2. QED
      BY <2>1, <3>1, <1>shrink
  <2>4. QED
    BY <1>7, <2>2, <2>3 DEF CloseDone, CloseTaskInv, Closing
<1>8. CASE PingTimeout
  <2>1. initCall' = initCall /\ recv' = recv /\ initTasks' = initTasks
    BY <1>8 DEF PingTimeout, open
  <2>2. initOpeners' \subseteq initOpeners
    BY <1>8 DEF PingTimeout, open, TypeOK
  <2>3. QED
    BY <2>1, <2>2, <1>shrink
<1>9. ASSUME NEW c \in Callers, NEW s \in Sockets, ReceiveTimeout(c, s) PROVE InitContinuesOnce'
  <2>1. tasks = {} /\ initOpeners' = initOpeners /\ initReceives' \subseteq initReceives /\ initCall' = initCall
    BY <1>9, <1>quiet DEF ReceiveTimeout
  <2>2. CASE c = "reconnect"
    <3>1. initTasks' = {}
      BY <1>9, <2>1, <2>2 DEF ReceiveTimeout
    <3>2. QED
      BY <2>1, <3>1, <1>shrink
  <2>3. CASE c = "init"
    <3>1. s \in initReceives
      BY <1>9, <2>3 DEF ReceiveTimeout
    <3>2. initReceives = {s} /\ initCall \in {"loading", "stopping", "stopped"} /\ initOpeners = {}
      BY <3>1
    <3>3. initReceives' = {} /\ initTasks' = {<<"init", "failed">>}
      BY <1>9, <2>1, <2>3, <3>2 DEF ReceiveTimeout
    <3>4. QED
      BY <2>1, <3>2, <3>3
  <2>4. QED
    BY <2>2, <2>3 DEF Callers
<1>10. ASSUME NEW s \in Sockets, WsOpened(s) PROVE InitContinuesOnce'
  <2>1. tasks = {} /\ initOpeners' = initOpeners \ {s} /\ initReceives' = initReceives /\ initCall' = initCall
    BY <1>10, <1>quiet DEF WsOpened, TypeOK
  <2>2. CASE opener[s] = "init"
    <3>1. initOpeners = {s} /\ initReceives = {} /\ initCall \in {"opening", "stopping", "stopped"}
      BY <1>10, <2>2 DEF WsOpened, TypeOK
    <3>2. initTasks' = {<<"init", "opened">>}
      BY <1>10, <2>1, <2>2 DEF WsOpened
    <3>3. QED
      BY <2>1, <3>1, <3>2
  <2>3. CASE opener[s] # "init"
    <3>1. initTasks' = {}
      BY <1>10, <2>1, <2>3 DEF WsOpened
    <3>2. QED
      BY <2>1, <3>1, <1>shrink
  <2>4. QED
    BY <2>2, <2>3
<1>11. ASSUME NEW s \in Sockets, WsPing(s) PROVE InitContinuesOnce'
  BY <1>11, <1>shrink DEF WsPing
<1>12. ASSUME NEW s \in Sockets, NEW m \in Inbox, WsMessage(s, m) PROVE InitContinuesOnce'
  <2>1. tasks = {} /\ initOpeners' = initOpeners /\ initCall' = initCall
    BY <1>12, <1>quiet DEF WsMessage
  <2>2. CASE exit' = 2 /\ UNCHANGED <<recv, tasks>>
    BY <2>1, <2>2, <1>shrink
  <2>3. CASE recv' = recv \ (Callers \X {s}) /\ tasks' = tasks \cup {<<c, received(m)>> : c \in Waiting(s)}
    <3>1. initReceives' = initReceives \ {s}
      BY <2>3 DEF Callers
    <3>2. CASE "init" \in Waiting(s)
      <4>1. s \in initReceives
        BY <3>2 DEF Waiting
      <4>2. initReceives = {s} /\ initCall \in {"loading", "stopping", "stopped"} /\ initOpeners = {}
        BY <4>1
      <4>3. initTasks' = {<<"init", received(m)>>}
        BY <2>1, <2>3, <3>2
      <4>4. initOpeners' = {} /\ initReceives' = {} /\ initCall' \in {"loading", "stopping", "stopped"}
        BY <2>1, <3>1, <4>2
      <4>5. QED
        BY <4>3, <4>4
    <3>3. CASE "init" \notin Waiting(s)
      <4>1. initTasks' = {}
        BY <2>1, <2>3, <3>3
      <4>2. QED
        BY <2>1, <3>1, <4>1, <1>shrink
    <3>4. QED
      BY <3>2, <3>3
  <2>4. QED
    BY <1>12, <2>2, <2>3 DEF WsMessage
<1>13. ASSUME NEW s \in Sockets, WsClosed(s) \/ WsFailed(s) \/ WsError(s) PROVE InitContinuesOnce'
  <2>1. initCall' = initCall /\ recv' = recv /\ initTasks' = initTasks
    BY <1>13 DEF WsClosed, WsFailed, WsError, settled
  <2>2. [sock EXCEPT ![s] = "CLOSED"] \in [Sockets -> SocketStates] /\ [sock EXCEPT ![s] = "DROPPED"] \in [Sockets -> SocketStates]
    BY DEF SocketStates, TypeOK
  <2>3. CASE WsClosed(s)
    BY <2>1, <2>3, <1>shrink DEF WsClosed, TypeOK
  <2>4. CASE WsFailed(s)
    <3>1. initOpeners' \subseteq initOpeners
      BY <2>2, <2>4, <1>current DEF WsFailed, TypeOK
    <3>2. QED
      BY <2>1, <3>1, <1>shrink
  <2>5. CASE WsError(s)
    <3>1. initOpeners' \subseteq initOpeners
      BY <2>2, <2>5, <1>current DEF WsError, TypeOK
    <3>2. QED
      BY <2>1, <3>1, <1>shrink
  <2>6. QED
    BY <1>13, <2>3, <2>4, <2>5
<1>14. ASSUME NEW s \in Sockets, Drop(s) \/ Blackhole(s) PROVE InitContinuesOnce'
  BY <1>14, <1>shrink DEF Drop, Blackhole, TypeOK
<1>15. CASE UNCHANGED vars
  BY <1>15, <1>shrink DEF vars
<1>16. QED
  BY <1>1, <1>2, <1>3, <1>4, <1>5, <1>6, <1>7, <1>8, <1>9, <1>10, <1>11, <1>12, <1>13, <1>14, <1>15
     DEF Next, Continuation, SocketEvent

\* The ping timer is cleared by close() alone, and then the owner is closing.
LEMMA ArmedStep ==
    CloseTaskInv /\ InitContinuesOnce /\ ReconnectArmed /\ [Next]_vars => ReconnectArmed'
<1> SUFFICES ASSUME CloseTaskInv, InitContinuesOnce, ReconnectArmed, [Next]_vars PROVE ReconnectArmed'
  OBVIOUS
<1> USE DEF ReconnectArmed
<1>keep. (pingTimer => pingTimer') /\ initCall' = initCall /\ (exit' = 0 => exit = 0) => ReconnectArmed'
  OBVIOUS
<1>1. CASE CallInit \/ PingTimeout
  BY <1>1 DEF CallInit, PingTimeout, open
<1>2. CASE CloseUnopened \/ Shutdown \/ InitFailed \/ CloseDone
  BY <1>2 DEF CloseUnopened, Shutdown, InitFailed, CloseDone
<1>3. ASSUME NEW c \in Callers, Opened(c) \/ Loaded(c) PROVE ReconnectArmed'
  <2>1. exit' = exit /\ pingTimer' = pingTimer
    BY <1>3 DEF Opened, Loaded
  <2>2. CASE c = "init"
    <3>1. initTasks # {}
      BY <1>3, <2>2 DEF Opened, Loaded, initTasks
    <3>2. initCall \in {"opening", "loading", "stopping", "stopped"} /\ initCall # "stopped"
      BY <1>3, <3>1 DEF InitContinuesOnce, Opened, Loaded, Running
    <3>3. initCall = "stopping" => initCall' = "stopping"
      BY <1>3 DEF Opened, Loaded
    <3>4. QED
      BY <2>1, <3>2, <3>3
  <2>3. CASE c = "reconnect"
    BY <1>3, <2>1, <2>3, <1>keep DEF Opened, Loaded
  <2>4. QED
    BY <2>2, <2>3 DEF Callers
<1>4. CASE ReconnectFailed \/ CloseTimeout \/ Rotate
  BY <1>4, <1>keep DEF ReconnectFailed, CloseTimeout, Rotate, Running
<1>5. ASSUME NEW c \in Callers, NEW s \in Sockets, ReceiveTimeout(c, s) PROVE ReconnectArmed'
  BY <1>5, <1>keep DEF ReceiveTimeout
<1>6. ASSUME NEW s \in Sockets, WsOpened(s) \/ WsPing(s) \/ WsError(s) PROVE ReconnectArmed'
  BY <1>6, <1>keep DEF WsOpened, WsPing, WsError
<1>7. ASSUME NEW s \in Sockets, WsClosed(s) \/ WsFailed(s) PROVE ReconnectArmed'
  BY <1>7, <1>keep DEF WsClosed, WsFailed, rearmed
<1>8. ASSUME NEW s \in Sockets, NEW m \in Inbox, WsMessage(s, m) PROVE ReconnectArmed'
  BY <1>8, <1>keep DEF WsMessage, Quiet, Running
<1>9. ASSUME NEW s \in Sockets, Drop(s) \/ Blackhole(s) PROVE ReconnectArmed'
  BY <1>9, <1>keep DEF Drop, Blackhole
<1>10. CASE UNCHANGED vars
  BY <1>10, <1>keep DEF vars
<1>11. QED
  BY <1>1, <1>2, <1>3, <1>4, <1>5, <1>6, <1>7, <1>8, <1>9, <1>10
     DEF Next, Continuation, SocketEvent

\* A pending load is handed from the receive() to a continuation, never dropped.
LEMMA LoadStep ==
    TypeOK /\ InitContinuesOnce /\ LoadHasAnEnd /\ [Next]_vars => LoadHasAnEnd'
<1> SUFFICES ASSUME TypeOK, InitContinuesOnce, LoadHasAnEnd, [Next]_vars PROVE LoadHasAnEnd'
  OBVIOUS
<1> USE DEF LoadHasAnEnd, initReceives, initTasks, recvVars
<1>keep. recv \subseteq recv' /\ tasks \subseteq tasks' /\ initCall' = initCall /\ exit' = exit => LoadHasAnEnd'
  OBVIOUS
<1>1. CASE CallInit \/ CloseUnopened \/ Shutdown \/ InitFailed \/ CloseDone
  BY <1>1 DEF CallInit, CloseUnopened, Shutdown, InitFailed, CloseDone
<1>2. ASSUME NEW c \in Callers, Opened(c) PROVE LoadHasAnEnd'
  <2>1. CASE c = "reconnect"
    <3>1. initCall' = initCall /\ exit' = exit /\ recv \subseteq recv'
      BY <1>2, <2>1 DEF Opened, loadCerts
    <3>2. \A t \in tasks : t[1] = "init" => t \in tasks'
      BY <1>2, <2>1 DEF Opened, loadCerts
    <3>3. QED
      BY <3>1, <3>2
  <2>2. CASE c = "init" /\ _checkSocketState
    <3>1. <<"init", ws>> \in recv' /\ ws \in Sockets
      BY <1>2, <2>2 DEF Opened, loadCerts, _checkSocketState, TypeOK
    <3>2. QED
      BY <3>1
  <2>3. CASE c = "init" /\ ~_checkSocketState
    <3>1. <<"init", "failed">> \in tasks'
      BY <1>2, <2>3 DEF Opened, loadCerts
    <3>2. QED
      BY <3>1
  <2>4. QED
    BY <2>1, <2>2, <2>3 DEF Callers
<1>3. ASSUME NEW c \in Callers, Loaded(c) PROVE LoadHasAnEnd'
  BY <1>3 DEF Loaded, Callers
<1>4. CASE ReconnectFailed
  BY <1>4 DEF ReconnectFailed
<1>5. CASE CloseTimeout \/ Rotate
  BY <1>5, <1>keep DEF CloseTimeout, Rotate
<1>6. CASE PingTimeout
  BY <1>6, <1>keep DEF PingTimeout, open
<1>7. ASSUME NEW c \in Callers, NEW s \in Sockets, ReceiveTimeout(c, s) PROVE LoadHasAnEnd'
  <2>1. /\ recv' = recv \ {<<c, s>>} /\ tasks' = tasks \cup {<<c, "failed">>}
        /\ initCall' = initCall /\ exit' = exit
    BY <1>7 DEF ReceiveTimeout
  <2>2. CASE c = "init"
    <3>1. <<"init", "failed">> \in tasks'
      BY <2>1, <2>2
    <3>2. QED
      BY <3>1
  <2>3. CASE c # "init"
    <3>1. \A r \in Sockets : <<"init", r>> \in recv => <<"init", r>> \in recv'
      BY <2>1, <2>3
    <3>2. QED
      BY <2>1, <3>1
  <2>4. QED
    BY <2>2, <2>3
<1>8. ASSUME NEW s \in Sockets, WsOpened(s) \/ WsPing(s) \/ WsClosed(s) \/ WsFailed(s) \/ WsError(s)
      PROVE  LoadHasAnEnd'
  BY <1>8, <1>keep DEF WsOpened, WsPing, WsClosed, WsFailed, WsError
<1>9. ASSUME NEW s \in Sockets, NEW m \in Inbox, WsMessage(s, m) PROVE LoadHasAnEnd'
  <2>1. CASE exit' = 2
    BY <2>1
  <2>2. CASE /\ recv' = recv \ (Callers \X {s})
             /\ tasks' = tasks \cup {<<c, received(m)>> : c \in Waiting(s)}
             /\ exit' = exit
    <3>1. initCall' = initCall
      BY <1>9 DEF WsMessage
    <3>2. ASSUME NEW t \in initReceives, t \notin initReceives' PROVE <<"init", received(m)>> \in tasks'
      <4>1. t = s /\ "init" \in Waiting(s)
        BY <2>2, <3>2 DEF Waiting, Callers
      <4>2. QED
        BY <2>2, <4>1
    <3>3. QED
      BY <2>2, <3>1, <3>2
  <2>3. QED
    BY <1>9, <2>1, <2>2 DEF WsMessage
<1>10. ASSUME NEW s \in Sockets, Drop(s) \/ Blackhole(s) PROVE LoadHasAnEnd'
  BY <1>10, <1>keep DEF Drop, Blackhole
<1>11. CASE UNCHANGED vars
  BY <1>11, <1>keep DEF vars
<1>12. QED
  BY <1>1, <1>2, <1>3, <1>4, <1>5, <1>6, <1>7, <1>8, <1>9, <1>10, <1>11
     DEF Next, Continuation, SocketEvent

\* While the agent is closing nothing opens its current socket, and nothing replaces it.
LEMMA ClosingStep ==
    TypeOK /\ InitContinuesOnce /\ ClosingIsFinal /\ [Next]_vars => ClosingIsFinal'
<1> SUFFICES ASSUME TypeOK, InitContinuesOnce, ClosingIsFinal, [Next]_vars PROVE ClosingIsFinal'
  OBVIOUS
<1> USE DEF ClosingIsFinal, Closing
<1>keep. UNCHANGED <<sock, ws, initCall>> => ClosingIsFinal'
  OBVIOUS
<1>close. sock' = CloseCurrent(sock) /\ ws' = ws => ClosingIsFinal'
  BY CloseCurrentStates DEF TypeOK
<1>1. CASE CallInit \/ PingTimeout
  BY <1>1 DEF CallInit, PingTimeout
<1>2. CASE CloseUnopened \/ Shutdown \/ InitFailed
  BY <1>2, <1>close DEF CloseUnopened, Shutdown, InitFailed, close
<1>3. ASSUME NEW c \in Callers, Opened(c) \/ Loaded(c) PROVE ClosingIsFinal'
  <2>1. sock' = sock /\ ws' = ws
    BY <1>3 DEF Opened, Loaded, sockVars
  <2>2. initCall' = initCall \/ initCall' \in {"loading", "ready"}
    BY <1>3 DEF Opened, Loaded
  <2>3. QED
    BY <2>1, <2>2
<1>4. CASE CloseDone
  BY <1>4 DEF CloseDone
<1>5. CASE ReconnectFailed \/ CloseTimeout \/ Rotate
  BY <1>5, <1>keep DEF ReconnectFailed, CloseTimeout, Rotate, sockVars
<1>6. ASSUME NEW c \in Callers, NEW s \in Sockets, ReceiveTimeout(c, s) PROVE ClosingIsFinal'
  BY <1>6, <1>keep DEF ReceiveTimeout, sockVars
<1>7. ASSUME NEW s \in Sockets, WsPing(s) \/ \E m \in Inbox : WsMessage(s, m) PROVE ClosingIsFinal'
  BY <1>7, <1>keep DEF WsPing, WsMessage, sockVars
<1>8. ASSUME NEW s \in Sockets, WsOpened(s) \/ WsClosed(s) \/ Drop(s) \/ Blackhole(s)
      PROVE  ClosingIsFinal'
  BY <1>8 DEF WsOpened, WsClosed, Drop, Blackhole, TypeOK, IsOpen
<1>9. ASSUME NEW s \in Sockets, WsFailed(s) \/ WsError(s) PROVE ClosingIsFinal'
  <2>1. PICK states \in [Sockets -> SocketStates] : sock' = CloseCurrent(states)
    BY <1>9 DEF WsFailed, WsError, SocketStates, TypeOK
  <2>2. ws' = ws
    BY <1>9 DEF WsFailed, WsError
  <2>3. QED
    BY <2>1, <2>2, CloseCurrentStates
<1>10. CASE UNCHANGED vars
  BY <1>10, <1>keep DEF vars
<1>11. QED
  BY <1>1, <1>2, <1>3, <1>4, <1>5, <1>6, <1>7, <1>8, <1>9, <1>10
     DEF Next, Continuation, SocketEvent

--------------------------------------------------------------------------------
(* The theorems *)

\* The conjunction of all parts is inductive.
THEOREM Invariance == Spec => []IInv
<1>1. Init => IInv
  <2>1. SUFFICES ASSUME Init PROVE IInv
    OBVIOUS
  <2>2. TypeOK
    <3>1. 0 \in 0..MaxCerts /\ 1 \in 1..MaxCerts
      BY ControlAgentAssumption
    <3>2. sock \in [Sockets -> SocketStates] /\ initCall \in InitStates
      BY <2>1 DEF Init, SocketStates, InitStates
    <3>3. answer \in [Sockets -> Seq(1..MaxCerts)]
      BY <2>1 DEF Init
    <3>4. QED
      BY <2>1, <3>1, <3>2, <3>3 DEF Init, TypeOK
  <2>3. ConnectingIsAwaited /\ CloseTaskInv /\ InitContinuesOnce
    BY <2>1 DEF Init, ConnectingIsAwaited, CloseTaskInv, InitContinuesOnce, initOpeners, initTasks, initReceives
  <2>4. ReconnectArmed /\ LoadHasAnEnd /\ ClosingIsFinal
    BY <2>1 DEF Init, ReconnectArmed, LoadHasAnEnd, ClosingIsFinal, Closing
  <2>5. QED
    BY <2>2, <2>3, <2>4 DEF IInv
<1>2. IInv /\ [Next]_vars => IInv'
  BY TypeStep, AwaitedStep, CloseTaskStep, InitOnceStep, ArmedStep, LoadStep, ClosingStep DEF IInv
<1>3. QED
  BY <1>1, <1>2, PTL DEF Spec

\* Every variable of the agent stays in its domain (the fields of ControlAgent.ts:32-40
\* and the sockets they refer to).
THEOREM TypeCorrect == Spec => []TypeOK
<1>1. IInv => TypeOK
  BY DEF IInv
<1>2. QED
  BY <1>1, Invariance, PTL

\* While its owner wants a connection the agent has an armed ping timer, whatever the
\* sockets did before (ControlAgent.ts:73-107).
THEOREM AlwaysRearmed == Spec => []ReconnectArmed
<1>1. IInv => ReconnectArmed
  BY DEF IInv
<1>2. QED
  BY <1>1, Invariance, PTL

\* A start of the peer goes on at most once, however many sockets, listeners and
\* promises earlier attempts have left (PeerServer.ts:119-129).
THEOREM StartsOnce == Spec => []InitContinuesOnce
<1>1. IInv => InitContinuesOnce
  BY DEF IInv
<1>2. QED
  BY <1>1, Invariance, PTL

\* A start that waits for its certs always has a timer or a continuation left that
\* ends the wait (ControlAgent.ts:162-201).
THEOREM LoadsEnd == Spec => []LoadHasAnEnd
<1>1. IInv => LoadHasAnEnd
  BY DEF IInv
<1>2. QED
  BY <1>1, Invariance, PTL

\* Once close() has begun the current socket neither opens nor is connecting
\* (ControlAgent.ts:118-146).
THEOREM ClosesForGood == Spec => []ClosingIsFinal
<1>1. IInv => ClosingIsFinal
  BY DEF IInv
<1>2. QED
  BY <1>1, Invariance, PTL

\* No step puts another socket, or none, in the place of an open one
\* (ControlAgent.ts:83-88, 144).
THEOREM KeepsOpenSocket == Spec => NeverAbandonsOpen
<1>1. IInv /\ [Next]_vars => (ws # NoSocket /\ ws' # ws => ~IsOpen(ws))
  <2>1. SUFFICES ASSUME IInv, [Next]_vars, ws # NoSocket, ws' # ws PROVE ~IsOpen(ws)
    OBVIOUS
  <2>2. CASE CallInit \/ PingTimeout
    BY <2>1, <2>2 DEF CallInit, PingTimeout, open, _checkSocketState
  <2>3. CASE CloseDone
    <3>1. Closing
      BY <2>1, <2>3 DEF CloseDone, IInv, CloseTaskInv
    <3>2. QED
      BY <2>1, <3>1 DEF IInv, ClosingIsFinal, IsOpen
  <2>4. ASSUME ~(CallInit \/ PingTimeout \/ CloseDone) PROVE FALSE
    BY <2>1, <2>4 DEF Next, vars, Continuation, SocketEvent, CloseUnopened, Shutdown, Opened,
       Loaded, InitFailed, ReconnectFailed, CloseTimeout, ReceiveTimeout, WsOpened, WsPing,
       WsMessage, WsClosed, WsFailed, WsError, Drop, Blackhole, Rotate
  <2>5. QED
    BY <2>2, <2>3, <2>4
<1>2. QED
  BY <1>1, Invariance, PTL DEF Spec, NeverAbandonsOpen

\* No frame ends the process but null, and one that is not JSON while a receive() listens,
\* pending or timed out (ControlAgent.ts:171-175, 203-256).
OnlyBadFramesThrow ==
    [][exit' = 2 /\ exit = 0 =>
           \E s \in Sockets, m \in {JsonNull, Unparsable} :
               WsMessage(s, m) /\ (m = Unparsable => Listening(s))]_vars

\* Whatever the API sends, a frame ends the process only if it is null, or if it is not JSON
\* and a receive() listens (ControlAgent.ts:171-175, 203-256).
THEOREM OnlyBadFramesEndIt == Spec => OnlyBadFramesThrow
<1>1. [Next]_vars => [exit' = 2 /\ exit = 0 =>
                        \E s \in Sockets, m \in {JsonNull, Unparsable} :
                            WsMessage(s, m) /\ (m = Unparsable => Listening(s))]_vars
  <2>1. SUFFICES ASSUME [Next]_vars, exit' = 2, exit = 0
                 PROVE  \E s \in Sockets, m \in {JsonNull, Unparsable} :
                            WsMessage(s, m) /\ (m = Unparsable => Listening(s))
    OBVIOUS
  <2>2. PICK s \in Sockets, m \in Inbox : WsMessage(s, m)
    BY <2>1 DEF Next, vars, Continuation, SocketEvent, CallInit, CloseUnopened, Shutdown, Opened,
       Loaded, InitFailed, ReconnectFailed, CloseDone, PingTimeout, CloseTimeout, ReceiveTimeout,
       WsOpened, WsPing, WsClosed, WsFailed, WsError, Drop, Blackhole, Rotate
  <2>3. handle(m) = "throw" \/ (m = Unparsable /\ Listening(s))
    BY <2>1, <2>2 DEF WsMessage
  <2>4. m \in Frames
    BY ControlAgentAssumption
  <2>5. CASE handle(m) = "throw"
    <3>1. m = JsonNull /\ JsonNull # Unparsable
      BY <2>4, <2>5, HandleReacts DEF JsonNull, Unparsable
    <3>2. QED
      BY <2>2, <3>1
  <2>6. CASE m = Unparsable /\ Listening(s)
    BY <2>2, <2>6
  <2>7. QED
    BY <2>3, <2>5, <2>6
<1>2. QED
  BY <1>1, PTL DEF Spec, OnlyBadFramesThrow

================================================================================
