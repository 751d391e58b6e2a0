--------------------- MODULE ControlAgentLifecycleProofs ---------------------
(***************************************************************************)
(* ControlAgent implements AgentLifecycle, for every set of sockets, every *)
(* inbox, any number of certificate versions, and whether or not pings are *)
(* on time and frames arrive late.                                         *)
(***************************************************************************)
EXTENDS ControlAgentLifecycle, ControlAgentProofs

\* A loadCerts() that resolves has had its certs passed to onCert.
LoadedHasCerts == \A c \in Callers : <<c, "loaded">> \in tasks => certs # 0

LInv == IInv /\ LoadedHasCerts

\* A frame passed to onCert leaves certs, and no frame takes them away.
LEMMA CertsOfMessage ==
    ASSUME TypeOK, NEW s \in Sockets, NEW m \in Inbox, WsMessage(s, m), exit' = exit
    PROVE  /\ certs' = certs \/ certs' # 0
           /\ certs # 0 => certs' # 0
           /\ received(m) = "loaded" => certs' # 0
<1>1. certs' = handled(s, m) /\ (isCertsPayload(m) => answer[s] # <<>>)
  BY DEF WsMessage, Quiet, Running
<1>2. answer[s] \in Seq(1..MaxCerts)
  BY DEF TypeOK
<1>3. answer[s] # <<>> => Head(answer[s]) # 0
  <2>1. \A q \in Seq(1..MaxCerts) : q # <<>> => Head(q) \in 1..MaxCerts
    <3>1. \A S : \A q \in Seq(S) : q # <<>> => Head(q) \in S
      OBVIOUS
    <3>2. QED
      BY <3>1
  <2>2. 0 \notin 1..MaxCerts
    BY ControlAgentAssumption
  <2>3. QED
    BY <1>2, <2>1, <2>2
<1>4. handle(m) = "onCert" => certs' # 0
  BY <1>1, <1>3, OnCertIsCerts DEF handled
<1>5. received(m) = "loaded" => handle(m) = "onCert"
  BY OnCertIsCerts DEF received
<1>6. QED
  BY <1>1, <1>4, <1>5 DEF handled

\* Only a frame adds a loadCerts() that resolves.
LEMMA LoadedStep == TypeOK /\ ConnectingIsAwaited /\ LoadedHasCerts /\ [Next]_vars => LoadedHasCerts'
<1> SUFFICES ASSUME TypeOK, ConnectingIsAwaited, LoadedHasCerts, [Next]_vars PROVE LoadedHasCerts'
  OBVIOUS
<1> USE DEF LoadedHasCerts, Callers, certVars
<1>1. CASE CallInit \/ CloseUnopened \/ Shutdown \/ InitFailed \/ ReconnectFailed \/ CloseDone
  BY <1>1 DEF CallInit, CloseUnopened, Shutdown, InitFailed, ReconnectFailed, CloseDone, open
<1>2. ASSUME NEW c \in Callers, Opened(c) \/ Loaded(c) PROVE LoadedHasCerts'
  BY <1>2 DEF Opened, Loaded, loadCerts
<1>3. CASE PingTimeout \/ CloseTimeout \/ Rotate
  BY <1>3 DEF PingTimeout, CloseTimeout, Rotate, open
<1>4. ASSUME NEW c \in Callers, NEW s \in Sockets, ReceiveTimeout(c, s) PROVE LoadedHasCerts'
  BY <1>4 DEF ReceiveTimeout
<1>5. ASSUME NEW s \in Sockets, WsOpened(s) \/ WsPing(s) \/ Drop(s) \/ Blackhole(s)
      PROVE  LoadedHasCerts'
  BY <1>5 DEF WsOpened, WsPing, Drop, Blackhole
<1>6. ASSUME NEW s \in Sockets, WsClosed(s) \/ WsFailed(s) \/ WsError(s) PROVE LoadedHasCerts'
  BY <1>6 DEF WsClosed, WsFailed, WsError, settled
<1>7. ASSUME NEW s \in Sockets, NEW m \in Inbox, WsMessage(s, m) PROVE LoadedHasCerts'
  <2>1. CASE exit' = exit
    <3>1. SUFFICES ASSUME NEW c \in Callers, <<c, "loaded">> \in tasks' PROVE certs' # 0
      OBVIOUS
    <3>2. CASE <<c, "loaded">> \in tasks
      BY <1>7, <2>1, <3>2, CertsOfMessage
    <3>3. CASE <<c, "loaded">> \notin tasks
      <4>1. tasks' = tasks \cup {<<d, received(m)>> : d \in Waiting(s)}
        BY <1>7, <2>1 DEF WsMessage, Quiet, Running
      <4>2. received(m) = "loaded"
        BY <3>1, <3>3, <4>1
      <4>3. QED
        BY <1>7, <2>1, <4>2, CertsOfMessage
    <3>4. QED
      BY <3>2, <3>3
  <2>2. CASE exit' # exit
    BY <1>7, <2>2 DEF WsMessage
  <2>3. QED
    BY <2>1, <2>2
<1>8. CASE UNCHANGED vars
  BY <1>8 DEF vars
<1>9. QED
  BY <1>1, <1>2, <1>3, <1>4, <1>5, <1>6, <1>7, <1>8 DEF Next, Continuation, SocketEvent

\* Every step of the agent is a step of the abstract agent, or none.
LEMMA StepSimulation == LInv /\ [Next]_vars => [Lifecycle!Next]_(Lifecycle!vars)
<1> SUFFICES ASSUME LInv, [Next]_vars PROVE [Lifecycle!Next]_(Lifecycle!vars)
  OBVIOUS
<1> USE DEF Lifecycle!vars, Lifecycle!Next, Lifecycle!Goes, Running, Quiet, certVars
<1>stutter. UNCHANGED <<initCall, certs, exit>> => UNCHANGED Lifecycle!vars
  BY DEF phaseOf
<1>1. CASE CallInit
  BY <1>1 DEF CallInit, phaseOf, Lifecycle!Initialise
<1>2. CASE CloseUnopened
  BY <1>2 DEF CloseUnopened, phaseOf, Lifecycle!Close
<1>3. CASE Shutdown
  BY <1>3 DEF Shutdown, phaseOf, Lifecycle!Shutdown
<1>4. ASSUME NEW c \in Callers, Opened(c) PROVE UNCHANGED Lifecycle!vars
  <2>1. initCall' = initCall \/ (initCall = "opening" /\ initCall' = "loading")
    BY <1>4 DEF Opened
  <2>2. phaseOf(initCall') = phaseOf(initCall)
    BY <2>1 DEF phaseOf
  <2>3. QED
    BY <1>4, <2>2 DEF Opened
<1>5. ASSUME NEW c \in Callers, Loaded(c) PROVE [Lifecycle!Next]_(Lifecycle!vars)
  <2>1. CASE c = "init"
    <3>1. initCall \in {"opening", "loading", "stopping"} /\ certs # 0
      BY <1>5, <2>1 DEF Loaded, LInv, IInv, InitContinuesOnce, initTasks, LoadedHasCerts
    <3>2. CASE initCall = "stopping"
      BY <1>5, <2>1, <3>2, <1>stutter DEF Loaded
    <3>3. CASE initCall # "stopping"
      <4>1. Lifecycle!Succeed
        BY <1>5, <2>1, <3>1, <3>3 DEF Loaded, phaseOf, Lifecycle!Succeed
      <4>2. QED
        BY <4>1
    <3>4. QED
      BY <3>2, <3>3
  <2>2. CASE c # "init"
    BY <1>5, <2>2, <1>stutter DEF Loaded
  <2>3. QED
    BY <2>1, <2>2
<1>6. CASE InitFailed
  <2>1. initCall \in {"opening", "loading", "stopping"}
    BY <1>6 DEF InitFailed, LInv, IInv, InitContinuesOnce, initTasks
  <2>2. CASE initCall = "stopping"
    BY <1>6, <2>2, <1>stutter DEF InitFailed
  <2>3. CASE initCall # "stopping"
    BY <1>6, <2>1, <2>3 DEF InitFailed, phaseOf, Lifecycle!Fail
  <2>4. QED
    BY <2>2, <2>3
<1>7. CASE ReconnectFailed
  <2>1. phaseOf(initCall) # "stopped"
    BY <1>7 DEF ReconnectFailed, phaseOf
  <2>2. QED
    BY <1>7, <2>1 DEF ReconnectFailed, Lifecycle!Crash
<1>8. CASE CloseDone
  <2>1. Closing
    BY <1>8 DEF CloseDone, LInv, IInv, CloseTaskInv
  <2>2. QED
    BY <1>8, <2>1 DEF CloseDone, Closing, phaseOf, Lifecycle!Closed, Lifecycle!Stopped
<1>9. CASE PingTimeout \/ CloseTimeout \/ Rotate
  BY <1>9, <1>stutter DEF PingTimeout, CloseTimeout, Rotate
<1>10. ASSUME NEW c \in Callers, NEW s \in Sockets, ReceiveTimeout(c, s) PROVE UNCHANGED Lifecycle!vars
  BY <1>10, <1>stutter DEF ReceiveTimeout
<1>11. ASSUME NEW s \in Sockets, WsOpened(s) \/ WsPing(s) \/ Drop(s) \/ Blackhole(s)
       PROVE  UNCHANGED Lifecycle!vars
  BY <1>11, <1>stutter DEF WsOpened, WsPing, Drop, Blackhole
<1>12. ASSUME NEW s \in Sockets, WsClosed(s) \/ WsFailed(s) \/ WsError(s)
       PROVE  UNCHANGED Lifecycle!vars
  BY <1>12, <1>stutter DEF WsClosed, WsFailed, WsError
<1>13. ASSUME NEW s \in Sockets, NEW m \in Inbox, WsMessage(s, m)
       PROVE  [Lifecycle!Next]_(Lifecycle!vars)
  <2>1. phaseOf(initCall) # "stopped" /\ initCall' = initCall /\ exit = 0
    BY <1>13 DEF WsMessage, phaseOf
  <2>2. CASE exit' = exit
    <3>1. certs' = certs \/ certs' # 0
      BY <1>13, <2>2, CertsOfMessage DEF LInv, IInv
    <3>2. CASE certs' = certs
      BY <2>1, <2>2, <3>2, <1>stutter
    <3>3. CASE certs' # 0
      BY <2>1, <2>2, <3>3 DEF Lifecycle!Give
    <3>4. QED
      BY <3>1, <3>2, <3>3
  <2>3. CASE exit' # exit
    <3>1. exit' = 2 /\ certs' = certs
      BY <1>13, <2>3 DEF WsMessage
    <3>2. QED
      BY <2>1, <3>1 DEF Lifecycle!Crash
  <2>4. QED
    BY <2>2, <2>3
<1>14. CASE UNCHANGED vars
  BY <1>14, <1>stutter DEF vars
<1>15. QED
  BY <1>1, <1>2, <1>3, <1>4, <1>5, <1>6, <1>7, <1>8, <1>9, <1>10, <1>11, <1>12, <1>13, <1>14
     DEF Next, Continuation, SocketEvent

--------------------------------------------------------------------------------
(* The theorems *)

\* No load resolves before onCert was called.
THEOREM LoadedAfterCert == Spec => []LInv
<1>1. Init => LoadedHasCerts
  BY DEF Init, LoadedHasCerts
<1>2. IInv /\ LoadedHasCerts /\ [Next]_vars => LoadedHasCerts'
  BY LoadedStep DEF IInv
<1>3. QED
  BY <1>1, <1>2, Invariance, PTL DEF Spec, LInv

\* The agent is what PeerServer.ts:67-129 relies on, whatever its sockets do: an
\* initialisation that succeeds has passed certs to onCert, one that fails closes the
\* agent, and a closed agent waits for its owner.
THEOREM AgentImplementsLifecycle == Spec => ImplementsLifecycle
<1>1. Init => Lifecycle!Init
  BY DEF Init, Lifecycle!Init, phaseOf
<1>2. LInv /\ [Next]_vars => [Lifecycle!Next]_(Lifecycle!vars)
  BY StepSimulation
<1>3. QED
  BY <1>1, <1>2, LoadedAfterCert, PTL DEF Spec, ImplementsLifecycle, Lifecycle!Spec
================================================================================
