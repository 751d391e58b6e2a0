--------------------------- MODULE PeerServerProofs ---------------------------
(***************************************************************************)
(* The safety properties of PeerServer, for any set of peers and of        *)
(* signals, with and without pm4ml.                                        *)
(***************************************************************************)
EXTENDS PeerServer, TLAPS

\* The retry timer is not armed during a run, and there is no JWS loop before one ends.
RunInv ==
    \A p \in Peers :
        /\ run[p] # "none" => ~retryTimer[p]
        /\ run[p] # "none" \/ retryTimer[p] \/ ~pm4mlEnabled => jwsLoops[p] = 0
        /\ ~pm4mlEnabled => run[p] = "none" /\ ~retryTimer[p]
        /\ run[p] = "init" /\ ~Stopping => updates[p] /\ agent[p] = "opening"

\* What a peer has at the end of start(), and when it is stopped after that.
StartedInv ==
    \A p \in Peers :
        /\ http[p] = "starting" => starting[p] = "listen"
        /\ Stopping /\ ~interrupted[p] => starting[p] = "done"
        /\ ~interrupted[p] => \A n \in Signals : stopping[p][n] \in {"http", "done"} =>
               http[p] \in {"stopping", "stopped"} /\ agent[p] = "closed"

\* A signal stops both peers, and hapi ends one stop() of a peer at a time.
ChainsInv ==
    /\ \A n \in Signals : signalled(n) => \A p \in Peers : stopping[p][n] # "none"
    /\ Running => \A p \in Peers, n \in Signals : stopping[p][n] = "http" =>
          /\ http[p] = "stopping"
          /\ \A m \in Signals : stopping[p][m] = "http" => m = n

IInv ==
    /\ TypeOK /\ RunInv /\ StartedInv
    /\ ReadyMeansStarted /\ NeverGivesUp /\ OneJwsLoop /\ StopIsFinal /\ StopsBothPeers
    /\ ChainsInv /\ AwaitsEnd

\* stopPeerJwsRefreshLoop leaves no loop, if there was one at most.
LEMMA ClearedLoops ==
    ASSUME NEW p \in Peers, jwsLoops[p] \in Nat
    PROVE  loopCleared(p) \in Nat /\ (jwsLoops[p] <= 1 => loopCleared(p) = 0)
BY DEF loopCleared

\* peerJwsRefreshLoop adds a loop.
LEMMA AnotherLoop == \A loops \in Nat : loops + 1 \in Nat
OBVIOUS

\* close() leaves an agent that is closed or closing.
LEMMA ClosingAgent ==
    ASSUME NEW connection
    PROVE  /\ closing(connection) \in {"closed", "closing"}
           /\ connection = "closed" => closing(connection) = "closed"
BY DEF closing

\* A step of a stop() changes where one chain of one peer is.
LEMMA StoppingType ==
    ASSUME NEW S, NEW f \in [Peers -> [Signals -> S]], NEW p \in Peers, NEW n \in Signals, NEW x \in S
    PROVE  [f EXCEPT ![p][n] = x] \in [Peers -> [Signals -> S]]
<1>1. [f[p] EXCEPT ![n] = x] \in [Signals -> S]
  OBVIOUS
<1>2. QED
  BY <1>1

\* Every step keeps every variable in its domain.
LEMMA TypeStep == TypeOK /\ [Next]_vars => TypeOK'
<1> SUFFICES ASSUME TypeOK, [Next]_vars PROVE TypeOK'
  OBVIOUS
<1> USE DEF TypeOK
<1>started. \A p \in Peers : started(p) \in [Peers -> {"pm4ml", "http", "listen", "done"}]
  BY DEF started
<1>cleared. \A p \in Peers : loopCleared(p) \in Nat
  <2>1. \A p \in Peers : jwsLoops[p] \in Nat
    OBVIOUS
  <2>2. QED
    BY <2>1, ClearedLoops
<1>1. ASSUME NEW p \in Peers, TokenArrives(p) \/ HandshakeFails(p) \/ RetryFires(p) PROVE TypeOK'
  <2>1. CASE TokenArrives(p)
    BY <2>1 DEF TokenArrives
  <2>2. CASE HandshakeFails(p)
    BY <2>2 DEF HandshakeFails
  <2>3. CASE RetryFires(p)
    BY <2>3 DEF RetryFires
  <2>4. QED
    BY <1>1, <2>1, <2>2, <2>3
<1>2. ASSUME NEW p \in Peers, StepFails(p) PROVE TypeOK'
  <2>1. jwsLoops' \in [Peers -> Nat] /\ agent' \in [Peers -> {"closed", "opening", "open", "closing"}]
    BY <1>2, <1>cleared, ClosingAgent DEF StepFails, stopPm4mlPart
  <2>2. QED
    BY <1>2, <2>1 DEF StepFails, stopPm4mlPart
<1>3. ASSUME NEW p \in Peers, InitSucceeds(p) PROVE TypeOK'
  <2>0. jwsLoops[p] \in Nat
    OBVIOUS
  <2>1. jwsLoops[p] + 1 \in Nat
    BY <2>0, AnotherLoop
  <2>2. jwsLoops' \in [Peers -> Nat]
    BY <1>3, <2>1 DEF InitSucceeds
  <2>3. agent' \in [Peers -> {"closed", "opening", "open", "closing"}]
    BY <1>3 DEF InitSucceeds
  <2>4. QED
    BY <1>3, <1>started, <2>2, <2>3 DEF InitSucceeds
<1>4. ASSUME NEW p \in Peers, RetryScheduled(p) PROVE TypeOK'
  BY <1>4, <1>started DEF RetryScheduled
<1>5. ASSUME NEW p \in Peers, HttpStart(p) \/ HttpStarted(p) \/ HttpStartFails(p) PROVE TypeOK'
  BY <1>5 DEF HttpStart, HttpStarted, HttpStartFails
<1>6. ASSUME NEW p \in Peers, NEW n \in Signals, HttpStop(p, n) PROVE TypeOK'
  <2>1. [stopping EXCEPT ![p][n] = "http"] \in [Peers -> [Signals -> {"none", "close", "http", "done"}]]
    BY StoppingType
  <2>2. stopping' \in [Peers -> [Signals -> {"none", "close", "http", "done"}]]
    BY <1>6, <2>1 DEF HttpStop
  <2>3. QED
    BY <1>6, <2>2 DEF HttpStop
<1>7. ASSUME NEW p \in Peers, NEW n \in Signals, HttpStopped(p, n) PROVE TypeOK'
  <2>1. [stopping EXCEPT ![p][n] = "done"] \in [Peers -> [Signals -> {"none", "close", "http", "done"}]]
    BY StoppingType
  <2>2. stopping' \in [Peers -> [Signals -> {"none", "close", "http", "done"}]]
    BY <1>7, <2>1 DEF HttpStopped
  <2>3. QED
    BY <1>7, <2>2 DEF HttpStopped
<1>8. ASSUME NEW n \in Signals, Signal(n) PROVE TypeOK'
  <2>1. jwsLoops' \in [Peers -> Nat] /\ agent' \in [Peers -> {"closed", "opening", "open", "closing"}]
    BY <1>8, <1>cleared, ClosingAgent DEF Signal
  <2>2. stopping' \in [Peers -> [Signals -> {"none", "close", "http", "done"}]]
    BY <1>8 DEF Signal
  <2>3. QED
    BY <1>8, <2>1, <2>2 DEF Signal
<1>9. CASE UNCHANGED vars
  BY <1>9 DEF vars
<1>10. QED
  BY <1>1, <1>2, <1>3, <1>4, <1>5, <1>6, <1>7, <1>8, <1>9 DEF Next, PeerStep, StopStep

\* What a signal and the steps after it do to a peer.
LEMMA SignalEffect ==
    ASSUME TypeOK, NEW n \in Signals, Signal(n), NEW p \in Peers
    PROVE  /\ Stopping'
           /\ ~retryTimer'[p] /\ jwsLoops'[p] = loopCleared(p)
           /\ agent'[p] = closing(agent[p])
           /\ run'[p] = run[p] /\ starting'[p] = starting[p] /\ http'[p] = http[p]
           /\ isReady'[p] = isReady[p]
           /\ \A m \in Signals : stopping'[p][m] \in {"http", "done"} => stopping'[p][m] = stopping[p][m]
           /\ Stopping => interrupted'[p] = interrupted[p]
           /\ ~Stopping /\ ~interrupted'[p] => run[p] = "none" /\ starting[p] = "done"
<1>1. stopping'[p][n] = "close"
  BY DEF Signal, TypeOK
<1>2. Stopping'
  BY <1>1 DEF Stopping, signalled
<1>3. QED
  BY <1>2 DEF Signal, TypeOK

\* A stop begins with a signal and is never forgotten.
LEMMA StoppingStep ==
    ASSUME TypeOK, [Next]_vars
    PROVE  /\ Stopping => Stopping'
           /\ Stopping' => Stopping \/ \E n \in Signals : Signal(n)
<1> USE DEF TypeOK, Stopping, signalled
<1>1. ASSUME NEW p \in Peers, PeerStep(p) PROVE stopping' = stopping
  BY <1>1 DEF PeerStep, TokenArrives, HandshakeFails, StepFails, InitSucceeds, RetryScheduled, RetryFires,
     HttpStart, HttpStarted, HttpStartFails
<1>2. ASSUME NEW p \in Peers, NEW n \in Signals, StopStep(p, n) PROVE Stopping /\ Stopping'
  <2>1. stopping[p][n] # "none"
    BY <1>2 DEF StopStep, HttpStop, HttpStopped
  <2>2. [stopping[p] EXCEPT ![n] = "http"][n] = "http" /\ [stopping[p] EXCEPT ![n] = "done"][n] = "done"
    OBVIOUS
  <2>3. stopping'[p][n] # "none"
    BY <1>2, <2>1, <2>2 DEF StopStep, HttpStop, HttpStopped
  <2>4. QED
    BY <2>1, <2>3
<1>3. ASSUME NEW n \in Signals, Signal(n), Stopping PROVE Stopping'
  BY <1>3, SignalEffect
<1>4. CASE UNCHANGED vars
  BY <1>4 DEF vars
<1>5. QED
  BY <1>1, <1>2, <1>3, <1>4 DEF Next

\* A step of a peer leaves the others alone.
LEMMA OtherPeers ==
    ASSUME TypeOK, NEW p \in Peers, NEW q \in Peers, q # p, PeerStep(q)
    PROVE  /\ run'[p] = run[p] /\ starting'[p] = starting[p] /\ retryTimer'[p] = retryTimer[p]
           /\ updates'[p] = updates[p] /\ jwsLoops'[p] = jwsLoops[p] /\ isReady'[p] = isReady[p]
           /\ agent'[p] = agent[p] /\ http'[p] = http[p]
<1> USE DEF TypeOK
<1>1. CASE TokenArrives(q)
  BY <1>1 DEF TokenArrives
<1>2. CASE StepFails(q)
  BY <1>2 DEF StepFails, stopPm4mlPart
<1>3. CASE InitSucceeds(q)
  BY <1>3 DEF InitSucceeds, started
<1>4. CASE RetryScheduled(q)
  BY <1>4 DEF RetryScheduled, started
<1>5. CASE RetryFires(q)
  BY <1>5 DEF RetryFires
<1>6. CASE HttpStart(q)
  BY <1>6 DEF HttpStart
<1>7. CASE HttpStarted(q)
  BY <1>7 DEF HttpStarted
<1>8. CASE HttpStartFails(q)
  BY <1>8 DEF HttpStartFails
<1>9. CASE HandshakeFails(q)
  BY <1>9 DEF HandshakeFails
<1>10. QED
  BY <1>1, <1>2, <1>3, <1>4, <1>5, <1>6, <1>7, <1>8, <1>9 DEF PeerStep

\* Runs, timers and loops follow each other.
LEMMA RunStep == TypeOK /\ RunInv /\ [Next]_vars => RunInv'
<1> SUFFICES ASSUME TypeOK, RunInv, [Next]_vars, NEW p \in Peers
             PROVE  /\ run'[p] # "none" => ~retryTimer'[p]
                    /\ run'[p] # "none" \/ retryTimer'[p] \/ ~pm4mlEnabled => jwsLoops'[p] = 0
                    /\ ~pm4mlEnabled => run'[p] = "none" /\ ~retryTimer'[p]
                    /\ run'[p] = "init" /\ ~Stopping' => updates'[p] /\ agent'[p] = "opening"
  BY DEF RunInv
<1> DEFINE Goal == /\ run'[p] # "none" => ~retryTimer'[p]
                   /\ run'[p] # "none" \/ retryTimer'[p] \/ ~pm4mlEnabled => jwsLoops'[p] = 0
                   /\ ~pm4mlEnabled => run'[p] = "none" /\ ~retryTimer'[p]
                   /\ run'[p] = "init" /\ ~Stopping' => updates'[p] /\ agent'[p] = "opening"
<1>stopping. Stopping => Stopping'
  BY StoppingStep
<1>old. /\ run[p] # "none" => ~retryTimer[p]
        /\ run[p] # "none" \/ retryTimer[p] \/ ~pm4mlEnabled => jwsLoops[p] = 0
        /\ ~pm4mlEnabled => run[p] = "none" /\ ~retryTimer[p]
        /\ run[p] = "init" /\ ~Stopping => updates[p] /\ agent[p] = "opening"
  BY DEF RunInv
<1>1. ASSUME NEW q \in Peers, q # p, PeerStep(q) PROVE Goal
  BY <1>1, <1>old, <1>stopping, OtherPeers
<1>2. CASE TokenArrives(p)
  <2>1. run[p] = "token" /\ run'[p] = "init" /\ updates'[p] /\ agent'[p] = "opening"
    BY <1>2 DEF TokenArrives, TypeOK
  <2>2. retryTimer' = retryTimer /\ jwsLoops' = jwsLoops
    BY <1>2 DEF TokenArrives
  <2>3. QED
    BY <1>old, <2>1, <2>2
<1>3. CASE RetryFires(p)
  <2>1. retryTimer[p] /\ ~retryTimer'[p] /\ run'[p] = "token" /\ jwsLoops' = jwsLoops
    BY <1>3 DEF RetryFires, TypeOK
  <2>2. QED
    BY <1>old, <2>1
<1>4. CASE StepFails(p)
  <2>1. /\ run[p] # "none" /\ run'[p] = "closing" /\ retryTimer' = retryTimer
        /\ jwsLoops'[p] = loopCleared(p)
    BY <1>4 DEF StepFails, stopPm4mlPart, TypeOK
  <2>2. QED
    BY <1>old, <2>1 DEF loopCleared
<1>5. CASE InitSucceeds(p)
  <2>1. run[p] = "init" /\ run'[p] = "none" /\ retryTimer' = retryTimer
    BY <1>5 DEF InitSucceeds, TypeOK
  <2>2. QED
    BY <1>old, <2>1
<1>6. CASE RetryScheduled(p)
  <2>1. run[p] = "closing" /\ run'[p] = "none" /\ jwsLoops' = jwsLoops
    BY <1>6 DEF RetryScheduled, TypeOK
  <2>2. QED
    BY <1>old, <2>1
<1>7. ASSUME NEW q \in Peers, HttpStart(q) \/ HttpStarted(q) \/ HttpStartFails(q) PROVE Goal
  BY <1>7, <1>stopping DEF HttpStart, HttpStarted, HttpStartFails, RunInv
<1>8. ASSUME NEW q \in Peers, NEW n \in Signals, StopStep(q, n) PROVE Goal
  <2>1. Stopping'
    <3>1. stopping[q][n] # "none"
      BY <1>8 DEF StopStep, HttpStop, HttpStopped
    <3>2. QED
      BY <3>1, <1>stopping DEF Stopping, signalled
  <2>2. run' = run /\ retryTimer' = retryTimer /\ jwsLoops' = jwsLoops
    BY <1>8 DEF StopStep, HttpStop, HttpStopped
  <2>3. QED
    BY <2>1, <2>2 DEF RunInv
<1>9. ASSUME NEW n \in Signals, Signal(n) PROVE Goal
  BY <1>9, SignalEffect DEF RunInv, loopCleared
<1>10. CASE HandshakeFails(p)
  <2>1. /\ run[p] # "none" /\ run'[p] = "refused"
        /\ retryTimer' = retryTimer /\ jwsLoops' = jwsLoops
    BY <1>10 DEF HandshakeFails, TypeOK
  <2>2. QED
    BY <1>old, <2>1
<1>11. CASE UNCHANGED vars
  BY <1>11, <1>stopping DEF vars, RunInv
<1>12. QED
  BY <1>1, <1>2, <1>3, <1>4, <1>5, <1>6, <1>7, <1>8, <1>9, <1>10, <1>11 DEF Next, PeerStep

\* A peer that was started when it was stopped neither starts its server nor opens its
\* agent again.
LEMMA StartedStep ==
    TypeOK /\ RunInv /\ StartedInv /\ StopIsFinal /\ [Next]_vars => StartedInv'
<1> DEFINE Part(p) == /\ http[p] = "starting" => starting[p] = "listen"
                      /\ Stopping /\ ~interrupted[p] => starting[p] = "done"
                      /\ ~interrupted[p] => \A n \in Signals : stopping[p][n] \in {"http", "done"} =>
                             http[p] \in {"stopping", "stopped"} /\ agent[p] = "closed"
<1> SUFFICES ASSUME TypeOK, RunInv, StartedInv, StopIsFinal, [Next]_vars, NEW p \in Peers
             PROVE  Part(p)'
  BY DEF StartedInv
<1>old. Part(p) /\ (Stopping /\ ~interrupted[p] => run[p] = "none")
  BY DEF StartedInv, StopIsFinal
<1>ended. \A n \in Signals : stopping[p][n] \in {"http", "done"} => Stopping
  BY DEF Stopping, signalled
<1>1. ASSUME NEW q \in Peers, PeerStep(q) PROVE Part(p)'
  <2>1. stopping' = stopping /\ interrupted' = interrupted /\ Stopping' = Stopping
    BY <1>1 DEF PeerStep, TokenArrives, HandshakeFails, StepFails, InitSucceeds, RetryScheduled, RetryFires,
       HttpStart, HttpStarted, HttpStartFails, Stopping, signalled
  <2>2. CASE TokenArrives(q) \/ HandshakeFails(q) \/ StepFails(q) \/ RetryFires(q)
    <3>1. http' = http /\ starting' = starting /\ (agent'[p] = agent[p] \/ run[p] # "none")
      BY <2>2 DEF TokenArrives, HandshakeFails, StepFails, stopPm4mlPart, RetryFires, TypeOK
    <3>2. QED
      BY <1>old, <1>ended, <2>1, <3>1
  <2>3. CASE InitSucceeds(q) \/ RetryScheduled(q)
    <3>1. http' = http /\ (starting'[p] = starting[p] \/ starting[p] = "pm4ml")
      BY <2>3 DEF InitSucceeds, RetryScheduled, started, TypeOK
    <3>2. agent'[p] = agent[p] \/ run[p] # "none"
      BY <2>3 DEF InitSucceeds, RetryScheduled, TypeOK
    <3>3. QED
      BY <1>old, <1>ended, <2>1, <3>1, <3>2
  <2>4. CASE q # p
    BY <1>1, <1>old, <2>1, <2>4, OtherPeers
  <2>5. CASE HttpStart(p)
    <3>1. /\ starting[p] = "http" /\ agent' = agent
          /\ \/ http'[p] = "starting" /\ starting'[p] = "listen"
             \/ http' = http /\ starting' = starting
      BY <2>5 DEF HttpStart, TypeOK
    <3>2. QED
      BY <1>old, <1>ended, <2>1, <3>1
  <2>6. CASE HttpStarted(p)
    <3>1. /\ http[p] = "starting" /\ agent' = agent
          /\ http'[p] = "up" /\ starting'[p] = "done"
      BY <2>6 DEF HttpStarted, TypeOK
    <3>2. QED
      BY <1>old, <1>ended, <2>1, <3>1
  <2>7. CASE HttpStartFails(p)
    <3>1. http' = http /\ starting' = starting /\ agent' = agent
      BY <2>7 DEF HttpStartFails
    <3>2. QED
      BY <1>old, <2>1, <3>1
  <2>8. QED
    BY <1>1, <2>2, <2>3, <2>4, <2>5, <2>6, <2>7 DEF PeerStep
<1>2. ASSUME NEW q \in Peers, NEW n \in Signals, StopStep(q, n) PROVE Part(p)'
  <2>1. Stopping
    BY <1>2 DEF StopStep, HttpStop, HttpStopped, Stopping, signalled
  <2>2. starting' = starting /\ interrupted' = interrupted
    BY <1>2 DEF StopStep, HttpStop, HttpStopped
  <2>3. CASE p = q
    <3>1. CASE HttpStop(q, n)
      <4>1. /\ agent'[p] = "closed"
            /\ http'[p] = "stopping" \/ (http' = http /\ stopping' = stopping)
        BY <2>3, <3>1 DEF HttpStop, TypeOK
      <4>2. QED
        BY <1>old, <2>1, <2>2, <4>1
    <3>2. CASE HttpStopped(q, n)
      <4>1. stopping[p][n] = "http" /\ agent' = agent /\ http'[p] = "stopped"
        BY <2>3, <3>2 DEF HttpStopped, TypeOK
      <4>2. QED
        BY <1>old, <2>1, <2>2, <4>1
    <3>3. QED
      BY <1>2, <3>1, <3>2 DEF StopStep
  <2>4. CASE p # q
    <3>1. stopping'[p] = stopping[p]
      BY <1>2, <2>4 DEF StopStep, HttpStop, HttpStopped, TypeOK
    <3>2. http'[p] = http[p] /\ agent'[p] = agent[p]
      <4>1. CASE HttpStop(q, n)
        BY <2>4, <4>1 DEF HttpStop, TypeOK
      <4>2. CASE HttpStopped(q, n)
        BY <2>4, <4>2 DEF HttpStopped, TypeOK
      <4>3. QED
        BY <1>2, <4>1, <4>2 DEF StopStep
    <3>3. QED
      BY <1>old, <2>1, <2>2, <3>1, <3>2
  <2>5. QED
    BY <2>3, <2>4
<1>3. ASSUME NEW n \in Signals, Signal(n) PROVE Part(p)'
  <2>1. \A m \in Signals : stopping'[p][m] \in {"http", "done"} => Stopping /\ stopping[p][m] = stopping'[p][m]
    BY <1>3, <1>ended, SignalEffect
  <2>2. agent[p] = "closed" => agent'[p] = "closed"
    BY <1>3, SignalEffect DEF closing
  <2>3. QED
    BY <1>3, <1>old, <2>1, <2>2, SignalEffect
<1>4. CASE UNCHANGED vars
  BY <1>4, <1>old DEF vars, Stopping, signalled
<1>5. QED
  BY <1>1, <1>2, <1>3, <1>4 DEF Next

\* As long as nobody stops it, a peer is either ready or on its way.
LEMMA ReadyStep ==
    TypeOK /\ RunInv /\ ReadyMeansStarted /\ NeverGivesUp /\ [Next]_vars
        => ReadyMeansStarted' /\ NeverGivesUp'
<1> DEFINE Ready(p)  == pm4mlEnabled /\ isReady[p] => /\ run[p] = "none" /\ ~retryTimer[p]
                                                     /\ updates[p] /\ agent[p] = "open" /\ jwsLoops[p] = 1
           Trying(p) == exit = "running" /\ ~isReady[p] => run[p] # "none" \/ retryTimer[p]
<1> SUFFICES ASSUME TypeOK, RunInv, ReadyMeansStarted, NeverGivesUp, [Next]_vars,
                    NEW p \in Peers, ~Stopping'
             PROVE  Ready(p)' /\ Trying(p)'
  BY DEF ReadyMeansStarted, NeverGivesUp, Running
<1>stopping. ~Stopping
  BY StoppingStep
<1>old. Ready(p) /\ Trying(p)
  BY <1>stopping DEF ReadyMeansStarted, NeverGivesUp, Running
<1>run. /\ run[p] = "init" => updates[p] /\ agent[p] = "opening"
        /\ run[p] # "none" => jwsLoops[p] = 0 /\ ~retryTimer[p] /\ pm4mlEnabled
  BY <1>stopping DEF RunInv
<1>1. ASSUME NEW q \in Peers, PeerStep(q) PROVE Ready(p)' /\ Trying(p)'
  <2>1. CASE p = q
    <3>1. CASE TokenArrives(p) \/ HandshakeFails(p) \/ RetryFires(p) \/ StepFails(p)
      <4>1. run'[p] # "none" /\ isReady' = isReady /\ (run[p] # "none" \/ retryTimer[p])
        BY <3>1 DEF TokenArrives, HandshakeFails, RetryFires, StepFails, TypeOK
      <4>2. QED
        BY <1>old, <4>1
    <3>2. CASE InitSucceeds(p)
      <4>1. jwsLoops[p] = 0 /\ agent[p] = "opening" /\ updates[p] /\ ~retryTimer[p]
        BY <1>run, <3>2 DEF InitSucceeds
      <4>2. run'[p] = "none" /\ agent'[p] = "open" /\ jwsLoops'[p] = jwsLoops[p] + 1 /\ isReady'[p]
        BY <3>2, <4>1 DEF InitSucceeds, TypeOK
      <4>3. updates'[p] /\ ~retryTimer'[p]
        BY <3>2, <4>1 DEF InitSucceeds
      <4>4. QED
        BY <4>1, <4>2, <4>3
    <3>3. CASE RetryScheduled(p)
      BY <3>3 DEF RetryScheduled, TypeOK
    <3>4. CASE HttpStart(p) \/ HttpStarted(p) \/ HttpStartFails(p)
      BY <1>old, <3>4 DEF HttpStart, HttpStarted, HttpStartFails, Running
    <3>5. QED
      BY <1>1, <2>1, <3>1, <3>2, <3>3, <3>4 DEF PeerStep
  <2>2. CASE p # q
    <3>1. exit' = "running" => exit = "running"
      BY <1>1 DEF PeerStep, TokenArrives, HandshakeFails, StepFails, InitSucceeds, RetryScheduled,
         RetryFires, HttpStart, HttpStarted, HttpStartFails, Running
    <3>2. QED
      BY <1>1, <1>old, <2>2, <3>1, OtherPeers
  <2>3. QED
    BY <2>1, <2>2
<1>2. ASSUME NEW q \in Peers, NEW n \in Signals, StopStep(q, n) PROVE FALSE
  BY <1>2, <1>stopping DEF StopStep, HttpStop, HttpStopped, Stopping, signalled
<1>3. ASSUME NEW n \in Signals, Signal(n) PROVE FALSE
  BY <1>3, SignalEffect
<1>4. CASE UNCHANGED vars
  BY <1>4, <1>old DEF vars
<1>5. QED
  BY <1>1, <1>2, <1>3, <1>4 DEF Next

\* A second loop never starts, and a started peer that is stopped has none left.
LEMMA LoopStep ==
    TypeOK /\ RunInv /\ OneJwsLoop /\ StopIsFinal /\ [Next]_vars => OneJwsLoop' /\ StopIsFinal'
<1> DEFINE Final(p) == Stopping /\ ~interrupted[p] =>
                           run[p] = "none" /\ ~retryTimer[p] /\ jwsLoops[p] = 0
<1> SUFFICES ASSUME TypeOK, RunInv, OneJwsLoop, StopIsFinal, [Next]_vars, NEW p \in Peers
             PROVE  jwsLoops'[p] <= 1 /\ Final(p)'
  BY DEF OneJwsLoop, StopIsFinal
<1>number. jwsLoops[p] \in Nat /\ jwsLoops[p] <= 1
  BY DEF OneJwsLoop, TypeOK
<1>old. jwsLoops[p] \in {0, 1} /\ Final(p)
  BY <1>number DEF StopIsFinal
<1>run. run[p] # "none" => jwsLoops[p] = 0
  BY DEF RunInv
<1>1. ASSUME NEW q \in Peers, PeerStep(q) PROVE jwsLoops'[p] <= 1 /\ Final(p)'
  <2>1. interrupted' = interrupted /\ Stopping' = Stopping
    BY <1>1 DEF PeerStep, TokenArrives, HandshakeFails, StepFails, InitSucceeds, RetryScheduled, RetryFires,
       HttpStart, HttpStarted, HttpStartFails, Stopping, signalled
  <2>2. \/ run'[p] = run[p] /\ retryTimer'[p] = retryTimer[p] /\ jwsLoops'[p] = jwsLoops[p]
        \/ (run[p] # "none" \/ retryTimer[p]) /\ jwsLoops'[p] \in {jwsLoops[p], loopCleared(p)}
        \/ run[p] # "none" /\ jwsLoops'[p] = jwsLoops[p] + 1
    <3>1. CASE TokenArrives(q) \/ HandshakeFails(q) \/ RetryFires(q) \/ RetryScheduled(q)
      BY <3>1 DEF TokenArrives, HandshakeFails, RetryFires, RetryScheduled, TypeOK
    <3>2. CASE StepFails(q)
      BY <3>2 DEF StepFails, stopPm4mlPart, TypeOK
    <3>3. CASE InitSucceeds(q)
      BY <3>3 DEF InitSucceeds, TypeOK
    <3>4. CASE HttpStart(q) \/ HttpStarted(q) \/ HttpStartFails(q)
      BY <3>4 DEF HttpStart, HttpStarted, HttpStartFails
    <3>5. QED
      BY <1>1, <3>1, <3>2, <3>3, <3>4 DEF PeerStep
  <2>3. loopCleared(p) <= 1
    BY <1>old DEF loopCleared
  <2>4. QED
    BY <1>old, <1>run, <2>1, <2>2, <2>3
<1>2. ASSUME NEW q \in Peers, NEW n \in Signals, StopStep(q, n) PROVE jwsLoops'[p] <= 1 /\ Final(p)'
  <2>1. Stopping
    BY <1>2 DEF StopStep, HttpStop, HttpStopped, Stopping, signalled
  <2>2. interrupted' = interrupted /\ run' = run /\ retryTimer' = retryTimer /\ jwsLoops' = jwsLoops
    BY <1>2 DEF StopStep, HttpStop, HttpStopped
  <2>3. QED
    BY <1>old, <2>1, <2>2
<1>3. ASSUME NEW n \in Signals, Signal(n) PROVE jwsLoops'[p] <= 1 /\ Final(p)'
  <2>1. loopCleared(p) = 0
    BY <1>old DEF loopCleared
  <2>2. QED
    BY <1>3, <1>old, <2>1, SignalEffect
<1>4. CASE UNCHANGED vars
  BY <1>4, <1>old DEF vars, Stopping, signalled
<1>5. QED
  BY <1>1, <1>2, <1>3, <1>4 DEF Next

\* The process ends gracefully only with the last stop() of a signal.
LEMMA EndStep ==
    TypeOK /\ StartedInv /\ StartedInv' /\ StopsBothPeers /\ [Next]_vars => StopsBothPeers'
<1> SUFFICES ASSUME TypeOK, StartedInv, StartedInv', StopsBothPeers, [Next]_vars, exit' = "stopped",
                    NEW p \in Peers, ~interrupted'[p]
             PROVE  http'[p] \in {"stopping", "stopped"} /\ agent'[p] = "closed"
  BY DEF StopsBothPeers
<1>1. CASE UNCHANGED vars
  BY <1>1 DEF vars, StopsBothPeers
<1>2. ASSUME NEW q \in Peers, NEW n \in Signals, HttpStopped(q, n)
      PROVE  http'[p] \in {"stopping", "stopped"} /\ agent'[p] = "closed"
  <2>1. ended(q, n)
    BY <1>2 DEF HttpStopped, Running
  <2>2. stopping'[p][n] = "done"
    BY <1>2, <2>1 DEF HttpStopped, ended, TypeOK
  <2>3. QED
    BY <2>2 DEF StartedInv
<1>3. CASE exit' = exit /\ exit = "running"
  BY <1>3
<1>4. ASSUME ~(UNCHANGED vars), ~(\E q \in Peers, n \in Signals : HttpStopped(q, n))
      PROVE  exit' # "stopped"
  BY <1>4 DEF Next, PeerStep, StopStep, Signal, HttpStop, TokenArrives, HandshakeFails, StepFails, InitSucceeds,
     RetryScheduled, RetryFires, HttpStart, HttpStarted, HttpStartFails, Running
<1>5. QED
  BY <1>1, <1>2, <1>4

\* What a step of a stop() sets in the chain of one signal of one peer, all others keep.
LEMMA OneChain ==
    ASSUME TypeOK, NEW q \in Peers, NEW n \in Signals, NEW x, stopping' = [stopping EXCEPT ![q][n] = x]
    PROVE  /\ stopping'[q][n] = x
           /\ \A p \in Peers, m \in Signals : p # q \/ m # n => stopping'[p][m] = stopping[p][m]
<1>1. q \in DOMAIN stopping /\ n \in DOMAIN stopping[q]
  BY DEF TypeOK
<1>2. stopping' = [stopping EXCEPT ![q] = [stopping[q] EXCEPT ![n] = x]]
  OBVIOUS
<1>3. stopping'[q] = [stopping[q] EXCEPT ![n] = x] /\ \A p \in Peers : p # q => stopping'[p] = stopping[p]
  BY <1>1, <1>2 DEF TypeOK
<1>4. \A m \in Signals : m # n => stopping'[q][m] = stopping[q][m]
  BY <1>3 DEF TypeOK
<1>5. QED
  BY <1>1, <1>3, <1>4

\* No signal comes undone, and no stop() begins but by one.
LEMMA ChainsStep ==
    ASSUME TypeOK, ChainsInv, AwaitsEnd, [Next]_vars
    PROVE  ChainsInv' /\ AwaitsEnd'
<1>types. /\ run \in [Peers -> {"none", "token", "init", "refused", "closing"}]
          /\ starting \in [Peers -> {"pm4ml", "http", "listen", "done"}]
          /\ http \in [Peers -> {"down", "starting", "up", "stopping", "stopped"}]
          /\ \A p \in Peers, n \in Signals : stopping[p][n] \in {"none", "close", "http", "done"}
  BY DEF TypeOK
<1>chain. ASSUME NEW p \in Peers, NEW n \in Signals, NEW x \in {"http", "done"},
                 stopping' = [stopping EXCEPT ![p][n] = x]
          PROVE  /\ stopping'[p][n] = x
                 /\ \A q \in Peers, m \in Signals : q # p \/ m # n => stopping'[q][m] = stopping[q][m]
  <2>1. stopping'[p][n] = x
    BY <1>chain DEF TypeOK
  <2>2. \A q \in Peers, m \in Signals : q # p \/ m # n => stopping'[q][m] = stopping[q][m]
    BY <1>chain, OneChain
  <2>3. QED
    BY <2>1, <2>2
<1> USE DEF ChainsInv, AwaitsEnd, signalled, Running
<1>peer. ASSUME NEW p \in Peers, PeerStep(p) PROVE exit = "running" /\ stopping' = stopping
  BY <1>peer DEF PeerStep, TokenArrives, HandshakeFails, StepFails, InitSucceeds, RetryScheduled, RetryFires,
     HttpStart, HttpStarted, HttpStartFails
<1>1. ASSUME NEW p \in Peers, TokenArrives(p) \/ HandshakeFails(p) \/ StepFails(p) \/ RetryFires(p)
      PROVE  ChainsInv' /\ AwaitsEnd'
  <2>1. /\ UNCHANGED <<stopping, starting, http, exit>>
        /\ run'[p] # "none" /\ \A q \in Peers \ {p} : run'[q] = run[q]
    <3>1. CASE TokenArrives(p)
      BY <3>1, <1>types DEF TokenArrives
    <3>2. CASE StepFails(p)
      BY <3>2, <1>types DEF StepFails
    <3>3. CASE RetryFires(p)
      BY <3>3, <1>types DEF RetryFires
    <3>4. CASE HandshakeFails(p)
      BY <3>4, <1>types DEF HandshakeFails
    <3>5. QED
      BY <1>1, <3>1, <3>2, <3>3, <3>4
  <2>2. QED
    BY <2>1
<1>2. ASSUME NEW p \in Peers, InitSucceeds(p) \/ RetryScheduled(p)
      PROVE  ChainsInv' /\ AwaitsEnd'
  <2>1. /\ UNCHANGED <<stopping, http, exit>>
        /\ starting'[p] # "pm4ml" /\ (starting'[p] = "listen" => starting[p] = "listen")
        /\ \A q \in Peers \ {p} : run'[q] = run[q] /\ starting'[q] = starting[q]
    <3>1. CASE InitSucceeds(p)
      BY <3>1, <1>types DEF InitSucceeds, started
    <3>2. CASE RetryScheduled(p)
      BY <3>2, <1>types DEF RetryScheduled, started
    <3>3. QED
      BY <1>2, <3>1, <3>2
  <2>2. QED
    BY <1>2, <1>peer, <2>1 DEF PeerStep
<1>3. ASSUME NEW p \in Peers, HttpStart(p) PROVE ChainsInv' /\ AwaitsEnd'
  <2>1. SUFFICES ASSUME exit' = "running" PROVE ChainsInv' /\ AwaitsEnd'
    BY <1>3 DEF HttpStart
  <2>2. /\ UNCHANGED <<stopping, run>> /\ exit = "running"
        /\ http[p] \in {"down", "stopped"} /\ http'[p] = "starting" /\ starting'[p] = "listen"
        /\ \A q \in Peers \ {p} : http'[q] = http[q] /\ starting'[q] = starting[q]
    BY <1>3, <1>types, <2>1 DEF HttpStart
  <2>3. QED
    BY <2>2
<1>4. ASSUME NEW p \in Peers, HttpStarted(p) PROVE ChainsInv' /\ AwaitsEnd'
  <2>1. /\ UNCHANGED <<stopping, run, exit>> /\ exit = "running"
        /\ http[p] = "starting" /\ http'[p] = "up" /\ starting'[p] = "done"
        /\ \A q \in Peers \ {p} : http'[q] = http[q] /\ starting'[q] = starting[q]
    BY <1>4, <1>types DEF HttpStarted
  <2>2. QED
    BY <2>1
<1>5. ASSUME NEW p \in Peers, HttpStartFails(p) PROVE ChainsInv' /\ AwaitsEnd'
  BY <1>5 DEF HttpStartFails
<1>6. ASSUME NEW p \in Peers, NEW n \in Signals, HttpStop(p, n) PROVE ChainsInv' /\ AwaitsEnd'
  <2>1. exit = "running" /\ stopping[p][n] = "close"
    BY <1>6 DEF HttpStop
  <2>2. CASE exit' # "running"
    <3>1. stopping' = stopping
      BY <1>6, <2>1, <2>2 DEF HttpStop
    <3>2. QED
      BY <2>2, <3>1
  <2>3. CASE exit' = "running"
    <3>1. /\ stopping' = [stopping EXCEPT ![p][n] = "http"]
          /\ http[p] \notin {"starting", "stopping"} /\ http'[p] = "stopping"
          /\ \A q \in Peers \ {p} : http'[q] = http[q]
          /\ UNCHANGED <<run, starting>>
      <4>1. exit' # "stop failed"
        BY <2>3
      <4>2. /\ stopping' = [stopping EXCEPT ![p][n] = "http"]
            /\ http[p] \notin {"starting", "stopping"}
            /\ http' = [http EXCEPT ![p] = "stopping"]
            /\ UNCHANGED <<run, starting>>
        BY <1>6, <4>1 DEF HttpStop
      <4>3. http'[p] = "stopping" /\ \A q \in Peers \ {p} : http'[q] = http[q]
        BY <1>types, <4>2
      <4>4. QED
        BY <4>2, <4>3
    <3>2. /\ stopping'[p][n] = "http"
          /\ \A q \in Peers, m \in Signals : q # p \/ m # n => stopping'[q][m] = stopping[q][m]
      BY <1>chain, <3>1
    <3>3. ChainsInv'
      BY <2>1, <3>1, <3>2
    <3>4. AwaitsEnd'
      BY <2>1, <3>1, <3>2
    <3>5. QED
      BY <3>3, <3>4
  <2>4. QED
    BY <2>2, <2>3
<1>7. ASSUME NEW p \in Peers, NEW n \in Signals, HttpStopped(p, n) PROVE ChainsInv' /\ AwaitsEnd'
  <2>1. /\ exit = "running" /\ stopping[p][n] = "http"
        /\ stopping' = [stopping EXCEPT ![p][n] = "done"]
        /\ http'[p] = "stopped" /\ \A q \in Peers \ {p} : http'[q] = http[q]
        /\ UNCHANGED <<run, starting>>
    BY <1>7, <1>types DEF HttpStopped
  <2>2. /\ stopping'[p][n] = "done"
        /\ \A q \in Peers, m \in Signals : q # p \/ m # n => stopping'[q][m] = stopping[q][m]
    BY <1>chain, <2>1
  <2>3. http[p] = "stopping" /\ \A m \in Signals : stopping[p][m] = "http" => m = n
    BY <2>1
  <2>4. ChainsInv'
    BY <2>1, <2>2, <2>3
  <2>5. AwaitsEnd'
    <3>1. SUFFICES ASSUME exit' = "running" PROVE AwaitsEnd'
      OBVIOUS
    <3>2. PICK q \in Peers \ {p} : stopping[q][n] # "done"
      <4>1. ~ended(p, n)
        BY <1>7, <3>1 DEF HttpStopped
      <4>2. QED
        BY <4>1 DEF ended
    <3>3. stopping'[q][n] \in {"close", "http"}
      BY <1>types, <2>1, <2>2, <3>2
    <3>4. ASSUME NEW m \in Signals, \E r \in Peers : stopping'[r][m] # "none"
          PROVE  \E r \in Peers : stopping'[r][m] \in {"close", "http"}
      <4>1. CASE m = n
        BY <3>3, <4>1
      <4>2. CASE m # n
        BY <2>1, <2>2, <3>4, <4>2
      <4>3. QED
        BY <4>1, <4>2
    <3>5. \A r \in Peers : /\ starting'[r] = "pm4ml" => run'[r] # "none"
                           /\ starting'[r] = "listen" => http'[r] = "starting"
      BY <2>1, <2>3
    <3>6. QED
      BY <3>4, <3>5
  <2>6. QED
    BY <2>4, <2>5
<1>8. ASSUME NEW n \in Signals, Signal(n) PROVE ChainsInv' /\ AwaitsEnd'
  <2>1. /\ UNCHANGED <<run, starting, http, exit>> /\ exit = "running"
        /\ \A p \in Peers : stopping'[p][n] = "close"
        /\ \A p \in Peers, m \in Signals \ {n} : stopping'[p][m] = stopping[p][m]
    BY <1>8 DEF Signal, TypeOK
  <2>2. QED
    BY <2>1
<1>9. CASE UNCHANGED vars
  BY <1>9 DEF vars
<1>10. QED
  BY <1>1, <1>2, <1>3, <1>4, <1>5, <1>6, <1>7, <1>8, <1>9 DEF Next, PeerStep, StopStep

--------------------------------------------------------------------------------
(* The theorems *)

\* The conjunction of all parts is inductive.
THEOREM Invariance == Spec => []IInv
<1>1. Init => IInv
  <2>1. SUFFICES ASSUME Init PROVE IInv
    OBVIOUS
  <2>2. ~Stopping
    BY <2>1 DEF Init, Stopping, signalled
  <2>3. TypeOK
    BY <2>1, PeerServerAssumption DEF Init, TypeOK
  <2>4. RunInv
    BY <2>1, PeerServerAssumption DEF Init, RunInv
  <2>5. StartedInv
    BY <2>1, <2>2 DEF Init, StartedInv
  <2>6. ReadyMeansStarted /\ NeverGivesUp
    BY <2>1, PeerServerAssumption DEF Init, ReadyMeansStarted, NeverGivesUp
  <2>7. OneJwsLoop /\ StopIsFinal /\ StopsBothPeers
    BY <2>1, <2>2 DEF Init, OneJwsLoop, StopIsFinal, StopsBothPeers
  <2>8. ChainsInv /\ AwaitsEnd
    BY <2>1, PeerServerAssumption DEF Init, ChainsInv, AwaitsEnd, signalled
  <2>9. QED
    BY <2>3, <2>4, <2>5, <2>6, <2>7, <2>8 DEF IInv
<1>2. IInv /\ [Next]_vars => IInv'
  BY TypeStep, RunStep, StartedStep, ReadyStep, LoopStep, EndStep, ChainsStep DEF IInv
<1>3. QED
  BY <1>1, <1>2, PTL DEF Spec

\* No start and no stop waits for a chain that is gone, after any number of failed starts
\* and of signals; a run with a refused handshake is there, but does not end
\* (PeerServer.ts:35-51, InterSchemeProxyAdapter.ts:18-25).
THEOREM NoneIsAbandoned == Spec => []AwaitsEnd
<1>1. IInv => AwaitsEnd
  BY DEF IInv
<1>2. QED
  BY <1>1, Invariance, PTL

\* Every variable stays in its domain (PeerServer.ts:16-24 and where its chains are).
THEOREM TypeCorrect == Spec => []TypeOK
<1>1. IInv => TypeOK
  BY DEF IInv
<1>2. QED
  BY <1>1, Invariance, PTL

\* A peer that nobody stops reports itself ready only with everything that takes
\* (PeerServer.ts:67-108).
THEOREM ReadyIsStarted == Spec => []ReadyMeansStarted
<1>1. IInv => ReadyMeansStarted
  BY DEF IInv
<1>2. QED
  BY <1>1, Invariance, PTL

\* After every failure that startPm4mlPart() sees there is a run or a retry
\* (PeerServer.ts:67-108).
THEOREM AlwaysTrying == Spec => []NeverGivesUp
<1>1. IInv => NeverGivesUp
  BY DEF IInv
<1>2. QED
  BY <1>1, Invariance, PTL

\* No peer JWS loop is lost sight of (PeerServer.ts:133-142).
THEOREM LoopIsSingle == Spec => []OneJwsLoop
<1>1. IInv => OneJwsLoop
  BY DEF IInv
<1>2. QED
  BY <1>1, Invariance, PTL

\* A peer that was started and then stopped stays stopped (PeerServer.ts:42-51, 84-97).
THEOREM StoppedForGood == Spec => []StopIsFinal
<1>1. IInv => StopIsFinal
  BY DEF IInv
<1>2. QED
  BY <1>1, Invariance, PTL

\* A graceful end has stopped every peer that was started
\* (InterSchemeProxyAdapter.ts:18-25).
THEOREM GracefulEndStopsAll == Spec => []StopsBothPeers
<1>1. IInv => StopsBothPeers
  BY DEF IInv
<1>2. QED
  BY <1>1, Invariance, PTL

--------------------------------------------------------------------------------
(* What InterSchemeProxyAdapter relies on *)

\* What phaseOf() says of a peer before and after the first signal.
LEMMA PhaseOf ==
    ASSUME NEW p \in Peers
    PROVE  /\ ~Stopping => phaseOf(p) = IF isReady[p] THEN "ready" ELSE "starting"
           /\ Stopping => /\ jwsLoops[p] # 0 => phaseOf(p) = "ready"
                          /\ jwsLoops[p] = 0 /\ (run[p] # "none" \/ retryTimer[p]) => phaseOf(p) = "starting"
                          /\ jwsLoops[p] = 0 /\ run[p] = "none" /\ ~retryTimer[p] => phaseOf(p) = "closed"
BY DEF phaseOf

\* The same of the next state.
LEMMA NextPhaseOf ==
    ASSUME NEW p \in Peers
    PROVE  /\ ~Stopping' => phaseOf(p)' = IF isReady'[p] THEN "ready" ELSE "starting"
           /\ Stopping' => /\ jwsLoops'[p] # 0 => phaseOf(p)' = "ready"
                           /\ jwsLoops'[p] = 0 /\ (run'[p] # "none" \/ retryTimer'[p]) => phaseOf(p)' = "starting"
                           /\ jwsLoops'[p] = 0 /\ run'[p] = "none" /\ ~retryTimer'[p] => phaseOf(p)' = "closed"
BY DEF phaseOf

\* A peer with a run or a retry is being started.
LEMMA StartingPhase ==
    ASSUME pm4mlEnabled, RunInv, ReadyMeansStarted, NEW p \in Peers, run[p] # "none" \/ retryTimer[p]
    PROVE  phaseOf(p) = "starting" /\ jwsLoops[p] = 0
<1>1. jwsLoops[p] = 0
  BY DEF RunInv
<1>2. CASE Stopping
  BY <1>1, <1>2, PhaseOf
<1>3. CASE ~Stopping
  <2>1. ~isReady[p]
    BY <1>3 DEF ReadyMeansStarted
  <2>2. QED
    BY <1>1, <1>3, <2>1, PhaseOf
<1>4. QED
  BY <1>2, <1>3

\* What the links of the peers are made of.
LEMMA LinkValues ==
    /\ linkConnected \in [Peers -> BOOLEAN] /\ linkListening \in [Peers -> BOOLEAN]
    /\ linkConnected' \in [Peers -> BOOLEAN] /\ linkListening' \in [Peers -> BOOLEAN]
    /\ \A p \in Peers : /\ linkPhase[p] = phaseOf(p) /\ linkPhase'[p] = phaseOf(p)'
                        /\ linkConnected[p] <=> agent[p] \in {"opening", "open"}
                        /\ linkConnected'[p] <=> agent'[p] \in {"opening", "open"}
                        /\ linkListening[p] <=> \A n \in Signals : stopping[p][n] # "done"
                        /\ linkListening'[p] <=> \A n \in Signals : stopping'[p][n] # "done"
<1>1. linkConnected \in [Peers -> BOOLEAN] /\ linkConnected' \in [Peers -> BOOLEAN]
  BY DEF linkConnected
<1>2. linkListening \in [Peers -> BOOLEAN] /\ linkListening' \in [Peers -> BOOLEAN]
  BY DEF linkListening
<1>3. \A p \in Peers : linkPhase[p] = phaseOf(p) /\ linkPhase'[p] = phaseOf(p)'
  BY DEF linkPhase
<1>4. \A p \in Peers : /\ linkConnected[p] <=> agent[p] \in {"opening", "open"}
                       /\ linkConnected'[p] <=> agent'[p] \in {"opening", "open"}
  BY DEF linkConnected
<1>5. \A p \in Peers : /\ linkListening[p] <=> \A n \in Signals : stopping[p][n] # "done"
                       /\ linkListening'[p] <=> \A n \in Signals : stopping'[p][n] # "done"
  BY DEF linkListening
<1>6. QED
  BY <1>1, <1>2, <1>3, <1>4, <1>5

\* Two functions to BOOLEAN are equal if they agree everywhere, and one of them may be the
\* other with one value set.
LEMMA EqualFlags ==
    ASSUME NEW f \in [Peers -> BOOLEAN], NEW g \in [Peers -> BOOLEAN], \A p \in Peers : f[p] <=> g[p]
    PROVE  f = g
OBVIOUS

LEMMA FlagSet ==
    ASSUME NEW f \in [Peers -> BOOLEAN], NEW g \in [Peers -> BOOLEAN], NEW q \in Peers,
           \A p \in Peers : p # q => (g[p] <=> f[p])
    PROVE  /\ g[q] => g = [f EXCEPT ![q] = TRUE]
           /\ ~g[q] => g = [f EXCEPT ![q] = FALSE]
<1>1. [f EXCEPT ![q] = TRUE] \in [Peers -> BOOLEAN] /\ [f EXCEPT ![q] = FALSE] \in [Peers -> BOOLEAN]
  OBVIOUS
<1>2. ASSUME g[q] PROVE g = [f EXCEPT ![q] = TRUE]
  <2>1. \A p \in Peers : g[p] <=> [f EXCEPT ![q] = TRUE][p]
    BY <1>2
  <2>2. QED
    BY <1>1, <2>1, EqualFlags
<1>3. ASSUME ~g[q] PROVE g = [f EXCEPT ![q] = FALSE]
  <2>1. \A p \in Peers : g[p] <=> [f EXCEPT ![q] = FALSE][p]
    BY <1>3
  <2>2. QED
    BY <1>1, <2>1, EqualFlags
<1>4. QED
  BY <1>2, <1>3

\* The connection of one peer changes, or none.
LEMMA ConnectedChange ==
    ASSUME NEW q \in Peers, \A p \in Peers : p # q => agent'[p] = agent[p]
    PROVE  /\ agent'[q] \in {"opening", "open"} => linkConnected' = [linkConnected EXCEPT ![q] = TRUE]
           /\ agent'[q] \notin {"opening", "open"} => linkConnected' = [linkConnected EXCEPT ![q] = FALSE]
           /\ (agent'[q] \in {"opening", "open"} <=> agent[q] \in {"opening", "open"})
                  => linkConnected' = linkConnected
<1>1. \A p \in Peers : p # q => (linkConnected'[p] <=> linkConnected[p])
  BY LinkValues
<1>2. linkConnected'[q] <=> agent'[q] \in {"opening", "open"}
  BY LinkValues
<1>3. linkConnected \in [Peers -> BOOLEAN] /\ linkConnected' \in [Peers -> BOOLEAN]
  BY LinkValues
<1>4. ASSUME agent'[q] \in {"opening", "open"} <=> agent[q] \in {"opening", "open"}
      PROVE  linkConnected' = linkConnected
  <2>1. linkConnected[q] <=> agent[q] \in {"opening", "open"}
    BY LinkValues
  <2>2. \A p \in Peers : linkConnected'[p] <=> linkConnected[p]
    BY <1>1, <1>2, <1>4, <2>1
  <2>3. QED
    BY <1>3, <2>2, EqualFlags
<1>5. QED
  BY <1>1, <1>2, <1>3, <1>4, FlagSet

\* Whether stop() of a peer has ended is as before.
LEMMA SameListening ==
    ASSUME \A p \in Peers, m \in Signals : stopping'[p][m] = "done" <=> stopping[p][m] = "done"
    PROVE  linkListening' = linkListening
<1>1. \A p \in Peers : linkListening'[p] <=> linkListening[p]
  BY LinkValues
<1>2. QED
  BY <1>1, LinkValues, EqualFlags

\* The phase of one peer changes, or none.
LEMMA PhaseChange ==
    ASSUME NEW q \in Peers, \A p \in Peers : p # q => phaseOf(p)' = phaseOf(p)
    PROVE  /\ linkPhase' = [linkPhase EXCEPT ![q] = phaseOf(q)']
           /\ phaseOf(q)' = phaseOf(q) => linkPhase' = linkPhase
<1>1. linkPhase' = [p \in Peers |-> phaseOf(p)'] /\ linkPhase = [p \in Peers |-> phaseOf(p)]
  BY DEF linkPhase
<1>2. QED
  BY <1>1

\* A step of a start or of a retry signals nothing.
LEMMA NoSignal ==
    ASSUME NEW q \in Peers, PeerStep(q)
    PROVE  stopping' = stopping /\ (Stopping' <=> Stopping) /\ linkListening' = linkListening
<1>1. stopping' = stopping
  BY DEF PeerStep, TokenArrives, HandshakeFails, StepFails, InitSucceeds, RetryScheduled, RetryFires,
     HttpStart, HttpStarted, HttpStartFails
<1>2. Stopping' <=> Stopping
  BY <1>1 DEF Stopping, signalled
<1>3. linkListening' = linkListening
  BY <1>1, SameListening
<1>4. QED
  BY <1>1, <1>2, <1>3

\* When nothing but the connection of a peer changes, its link connects, disconnects or
\* stays as it is.
LEMMA ConnectionLinks ==
    ASSUME NEW q \in Peers, linkPhase' = linkPhase, Stopping' <=> Stopping, linkListening' = linkListening,
           \A p \in Peers : p # q => agent'[p] = agent[p],
           phaseOf(q) = "starting" \/ agent'[q] \notin {"opening", "open"} \/ agent'[q] = agent[q]
    PROVE  Links!Next \/ UNCHANGED Links!vars
<1>1. CASE agent'[q] \in {"opening", "open"} <=> agent[q] \in {"opening", "open"}
  <2>1. linkConnected' = linkConnected
    BY <1>1, ConnectedChange
  <2>2. QED
    BY <2>1 DEF Links!vars
<1>2. CASE agent'[q] \in {"opening", "open"} /\ agent[q] \notin {"opening", "open"}
  <2>1. linkConnected' = [linkConnected EXCEPT ![q] = TRUE]
    BY <1>2, ConnectedChange
  <2>2. ~linkConnected[q] /\ linkPhase[q] = "starting"
    BY <1>2, LinkValues
  <2>3. linkPhase[q] # "closed"
    BY <2>2
  <2>4. Links!Connect(q)
    BY <2>1, <2>2, <2>3 DEF Links!Connect
  <2>5. QED
    BY <2>4 DEF Links!Next
<1>3. CASE agent'[q] \notin {"opening", "open"} /\ agent[q] \in {"opening", "open"}
  <2>1. linkConnected' = [linkConnected EXCEPT ![q] = FALSE]
    BY <1>3, ConnectedChange
  <2>2. linkConnected[q]
    BY <1>3, LinkValues
  <2>3. Links!Disconnect(q)
    BY <2>1, <2>2 DEF Links!Disconnect
  <2>4. QED
    BY <2>3 DEF Links!Next
<1>4. QED
  BY <1>1, <1>2, <1>3

\* A step of a start or of a retry is one of the link of its peer, or none.
LEMMA PeerStepLinks ==
    ASSUME pm4mlEnabled, TypeOK, RunInv, ReadyMeansStarted, NEW q \in Peers, PeerStep(q)
    PROVE  Links!Next \/ UNCHANGED Links!vars
<1>stop. (Stopping' <=> Stopping) /\ linkListening' = linkListening
  BY NoSignal
<1>agents. \A p \in Peers : p # q => agent'[p] = agent[p]
  BY OtherPeers
<1>phases. \A p \in Peers : p # q => phaseOf(p)' = phaseOf(p)
  <2>1. ASSUME NEW p \in Peers, p # q PROVE phaseOf(p)' = phaseOf(p)
    <3>1. run'[p] = run[p] /\ retryTimer'[p] = retryTimer[p] /\ jwsLoops'[p] = jwsLoops[p] /\ isReady'[p] = isReady[p]
      BY <2>1, OtherPeers
    <3>2. QED
      BY <1>stop, <3>1 DEF phaseOf
  <2>2. QED
    BY <2>1
<1>1. CASE TokenArrives(q) \/ HandshakeFails(q) \/ StepFails(q) \/ RetryScheduled(q) \/ RetryFires(q)
  <2>1. run[q] # "none" \/ retryTimer[q]
    BY <1>1 DEF TokenArrives, HandshakeFails, StepFails, RetryScheduled, RetryFires
  <2>2. phaseOf(q) = "starting" /\ jwsLoops[q] = 0
    BY <2>1, StartingPhase
  <2>3. run'[q] # "none" \/ retryTimer'[q]
    <3>1. q \in DOMAIN run /\ q \in DOMAIN retryTimer
      BY DEF TypeOK
    <3>2. QED
      BY <1>1, <3>1 DEF TokenArrives, HandshakeFails, StepFails, RetryScheduled, RetryFires
  <2>4. jwsLoops'[q] = 0
    <3>1. q \in DOMAIN jwsLoops
      BY DEF TypeOK
    <3>2. QED
      BY <1>1, <2>2, <3>1 DEF TokenArrives, HandshakeFails, StepFails, RetryScheduled, RetryFires, stopPm4mlPart, loopCleared
  <2>5. isReady'[q] => isReady[q]
    <3>1. q \in DOMAIN isReady
      BY DEF TypeOK
    <3>2. QED
      BY <1>1, <3>1 DEF TokenArrives, HandshakeFails, StepFails, RetryScheduled, RetryFires
  <2>6. ~Stopping => ~isReady[q]
    BY <2>2, PhaseOf
  <2>7. phaseOf(q)' = "starting"
    BY <1>stop, <2>3, <2>4, <2>5, <2>6, NextPhaseOf
  <2>8. linkPhase' = linkPhase
    BY <1>phases, <2>2, <2>7, PhaseChange
  <2>9. QED
    BY <1>stop, <1>agents, <2>2, <2>8, ConnectionLinks
<1>2. CASE InitSucceeds(q)
  <2>1. run[q] = "init"
    BY <1>2 DEF InitSucceeds
  <2>2. phaseOf(q) = "starting" /\ jwsLoops[q] = 0
    BY <2>1, StartingPhase
  <2>3. jwsLoops'[q] = 1 /\ isReady'[q]
    <3>1. q \in DOMAIN jwsLoops /\ q \in DOMAIN isReady
      BY DEF TypeOK
    <3>2. jwsLoops' = [jwsLoops EXCEPT ![q] = jwsLoops[q] + 1] /\ isReady' = [isReady EXCEPT ![q] = TRUE]
      BY <1>2 DEF InitSucceeds
    <3>3. QED
      BY <2>2, <3>1, <3>2
  <2>4. phaseOf(q)' = "ready"
    <3>1. jwsLoops'[q] # 0
      BY <2>3
    <3>2. QED
      BY <2>3, <3>1, NextPhaseOf
  <2>5. agent'[q] \in {"opening", "open"} <=> agent[q] \in {"opening", "open"}
    <3>1. q \in DOMAIN agent
      BY DEF TypeOK
    <3>2. QED
      BY <1>2, <3>1 DEF InitSucceeds
  <2>6. linkConnected' = linkConnected
    BY <1>agents, <2>5, ConnectedChange
  <2>7. linkConnected[q] \/ Stopping
    <3>1. Stopping \/ agent[q] = "opening"
      BY <2>1 DEF RunInv
    <3>2. QED
      BY <3>1, LinkValues
  <2>8. linkPhase[q] = "starting" /\ linkPhase' = [linkPhase EXCEPT ![q] = "ready"]
    BY <1>phases, <2>2, <2>4, PhaseChange, LinkValues
  <2>9. Links!BecomesReady(q)
    BY <1>stop, <2>6, <2>7, <2>8 DEF Links!BecomesReady
  <2>10. QED
    BY <2>9 DEF Links!Next
<1>3. CASE HttpStart(q) \/ HttpStarted(q) \/ HttpStartFails(q)
  <2>1. UNCHANGED <<run, retryTimer, jwsLoops, isReady, agent>>
    BY <1>3 DEF HttpStart, HttpStarted, HttpStartFails
  <2>2. phaseOf(q)' = phaseOf(q)
    BY <1>stop, <2>1 DEF phaseOf
  <2>3. linkPhase' = linkPhase
    BY <1>phases, <2>2, PhaseChange
  <2>4. QED
    BY <1>stop, <1>agents, <2>1, <2>3, ConnectionLinks
<1>4. QED
  BY <1>1, <1>2, <1>3 DEF PeerStep

\* A step of a stop() leads to where a chain waits for the HTTP server or has ended.
LEMMA StopChain ==
    ASSUME TypeOK, NEW q \in Peers, NEW n \in Signals, StopStep(q, n)
    PROVE  Stopping /\ Stopping'
<1>1. stopping[q][n] # "none"
  BY DEF StopStep, HttpStop, HttpStopped
<1>2. stopping'[q][n] # "none"
  <2>1. q \in DOMAIN stopping /\ n \in DOMAIN stopping[q]
    BY DEF TypeOK
  <2>2. stopping' = stopping \/ stopping' = [stopping EXCEPT ![q][n] = "http"] \/ stopping' = [stopping EXCEPT ![q][n] = "done"]
    BY DEF StopStep, HttpStop, HttpStopped
  <2>3. QED
    BY <1>1, <2>1, <2>2
<1>3. QED
  BY <1>1, <1>2 DEF Stopping, signalled

\* A step of a stop() closes a connection or ends what the HTTP server takes, at most.
LEMMA StopStepLinks ==
    ASSUME TypeOK, NEW q \in Peers, NEW n \in Signals, StopStep(q, n)
    PROVE  Links!Next \/ UNCHANGED Links!vars
<1>stop. Stopping /\ Stopping'
  BY StopChain
<1>phase. linkPhase' = linkPhase
  <2>1. run' = run /\ retryTimer' = retryTimer /\ jwsLoops' = jwsLoops
    BY DEF StopStep, HttpStop, HttpStopped
  <2>2. \A p \in Peers : phaseOf(p)' = phaseOf(p)
    BY <1>stop, <2>1 DEF phaseOf
  <2>3. QED
    BY <2>2 DEF linkPhase
<1>1. CASE HttpStop(q, n)
  <2>1. linkListening' = linkListening
    <3>1. CASE stopping' = stopping
      BY <3>1, SameListening
    <3>2. CASE stopping[q][n] = "close" /\ stopping' = [stopping EXCEPT ![q][n] = "http"]
      <4>1. \A p \in Peers, m \in Signals : stopping'[p][m] = "done" <=> stopping[p][m] = "done"
        BY <3>2, OneChain
      <4>2. QED
        BY <4>1, SameListening
    <3>3. QED
      BY <1>1, <3>1, <3>2 DEF HttpStop
  <2>2. agent' = [agent EXCEPT ![q] = "closed"] /\ agent \in [Peers -> {"closed", "opening", "open", "closing"}]
    BY <1>1 DEF HttpStop, TypeOK
  <2>3. agent'[q] \notin {"opening", "open"} /\ \A p \in Peers : p # q => agent'[p] = agent[p]
    BY <2>2
  <2>4. QED
    BY <1>stop, <1>phase, <2>1, <2>3, ConnectionLinks
<1>2. CASE HttpStopped(q, n)
  <2>1. linkConnected' = linkConnected
    BY <1>2 DEF HttpStopped, linkConnected
  <2>2. stopping' = [stopping EXCEPT ![q][n] = "done"]
    BY <1>2 DEF HttpStopped
  <2>3. ~linkListening'[q] /\ \A p \in Peers : p # q => (linkListening'[p] <=> linkListening[p])
    <3>1. stopping'[q][n] = "done"
      BY <2>2 DEF TypeOK
    <3>2. \A p \in Peers, m \in Signals : p # q => stopping'[p][m] = stopping[p][m]
      BY <2>2, OneChain
    <3>3. QED
      BY <3>1, <3>2, LinkValues
  <2>4. linkListening' = [linkListening EXCEPT ![q] = FALSE]
    BY <2>3, LinkValues, FlagSet
  <2>5. CASE linkListening[q]
    <3>1. Links!HttpStopped(q)
      BY <1>stop, <1>phase, <2>1, <2>4, <2>5 DEF Links!HttpStopped
    <3>2. QED
      BY <3>1 DEF Links!Next
  <2>6. CASE ~linkListening[q]
    <3>1. \A p \in Peers : linkListening'[p] <=> linkListening[p]
      BY <2>3, <2>6
    <3>2. linkListening' = linkListening
      BY <3>1, LinkValues, EqualFlags
    <3>3. QED
      BY <1>stop, <1>phase, <2>1, <3>2 DEF Links!vars
  <2>7. QED
    BY <2>5, <2>6
<1>3. QED
  BY <1>1, <1>2 DEF StopStep

\* A signal is one for the links of both peers.
LEMMA SignalLinks ==
    ASSUME pm4mlEnabled, TypeOK, RunInv, ReadyMeansStarted, OneJwsLoop, NEW n \in Signals, Signal(n), Peers # {}
    PROVE  Links!Stop
<1>1. ASSUME NEW p \in Peers
      PROVE  /\ Stopping' /\ agent'[p] = closing(agent[p])
             /\ ~retryTimer'[p] /\ jwsLoops'[p] = loopCleared(p) /\ run'[p] = run[p]
  BY SignalEffect
<1>2. Stopping'
  BY <1>1
<1>3. linkConnected' = [p \in Peers |-> FALSE]
  <2>1. ASSUME NEW p \in Peers PROVE agent'[p] \notin {"opening", "open"}
    BY <1>1, ClosingAgent
  <2>2. \A p \in Peers : ~linkConnected'[p]
    BY <2>1, LinkValues
  <2>3. [p \in Peers |-> FALSE] \in [Peers -> BOOLEAN] /\ \A p \in Peers : ~[x \in Peers |-> FALSE][p]
    OBVIOUS
  <2>4. QED
    BY <2>2, <2>3, LinkValues, EqualFlags
<1>4. linkListening' = linkListening
  <2>1. ASSUME NEW p \in Peers, NEW m \in Signals
        PROVE  stopping'[p][m] = "done" <=> stopping[p][m] = "done"
    <3>1. stopping[p][n] = "none"
      BY DEF Signal, isNext, signalled
    <3>2. stopping'[p] = [stopping[p] EXCEPT ![n] = "close"]
      BY DEF Signal
    <3>3. stopping[p] \in [Signals -> {"none", "close", "http", "done"}]
      BY DEF TypeOK
    <3>4. QED
      BY <3>1, <3>2, <3>3
  <2>2. QED
    BY <2>1, SameListening
<1>5. ASSUME NEW p \in Peers
      PROVE  phaseOf(p)' \in {"starting", "closed"} /\ (phaseOf(p) # "starting" => phaseOf(p)' = "closed")
  <2>1. jwsLoops[p] \in Nat /\ jwsLoops[p] <= 1
    BY DEF OneJwsLoop, TypeOK
  <2>2. jwsLoops'[p] = 0 /\ ~retryTimer'[p] /\ run'[p] = run[p]
    BY <1>1, <2>1, ClearedLoops
  <2>3. phaseOf(p) # "starting" => run[p] = "none"
    BY StartingPhase
  <2>4. QED
    BY <1>2, <2>2, <2>3, NextPhaseOf
<1>6. linkPhase' \in [Peers -> {"starting", "closed"}]
  <2>1. linkPhase' = [p \in Peers |-> phaseOf(p)']
    BY DEF linkPhase
  <2>2. QED
    BY <1>5, <2>1
<1>7. \A p \in Peers : linkPhase[p] # "starting" => linkPhase'[p] = "closed"
  BY <1>5, LinkValues
<1>8. QED
  BY <1>2, <1>3, <1>4, <1>6, <1>7 DEF Links!Stop

\* With pm4ml the peers are what InterSchemeProxyAdapter relies on: once ready they stay so
\* until a signal, after which only a start that was under way goes on
\* (PeerServer.ts:35-108).
THEOREM LinksImplemented == ASSUME pm4mlEnabled PROVE Spec => ImplementsLinks
<1>1. Init => Links!Init
  <2>1. SUFFICES ASSUME Init PROVE Links!Init
    OBVIOUS
  <2>2. ~Stopping
    BY <2>1 DEF Init, Stopping, signalled
  <2>3. linkPhase = [p \in Peers |-> "starting"]
    <3>1. \A p \in Peers : phaseOf(p) = "starting"
      BY <2>1, <2>2, PhaseOf DEF Init
    <3>2. QED
      BY <3>1 DEF linkPhase
  <2>4. linkConnected = [p \in Peers |-> FALSE]
    <3>1. \A p \in Peers : ~linkConnected[p]
      BY <2>1, LinkValues DEF Init
    <3>2. [p \in Peers |-> FALSE] \in [Peers -> BOOLEAN] /\ \A p \in Peers : ~[x \in Peers |-> FALSE][p]
      OBVIOUS
    <3>3. QED
      BY <3>1, <3>2, LinkValues, EqualFlags
  <2>5. linkListening = [p \in Peers |-> TRUE]
    <3>1. \A p \in Peers : linkListening[p]
      BY <2>1, LinkValues DEF Init
    <3>2. [p \in Peers |-> TRUE] \in [Peers -> BOOLEAN] /\ \A p \in Peers : [x \in Peers |-> TRUE][p]
      OBVIOUS
    <3>3. QED
      BY <3>1, <3>2, LinkValues, EqualFlags
  <2>6. QED
    BY <2>2, <2>3, <2>4, <2>5 DEF Links!Init
<1>2. IInv /\ [Next]_vars => [Links!Next]_(Links!vars)
  <2>1. SUFFICES ASSUME IInv, [Next]_vars PROVE Links!Next \/ UNCHANGED Links!vars
    OBVIOUS
  <2>2. ASSUME NEW p \in Peers, PeerStep(p) PROVE Links!Next \/ UNCHANGED Links!vars
    BY <2>1, <2>2, PeerStepLinks DEF IInv
  <2>3. ASSUME NEW p \in Peers, NEW n \in Signals, StopStep(p, n)
        PROVE  Links!Next \/ UNCHANGED Links!vars
    BY <2>1, <2>3, StopStepLinks DEF IInv
  <2>4. ASSUME NEW n \in Signals, Signal(n) PROVE Links!Next \/ UNCHANGED Links!vars
    <3>1. CASE Peers # {}
      <4>1. Links!Stop
        BY <2>1, <2>4, <3>1, SignalLinks DEF IInv
      <4>2. QED
        BY <4>1 DEF Links!Next
    <3>2. CASE Peers = {}
      BY <3>2 DEF Links!vars, linkPhase, linkConnected, linkListening, Stopping, signalled
    <3>3. QED
      BY <3>1, <3>2
  <2>5. CASE UNCHANGED vars
    BY <2>5 DEF vars, Links!vars, linkPhase, linkConnected, linkListening, phaseOf, Stopping, signalled
  <2>6. QED
    BY <2>1, <2>2, <2>3, <2>4, <2>5 DEF Next
<1>3. QED
  BY <1>1, <1>2, Invariance, PTL DEF Spec, ImplementsLinks, Links!Spec

--------------------------------------------------------------------------------
(* How a peer uses its control agent *)

\* What agentPhase() says of a peer before and after the first signal.
LEMMA AgentPhase ==
    ASSUME NEW p \in Peers
    PROVE  /\ Stopping => agentPhase(p) = IF \A n \in Signals : stopping[p][n] \in {"none", "close"}
                                          THEN "stopping" ELSE "stopped"
           /\ ~Stopping => /\ run[p] = "closing" => agentPhase(p) = "closing"
                           /\ run[p] \in {"init", "refused"} => agentPhase(p) = "initialising"
                           /\ run[p] \in {"token", "none"} => agentPhase(p) = IF isReady[p] THEN "ready" ELSE "down"
<1>1. CASE Stopping
  BY <1>1 DEF agentPhase
<1>2. CASE ~Stopping
  BY <1>2 DEF agentPhase
<1>3. QED
  BY <1>1, <1>2

\* The same of the next state.
LEMMA NextAgentPhase ==
    ASSUME NEW p \in Peers
    PROVE  /\ Stopping' => agentPhase(p)' = IF \A n \in Signals : stopping'[p][n] \in {"none", "close"}
                                           THEN "stopping" ELSE "stopped"
           /\ ~Stopping' => /\ run'[p] = "closing" => agentPhase(p)' = "closing"
                            /\ run'[p] \in {"init", "refused"} => agentPhase(p)' = "initialising"
                            /\ run'[p] \in {"token", "none"} =>
                                  agentPhase(p)' = IF isReady'[p] THEN "ready" ELSE "down"
<1>1. CASE Stopping'
  BY <1>1 DEF agentPhase
<1>2. CASE ~Stopping'
  BY <1>2 DEF agentPhase
<1>3. QED
  BY <1>1, <1>2

\* A peer with a run or a retry is not ready, unless it is being stopped.
LEMMA NotReadyYet ==
    ASSUME RunInv, ReadyMeansStarted, NEW p \in Peers, ~Stopping, run[p] # "none" \/ retryTimer[p]
    PROVE  ~isReady[p]
BY DEF RunInv, ReadyMeansStarted

\* A step of a start or of a retry uses the agent of its peer in turn.
LEMMA PeerStepUses ==
    ASSUME TypeOK, RunInv, ReadyMeansStarted, NEW q \in Peers, PeerStep(q),
           NEW p \in Peers, agentPhase(p)' # agentPhase(p)
    PROVE  Agent(p)!Next
<1>1. stopping' = stopping /\ (Stopping' <=> Stopping)
  BY NoSignal
<1>2. ~Stopping /\ ~Stopping'
  <2>1. ASSUME Stopping PROVE FALSE
    BY <1>1, <2>1, AgentPhase, NextAgentPhase
  <2>2. QED
    BY <1>1, <2>1
<1>3. p = q
  <2>1. ASSUME p # q PROVE FALSE
    <3>1. run'[p] = run[p] /\ isReady'[p] = isReady[p]
      BY <2>1, OtherPeers
    <3>2. agentPhase(p)' = agentPhase(p)
      BY <1>1, <1>2, <3>1 DEF agentPhase
    <3>3. QED
      BY <3>2
  <2>2. QED
    BY <2>1
<1>4. p \in DOMAIN run /\ p \in DOMAIN isReady
  BY DEF TypeOK
<1>5. CASE TokenArrives(p)
  <2>1. run[p] = "token" /\ run'[p] = "init"
    BY <1>4, <1>5 DEF TokenArrives
  <2>2. agentPhase(p) = "down" /\ agentPhase(p)' = "initialising"
    BY <1>2, <2>1, NotReadyYet, AgentPhase, NextAgentPhase
  <2>3. QED
    BY <2>2 DEF Agent!Next, Agent!Initialise, Agent!Goes
<1>6. CASE StepFails(p)
  <2>1. run[p] \in {"token", "init"} /\ run'[p] = "closing"
    BY <1>4, <1>6 DEF StepFails
  <2>2. agentPhase(p) \in {"down", "initialising"} /\ agentPhase(p)' = "closing"
    BY <1>2, <2>1, NotReadyYet, AgentPhase, NextAgentPhase
  <2>3. QED
    BY <2>2 DEF Agent!Next, Agent!Close, Agent!Fail, Agent!Goes
<1>7. CASE InitSucceeds(p)
  <2>1. run[p] = "init" /\ run'[p] = "none" /\ isReady'[p]
    BY <1>4, <1>7 DEF InitSucceeds
  <2>2. agentPhase(p) = "initialising" /\ agentPhase(p)' = "ready"
    BY <1>2, <2>1, AgentPhase, NextAgentPhase
  <2>3. QED
    BY <2>2 DEF Agent!Next, Agent!Succeed, Agent!Goes
<1>8. CASE RetryScheduled(p)
  <2>1. run[p] = "closing" /\ run'[p] = "none" /\ ~isReady'[p]
    BY <1>4, <1>8 DEF RetryScheduled
  <2>2. agentPhase(p) = "closing" /\ agentPhase(p)' = "down"
    BY <1>2, <2>1, AgentPhase, NextAgentPhase
  <2>3. QED
    BY <2>2 DEF Agent!Next, Agent!Closed, Agent!Goes
<1>9. CASE RetryFires(p)
  <2>1. retryTimer[p] /\ run[p] = "none" /\ run'[p] = "token" /\ isReady'[p] = isReady[p]
    BY <1>4, <1>9 DEF RetryFires, RunInv, TypeOK
  <2>2. agentPhase(p) = "down" /\ agentPhase(p)' = "down"
    BY <1>2, <2>1, NotReadyYet, AgentPhase, NextAgentPhase
  <2>3. QED
    BY <2>2
<1>10. CASE HttpStart(p) \/ HttpStarted(p) \/ HttpStartFails(p)
  <2>1. run' = run /\ isReady' = isReady
    BY <1>10 DEF HttpStart, HttpStarted, HttpStartFails
  <2>2. agentPhase(p)' = agentPhase(p)
    BY <1>1, <1>2, <2>1 DEF agentPhase
  <2>3. QED
    BY <2>2
<1>11. CASE HandshakeFails(p)
  <2>1. run[p] = "init" /\ run'[p] = "refused"
    BY <1>4, <1>11 DEF HandshakeFails
  <2>2. agentPhase(p) = "initialising" /\ agentPhase(p)' = "initialising"
    BY <1>2, <2>1, AgentPhase, NextAgentPhase
  <2>3. QED
    BY <2>2
<1>12. QED
  BY <1>3, <1>5, <1>6, <1>7, <1>8, <1>9, <1>10, <1>11 DEF PeerStep

\* The end of a close() in a stop() is the end of the agent, and the rest of the stop() does
\* not concern it.
LEMMA StopStepUses ==
    ASSUME TypeOK, NEW q \in Peers, NEW n \in Signals, StopStep(q, n),
           NEW p \in Peers, agentPhase(p)' # agentPhase(p)
    PROVE  Agent(p)!Next
<1>1. stopping[q][n] # "none" /\ Stopping
  BY DEF StopStep, HttpStop, HttpStopped, Stopping, signalled
<1>2. Stopping'
  BY <1>1, StoppingStep DEF Next
<1>3. stopping[q] \in [Signals -> {"none", "close", "http", "done"}] /\ q \in DOMAIN stopping
  BY DEF TypeOK
<1>4. ASSUME stopping'[p] = stopping[p] PROVE FALSE
  BY <1>1, <1>2, <1>4, AgentPhase, NextAgentPhase
<1>5. p = q
  <2>1. ASSUME p # q PROVE stopping'[p] = stopping[p]
    BY <2>1 DEF StopStep, HttpStop, HttpStopped, TypeOK
  <2>2. QED
    BY <1>4, <2>1
<1>6. stopping'[p][n] \in {"http", "done"}
  <2>1. stopping' = [stopping EXCEPT ![p][n] = "http"] \/ stopping' = [stopping EXCEPT ![p][n] = "done"]
    BY <1>4, <1>5 DEF StopStep, HttpStop, HttpStopped
  <2>2. QED
    BY <1>3, <1>5, <2>1
<1>7. agentPhase(p)' = "stopped"
  BY <1>2, <1>6, NextAgentPhase
<1>8. agentPhase(p) = "stopping"
  BY <1>1, <1>7, AgentPhase
<1>9. QED
  BY <1>7, <1>8 DEF Agent!Next, Agent!Stopped, Agent!Goes

\* A signal shuts the agent down where it is; another one changes nothing.
LEMMA SignalUses ==
    ASSUME TypeOK, NEW n \in Signals, Signal(n), NEW p \in Peers, agentPhase(p)' # agentPhase(p)
    PROVE  Agent(p)!Next
<1>1. Stopping'
  BY SignalEffect
<1>2. stopping[p][n] = "none"
  BY DEF Signal, isNext, signalled
<1>3. stopping[p] \in [Signals -> {"none", "close", "http", "done"}]
  BY DEF TypeOK
<1>4. stopping'[p] = [stopping[p] EXCEPT ![n] = "close"]
  BY DEF Signal
<1>5. \A m \in Signals : stopping'[p][m] \in {"none", "close"} <=> stopping[p][m] \in {"none", "close"}
  BY <1>2, <1>3, <1>4
<1>6. ~Stopping
  <2>1. ASSUME Stopping PROVE FALSE
    BY <1>1, <1>5, <2>1, AgentPhase, NextAgentPhase
  <2>2. QED
    BY <2>1
<1>7. agentPhase(p)' = "stopping"
  <2>1. \A m \in Signals : stopping[p][m] = "none"
    BY <1>6 DEF Stopping, signalled
  <2>2. QED
    BY <1>1, <1>5, <2>1, NextAgentPhase
<1>8. agentPhase(p) \in {"closing", "initialising", "down", "ready"}
  <2>1. run[p] \in {"none", "token", "init", "refused", "closing"}
    BY DEF TypeOK
  <2>2. QED
    BY <1>6, <2>1, AgentPhase
<1>9. QED
  BY <1>7, <1>8 DEF Agent!Next, Agent!Shutdown, Agent!Goes

\* Every peer uses its agent in the order the agent is modelled for, whatever fails, is
\* retried or stopped (PeerServer.ts:67-129).
THEOREM AgentIsUsedInTurn == Spec => UsesAgent
<1>1. IInv /\ [Next]_vars => \A p \in Peers : agentPhase(p)' # agentPhase(p) => Agent(p)!Next
  <2>1. SUFFICES ASSUME IInv, [Next]_vars, NEW p \in Peers, agentPhase(p)' # agentPhase(p)
                 PROVE  Agent(p)!Next
    OBVIOUS
  <2>2. TypeOK /\ RunInv /\ ReadyMeansStarted
    BY <2>1 DEF IInv
  <2>3. ASSUME NEW q \in Peers, PeerStep(q) PROVE Agent(p)!Next
    BY <2>1, <2>2, <2>3, PeerStepUses
  <2>4. ASSUME NEW q \in Peers, NEW n \in Signals, StopStep(q, n) PROVE Agent(p)!Next
    BY <2>1, <2>2, <2>4, StopStepUses
  <2>5. ASSUME NEW n \in Signals, Signal(n) PROVE Agent(p)!Next
    BY <2>1, <2>2, <2>5, SignalUses
  <2>6. CASE UNCHANGED vars
    <3>1. run' = run /\ isReady' = isReady /\ stopping' = stopping
      BY <2>6 DEF vars
    <3>2. Stopping' <=> Stopping
      BY <3>1 DEF Stopping, signalled
    <3>3. agentPhase(p)' = agentPhase(p)
      BY <3>1, <3>2 DEF agentPhase
    <3>4. QED
      BY <2>1, <3>3
  <2>7. QED
    BY <2>1, <2>3, <2>4, <2>5, <2>6 DEF Next
<1>2. QED
  BY <1>1, Invariance, PTL DEF Spec, UsesAgent

================================================================================
