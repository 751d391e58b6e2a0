--------------------------- MODULE AuthClientProofs ---------------------------
(***************************************************************************)
(* The safety properties of AuthClient, for any number of token loops and  *)
(* any interval, period in advance, retry delay and token lifetimes that   *)
(* meet LatencyAssumption.                                                 *)
(***************************************************************************)
EXTENDS AuthClient, TLAPS

\* The loop PeerServer awaits has its first request in flight.
AwaitedInv ==
    /\ awaited # NoLoop => loop[awaited] = "requesting" /\ owner \in {"starting", "stopped"}
    /\ owner = "starting" => awaited # NoLoop

\* Requests are answered in time.
AgeInv == \A l \in Loops : loop[l] = "requesting" => age[l] <= MaxLatency

\* Unless there was a race, the one loop waits for the timer the client remembers, and
\* there is none between two starts, nor after a stop.
OneLoopInv ==
    ~raced => /\ \A k, l \in Loops : loop[k] # "none" /\ loop[l] # "none" => k = l
              /\ \A l \in Loops : loop[l] = "waiting" => timer = l
              /\ owner \in {"idle", "retrying", "stopped"} => \A l \in Loops : loop[l] = "none"

\* A loop that will replace the published token before it expires.
Renews(l) ==
    \/ loop[l] = "waiting" /\ ttl > due[l] + MaxLatency
    \/ loop[l] = "requesting" /\ ttl + age[l] > MaxLatency
FreshInv ==
    owner \in {"initialising", "running"} /\ token = "published" => \E l \in Loops : Renews(l)

IInv == TypeOK /\ AwaitedInv /\ AgeInv /\ OneLoopInv /\ RunningHasLoop /\ FreshInv

\* The delay until the next request leaves a fresh token the time to be replaced.
LEMMA DelayInTime ==
    ASSUME NEW e \in Expiries, NEW a \in Nat, a <= MaxLatency
    PROVE  /\ delay(e) \in Nat
           /\ e > a
           /\ e - a > delay(e) + MaxLatency
BY AuthClientAssumption, LatencyAssumption DEF delay, nextUpdate

\* Stopping keeps all loops but the one that waits for the remembered timer.
LEMMA StoppedLoops ==
    ASSUME NEW loops \in [Loops -> {"none", "requesting", "waiting"}],
           NEW handle \in Loops \cup {NoLoop}
    PROVE  /\ loopsStopped(loops, handle) \in [Loops -> {"none", "requesting", "waiting"}]
           /\ \A l \in Loops : \/ loopsStopped(loops, handle)[l] = loops[l]
                               \/ loopsStopped(loops, handle)[l] = "none"
           /\ \A l \in Loops : loops[l] = "requesting" => loopsStopped(loops, handle)[l] = "requesting"
           /\ handle # NoLoop => loopsStopped(loops, handle)[handle] # "waiting"
BY DEF loopsStopped

\* Every step keeps every variable in its domain.
LEMMA TypeStep == TypeOK /\ AgeInv /\ [Next]_vars => TypeOK'
<1> SUFFICES ASSUME TypeOK, AgeInv, [Next]_vars PROVE TypeOK'
  OBVIOUS
<1> USE AuthClientAssumption DEF TypeOK
<1>delay. \A e \in Expiries \cup {0} : delay(e) \in Nat
  BY DEF delay, nextUpdate
<1>emitted. ASSUME NEW l \in Loops, NEW e \in Expiries \cup {0}, emitted(l, e)
            PROVE  token' \in {"none", "empty", "published"} /\ ttl' \in Nat
  BY <1>emitted DEF emitted
<1>stop. stopUpdates => /\ loop' \in [Loops -> {"none", "requesting", "waiting"}]
                        /\ timer' \in Loops \cup {NoLoop}
                        /\ raced' \in BOOLEAN
  BY StoppedLoops DEF stopUpdates
<1>1. CASE Start
  BY <1>1 DEF Start, OwnerStates
<1>2. ASSUME NEW l \in Loops, NEW e \in Expiries \cup {0}, Respond(l, e) PROVE TypeOK'
  BY <1>2, <1>delay, <1>emitted DEF Respond
<1>3. ASSUME NEW l \in Loops, NEW e \in Expiries, FirstToken(l, e) PROVE TypeOK'
  BY <1>3, <1>delay, <1>emitted DEF FirstToken, OwnerStates
<1>4. ASSUME NEW l \in Loops, FirstTokenFails(l) PROVE TypeOK'
  <2>1. loop' \in [Loops -> {"none", "requesting", "waiting"}]
    BY <1>4, StoppedLoops DEF FirstTokenFails
  <2>2. QED
    BY <1>4, <2>1, <1>delay, <1>emitted DEF FirstTokenFails, OwnerStates
<1>5. ASSUME NEW l \in Loops, Fire(l) PROVE TypeOK'
  BY <1>5 DEF Fire
<1>6. CASE InitDone \/ InitFails \/ Stop
  BY <1>6, <1>stop DEF InitDone, InitFails, Stop, OwnerStates
<1>7. CASE Tick
  <2>1. due' \in [Loops -> Nat] /\ age' \in [Loops -> Nat] /\ ttl' \in Nat
    BY <1>7 DEF Tick
  <2>2. QED
    BY <1>7, <2>1 DEF Tick
<1>8. CASE UNCHANGED vars
  BY <1>8 DEF vars
<1>9. QED
  BY <1>1, <1>2, <1>3, <1>4, <1>5, <1>6, <1>7, <1>8 DEF Next

\* The loop that is awaited stays in flight until it is no longer awaited, and time
\* stops for no request beyond the latency.
LEMMA AwaitedStep == TypeOK /\ AwaitedInv /\ AgeInv /\ [Next]_vars => AwaitedInv' /\ AgeInv'
<1> SUFFICES ASSUME TypeOK, AwaitedInv, AgeInv, [Next]_vars PROVE AwaitedInv' /\ AgeInv'
  OBVIOUS
<1> USE AuthClientAssumption DEF TypeOK, AwaitedInv, AgeInv
<1>1. CASE Start
  BY <1>1 DEF Start
<1>2. ASSUME NEW l \in Loops, NEW e \in Expiries \cup {0}, Respond(l, e) PROVE AwaitedInv' /\ AgeInv'
  BY <1>2 DEF Respond
<1>3. ASSUME NEW l \in Loops, NEW e \in Expiries, FirstToken(l, e) PROVE AwaitedInv' /\ AgeInv'
  BY <1>3 DEF FirstToken
<1>4. ASSUME NEW l \in Loops, FirstTokenFails(l) PROVE AwaitedInv' /\ AgeInv'
  BY <1>4 DEF FirstTokenFails, loopsStopped
<1>5. ASSUME NEW l \in Loops, Fire(l) PROVE AwaitedInv' /\ AgeInv'
  BY <1>5 DEF Fire
<1>6. CASE InitDone
  BY <1>6 DEF InitDone
<1>7. CASE InitFails \/ Stop
  BY <1>7, StoppedLoops DEF InitFails, Stop, stopUpdates
<1>8. CASE Tick
  BY <1>8 DEF Tick
<1>9. CASE UNCHANGED vars
  BY <1>9 DEF vars
<1>10. QED
  BY <1>1, <1>2, <1>3, <1>4, <1>5, <1>6, <1>7, <1>8, <1>9 DEF Next

\* Stopping without a race leaves no loop, and a start without a race finds none.
LEMMA OneLoopStep == TypeOK /\ AwaitedInv /\ OneLoopInv /\ [Next]_vars => OneLoopInv'
<1> SUFFICES ASSUME TypeOK, AwaitedInv, OneLoopInv, [Next]_vars PROVE OneLoopInv'
  OBVIOUS
<1> USE AuthClientAssumption DEF TypeOK, AwaitedInv, OneLoopInv
<1>1. CASE Start
  BY <1>1 DEF Start
<1>2. ASSUME NEW l \in Loops, NEW e \in Expiries \cup {0}, Respond(l, e) PROVE OneLoopInv'
  BY <1>2 DEF Respond
<1>3. ASSUME NEW l \in Loops, NEW e \in Expiries, FirstToken(l, e) PROVE OneLoopInv'
  BY <1>3 DEF FirstToken
<1>4. ASSUME NEW l \in Loops, FirstTokenFails(l) PROVE OneLoopInv'
  BY <1>4 DEF FirstTokenFails, loopsStopped
<1>5. ASSUME NEW l \in Loops, Fire(l) PROVE OneLoopInv'
  BY <1>5 DEF Fire
<1>6. CASE InitDone
  BY <1>6 DEF InitDone
<1>7. CASE InitFails \/ Stop
  <2>1. SUFFICES ASSUME ~raced' PROVE \A l \in Loops : loop'[l] = "none"
    BY <1>7
  <2>2. ~raced /\ \A l \in Loops : loop[l] # "requesting"
    BY <1>7, <2>1 DEF InitFails, Stop, stopUpdates
  <2>3. ASSUME NEW l \in Loops, loop[l] = "waiting" PROVE loop'[l] = "none"
    <3>1. timer = l
      BY <2>2, <2>3
    <3>2. QED
      BY <1>7, <2>3, <3>1 DEF InitFails, Stop, stopUpdates, loopsStopped
  <2>4. ASSUME NEW l \in Loops, loop[l] = "none" PROVE loop'[l] = "none"
    BY <1>7, <2>4, StoppedLoops DEF InitFails, Stop, stopUpdates
  <2>5. QED
    BY <2>2, <2>3, <2>4
<1>8. CASE Tick
  BY <1>8 DEF Tick
<1>9. CASE UNCHANGED vars
  BY <1>9 DEF vars
<1>10. QED
  BY <1>1, <1>2, <1>3, <1>4, <1>5, <1>6, <1>7, <1>8, <1>9 DEF Next

\* Only an owner that goes back to retrying, or stops, ends a loop.
LEMMA HasLoopStep == TypeOK /\ AwaitedInv /\ RunningHasLoop /\ [Next]_vars => RunningHasLoop'
<1> SUFFICES ASSUME TypeOK, AwaitedInv, RunningHasLoop, [Next]_vars PROVE RunningHasLoop'
  OBVIOUS
<1> USE AuthClientAssumption DEF TypeOK, AwaitedInv, RunningHasLoop, live
<1>1. CASE Start
  BY <1>1 DEF Start
<1>2. ASSUME NEW l \in Loops, NEW e \in Expiries \cup {0}, Respond(l, e) PROVE RunningHasLoop'
  BY <1>2 DEF Respond
<1>3. ASSUME NEW l \in Loops, NEW e \in Expiries, FirstToken(l, e) PROVE RunningHasLoop'
  BY <1>3 DEF FirstToken
<1>4. ASSUME NEW l \in Loops, FirstTokenFails(l) PROVE RunningHasLoop'
  BY <1>4 DEF FirstTokenFails
<1>5. ASSUME NEW l \in Loops, Fire(l) PROVE RunningHasLoop'
  BY <1>5 DEF Fire
<1>6. CASE InitDone \/ InitFails \/ Stop
  BY <1>6 DEF InitDone, InitFails, Stop
<1>7. CASE Tick \/ UNCHANGED vars
  BY <1>7 DEF Tick, vars
<1>8. QED
  BY <1>1, <1>2, <1>3, <1>4, <1>5, <1>6, <1>7 DEF Next

\* The loop that published the token is the one that renews it in time.
LEMMA FreshStep == TypeOK /\ AwaitedInv /\ AgeInv /\ FreshInv /\ [Next]_vars => FreshInv'
<1> SUFFICES ASSUME TypeOK, AwaitedInv, AgeInv, FreshInv, [Next]_vars PROVE FreshInv'
  OBVIOUS
<1> USE AuthClientAssumption DEF TypeOK, AwaitedInv, AgeInv, FreshInv, Renews
<1>published. ASSUME NEW l \in Loops, NEW e \in Expiries, loop[l] = "requesting", emitted(l, e),
                     due' = [due EXCEPT ![l] = delay(e)], loop'[l] = "waiting"
              PROVE  Renews(l)'
  <2>1. age[l] \in Nat /\ age[l] <= MaxLatency
    BY <1>published
  <2>2. delay(e) \in Nat /\ e > age[l] /\ e - age[l] > delay(e) + MaxLatency
    BY <2>1, DelayInTime
  <2>3. ttl' = e - age[l] /\ due'[l] = delay(e)
    BY <1>published, <2>2 DEF emitted
  <2>4. QED
    BY <1>published, <2>2, <2>3
<1>1. CASE Start
  BY <1>1 DEF Start
<1>2. ASSUME NEW l \in Loops, NEW e \in Expiries \cup {0}, Respond(l, e) PROVE FreshInv'
  <2>1. CASE e = 0
    BY <1>2, <2>1 DEF Respond, emitted
  <2>2. CASE e \in Expiries
    <3>1. Renews(l)'
      BY <1>2, <2>2, <1>published DEF Respond
    <3>2. QED
      BY <3>1
  <2>3. QED
    BY <2>1, <2>2
<1>3. ASSUME NEW l \in Loops, NEW e \in Expiries, FirstToken(l, e) PROVE FreshInv'
  <2>1. Renews(l)'
    BY <1>3, <1>published DEF FirstToken
  <2>2. QED
    BY <2>1
<1>4. ASSUME NEW l \in Loops, FirstTokenFails(l) PROVE FreshInv'
  BY <1>4 DEF FirstTokenFails, emitted
<1>5. ASSUME NEW l \in Loops, Fire(l) PROVE FreshInv'
  <2>1. ASSUME NEW k \in Loops, Renews(k) PROVE Renews(k)'
    <3>1. CASE k = l
      BY <1>5, <2>1, <3>1 DEF Fire
    <3>2. CASE k # l
      BY <1>5, <2>1, <3>2 DEF Fire
    <3>3. QED
      BY <3>1, <3>2
  <2>2. owner' = owner /\ token' = token
    BY <1>5 DEF Fire
  <2>3. QED
    BY <2>1, <2>2
<1>6. CASE InitDone \/ InitFails \/ Stop
  BY <1>6 DEF InitDone, InitFails, Stop
<1>7. CASE Tick
  <2>1. ASSUME NEW k \in Loops, Renews(k) PROVE Renews(k)'
    <3>1. loop'[k] = loop[k] /\ ttl > 0 /\ ttl' = ttl - 1
      BY <1>7, <2>1 DEF Tick
    <3>2. CASE loop[k] = "waiting"
      BY <1>7, <2>1, <3>1, <3>2 DEF Tick
    <3>3. CASE loop[k] = "requesting"
      BY <1>7, <2>1, <3>1, <3>3 DEF Tick
    <3>4. QED
      BY <2>1, <3>2, <3>3
  <2>2. owner' = owner /\ token' = token
    BY <1>7 DEF Tick
  <2>3. QED
    BY <2>1, <2>2
<1>8. CASE UNCHANGED vars
  BY <1>8 DEF vars
<1>9. QED
  BY <1>1, <1>2, <1>3, <1>4, <1>5, <1>6, <1>7, <1>8 DEF Next

--------------------------------------------------------------------------------
(* The theorems *)

\* The conjunction of all parts is inductive.
THEOREM Invariance == Spec => []IInv
<1>1. Init => IInv
  <2>1. SUFFICES ASSUME Init PROVE IInv
    OBVIOUS
  <2>2. TypeOK
    BY <2>1 DEF Init, TypeOK, OwnerStates
  <2>3. AwaitedInv /\ RunningHasLoop /\ FreshInv
    BY <2>1 DEF Init, AwaitedInv, RunningHasLoop, FreshInv
  <2>4. AgeInv /\ OneLoopInv
    BY <2>1 DEF Init, AgeInv, OneLoopInv
  <2>5. QED
    BY <2>2, <2>3, <2>4 DEF IInv
<1>2. IInv /\ [Next]_vars => IInv'
  BY TypeStep, AwaitedStep, OneLoopStep, HasLoopStep, FreshStep DEF IInv
<1>3. QED
  BY <1>1, <1>2, PTL DEF Spec

\* Every variable of the client stays in its domain (AuthClient.ts:10-58).
THEOREM TypeCorrect == Spec => []TypeOK
<1>1. IInv => TypeOK
  BY DEF IInv
<1>2. QED
  BY <1>1, Invariance, PTL

\* Starts and stops never leave two loops, and a stop leaves none, unless a stop met a
\* request in flight (AuthClient.ts:47-58, PeerServer.ts:84-117).
THEOREM LoopsAreSingle == Spec => []OneLoop
<1>1. IInv => OneLoop
  BY DEF IInv, OneLoopInv, OneLoop, live
<1>2. QED
  BY <1>1, Invariance, PTL

\* A peer that has got its token has a loop that renews it (AuthClient.ts:30-50).
THEOREM LoopSurvives == Spec => []RunningHasLoop
<1>1. IInv => RunningHasLoop
  BY DEF IInv
<1>2. QED
  BY <1>1, Invariance, PTL

\* With requests answered within half of the period in advance, a started peer never
\* uses an expired token (AuthClient.ts:44, constants.ts:24).
THEOREM TokenIsFresh == Spec => []TokenFresh
<1>1. IInv => TokenFresh
  <2>1. SUFFICES ASSUME IInv, owner \in {"initialising", "running"}, token = "published" PROVE ttl > 0
    BY DEF TokenFresh
  <2>2. PICK l \in Loops : Renews(l)
    BY <2>1 DEF IInv, FreshInv
  <2>3. CASE loop[l] = "waiting"
    BY <2>1, <2>2, <2>3, AuthClientAssumption DEF IInv, TypeOK, Renews
  <2>4. CASE loop[l] = "requesting"
    BY <2>1, <2>2, <2>4, AuthClientAssumption DEF IInv, TypeOK, AgeInv, Renews
  <2>5. QED
    BY <2>2, <2>3, <2>4 DEF Renews
<1>2. QED
  BY <1>1, Invariance, PTL

================================================================================
