------------------------------ MODULE AuthClient ------------------------------
(***************************************************************************)
(* AuthClient.ts: the loops that keep the access token of one hub fresh,   *)
(* and the way PeerServer.ts starts and stops them.                        *)
(*                                                                         *)
(* A loop is one call of startAccessTokenUpdates() and all the calls its   *)
(* timer makes after it.  The client remembers the last timer only, so     *)
(* stopUpdates() ends a loop that waits for that timer and misses one that *)
(* has a token request in flight.                                          *)
(*                                                                         *)
(* Time is counted in units of a Tick.  Timers expire when they are due    *)
(* and a request takes at most MaxLatency.                                 *)
(*                                                                         *)
(* A definition marked "Variant" is what a plausible bug would make of the *)
(* definition that follows it; no specification uses it.                   *)
(***************************************************************************)
EXTENDS Integers

CONSTANTS
    Loops,       \* bound: identities of token loops
    NoLoop,
    Interval,    \* authConfig.accessTokenUpdateIntervalSec
    Advance,     \* IN_ADVANCE_PERIOD_SEC
    RetryDelay,  \* retryAccessTokenUpdatesTimeoutSec, retryDnsErrorTimeoutSec
    MaxLatency,  \* bound: how long a token request takes
    Expiries     \* the values of expires_in the endpoint may return

ASSUME AuthClientAssumption ==
    /\ NoLoop \notin Loops
    /\ Interval \in Nat
    /\ Advance \in Nat
    /\ RetryDelay \in Nat
    /\ MaxLatency \in Nat
    /\ Expiries \subseteq Nat \ {0}

\* A token lives long enough to be replaced: the period in advance covers the request
\* that brought the token and the one that replaces it.
ASSUME LatencyAssumption ==
    /\ 2 * MaxLatency < Advance
    /\ \A e \in Expiries : 2 * MaxLatency < e

VARIABLES
    loop,     \* where every loop is
    due,      \* time until the timer of a waiting loop expires
    age,      \* time since a requesting loop has sent its request
    timer,    \* the loop whose timeout this.timer is, NoLoop: null
    awaited,  \* the loop whose first result PeerServer.getAccessToken awaits
    owner,    \* where PeerServer is
    token,    \* what was emitted last: nothing, the empty string, or a token
    ttl,      \* remaining life of the token emitted last
    raced     \* history: stopUpdates() was called while a request was in flight

vars == <<loop, due, age, timer, awaited, owner, token, ttl, raced>>

OwnerStates == {"idle", "starting", "initialising", "running", "retrying", "stopped"}

TypeOK ==
    /\ loop \in [Loops -> {"none", "requesting", "waiting"}]
    /\ due \in [Loops -> Nat]
    /\ age \in [Loops -> Nat]
    /\ timer \in Loops \cup {NoLoop}
    /\ awaited \in Loops \cup {NoLoop}
    /\ owner \in OwnerStates
    /\ token \in {"none", "empty", "published"}
    /\ ttl \in Nat
    /\ raced \in BOOLEAN

Init ==
    /\ loop = [l \in Loops |-> "none"]
    /\ due = [l \in Loops |-> 0]
    /\ age = [l \in Loops |-> 0]
    /\ timer = NoLoop
    /\ awaited = NoLoop
    /\ owner = "idle"
    /\ token = "none"
    /\ ttl = 0
    /\ raced = FALSE

live == {l \in Loops : loop[l] # "none"}

--------------------------------------------------------------------------------
(* Helpers *)

\* Variant of nextUpdate: the token is renewed when it expires.
nextUpdateAtExpiry(e) == IF Interval < e THEN Interval ELSE e

\* updateTimeoutSec after a success; setTimeout takes a negative delay for none.
nextUpdate(e) ==
    LET earliest == IF Interval < e THEN Interval ELSE e
    IN  IF earliest < Advance THEN 0 ELSE earliest - Advance

\* Variant of loopsStopped: the handle is forgotten, its timer is not cleared.
loopsStoppedNot(loops, handle) == loops

\* clearTimeout(this.timer): nothing happens when that timer has expired already.
loopsStopped(loops, handle) ==
    IF handle # NoLoop /\ loops[handle] = "waiting"
    THEN [loops EXCEPT ![handle] = "none"]
    ELSE loops

stopUpdates ==
    /\ loop' = loopsStopped(loop, timer)
    /\ timer' = NoLoop
    /\ raced' = (raced \/ \E l \in Loops : loop[l] = "requesting")

\* emitNewToken: '' when there is no token, else a token that was issued when the
\* request was sent at the earliest.
emitted(l, e) ==
    /\ token' = IF e = 0 THEN "empty" ELSE "published"
    /\ ttl' = IF e > age[l] THEN e - age[l] ELSE 0

--------------------------------------------------------------------------------
(* The loops *)

\* PeerServer.getAccessToken, at the start or from the retry timer.
Start ==
    /\ owner \in {"idle", "retrying"}
    /\ \E l \in Loops :
          /\ loop[l] = "none"
          /\ loop' = [loop EXCEPT ![l] = "requesting"]
          /\ age' = [age EXCEPT ![l] = 0]
          /\ awaited' = l
    /\ owner' = "starting"
    /\ UNCHANGED <<due, timer, token, ttl, raced>>

\* The delay until the next request.
delay(e) == IF e = 0 THEN RetryDelay ELSE nextUpdate(e)

\* Variant of Respond: a failed request is not repeated.
RespondGivesUp(l, e) ==
    /\ loop[l] = "requesting" /\ l # awaited
    /\ emitted(l, e)
    /\ loop' = [loop EXCEPT ![l] = IF e = 0 THEN "none" ELSE "waiting"]
    /\ due' = [due EXCEPT ![l] = delay(e)]
    /\ timer' = l
    /\ UNCHANGED <<age, awaited, owner, raced>>

\* The request of a loop ends: e is expires_in, 0 for an error or an invalid response.
\* The token is emitted, the next call is scheduled and its timer remembered.
Respond(l, e) ==
    /\ loop[l] = "requesting" /\ l # awaited
    /\ emitted(l, e)
    /\ loop' = [loop EXCEPT ![l] = "waiting"]
    /\ due' = [due EXCEPT ![l] = delay(e)]
    /\ timer' = l
    /\ UNCHANGED <<age, awaited, owner, raced>>

\* Variant of FirstToken: the token is fetched once.
FirstTokenOnce(l, e) ==
    /\ l = awaited /\ e # 0
    /\ emitted(l, e)
    /\ loop' = [loop EXCEPT ![l] = "none"]
    /\ awaited' = NoLoop
    /\ owner' = IF owner = "starting" THEN "initialising" ELSE owner
    /\ UNCHANGED <<due, age, timer, raced>>

\* The first request of a loop succeeds: PeerServer goes on with initControlAgent.
FirstToken(l, e) ==
    /\ l = awaited /\ e # 0
    /\ emitted(l, e)
    /\ loop' = [loop EXCEPT ![l] = "waiting"]
    /\ due' = [due EXCEPT ![l] = delay(e)]
    /\ timer' = l
    /\ awaited' = NoLoop
    /\ owner' = IF owner = "starting" THEN "initialising" ELSE owner
    /\ UNCHANGED <<age, raced>>

\* The first request of a loop fails: its next call is scheduled, and stopped at once
\* by PeerServer.retryStartPm4ml.
FirstTokenFails(l) ==
    /\ l = awaited
    /\ emitted(l, 0)
    /\ loop' = loopsStopped([loop EXCEPT ![l] = "waiting"], l)
    /\ due' = [due EXCEPT ![l] = delay(0)]
    /\ timer' = NoLoop
    /\ raced' = (raced \/ \E k \in Loops \ {l} : loop[k] = "requesting")
    /\ awaited' = NoLoop
    /\ owner' = IF owner = "starting" THEN "retrying" ELSE owner
    /\ UNCHANGED age

\* The timer of a loop expires: startAccessTokenUpdates sends the next request.
Fire(l) ==
    /\ loop[l] = "waiting" /\ due[l] = 0
    /\ loop' = [loop EXCEPT ![l] = "requesting"]
    /\ age' = [age EXCEPT ![l] = 0]
    /\ UNCHANGED <<due, timer, awaited, owner, token, ttl, raced>>

--------------------------------------------------------------------------------
(* The owner *)

InitDone ==
    /\ owner = "initialising"
    /\ owner' = "running"
    /\ UNCHANGED <<loop, due, age, timer, awaited, token, ttl, raced>>

\* initControlAgent rejects: retryStartPm4ml stops the updates and starts again later.
InitFails ==
    /\ owner = "initialising"
    /\ owner' = "retrying"
    /\ stopUpdates
    /\ UNCHANGED <<due, age, awaited, token, ttl>>

\* PeerServer.stop.
Stop ==
    /\ owner # "stopped"
    /\ owner' = "stopped"
    /\ stopUpdates
    /\ UNCHANGED <<due, age, awaited, token, ttl>>

Tick ==
    /\ \A l \in Loops : /\ loop[l] = "waiting" => due[l] > 0
                        /\ loop[l] = "requesting" => age[l] < MaxLatency
    /\ due' = [l \in Loops |-> IF loop[l] = "waiting" THEN due[l] - 1 ELSE 0]
    /\ age' = [l \in Loops |-> IF loop[l] = "requesting" THEN age[l] + 1 ELSE 0]
    /\ ttl' = IF ttl > 0 THEN ttl - 1 ELSE 0
    /\ UNCHANGED <<loop, timer, awaited, owner, token, raced>>

Next ==
    \/ Start
    \/ \E l \in Loops, e \in Expiries \cup {0} : Respond(l, e)
    \/ \E l \in Loops, e \in Expiries : FirstToken(l, e)
    \/ \E l \in Loops : FirstTokenFails(l) \/ Fire(l)
    \/ InitDone \/ InitFails \/ Stop
    \/ Tick

Spec == Init /\ [][Next]_vars

--------------------------------------------------------------------------------
(* Properties *)

\* Unless the updates were stopped while a request was in flight, one loop at most
\* renews the token, through any number of failed and repeated starts, and none while the
\* owner waits for its retry or once it has stopped: that race is the only way for updates
\* to survive a stop (AuthClient.ts:47-58, PeerServer.ts:84-117).
OneLoop ==
    ~raced => /\ \A k, l \in live : k = l
              /\ owner \in {"idle", "retrying", "stopped"} => live = {}

\* A peer that has got its token always has a loop that will renew it
\* (AuthClient.ts:30-50).
RunningHasLoop == owner \in {"initialising", "running"} => live # {}

\* The token a started peer has published is never an expired one: it is renewed, or
\* withdrawn, first (AuthClient.ts:36-47).
TokenFresh == owner \in {"initialising", "running"} /\ token = "published" => ttl > 0

\* After a failed update a running peer gets a token again, once the endpoint answers
\* now and then (AuthClient.ts:36-47).
Renewed(l) == \E e \in Expiries : Respond(l, e)
FairSpec ==
    /\ Spec
    /\ WF_vars(Tick)
    /\ \A l \in Loops : SF_vars(Fire(l)) /\ SF_vars(Renewed(l))
TokenRecovers == owner = "running" /\ token = "empty" ~> token = "published" \/ owner # "running"

(* What the code says of itself, and does not do *)

\* AuthClient.ts:56, "accessToken updates stopped": no update starts while the owner
\* waits for its retry, having stopped them.
StopsUpdates == [][\A l \in Loops : Fire(l) => owner # "retrying"]_vars
================================================================================
