-------------------- MODULE InterSchemeProxyAdapterProofs --------------------
(***************************************************************************)
(* The safety properties of InterSchemeProxyAdapter and that it implements *)
(* JwsRelay, for any number of JWS and credential versions, of lost        *)
(* connections and of frames in transit.                                   *)
(***************************************************************************)
EXTENDS InterSchemeProxyAdapter, SequenceTheorems, TLAPS

\* The queues of the present connections of a peer.
inNow(p)  == inbound[p][drops[p]]
outNow(p) == outbound[p][drops[p]]

\* Versions that follow each other in order, from a lowest one.
InOrder(s, low) ==
    /\ \A i \in 1..Len(s) : low <= s[i]
    /\ \A i, j \in 1..Len(s) : i < j => s[i] <= s[j]

\* The same of the events that are not late.
EventsInOrder(s, low) ==
    /\ \A i \in 1..Len(s) : ~s[i].late => low <= s[i].version
    /\ \A i, j \in 1..Len(s) : i < j /\ ~s[i].late /\ ~s[j].late => s[i].version <= s[j].version

\* Events that are not newer than versions that come after them, unless they are late.
Before(events, s) ==
    \A i \in 1..Len(events), j \in 1..Len(s) : ~events[i].late => events[i].version <= s[j]

\* What comes and goes on the present connections, from the scheme of p to the hub of q, is
\* in the order of the versions, and not older than what that hub was told in turn.
RelayInv(p, q) ==
    /\ inTurn[q][p] <= jws[p]
    /\ InOrder(inNow(p), inTurn[q][p])
    /\ EventsInOrder(outNow(q), inTurn[q][p])
    /\ Before(outNow(q), inNow(p))

OrderInv == \A p, q \in Peers : p # q => RelayInv(p, q)

\* No connection of a peer carries a version its scheme has not had, or an event of its own
\* scheme, and there is nothing on those to come.
Bounded(p, c) ==
    /\ \A i \in 1..Len(inbound[p][c]) : inbound[p][c][i] <= jws[p]
    /\ \A i \in 1..Len(outbound[p][c]) : /\ outbound[p][c][i].scheme = other(p)
                                         /\ outbound[p][c][i].version <= jws[other(p)]
    /\ c > drops[p] => inbound[p][c] = <<>> /\ outbound[p][c] = <<>>

BoundInv == \A p \in Peers, c \in Connections : Bounded(p, c)

Issued(credential, scheme) == credential = None \/ credential.issuer = scheme

\* Credentials are where those of their scheme belong, and certs come after the first token.
CredentialInv ==
    \A p \in Peers :
        /\ Issued(accessToken[p], p) /\ Issued(certs[p], p)
        /\ Issued(pingToken[other(p)], p) /\ Issued(pingCerts[other(p)], p)
        /\ pingCerts[p] # None => pingToken[p] # None

IInv ==
    /\ TypeOK /\ BoundInv /\ OrderInv /\ CredentialInv
    /\ PingCredentialsAgree /\ CredentialsOfDestination

--------------------------------------------------------------------------------
(* Lemmas about what is configured and about queues *)

\* A peer has one other peer, whose other peer it is.
LEMMA OtherPeer ==
    ASSUME NEW p \in Peers
    PROVE  /\ other(p) \in Peers /\ other(p) # p /\ other(other(p)) = p
           /\ \A q \in Peers : q # p => q = other(p)
BY DEF Peers, other

\* config.ts connects a peer to its hub, and its callbacks to the hub of the other peer.
LEMMA Wired ==
    ASSUME NEW p \in Peers
    PROVE  /\ hub(p) = p /\ peer(p).authClient = p /\ peer(p).proxyService = p
           /\ peer(p).pingService = other(p)
<1>1. /\ createPeerServer(peerAConfig) = [proxyService |-> "A", pingService |-> "B",
                                          authClient |-> "A", controlAgent |-> "A"]
      /\ createPeerServer(peerBConfig) = [proxyService |-> "B", pingService |-> "A",
                                          authClient |-> "B", controlAgent |-> "B"]
  BY DEF createPeerServer, peerAConfig, peerBConfig, controlAgentConfigA, controlAgentConfigB, env
<1>2. peer(p) = createPeerServer(IF p = "A" THEN peerAConfig ELSE peerBConfig)
  BY DEF peer, createProxyAdapter
<1>3. CASE p = "A"
  BY <1>1, <1>2, <1>3 DEF hub, other
<1>4. CASE p = "B"
  BY <1>1, <1>2, <1>4 DEF hub, other
<1>5. QED
  BY <1>3, <1>4 DEF Peers

\* A step on one connection of one peer leaves the others as they are.
LEMMA OneQueue ==
    ASSUME NEW S, NEW f \in [Peers -> [Connections -> S]], NEW p \in Peers, NEW c \in Connections, NEW x \in S
    PROVE  /\ [f EXCEPT ![p][c] = x] \in [Peers -> [Connections -> S]]
           /\ [f EXCEPT ![p][c] = x][p][c] = x
           /\ \A q \in Peers, d \in Connections : q # p \/ d # c => [f EXCEPT ![p][c] = x][q][d] = f[q][d]
<1> DEFINE g == [f[p] EXCEPT ![c] = x]
<1>1. g \in [Connections -> S] /\ g[c] = x /\ \A d \in Connections : d # c => g[d] = f[p][d]
  OBVIOUS
<1>2. [f EXCEPT ![p][c] = x] = [f EXCEPT ![p] = g]
  OBVIOUS
<1> HIDE DEF g
<1>3. QED
  BY <1>1, <1>2

\* The elements of a sequence after one is added at the end.
LEMMA Appended ==
    ASSUME NEW S, NEW s \in Seq(S), NEW x \in S
    PROVE  /\ Append(s, x) \in Seq(S)
           /\ \A i \in 1..Len(Append(s, x)) :
                 \/ i \in 1..Len(s) /\ Append(s, x)[i] = s[i]
                 \/ Append(s, x)[i] = x /\ \A j \in 1..Len(Append(s, x)) : j <= i
<1>1. Len(s) \in Nat
  BY LenProperties
<1>2. /\ Append(s, x) \in Seq(S) /\ Len(Append(s, x)) = Len(s) + 1
      /\ \A i \in 1..Len(s) : Append(s, x)[i] = s[i]
      /\ Append(s, x)[Len(s) + 1] = x
  BY AppendProperties
<1>3. QED
  BY <1>1, <1>2

\* The elements of a sequence after one is taken from the front.
LEMMA Taken ==
    ASSUME NEW S, NEW s \in Seq(S), s # <<>>
    PROVE  /\ Head(s) = s[1] /\ s[1] \in S /\ 1 \in 1..Len(s)
           /\ Tail(s) \in Seq(S) /\ Len(Tail(s)) <= Len(s)
           /\ \A i \in 1..Len(Tail(s)) : i + 1 \in 1..Len(s) /\ 1 < i + 1 /\ Tail(s)[i] = s[i + 1]
<1>1. Len(s) \in Nat /\ Len(s) > 0
  BY LenProperties, EmptySeq
<1>2. /\ Head(s) = s[1] /\ Tail(s) \in Seq(S) /\ Len(Tail(s)) = Len(s) - 1
      /\ \A i \in 1..Len(Tail(s)) : Tail(s)[i] = s[i + 1]
  BY HeadTailProperties
<1>3. 1 \in 1..Len(s) /\ s[1] \in S
  BY <1>1, ElementOfSeq
<1>4. QED
  BY <1>1, <1>2, <1>3

\* A new version goes to the end of the queue.
LEMMA SendKeepsOrder ==
    ASSUME NEW s \in Seq(Nat), NEW low \in Nat, NEW v \in Nat,
           low <= v, InOrder(s, low), \A i \in 1..Len(s) : s[i] <= v
    PROVE  InOrder(Append(s, v), low)
<1>1. \A i \in 1..Len(s) : s[i] \in Nat
  BY ElementOfSeq
<1>2. \A i \in 1..Len(Append(s, v)) : low <= Append(s, v)[i] /\ Append(s, v)[i] <= v
  BY <1>1, Appended DEF InOrder
<1>3. ASSUME NEW i \in 1..Len(Append(s, v)), NEW j \in 1..Len(Append(s, v)), i < j
      PROVE  Append(s, v)[i] <= Append(s, v)[j]
  <2>1. CASE Append(s, v)[j] = v
    BY <1>2, <2>1
  <2>2. CASE /\ i \in 1..Len(s) /\ Append(s, v)[i] = s[i]
             /\ j \in 1..Len(s) /\ Append(s, v)[j] = s[j]
    BY <1>3, <2>2 DEF InOrder
  <2>3. ~(j <= i)
    BY <1>3, LenProperties
  <2>4. QED
    BY <2>1, <2>2, <2>3, Appended
<1>4. QED
  BY <1>2, <1>3 DEF InOrder

\* An event that is late, or not older than those before it, goes to the end of the queue.
LEMMA PassKeepsOrder ==
    ASSUME NEW s \in Seq(JwsEvent), NEW e \in JwsEvent, NEW low, EventsInOrder(s, low),
           ~e.late => low <= e.version /\ \A i \in 1..Len(s) : ~s[i].late => s[i].version <= e.version
    PROVE  EventsInOrder(Append(s, e), low)
<1> DEFINE t == Append(s, e)
<1>1. \A i \in 1..Len(t) : ~t[i].late => low <= t[i].version
  BY Appended DEF EventsInOrder
<1>2. ASSUME NEW i \in 1..Len(t), NEW j \in 1..Len(t), i < j, ~t[i].late, ~t[j].late
      PROVE  t[i].version <= t[j].version
  <2>1. i \in 1..Len(s) /\ t[i] = s[i]
    <3>1. ~(j <= i)
      BY <1>2, LenProperties
    <3>2. QED
      BY <3>1, Appended
  <2>2. CASE t[j] = e
    BY <1>2, <2>1, <2>2
  <2>3. CASE j \in 1..Len(s) /\ t[j] = s[j]
    BY <1>2, <2>1, <2>3 DEF EventsInOrder
  <2>4. QED
    BY <2>2, <2>3, Appended
<1>3. QED
  BY <1>1, <1>2 DEF EventsInOrder

\* What remains after the first version is not older than it.
LEMMA RestInOrder ==
    ASSUME NEW s \in Seq(Nat), s # <<>>, NEW low \in Nat, InOrder(s, low)
    PROVE  low <= s[1] /\ InOrder(Tail(s), low) /\ InOrder(Tail(s), s[1])
<1>1. low <= s[1]
  BY Taken DEF InOrder
<1>2. \A i \in 1..Len(Tail(s)) : low <= Tail(s)[i] /\ s[1] <= Tail(s)[i]
  BY Taken DEF InOrder
<1>3. ASSUME NEW i \in 1..Len(Tail(s)), NEW j \in 1..Len(Tail(s)), i < j
      PROVE  Tail(s)[i] <= Tail(s)[j]
  <2>1. /\ i + 1 \in 1..Len(s) /\ j + 1 \in 1..Len(s) /\ i + 1 < j + 1
        /\ Tail(s)[i] = s[i + 1] /\ Tail(s)[j] = s[j + 1]
    BY <1>3, Taken
  <2>2. QED
    BY <2>1 DEF InOrder
<1>4. QED
  BY <1>1, <1>2, <1>3 DEF InOrder

LEMMA RestOfEvents ==
    ASSUME NEW s \in Seq(JwsEvent), s # <<>>, NEW low, EventsInOrder(s, low)
    PROVE  /\ EventsInOrder(Tail(s), low)
           /\ ~s[1].late => low <= s[1].version /\ EventsInOrder(Tail(s), s[1].version)
<1>1. ASSUME NEW i \in 1..Len(Tail(s)), NEW j \in 1..Len(Tail(s)), i < j, ~Tail(s)[i].late, ~Tail(s)[j].late
      PROVE  Tail(s)[i].version <= Tail(s)[j].version
  <2>1. /\ i + 1 \in 1..Len(s) /\ j + 1 \in 1..Len(s) /\ i + 1 < j + 1
        /\ Tail(s)[i] = s[i + 1] /\ Tail(s)[j] = s[j + 1]
    BY <1>1, Taken
  <2>2. QED
    BY <1>1, <2>1 DEF EventsInOrder
<1>2. \A i \in 1..Len(Tail(s)) : ~Tail(s)[i].late => low <= Tail(s)[i].version
  BY Taken DEF EventsInOrder
<1>3. ~s[1].late => /\ low <= s[1].version
                    /\ \A i \in 1..Len(Tail(s)) : ~Tail(s)[i].late => s[1].version <= Tail(s)[i].version
  BY Taken DEF EventsInOrder
<1>4. QED
  BY <1>1, <1>2, <1>3 DEF EventsInOrder

\* A queue without frames is in any order.
LEMMA NothingInTransit ==
    ASSUME NEW low, NEW s
    PROVE  InOrder(<<>>, low) /\ EventsInOrder(<<>>, low) /\ Before(<<>>, s) /\ Before(s, <<>>)
<1>1. Len(<<>>) = 0 /\ 1..0 = {}
  BY EmptySeq
<1>2. QED
  BY <1>1 DEF InOrder, EventsInOrder, Before

--------------------------------------------------------------------------------
(* Steps *)

\* issued() is a credential of the scheme that issues it.
LEMMA IssuedCredential ==
    ASSUME NEW scheme \in Schemes, NEW v \in 0..MaxCreds
    PROVE  /\ issued(scheme, v) \in Creds /\ Issued(issued(scheme, v), scheme)
           /\ v # 0 => issued(scheme, v) # None
BY AdapterAssumption DEF issued, Creds, None, Issued

\* What taken() returns is in the domain of its arguments.
LEMMA TakenType ==
    ASSUME NEW S, NEW state \in [Peers -> S], NEW p \in Peers, NEW value \in S
    PROVE  taken(state, p, value) \in [Peers -> S]
BY DEF taken

\* An event goes to the end of the queue of the present connection of the other peer, or is
\* dropped.
LEMMA Emitted ==
    ASSUME TypeOK, NEW p \in Peers, NEW e \in JwsEvent
    PROVE  /\ emitted(p, e) \in [Peers -> [Connections -> Seq(JwsEvent)]]
           /\ \A q \in Peers, d \in Connections :
                 \/ emitted(p, e)[q][d] = outbound[q][d]
                 \/ q = other(p) /\ d = drops[q] /\ emitted(p, e)[q][d] = Append(outbound[q][d], e)
<1>1. PICK q \in Peers : q = other(p)
  BY OtherPeer
<1>2. outbound \in [Peers -> [Connections -> Seq(JwsEvent)]] /\ drops[q] \in Connections
  BY DEF TypeOK
<1>3. Append(outbound[q][drops[q]], e) \in Seq(JwsEvent)
  BY <1>2, AppendProperties
<1> DEFINE added == [outbound EXCEPT ![q][drops[q]] = Append(outbound[q][drops[q]], e)]
<1>4. emitted(p, e) = outbound \/ emitted(p, e) = added
  BY <1>1 DEF emitted, propagated
<1>5. /\ added \in [Peers -> [Connections -> Seq(JwsEvent)]]
      /\ added[q][drops[q]] = Append(outbound[q][drops[q]], e)
      /\ \A r \in Peers, d \in Connections : r # q \/ d # drops[q] => added[r][d] = outbound[r][d]
  BY <1>2, <1>3, OneQueue
<1> HIDE DEF added
<1>6. emitted(p, e) \in [Peers -> [Connections -> Seq(JwsEvent)]]
  BY <1>2, <1>4, <1>5
<1>7. ASSUME NEW r \in Peers, NEW d \in Connections
      PROVE  \/ emitted(p, e)[r][d] = outbound[r][d]
             \/ r = other(p) /\ d = drops[r] /\ emitted(p, e)[r][d] = Append(outbound[r][d], e)
  <2>1. CASE r = q /\ d = drops[q]
    BY <1>1, <1>4, <1>5, <2>1
  <2>2. CASE r # q \/ d # drops[q]
    BY <1>4, <1>5, <2>2
  <2>3. QED
    BY <2>1, <2>2
<1>8. QED
  BY <1>6, <1>7

\* What PeerJws and Deliver take from a connection.
LEMMA PeerJwsEffect ==
    ASSUME TypeOK, NEW p \in Peers, NEW c \in Connections, PeerJws(p, c)
    PROVE  /\ inbound[p][c] \in Seq(Versions) /\ inbound[p][c] # <<>>
           /\ inbound' \in [Peers -> [Connections -> Seq(Versions)]]
           /\ inbound'[p][c] = Tail(inbound[p][c])
           /\ \A r \in Peers, d \in Connections : r # p \/ d # c => inbound'[r][d] = inbound[r][d]
           /\ \E e \in JwsEvent : /\ e.scheme = p /\ e.version = inbound[p][c][1] /\ e.late = (c # drops[p])
                                  /\ outbound' = emitted(p, e)
<1>1. inbound \in [Peers -> [Connections -> Seq(Versions)]]
  BY DEF TypeOK
<1>2. inbound[p][c] \in Seq(Versions) /\ inbound[p][c] # <<>>
  BY <1>1 DEF PeerJws
<1>3. Tail(inbound[p][c]) \in Seq(Versions) /\ Head(inbound[p][c]) = inbound[p][c][1] /\ inbound[p][c][1] \in Versions
  BY <1>2, Taken
<1>4. inbound' = [inbound EXCEPT ![p][c] = Tail(inbound[p][c])]
  BY DEF PeerJws
<1>5. /\ inbound' \in [Peers -> [Connections -> Seq(Versions)]]
      /\ inbound'[p][c] = Tail(inbound[p][c])
      /\ \A r \in Peers, d \in Connections : r # p \/ d # c => inbound'[r][d] = inbound[r][d]
  BY <1>1, <1>3, <1>4, OneQueue
<1>6. \E e \in JwsEvent : /\ e.scheme = p /\ e.version = inbound[p][c][1] /\ e.late = (c # drops[p])
                          /\ outbound' = emitted(p, e)
  <2>1. [scheme |-> p, version |-> inbound[p][c][1], late |-> c # drops[p]] \in JwsEvent
    BY <1>3 DEF JwsEvent, Schemes
  <2>2. outbound' = emitted(p, [scheme |-> p, version |-> inbound[p][c][1], late |-> c # drops[p]])
    BY <1>3, Wired DEF PeerJws
  <2>3. QED
    BY <2>1, <2>2
<1>7. QED
  BY <1>2, <1>5, <1>6

LEMMA DeliverEffect ==
    ASSUME TypeOK, NEW q \in Peers, NEW c \in Connections, Deliver(q, c)
    PROVE  /\ outbound[q][c] \in Seq(JwsEvent) /\ outbound[q][c] # <<>>
           /\ outbound' \in [Peers -> [Connections -> Seq(JwsEvent)]]
           /\ outbound'[q][c] = Tail(outbound[q][c])
           /\ \A r \in Peers, d \in Connections : r # q \/ d # c => outbound'[r][d] = outbound[r][d]
           /\ \E e \in JwsEvent :
                 /\ e = outbound[q][c][1]
                 /\ known' = [known EXCEPT ![q][e.scheme] = e.version]
                 /\ inTurn' = IF e.late \/ c # drops[q] THEN inTurn ELSE [inTurn EXCEPT ![q][e.scheme] = e.version]
<1>1. outbound \in [Peers -> [Connections -> Seq(JwsEvent)]]
  BY DEF TypeOK
<1>2. outbound[q][c] \in Seq(JwsEvent) /\ outbound[q][c] # <<>>
  BY <1>1 DEF Deliver
<1>3. Tail(outbound[q][c]) \in Seq(JwsEvent) /\ Head(outbound[q][c]) = outbound[q][c][1] /\ outbound[q][c][1] \in JwsEvent
  BY <1>2, Taken
<1>4. outbound' = [outbound EXCEPT ![q][c] = Tail(outbound[q][c])]
  BY DEF Deliver
<1>5. /\ outbound' \in [Peers -> [Connections -> Seq(JwsEvent)]]
      /\ outbound'[q][c] = Tail(outbound[q][c])
      /\ \A r \in Peers, d \in Connections : r # q \/ d # c => outbound'[r][d] = outbound[r][d]
  BY <1>1, <1>3, <1>4, OneQueue
<1>6. \E e \in JwsEvent :
          /\ e = outbound[q][c][1]
          /\ known' = [known EXCEPT ![q][e.scheme] = e.version]
          /\ inTurn' = IF e.late \/ c # drops[q] THEN inTurn ELSE [inTurn EXCEPT ![q][e.scheme] = e.version]
  BY <1>3, Wired DEF Deliver
<1>7. QED
  BY <1>2, <1>5, <1>6

\* JwsLoop adds the answer to the present connection, JwsChange the news to that one and to
\* earlier ones.
LEMMA JwsLoopEffect ==
    ASSUME TypeOK, NEW p \in Peers, JwsLoop(p)
    PROVE  /\ inbound' \in [Peers -> [Connections -> Seq(Versions)]]
           /\ inbound'[p][drops[p]] = Append(inbound[p][drops[p]], jws[p])
           /\ \A r \in Peers, d \in Connections : r # p \/ d # drops[p] => inbound'[r][d] = inbound[r][d]
           /\ UNCHANGED <<jws, outbound, known, inTurn>>
<1>1. /\ inbound \in [Peers -> [Connections -> Seq(Versions)]] /\ drops[p] \in Connections
      /\ jws[p] \in Versions
  BY DEF TypeOK, Schemes
<1>2. Append(inbound[p][drops[p]], jws[p]) \in Seq(Versions)
  BY <1>1, AppendProperties
<1>3. inbound' = [inbound EXCEPT ![p][drops[p]] = Append(inbound[p][drops[p]], jws[p])]
  BY Wired DEF JwsLoop
<1>4. QED
  BY <1>1, <1>2, <1>3, OneQueue DEF JwsLoop

LEMMA JwsChangeEffect ==
    ASSUME TypeOK, NEW s \in Peers, JwsChange(s)
    PROVE  /\ inbound' \in [Peers -> [Connections -> Seq(Versions)]]
           /\ jws' \in [Schemes -> Versions]
           /\ jws'[s] = jws[s] + 1 /\ \A p \in Peers : p # s => jws'[p] = jws[p]
           /\ \A p \in Peers, c \in Connections :
                 \/ inbound'[p][c] = inbound[p][c]
                 \/ p = s /\ c <= drops[p] /\ inbound'[p][c] = Append(inbound[p][c], jws'[p])
           /\ UNCHANGED <<outbound, known, inTurn>>
<1>1. /\ inbound \in [Peers -> [Connections -> Seq(Versions)]] /\ drops \in [Peers -> Connections]
      /\ jws \in [Peers -> Versions]
  BY DEF TypeOK, Schemes
<1>2. jws' = [jws EXCEPT ![s] = jws[s] + 1]
  BY DEF JwsChange
<1>3. jws[s] + 1 \in Versions
  <2>1. other(s) \in Peers
    BY OtherPeer
  <2>2. jws[s] \in Nat /\ jws[other(s)] \in Nat
    BY <1>1, <2>1, AdapterAssumption DEF Versions
  <2>3. jws[s] + jws[other(s)] < MaxJws
    BY DEF JwsChange
  <2>4. QED
    BY <2>2, <2>3, AdapterAssumption DEF Versions
<1>4. jws' \in [Peers -> Versions] /\ jws'[s] = jws[s] + 1 /\ \A p \in Peers : p # s => jws'[p] = jws[p]
  BY <1>1, <1>2, <1>3
<1>5. PICK held \in SUBSET Connections :
          inbound' = [p \in Peers |-> [c \in Connections |->
              IF hub(p) = s /\ IF c = drops[p] THEN connected[p] ELSE c < drops[p] /\ c \in held
              THEN Append(inbound[p][c], jws'[s]) ELSE inbound[p][c]]]
  BY DEF JwsChange
<1>6. ASSUME NEW p \in Peers, NEW c \in Connections
      PROVE  /\ \/ inbound'[p][c] = inbound[p][c]
                \/ p = s /\ c <= drops[p] /\ inbound'[p][c] = Append(inbound[p][c], jws'[p])
             /\ inbound'[p][c] \in Seq(Versions)
  <2>1. inbound[p][c] \in Seq(Versions) /\ jws'[s] \in Versions
    BY <1>1, <1>3, <1>4
  <2>2. Append(inbound[p][c], jws'[s]) \in Seq(Versions)
    BY <2>1, AppendProperties
  <2>3. c <= c /\ (c < drops[p] => c <= drops[p])
    BY <1>1, AdapterAssumption DEF Connections
  <2>4. hub(p) = p
    BY Wired
  <2>5. QED
    BY <1>5, <2>1, <2>2, <2>3, <2>4
<1>7. inbound' \in [Peers -> [Connections -> Seq(Versions)]]
  BY <1>5, <1>6
<1>8. QED
  BY <1>4, <1>6, <1>7 DEF JwsChange, Schemes

\* Every step keeps every variable in its domain.
LEMMA TypeStep == TypeOK /\ [Next]_vars => TypeOK'
<1> SUFFICES ASSUME TypeOK, [Next]_vars PROVE TypeOK'
  OBVIOUS
<1> USE AdapterAssumption DEF TypeOK, linkVars, jwsVars, authVars
<1>1. ASSUME NEW s \in Peers, JwsChange(s) PROVE TypeOK'
  BY <1>1, JwsChangeEffect DEF JwsChange
<1>2. ASSUME NEW p \in Peers, NEW c \in Connections, PeerJws(p, c) PROVE TypeOK'
  <2>1. outbound' \in [Peers -> [Connections -> Seq(JwsEvent)]]
    <3>1. PICK e \in JwsEvent : outbound' = emitted(p, e)
      BY <1>2, PeerJwsEffect
    <3>2. QED
      BY <3>1, Emitted
  <2>2. QED
    BY <1>2, <2>1, PeerJwsEffect DEF PeerJws
<1>3. ASSUME NEW p \in Peers, JwsLoop(p) PROVE TypeOK'
  BY <1>3, JwsLoopEffect DEF JwsLoop
<1>4. ASSUME NEW q \in Peers, NEW c \in Connections, Deliver(q, c) PROVE TypeOK'
  <2>1. PICK e \in JwsEvent :
            /\ e = outbound[q][c][1]
            /\ known' = [known EXCEPT ![q][e.scheme] = e.version]
            /\ inTurn' = IF e.late \/ c # drops[q] THEN inTurn ELSE [inTurn EXCEPT ![q][e.scheme] = e.version]
    <3> HIDE DEF TypeOK
    <3>1. TypeOK
      OBVIOUS
    <3>2. QED
      BY <1>4, <3>1, DeliverEffect
  <2>2. e.scheme \in Schemes /\ e.version \in Versions /\ q \in Schemes
    BY DEF JwsEvent, Schemes
  <2>3. known' \in [Schemes -> [Schemes -> Versions]] /\ inTurn' \in [Schemes -> [Schemes -> Versions]]
    BY <2>1, <2>2
  <2>4. QED
    BY <1>4, <2>3, DeliverEffect DEF Deliver
<1>5. ASSUME NEW p \in Peers, NEW v \in 0..MaxCreds, UpdateToken(p, v) PROVE TypeOK'
  <2>1. other(p) \in Peers /\ issued(peer(p).authClient, v) \in Creds
    BY OtherPeer, Wired, IssuedCredential DEF Schemes
  <2>2. accessToken' \in [Peers -> Creds]
    BY <1>5, <2>1, TakenType DEF UpdateToken
  <2>3. pingToken' \in [Peers -> Creds]
    BY <1>5, <2>1 DEF UpdateToken
  <2>4. QED
    BY <1>5, <2>2, <2>3 DEF UpdateToken
<1>6. ASSUME NEW p \in Peers, NEW v \in 0..MaxCreds, UpdateCerts(p, v) PROVE TypeOK'
  <2>1. other(p) \in Peers /\ issued(hub(p), v) \in Creds
    BY OtherPeer, Wired, IssuedCredential DEF Schemes
  <2>2. certs' \in [Peers -> Creds]
    BY <1>6, <2>1, TakenType DEF UpdateCerts
  <2>3. pingCerts' \in [Peers -> Creds]
    BY <1>6, <2>1 DEF UpdateCerts
  <2>4. QED
    BY <1>6, <2>2, <2>3 DEF UpdateCerts
<1>7. ASSUME NEW p \in Peers, Proxy(p) \/ PostPing(p) PROVE TypeOK'
  <2>1. peer(p).proxyService \in Schemes /\ peer(p).pingService \in Schemes
    BY Wired, OtherPeer DEF Schemes
  <2>2. sent' \in Requests
    BY <1>7, <2>1 DEF Proxy, PostPing, sendPutPingRequest, putPing, Requests
  <2>3. QED
    BY <1>7, <2>2 DEF Proxy, PostPing, sendPutPingRequest
<1>8. ASSUME NEW p \in Peers, Connect(p) \/ BecomesReady(p) \/ HttpStopped(p) PROVE TypeOK'
  BY <1>8 DEF Connect, Links!Connect, BecomesReady, Links!BecomesReady, HttpStopped, Links!HttpStopped
<1>9. ASSUME NEW p \in Peers, Disconnect(p) PROVE TypeOK'
  <2>1. drops' \in [Peers -> Connections]
    <3>1. other(p) \in Peers
      BY OtherPeer
    <3>2. drops[p] + 1 \in Connections
      <4>1. drops[p] \in Nat /\ drops[other(p)] \in Nat
        BY <3>1 DEF Connections
      <4>2. drops[p] + drops[other(p)] < MaxDrops
        BY <1>9 DEF Disconnect
      <4>3. \A a, b, n \in Nat : a + b < n => a + 1 \in 0..n
        OBVIOUS
      <4>4. QED
        BY <4>1, <4>2, <4>3 DEF Connections
    <3>3. QED
      BY <1>9, <3>2 DEF Disconnect
  <2>2. QED
    BY <1>9, <2>1 DEF Disconnect, Links!Disconnect
<1>10. CASE Stop
  BY <1>10 DEF Stop, Links!Stop
<1>11. CASE UNCHANGED vars
  BY <1>11 DEF vars
<1>12. QED
  BY <1>1, <1>2, <1>3, <1>4, <1>5, <1>6, <1>7, <1>8, <1>9, <1>10, <1>11
     DEF Next, JwsStep, AuthStep, LinkStep

\* A step that does not deal with JWS may give a peer its next connection.
LEMMA OtherSteps ==
    ASSUME TypeOK, [Next]_vars
    PROVE  \/ UNCHANGED drops /\ \E p \in Peers : JwsStep(p)
           \/ /\ UNCHANGED jwsVars
              /\ \A p \in Peers : drops'[p] = drops[p] \/ drops'[p] = drops[p] + 1
<1> USE DEF linkVars
<1>1. ASSUME NEW p \in Peers, NEW v \in 0..MaxCreds, UpdateToken(p, v) \/ UpdateCerts(p, v)
      PROVE  UNCHANGED <<jwsVars, drops>>
  BY <1>1 DEF UpdateToken, UpdateCerts
<1>2. ASSUME NEW p \in Peers, Proxy(p) \/ PostPing(p) PROVE UNCHANGED <<jwsVars, drops>>
  BY <1>2 DEF Proxy, PostPing, sendPutPingRequest
<1>3. ASSUME NEW p \in Peers, Connect(p) \/ BecomesReady(p) \/ HttpStopped(p) PROVE UNCHANGED <<jwsVars, drops>>
  BY <1>3 DEF Connect, BecomesReady, HttpStopped
<1>4. CASE Stop
  BY <1>4 DEF Stop
<1>5. ASSUME NEW p \in Peers, Disconnect(p)
      PROVE  UNCHANGED jwsVars /\ \A q \in Peers : drops'[q] = drops[q] \/ drops'[q] = drops[q] + 1
  BY <1>5 DEF Disconnect, TypeOK
<1>6. CASE UNCHANGED vars
  BY <1>6 DEF vars
<1>7. ASSUME NEW p \in Peers, JwsStep(p) PROVE UNCHANGED drops
  BY <1>7 DEF JwsStep, JwsChange, JwsLoop, PeerJws, Deliver
<1>8. QED
  BY <1>1, <1>2, <1>3, <1>4, <1>5, <1>6, <1>7 DEF Next, AuthStep, LinkStep

\* What a connection carries after a step is what it did, but for one frame at most.
LEMMA QueueStep ==
    ASSUME TypeOK, BoundInv, [Next]_vars, NEW p \in Peers, NEW c \in Connections
    PROVE  /\ jws[p] <= jws'[p] /\ drops[p] <= drops'[p]
           /\ \/ inbound'[p][c] = inbound[p][c]
              \/ c <= drops[p] /\ inbound'[p][c] = Append(inbound[p][c], jws'[p])
              \/ inbound[p][c] # <<>> /\ inbound'[p][c] = Tail(inbound[p][c])
           /\ \/ outbound'[p][c] = outbound[p][c]
              \/ /\ c <= drops[p]
                 /\ \E e \in JwsEvent : /\ e.scheme = other(p) /\ e.version <= jws[other(p)]
                                        /\ outbound'[p][c] = Append(outbound[p][c], e)
              \/ outbound[p][c] # <<>> /\ outbound'[p][c] = Tail(outbound[p][c])
<1> DEFINE In == \/ inbound'[p][c] = inbound[p][c]
                 \/ c <= drops[p] /\ inbound'[p][c] = Append(inbound[p][c], jws'[p])
                 \/ inbound[p][c] # <<>> /\ inbound'[p][c] = Tail(inbound[p][c])
           Out == \/ outbound'[p][c] = outbound[p][c]
                  \/ /\ c <= drops[p]
                     /\ \E e \in JwsEvent : /\ e.scheme = other(p) /\ e.version <= jws[other(p)]
                                            /\ outbound'[p][c] = Append(outbound[p][c], e)
                  \/ outbound[p][c] # <<>> /\ outbound'[p][c] = Tail(outbound[p][c])
<1>type. jws[p] \in Nat /\ drops[p] \in Nat /\ c \in Nat /\ drops[p] \in Connections
  BY AdapterAssumption DEF TypeOK, Versions, Connections, Schemes
<1>1. ASSUME NEW s \in Peers, JwsChange(s) PROVE jws[p] <= jws'[p] /\ In /\ Out
  <2>1. jws'[s] = jws[s] + 1 /\ \A r \in Peers : r # s => jws'[r] = jws[r]
    BY <1>1, JwsChangeEffect
  <2>2. jws[p] <= jws'[p]
    BY <1>type, <2>1
  <2>3. QED
    BY <1>1, <2>2, JwsChangeEffect
<1>2. ASSUME NEW r \in Peers, JwsLoop(r) PROVE jws[p] <= jws'[p] /\ In /\ Out
  <2>1. UNCHANGED <<jws, outbound>>
    BY <1>2, JwsLoopEffect
  <2>2. CASE r = p /\ c = drops[p]
    BY <1>2, <1>type, <2>1, <2>2, JwsLoopEffect
  <2>3. CASE r # p \/ c # drops[p]
    BY <1>2, <1>type, <2>1, <2>3, JwsLoopEffect
  <2>4. QED
    BY <2>2, <2>3
<1>3. ASSUME NEW r \in Peers, NEW d \in Connections, PeerJws(r, d) PROVE jws[p] <= jws'[p] /\ In /\ Out
  <2>1. jws' = jws
    BY <1>3 DEF PeerJws
  <2>2. In
    BY <1>3, PeerJwsEffect
  <2>3. PICK e \in JwsEvent : e.scheme = r /\ e.version = inbound[r][d][1] /\ outbound' = emitted(r, e)
    BY <1>3, PeerJwsEffect
  <2>4. e.version <= jws[r]
    <3>1. inbound[r][d] \in Seq(Versions) /\ inbound[r][d] # <<>>
      BY <1>3, PeerJwsEffect
    <3>2. 1 \in 1..Len(inbound[r][d])
      BY <3>1, Taken
    <3>3. QED
      BY <2>3, <3>2 DEF BoundInv, Bounded
  <2>5. Out
    <3>1. \/ outbound'[p][c] = outbound[p][c]
          \/ p = other(r) /\ c = drops[p] /\ outbound'[p][c] = Append(outbound[p][c], e)
      BY <2>3, Emitted
    <3>2. ASSUME p = other(r) PROVE r = other(p)
      BY <3>2, OtherPeer
    <3>3. c = drops[p] => c <= drops[p]
      BY <1>type
    <3>4. QED
      BY <2>3, <2>4, <3>1, <3>2, <3>3
  <2>6. QED
    BY <1>type, <2>1, <2>2, <2>5
<1>4. ASSUME NEW r \in Peers, NEW d \in Connections, Deliver(r, d) PROVE jws[p] <= jws'[p] /\ In /\ Out
  <2>1. jws' = jws /\ inbound' = inbound
    BY <1>4 DEF Deliver
  <2>2. /\ outbound[r][d] # <<>> /\ outbound'[r][d] = Tail(outbound[r][d])
        /\ p # r \/ c # d => outbound'[p][c] = outbound[p][c]
    BY <1>4, DeliverEffect
  <2>3. QED
    BY <1>type, <2>1, <2>2
<1>5. CASE UNCHANGED drops /\ \E r \in Peers : JwsStep(r)
  BY <1>1, <1>2, <1>3, <1>4, <1>5, <1>type DEF JwsStep
<1>6. CASE UNCHANGED jwsVars /\ \A r \in Peers : drops'[r] = drops[r] \/ drops'[r] = drops[r] + 1
  BY <1>6, <1>type DEF jwsVars
<1>7. QED
  BY <1>5, <1>6, OtherSteps

\* Connections carry what their scheme has had, and nothing before they are there.
LEMMA BoundStep == TypeOK /\ TypeOK' /\ BoundInv /\ [Next]_vars => BoundInv'
<1> SUFFICES ASSUME TypeOK, TypeOK', BoundInv, [Next]_vars, NEW p \in Peers, NEW c \in Connections
             PROVE  Bounded(p, c)'
  BY DEF BoundInv
<1>1. PICK q \in Peers : q = other(p)
  BY OtherPeer
<1>type. /\ jws[p] \in Nat /\ jws'[p] \in Nat /\ jws[q] \in Nat /\ jws'[q] \in Nat
         /\ drops[p] \in Nat /\ drops'[p] \in Nat /\ c \in Nat
         /\ inbound[p][c] \in Seq(Nat) /\ outbound[p][c] \in Seq(JwsEvent)
         /\ \A e \in JwsEvent : e.version \in Nat
  <2>1. Versions \subseteq Nat /\ Connections \subseteq Nat
    BY AdapterAssumption DEF Versions, Connections
  <2>2. inbound[p][c] \in Seq(Versions)
    BY DEF TypeOK
  <2>3. inbound[p][c] \in Seq(Nat)
    BY <2>1, <2>2, SeqMonotonic
  <2>4. QED
    BY <2>1, <2>3 DEF TypeOK, Schemes, JwsEvent
<1>2. jws[p] <= jws'[p] /\ drops[p] <= drops'[p] /\ jws[q] <= jws'[q]
  BY QueueStep
<1>3. Bounded(p, c)
  BY DEF BoundInv
<1>4. \A i \in 1..Len(inbound'[p][c]) : inbound'[p][c][i] <= jws'[p]
  <2>1. \A i \in 1..Len(inbound[p][c]) : inbound[p][c][i] \in Nat /\ inbound[p][c][i] <= jws'[p]
    <3>1. \A i \in 1..Len(inbound[p][c]) : inbound[p][c][i] \in Nat
      BY <1>type, ElementOfSeq
    <3>2. \A i \in 1..Len(inbound[p][c]) : inbound[p][c][i] <= jws[p]
      BY <1>3 DEF Bounded
    <3>3. QED
      BY <1>type, <1>2, <3>1, <3>2
  <2>2. CASE inbound'[p][c] = inbound[p][c]
    BY <2>1, <2>2
  <2>3. CASE inbound'[p][c] = Append(inbound[p][c], jws'[p])
    BY <1>type, <2>1, <2>3, Appended
  <2>4. CASE inbound[p][c] # <<>> /\ inbound'[p][c] = Tail(inbound[p][c])
    <3>1. \A i \in 1..Len(Tail(inbound[p][c])) :
              i + 1 \in 1..Len(inbound[p][c]) /\ Tail(inbound[p][c])[i] = inbound[p][c][i + 1]
      BY <1>type, <2>4, Taken
    <3>2. QED
      BY <2>1, <2>4, <3>1
  <2>5. QED
    BY <2>2, <2>3, <2>4, QueueStep
<1>5. \A i \in 1..Len(outbound'[p][c]) : outbound'[p][c][i].scheme = q /\ outbound'[p][c][i].version <= jws'[q]
  <2>1. \A i \in 1..Len(outbound[p][c]) : outbound[p][c][i].scheme = q /\ outbound[p][c][i].version <= jws'[q]
    <3>1. \A i \in 1..Len(outbound[p][c]) : outbound[p][c][i].version \in Nat
      BY <1>type, ElementOfSeq
    <3>2. \A i \in 1..Len(outbound[p][c]) : outbound[p][c][i].scheme = q /\ outbound[p][c][i].version <= jws[q]
      BY <1>1, <1>3 DEF Bounded
    <3>3. QED
      BY <1>type, <1>2, <3>1, <3>2
  <2>2. CASE outbound'[p][c] = outbound[p][c]
    BY <2>1, <2>2
  <2>3. ASSUME NEW e \in JwsEvent, e.scheme = q, e.version <= jws[q], outbound'[p][c] = Append(outbound[p][c], e)
        PROVE  \A i \in 1..Len(outbound'[p][c]) :
                   outbound'[p][c][i].scheme = q /\ outbound'[p][c][i].version <= jws'[q]
    <3>1. e.version <= jws'[q]
      BY <1>type, <1>2, <2>3
    <3>2. \A i \in 1..Len(outbound'[p][c]) :
              \/ i \in 1..Len(outbound[p][c]) /\ outbound'[p][c][i] = outbound[p][c][i]
              \/ outbound'[p][c][i] = e
      <4>1. \A i \in 1..Len(Append(outbound[p][c], e)) :
                \/ i \in 1..Len(outbound[p][c]) /\ Append(outbound[p][c], e)[i] = outbound[p][c][i]
                \/ Append(outbound[p][c], e)[i] = e
        BY <1>type, Appended
      <4>2. QED
        BY <2>3, <4>1
    <3>3. QED
      BY <2>1, <2>3, <3>1, <3>2
  <2>4. CASE outbound[p][c] # <<>> /\ outbound'[p][c] = Tail(outbound[p][c])
    <3>1. \A i \in 1..Len(outbound'[p][c]) :
              i + 1 \in 1..Len(outbound[p][c]) /\ outbound'[p][c][i] = outbound[p][c][i + 1]
      BY <1>type, <2>4, Taken
    <3>2. QED
      BY <2>1, <3>1
  <2>5. QED
    BY <1>1, <2>2, <2>3, <2>4, QueueStep
<1>6. ASSUME c > drops'[p] PROVE inbound'[p][c] = <<>> /\ outbound'[p][c] = <<>>
  <2>1. c > drops[p]
    BY <1>type, <1>2, <1>6
  <2>2. inbound[p][c] = <<>> /\ outbound[p][c] = <<>> /\ ~(c <= drops[p])
    BY <1>type, <1>3, <2>1 DEF Bounded
  <2>3. QED
    BY <2>2, QueueStep
<1>7. QED
  BY <1>1, <1>4, <1>5, <1>6 DEF Bounded

\* A step changes the way from the scheme of p to the hub of q at one end at most, and
\* there as a queue, or gives it a new connection at one end.
LEMMA OrderStep ==
    ASSUME TypeOK, TypeOK', BoundInv, OrderInv, [Next]_vars, NEW p \in Peers, NEW q \in Peers, p # q
    PROVE  RelayInv(p, q)'
<1>old. RelayInv(p, q)
  BY DEF OrderInv
<1>hubs. /\ q = other(p) /\ p = other(q) /\ p \in Schemes /\ q \in Schemes
         /\ \A r \in Peers : r # p => r = q
  BY OtherPeer DEF Schemes
<1>type. /\ drops[p] \in Connections /\ drops[q] \in Connections
         /\ inNow(p) \in Seq(Nat) /\ outNow(q) \in Seq(JwsEvent)
         /\ jws[p] \in Nat /\ inTurn[q][p] \in Nat
         /\ \A i \in 1..Len(inNow(p)) : inNow(p)[i] \in Nat /\ inNow(p)[i] <= jws[p]
         /\ \A i \in 1..Len(outNow(q)) : outNow(q)[i].version \in Nat /\ outNow(q)[i].version <= jws[p]
  <2>1. Versions \subseteq Nat /\ \A e \in JwsEvent : e.version \in Nat
    BY AdapterAssumption DEF Versions, JwsEvent
  <2>2. /\ inNow(p) \in Seq(Versions) /\ outNow(q) \in Seq(JwsEvent)
        /\ drops[p] \in Connections /\ drops[q] \in Connections
        /\ jws[p] \in Versions /\ inTurn[q][p] \in Versions
    BY <1>hubs DEF TypeOK, inNow, outNow
  <2>3. inNow(p) \in Seq(Nat)
    BY <2>1, <2>2, SeqMonotonic
  <2>4. /\ \A i \in 1..Len(inNow(p)) : inNow(p)[i] \in Nat
        /\ \A i \in 1..Len(outNow(q)) : outNow(q)[i].version \in Nat
    BY <2>1, <2>2, <2>3, ElementOfSeq
  <2>5. Bounded(p, drops[p]) /\ Bounded(q, drops[q])
    BY <2>2 DEF BoundInv
  <2>6. QED
    BY <1>hubs, <2>1, <2>2, <2>3, <2>4, <2>5 DEF Bounded, inNow, outNow
\* Frames stay on their way, or the connection they are on is no longer the present one.
<1>same. ASSUME inNow(p)' \in {inNow(p), <<>>}, outNow(q)' \in {outNow(q), <<>>},
                inTurn'[q][p] = inTurn[q][p], jws'[p] = jws[p]
         PROVE  RelayInv(p, q)'
  BY <1>old, <1>same, NothingInTransit DEF RelayInv
\* The newest version is added at the end.
<1>send. ASSUME NEW v \in Nat, v = jws'[p], jws[p] <= v,
                inNow(p)' = inNow(p) \/ inNow(p)' = Append(inNow(p), v),
                outNow(q)' = outNow(q), inTurn' = inTurn
         PROVE  RelayInv(p, q)'
  <2>1. inTurn[q][p] <= v /\ (\A i \in 1..Len(inNow(p)) : inNow(p)[i] <= v)
        /\ \A i \in 1..Len(outNow(q)) : outNow(q)[i].version <= v
    <3>1. inTurn[q][p] <= jws[p]
      BY <1>old DEF RelayInv
    <3>2. \A n \in Nat : n <= jws[p] => n <= v
      BY <1>type, <1>send
    <3>3. QED
      BY <1>type, <3>1, <3>2
  <2>2. InOrder(inNow(p)', inTurn[q][p])
    BY <1>old, <1>type, <1>send, <2>1, SendKeepsOrder DEF RelayInv
  <2>3. Before(outNow(q), inNow(p)')
    <3>1. CASE inNow(p)' = inNow(p)
      BY <1>old, <3>1 DEF RelayInv
    <3>2. CASE inNow(p)' = Append(inNow(p), v)
      <4>1. ASSUME NEW i \in 1..Len(outNow(q)), NEW j \in 1..Len(inNow(p)'), ~outNow(q)[i].late
            PROVE  outNow(q)[i].version <= inNow(p)'[j]
        <5>1. CASE inNow(p)'[j] = v
          BY <2>1, <4>1, <5>1
        <5>2. CASE j \in 1..Len(inNow(p)) /\ inNow(p)'[j] = inNow(p)[j]
          BY <1>old, <4>1, <5>2 DEF RelayInv, Before
        <5>3. QED
          BY <1>type, <3>2, <4>1, <5>1, <5>2, Appended
      <4>2. QED
        BY <4>1 DEF Before
    <3>3. QED
      BY <1>send, <3>1, <3>2
  <2>4. QED
    BY <1>old, <1>send, <2>1, <2>2, <2>3 DEF RelayInv
<1>jws. CASE UNCHANGED drops /\ \E r \in Peers : JwsStep(r)
  <2>now. inNow(p)' = inbound'[p][drops[p]] /\ outNow(q)' = outbound'[q][drops[q]]
    BY <1>jws DEF inNow, outNow
  <2>emitted. ASSUME NEW r \in Peers, NEW e \in JwsEvent, NEW d \in Connections
              PROVE  \/ emitted(r, e)[q][d] = outbound[q][d]
                     \/ q = other(r) /\ emitted(r, e)[q][d] = Append(outbound[q][d], e)
    BY Emitted
  <2>1. ASSUME NEW s \in Peers, JwsChange(s) PROVE RelayInv(p, q)'
    <3>1. outNow(q)' = outNow(q) /\ inTurn' = inTurn
      BY <2>now, <2>1, JwsChangeEffect DEF outNow
    <3>2. inNow(p)' = inNow(p) \/ inNow(p)' = Append(inNow(p), jws'[p])
      BY <1>type, <2>now, <2>1, JwsChangeEffect DEF inNow
    <3>3. jws'[p] \in Nat /\ jws[p] <= jws'[p]
      <4>1. jws'[s] = jws[s] + 1 /\ \A r \in Peers : r # s => jws'[r] = jws[r]
        BY <2>1, JwsChangeEffect
      <4>2. QED
        BY <1>type, <4>1
    <3>4. QED
      BY <1>send, <3>1, <3>2, <3>3
  <2>2. ASSUME NEW r \in Peers, JwsLoop(r) PROVE RelayInv(p, q)'
    <3>1. outNow(q)' = outNow(q) /\ inTurn' = inTurn /\ jws' = jws
      BY <2>now, <2>2, JwsLoopEffect DEF outNow
    <3>2. inNow(p)' = inNow(p) \/ inNow(p)' = Append(inNow(p), jws'[p])
      BY <1>type, <2>now, <2>2, <3>1, JwsLoopEffect DEF inNow
    <3>3. jws[p] <= jws'[p]
      BY <1>type, <3>1
    <3>4. QED
      BY <1>type, <1>send, <3>1, <3>2, <3>3
  <2>3. ASSUME NEW r \in Peers, NEW c \in Connections, PeerJws(r, c) PROVE RelayInv(p, q)'
    <3>1. inTurn' = inTurn /\ jws' = jws
      BY <2>3 DEF PeerJws
    <3>2. PICK e \in JwsEvent : /\ e.scheme = r /\ e.version = inbound[r][c][1]
                                /\ e.late = (c # drops[r]) /\ outbound' = emitted(r, e)
      BY <2>3, PeerJwsEffect
    <3>3. CASE r # p
      <4>1. inNow(p)' = inNow(p)
        <5>1. inbound'[p][drops[p]] = inbound[p][drops[p]]
          BY <1>type, <2>3, <3>3, PeerJwsEffect
        <5>2. QED
          BY <2>now, <5>1 DEF inNow
      <4>2. other(r) # q
        BY <1>hubs, <3>3, OtherPeer
      <4>3. outNow(q)' = outNow(q)
        <5>1. drops[q] \in Connections
          BY <1>type
        <5>2. emitted(r, e)[q][drops[q]] = outbound[q][drops[q]]
          BY <2>emitted, <4>2, <5>1
        <5>3. QED
          BY <2>now, <3>2, <5>2 DEF outNow
      <4>4. QED
        BY <1>same, <3>1, <4>1, <4>3
    <3>4. CASE r = p
      <4>1. outNow(q)' = outNow(q) \/ outNow(q)' = Append(outNow(q), e)
        <5>1. drops[q] \in Connections
          BY <1>type
        <5>2. \/ emitted(r, e)[q][drops[q]] = outbound[q][drops[q]]
              \/ emitted(r, e)[q][drops[q]] = Append(outbound[q][drops[q]], e)
          BY <2>emitted, <5>1
        <5>3. QED
          BY <2>now, <3>2, <5>2 DEF outNow
      <4>2. CASE c # drops[p]
        <5>1. inNow(p)' = inNow(p) /\ e.late
          <6>1. inbound'[p][drops[p]] = inbound[p][drops[p]]
            BY <1>type, <2>3, <3>4, <4>2, PeerJwsEffect
          <6>2. QED
            BY <2>now, <3>2, <3>4, <4>2, <6>1 DEF inNow
        <5>2. EventsInOrder(outNow(q)', inTurn[q][p])
          BY <1>old, <1>type, <4>1, <5>1, PassKeepsOrder DEF RelayInv
        <5>3. Before(outNow(q)', inNow(p))
          <6>1. \A i \in 1..Len(outNow(q)') :
                    \/ i \in 1..Len(outNow(q)) /\ outNow(q)'[i] = outNow(q)[i]
                    \/ outNow(q)'[i] = e
            <7>1. \A i \in 1..Len(Append(outNow(q), e)) :
                      \/ i \in 1..Len(outNow(q)) /\ Append(outNow(q), e)[i] = outNow(q)[i]
                      \/ Append(outNow(q), e)[i] = e
              BY <1>type, Appended
            <7>2. QED
              BY <4>1, <7>1
          <6>2. QED
            BY <1>old, <5>1, <6>1 DEF RelayInv, Before
        <5>4. QED
          BY <1>old, <3>1, <5>1, <5>2, <5>3 DEF RelayInv
      <4>3. CASE c = drops[p]
        <5>1. /\ inNow(p) # <<>> /\ inNow(p)' = Tail(inNow(p))
              /\ e.version = inNow(p)[1] /\ ~e.late
          <6>1. inbound[p][drops[p]] # <<>> /\ inbound'[p][drops[p]] = Tail(inbound[p][drops[p]])
            BY <2>3, <3>4, <4>3, PeerJwsEffect
          <6>2. e.version = inbound[p][drops[p]][1] /\ ~e.late
            BY <3>2, <3>4, <4>3
          <6>3. QED
            BY <2>now, <6>1, <6>2 DEF inNow
        <5>2. 1 \in 1..Len(inNow(p)) /\ e.version \in Nat
          BY <1>type, <5>1, Taken
        <5>3. /\ inTurn[q][p] <= e.version
              /\ InOrder(inNow(p)', inTurn[q][p]) /\ InOrder(inNow(p)', e.version)
          BY <1>old, <1>type, <5>1, RestInOrder DEF RelayInv
        <5>4. \A i \in 1..Len(outNow(q)) : ~outNow(q)[i].late => outNow(q)[i].version <= e.version
          BY <1>old, <5>1, <5>2 DEF RelayInv, Before
        <5>5. EventsInOrder(outNow(q)', inTurn[q][p])
          BY <1>old, <1>type, <4>1, <5>3, <5>4, PassKeepsOrder DEF RelayInv
        <5>6. ASSUME NEW i \in 1..Len(outNow(q)'), NEW j \in 1..Len(inNow(p)'), ~outNow(q)'[i].late
              PROVE  outNow(q)'[i].version <= inNow(p)'[j]
          <6>1. /\ j + 1 \in 1..Len(inNow(p)) /\ inNow(p)'[j] = inNow(p)[j + 1]
                /\ e.version <= inNow(p)'[j]
            BY <1>type, <5>1, <5>3, <5>6, Taken DEF InOrder
          <6>2. CASE outNow(q)'[i] = e
            BY <6>1, <6>2
          <6>3. CASE i \in 1..Len(outNow(q)) /\ outNow(q)'[i] = outNow(q)[i]
            BY <1>old, <5>6, <6>1, <6>3 DEF RelayInv, Before
          <6>4. \/ i \in 1..Len(outNow(q)) /\ outNow(q)'[i] = outNow(q)[i]
                \/ outNow(q)'[i] = e
            <7>1. \A k \in 1..Len(Append(outNow(q), e)) :
                      \/ k \in 1..Len(outNow(q)) /\ Append(outNow(q), e)[k] = outNow(q)[k]
                      \/ Append(outNow(q), e)[k] = e
              BY <1>type, Appended
            <7>2. QED
              BY <4>1, <5>6, <7>1
          <6>5. QED
            BY <6>2, <6>3, <6>4
        <5>7. QED
          BY <1>old, <3>1, <5>3, <5>5, <5>6 DEF RelayInv, Before
      <4>4. QED
        BY <4>2, <4>3
    <3>5. QED
      BY <3>3, <3>4
  <2>4. ASSUME NEW r \in Peers, NEW c \in Connections, Deliver(r, c) PROVE RelayInv(p, q)'
    <3>1. inNow(p)' = inNow(p) /\ jws' = jws
      BY <2>now, <2>4 DEF Deliver, inNow
    <3>2. PICK e \in JwsEvent :
              /\ e = outbound[r][c][1]
              /\ inTurn' = IF e.late \/ c # drops[r] THEN inTurn ELSE [inTurn EXCEPT ![r][e.scheme] = e.version]
      BY <2>4, DeliverEffect
    <3>3. CASE r # q \/ c # drops[q]
      <4>1. outNow(q)' = outNow(q)
        BY <1>type, <2>now, <2>4, <3>3, DeliverEffect DEF outNow
      <4>2. inTurn'[q][p] = inTurn[q][p]
        BY <1>hubs, <3>2, <3>3 DEF TypeOK, Schemes
      <4>3. QED
        BY <1>same, <3>1, <4>1, <4>2
    <3>4. CASE r = q /\ c = drops[q]
      <4>1. outNow(q) # <<>> /\ outNow(q)' = Tail(outNow(q)) /\ e = outNow(q)[1]
        BY <2>now, <2>4, <3>2, <3>4, DeliverEffect DEF outNow
      <4>2. /\ 1 \in 1..Len(outNow(q)) /\ e.version \in Nat /\ e.version <= jws[p]
            /\ \A i \in 1..Len(outNow(q)') : outNow(q)'[i] = outNow(q)[i + 1] /\ i + 1 \in 1..Len(outNow(q))
        BY <1>type, <4>1, Taken
      <4>3. Before(outNow(q)', inNow(p))
        BY <1>old, <4>2 DEF RelayInv, Before
      <4>4. /\ EventsInOrder(outNow(q)', inTurn[q][p])
            /\ ~e.late => EventsInOrder(outNow(q)', e.version)
        BY <1>old, <1>type, <4>1, RestOfEvents DEF RelayInv
      <4>5. CASE e.late
        <5>1. inTurn' = inTurn
          BY <3>2, <4>5
        <5>2. QED
          BY <1>old, <3>1, <4>3, <4>4, <5>1 DEF RelayInv
      <4>6. CASE ~e.late
        <5>1. e.scheme = p
          <6>1. Bounded(q, drops[q])
            BY <1>type DEF BoundInv
          <6>2. QED
            BY <1>hubs, <4>1, <4>2, <6>1 DEF Bounded, outNow
        <5>2. inTurn'[q][p] = e.version
          <6>1. inTurn' = [inTurn EXCEPT ![q][p] = e.version]
            BY <3>2, <3>4, <4>6, <5>1
          <6>2. inTurn \in [Schemes -> [Schemes -> Versions]]
            BY DEF TypeOK
          <6>3. QED
            BY <1>hubs, <6>1, <6>2
        <5>3. InOrder(inNow(p), e.version)
          BY <1>old, <4>1, <4>2, <4>6 DEF RelayInv, InOrder, Before
        <5>4. QED
          BY <3>1, <4>2, <4>3, <4>4, <4>6, <5>2, <5>3 DEF RelayInv
      <4>7. QED
        BY <4>5, <4>6
    <3>5. QED
      BY <3>3, <3>4
  <2>5. QED
    BY <1>jws, <2>1, <2>2, <2>3, <2>4 DEF JwsStep
<1>link. CASE UNCHANGED jwsVars /\ \A r \in Peers : drops'[r] = drops[r] \/ drops'[r] = drops[r] + 1
  <2>1. ASSUME NEW r \in Peers, drops'[r] = drops[r] + 1 PROVE inNow(r)' = <<>> /\ outNow(r)' = <<>>
    <3>1. drops'[r] \in Connections /\ drops'[r] > drops[r]
      BY <2>1, AdapterAssumption DEF TypeOK, Connections
    <3>2. Bounded(r, drops'[r])
      BY <3>1 DEF BoundInv
    <3>3. QED
      BY <1>link, <3>1, <3>2 DEF Bounded, inNow, outNow, jwsVars
  <2>2. ASSUME NEW r \in Peers, drops'[r] = drops[r] PROVE inNow(r)' = inNow(r) /\ outNow(r)' = outNow(r)
    BY <1>link, <2>2 DEF inNow, outNow, jwsVars
  <2>3. inTurn' = inTurn /\ jws' = jws
    BY <1>link DEF jwsVars
  <2>4. QED
    BY <1>link, <1>same, <2>1, <2>2, <2>3
<1>6. QED
  BY <1>jws, <1>link, OtherSteps

\* Only an update changes credentials.
LEMMA CredentialsUnchanged ==
    ASSUME [Next]_vars
    PROVE  \/ \E p \in Peers, v \in 0..MaxCreds : UpdateToken(p, v) \/ UpdateCerts(p, v)
           \/ UNCHANGED <<accessToken, certs, pingToken, pingCerts>>
<1> USE DEF linkVars, jwsVars, authVars
<1>1. ASSUME NEW p \in Peers, JwsStep(p) PROVE UNCHANGED authVars
  BY <1>1 DEF JwsStep, JwsChange, PeerJws, JwsLoop, Deliver
<1>2. ASSUME NEW p \in Peers, LinkStep(p) PROVE UNCHANGED authVars
  BY <1>2 DEF LinkStep, Connect, Links!Connect, BecomesReady, Links!BecomesReady, Disconnect,
     Links!Disconnect, HttpStopped, Links!HttpStopped
<1>3. ASSUME NEW p \in Peers, Proxy(p) \/ PostPing(p)
      PROVE  UNCHANGED <<accessToken, certs, pingToken, pingCerts>>
  BY <1>3 DEF Proxy, PostPing, sendPutPingRequest
<1>4. CASE Stop \/ UNCHANGED vars
  BY <1>4 DEF Stop, Links!Stop, vars
<1>5. QED
  BY <1>1, <1>2, <1>3, <1>4 DEF Next, AuthStep

\* Credentials of a scheme reach the HttpServer of its peer and the ping service of the other.
LEMMA CredentialStep == TypeOK /\ CredentialInv /\ [Next]_vars => CredentialInv'
<1> SUFFICES ASSUME TypeOK, CredentialInv, [Next]_vars, NEW p \in Peers
             PROVE  /\ Issued(accessToken'[p], p) /\ Issued(certs'[p], p)
                    /\ Issued(pingToken'[other(p)], p) /\ Issued(pingCerts'[other(p)], p)
                    /\ pingCerts'[p] # None => pingToken'[p] # None
  BY DEF CredentialInv
<1> DEFINE Goal == /\ Issued(accessToken'[p], p) /\ Issued(certs'[p], p)
                   /\ Issued(pingToken'[other(p)], p) /\ Issued(pingCerts'[other(p)], p)
                   /\ pingCerts'[p] # None => pingToken'[p] # None
<1> USE DEF linkVars, jwsVars, authVars
<1>old. /\ Issued(accessToken[p], p) /\ Issued(certs[p], p)
        /\ Issued(pingToken[other(p)], p) /\ Issued(pingCerts[other(p)], p)
        /\ pingCerts[p] # None => pingToken[p] # None
  BY DEF CredentialInv
<1>other. other(p) \in Peers /\ \A q \in Peers : other(q) \in Peers /\ (other(q) = other(p) => q = p)
  BY OtherPeer
<1>1. ASSUME NEW q \in Peers, NEW v \in 0..MaxCreds, UpdateToken(q, v) PROVE Goal
  <2>1. PICK token \in Creds : token = issued(peer(q).authClient, v) /\ Issued(token, q)
    BY Wired, IssuedCredential DEF Schemes
  <2>2. certs' = certs /\ pingCerts' = pingCerts
    BY <1>1 DEF UpdateToken
  <2>3. accessToken' = taken(accessToken, q, token)
    BY <1>1, <2>1 DEF UpdateToken
  <2>4. accessToken'[p] = accessToken[p] \/ (p = q /\ accessToken'[p] = token)
    <3>1. accessToken \in [Peers -> Creds]
      BY DEF TypeOK
    <3>2. QED
      BY <2>3, <3>1 DEF taken
  <2>5. pingToken' = IF token = None THEN pingToken ELSE [pingToken EXCEPT ![other(q)] = token]
    BY <1>1, <2>1 DEF UpdateToken
  <2>6. pingToken'[other(p)] = pingToken[other(p)] \/ (p = q /\ pingToken'[other(p)] = token)
    BY <1>other, <2>5 DEF TypeOK
  <2>7. pingToken[p] # None => pingToken'[p] # None
    BY <1>other, <2>5 DEF TypeOK
  <2>8. QED
    BY <1>old, <2>1, <2>2, <2>4, <2>6, <2>7
<1>2. ASSUME NEW q \in Peers, NEW v \in 0..MaxCreds, UpdateCerts(q, v) PROVE Goal
  <2>1. PICK new \in Creds : new = issued(hub(q), v) /\ Issued(new, q)
    BY Wired, IssuedCredential DEF Schemes
  <2>2. accessToken' = accessToken /\ pingToken' = pingToken
    BY <1>2 DEF UpdateCerts
  <2>3. certs' = taken(certs, q, new) /\ pingCerts' = [pingCerts EXCEPT ![other(q)] = new]
    BY <1>2, <2>1 DEF UpdateCerts
  <2>4. certs'[p] = certs[p] \/ (p = q /\ certs'[p] = new)
    <3>1. certs \in [Peers -> Creds]
      BY DEF TypeOK
    <3>2. QED
      BY <2>3, <3>1 DEF taken
  <2>5. pingCerts'[other(p)] = pingCerts[other(p)] \/ (p = q /\ pingCerts'[other(p)] = new)
    BY <1>other, <2>3 DEF TypeOK
  <2>6. pingCerts'[p] = pingCerts[p] \/ p = other(q)
    BY <1>other, <2>3 DEF TypeOK
  <2>7. pingToken[other(q)] # None
    BY <1>2 DEF UpdateCerts, hadToken
  <2>8. QED
    BY <1>old, <2>1, <2>2, <2>4, <2>5, <2>6, <2>7
<1>3. CASE UNCHANGED <<accessToken, certs, pingToken, pingCerts>>
  BY <1>3, <1>old
<1>4. QED
  BY <1>1, <1>2, <1>3, CredentialsUnchanged

\* Credentials reach the HttpServer of a peer and the ping service of the other together,
\* as long as the former listens.
LEMMA PingStep == TypeOK /\ PingCredentialsAgree /\ [Next]_vars => PingCredentialsAgree'
<1> SUFFICES ASSUME TypeOK, PingCredentialsAgree, [Next]_vars, NEW p \in Peers, listening'[p]
             PROVE  /\ pingCerts'[other(p)] = certs'[p]
                    /\ accessToken'[p] # None => pingToken'[other(p)] = accessToken'[p]
  BY DEF PingCredentialsAgree
<1> DEFINE Goal == /\ pingCerts'[other(p)] = certs'[p]
                   /\ accessToken'[p] # None => pingToken'[other(p)] = accessToken'[p]
<1> USE DEF linkVars, jwsVars, authVars
<1>listening. listening[p]
  <2>1. CASE \E q \in Peers : HttpStopped(q)
    BY <2>1 DEF HttpStopped, Links!HttpStopped, TypeOK
  <2>2. CASE listening' = listening
    BY <2>2
  <2>3. QED
    BY <2>1, <2>2 DEF Next, vars, JwsStep, AuthStep, LinkStep, JwsChange, PeerJws, JwsLoop, Deliver,
       UpdateToken, UpdateCerts, Connect, Links!Connect, BecomesReady, Links!BecomesReady,
       Disconnect, Links!Disconnect, Proxy, PostPing, sendPutPingRequest, Stop, Links!Stop
<1>old. /\ pingCerts[other(p)] = certs[p]
        /\ accessToken[p] # None => pingToken[other(p)] = accessToken[p]
  BY <1>listening DEF PingCredentialsAgree
<1>other. other(p) \in Peers /\ \A q \in Peers : other(q) \in Peers /\ (other(q) = other(p) => q = p)
  BY OtherPeer
<1>1. ASSUME NEW q \in Peers, NEW v \in 0..MaxCreds, UpdateToken(q, v) PROVE Goal
  <2>1. PICK token \in Creds : token = issued(peer(q).authClient, v)
    BY Wired, IssuedCredential DEF Schemes
  <2>2. certs' = certs /\ pingCerts' = pingCerts /\ accessToken' = taken(accessToken, q, token)
        /\ pingToken' = IF token = None THEN pingToken ELSE [pingToken EXCEPT ![other(q)] = token]
    BY <1>1, <2>1 DEF UpdateToken
  <2>3. accessToken'[p] = IF p = q THEN token ELSE accessToken[p]
    <3>1. accessToken \in [Peers -> Creds]
      BY DEF TypeOK
    <3>2. QED
      BY <1>listening, <2>2, <3>1 DEF taken
  <2>4. pingToken'[other(p)] = IF p = q /\ token # None THEN token ELSE pingToken[other(p)]
    BY <1>other, <2>2 DEF TypeOK
  <2>5. QED
    BY <1>old, <2>2, <2>3, <2>4
<1>2. ASSUME NEW q \in Peers, NEW v \in 0..MaxCreds, UpdateCerts(q, v) PROVE Goal
  <2>1. PICK new \in Creds : new = issued(hub(q), v)
    BY Wired, IssuedCredential DEF Schemes
  <2>2. accessToken' = accessToken /\ pingToken' = pingToken /\ certs' = taken(certs, q, new)
        /\ pingCerts' = [pingCerts EXCEPT ![other(q)] = new]
    BY <1>2, <2>1 DEF UpdateCerts
  <2>3. certs'[p] = IF p = q THEN new ELSE certs[p]
    <3>1. certs \in [Peers -> Creds]
      BY DEF TypeOK
    <3>2. QED
      BY <1>listening, <2>2, <3>1 DEF taken
  <2>4. pingCerts'[other(p)] = IF p = q THEN new ELSE pingCerts[other(p)]
    BY <1>other, <2>2 DEF TypeOK
  <2>5. QED
    BY <1>old, <2>2, <2>3, <2>4
<1>3. CASE UNCHANGED <<accessToken, certs, pingToken, pingCerts>>
  BY <1>3, <1>old
<1>4. QED
  BY <1>1, <1>2, <1>3, CredentialsUnchanged

\* What a request or a callback takes from the state belongs to the hub it is sent to.
LEMMA SentStep ==
    TypeOK /\ CredentialInv /\ CredentialsOfDestination /\ [Next]_vars => CredentialsOfDestination'
<1> SUFFICES ASSUME TypeOK, CredentialInv, CredentialsOfDestination, [Next]_vars
             PROVE  CredentialsOfDestination'
  OBVIOUS
<1> USE DEF linkVars, jwsVars, authVars
<1>1. ASSUME NEW p \in Peers, Proxy(p) PROVE CredentialsOfDestination'
  <2>1. accessToken[p].issuer = p /\ certs[p].issuer = p
    BY <1>1 DEF Proxy, CredentialInv, Issued
  <2>2. sent' = [to |-> p, token |-> accessToken[p], certs |-> certs[p]]
    BY <1>1, Wired DEF Proxy
  <2>3. QED
    BY <2>1, <2>2 DEF CredentialsOfDestination
<1>2. ASSUME NEW p \in Peers, PostPing(p) PROVE CredentialsOfDestination'
  <2>1. PICK q \in Peers : q = other(p) /\ p = other(q)
    BY OtherPeer
  <2>2. pingToken[p] # None /\ pingCerts[p] # None
    BY <1>2 DEF PostPing, sendPutPingRequest, CredentialInv
  <2>3. pingToken[p].issuer = q /\ pingCerts[p].issuer = q
    BY <2>1, <2>2 DEF CredentialInv, Issued
  <2>4. sent' = [to |-> q, token |-> pingToken[p], certs |-> pingCerts[p]]
    BY <1>2, <2>1, Wired DEF PostPing, sendPutPingRequest, putPing
  <2>5. QED
    BY <2>3, <2>4 DEF CredentialsOfDestination
<1>3. CASE sent' = sent
  BY <1>3 DEF CredentialsOfDestination
<1>4. QED
  BY <1>1, <1>2, <1>3 DEF Next, vars, JwsStep, AuthStep, LinkStep, JwsChange, PeerJws, JwsLoop, Deliver,
     UpdateToken, UpdateCerts, Connect, Links!Connect, BecomesReady, Links!BecomesReady,
     Disconnect, Links!Disconnect, HttpStopped, Links!HttpStopped, Stop, Links!Stop

--------------------------------------------------------------------------------
(* The theorems *)

\* The conjunction of all parts is inductive.
THEOREM Invariance == Spec => []IInv
<1>1. Init => IInv
  <2>1. SUFFICES ASSUME Init PROVE IInv
    OBVIOUS
  <2>2. 0 \in Versions /\ 0 \in Connections /\ None \in Creds
    BY AdapterAssumption DEF Versions, Connections, Creds
  <2>3. Len(<<>>) = 0 /\ 1..0 = {} /\ <<>> \in Seq(Versions) /\ <<>> \in Seq(JwsEvent)
    BY EmptySeq
  <2>4. TypeOK
    BY <2>1, <2>2, <2>3 DEF Init, Links!Init, TypeOK
  <2>5. \A p \in Peers, c \in Connections : inbound[p][c] = <<>> /\ outbound[p][c] = <<>>
    BY <2>1 DEF Init
  <2>6. BoundInv
    BY <2>3, <2>5 DEF BoundInv, Bounded
  <2>7. OrderInv
    <3>1. \A p \in Peers : inNow(p) = <<>> /\ outNow(p) = <<>>
      BY <2>1, <2>2, <2>5 DEF Init, inNow, outNow
    <3>2. \A p, q \in Peers : inTurn[q][p] <= jws[p]
      BY <2>1 DEF Init, Schemes
    <3>3. QED
      BY <3>1, <3>2, NothingInTransit DEF OrderInv, RelayInv
  <2>8. CredentialInv /\ PingCredentialsAgree
    BY <2>1, OtherPeer DEF Init, Links!Init, CredentialInv, Issued, PingCredentialsAgree
  <2>9. CredentialsOfDestination
    BY <2>1 DEF Init, Links!Init, CredentialsOfDestination
  <2>10. QED
    BY <2>4, <2>6, <2>7, <2>8, <2>9 DEF IInv
<1>2. IInv /\ [Next]_vars => IInv'
  BY TypeStep, BoundStep, OrderStep, CredentialStep, PingStep, SentStep DEF IInv, OrderInv
<1>3. QED
  BY <1>1, <1>2, PTL DEF Spec

\* Every variable stays in its domain (InterSchemeProxyAdapter.ts:31-53 and the state of
\* what it connects).
THEOREM TypeCorrect == Spec => []TypeOK
<1>1. IInv => TypeOK
  BY DEF IInv
<1>2. QED
  BY <1>1, Invariance, PTL

\* The adapter keeps the promise of a relay: each hub learns the JWS of the other scheme and
\* none that scheme never had; what comes by connections that were not replaced never goes
\* back to an older one, in whatever order the frames of all connections arrive, are
\* dropped or are lost (InterSchemeProxyAdapter.ts:34-43, PeerServer.ts:131-138,
\* ControlAgent.ts:114, 262-266).
THEOREM RelayImplemented == Spec => ImplementsRelay
<1>1. Init => Relay!Init
  BY DEF Init, Links!Init, Relay!Init
<1>2. IInv /\ [Next]_vars => [Relay!Next]_(Relay!vars)
  <2>1. SUFFICES ASSUME IInv, [Next]_vars PROVE Relay!Next \/ UNCHANGED <<jws, known, inTurn>>
    BY DEF Relay!vars
  <2>2. ASSUME NEW s \in Peers, JwsChange(s) PROVE Relay!Next
    BY <2>2 DEF JwsChange, Relay!Next, Relay!Change, Schemes
  <2>3. ASSUME NEW q \in Peers, NEW c \in Connections, Deliver(q, c) PROVE Relay!Next
    <3>1. PICK p \in Peers : p # q /\ p = other(q)
      BY OtherPeer
    <3>2. TypeOK /\ Bounded(q, c) /\ RelayInv(p, q)
      BY <2>1, <3>1 DEF IInv, BoundInv, OrderInv
    <3>3. PICK e \in JwsEvent :
              /\ e = outbound[q][c][1]
              /\ known' = [known EXCEPT ![q][e.scheme] = e.version]
              /\ inTurn' = IF e.late \/ c # drops[q] THEN inTurn ELSE [inTurn EXCEPT ![q][e.scheme] = e.version]
      BY <2>3, <3>2, DeliverEffect
    <3>4. outbound[q][c] \in Seq(JwsEvent) /\ outbound[q][c] # <<>>
      BY <2>3, <3>2, DeliverEffect
    <3>5. e.scheme = p /\ e.version <= jws[p]
      <4>1. 1 \in 1..Len(outbound[q][c])
        BY <3>4, Taken
      <4>2. QED
        BY <3>1, <3>2, <3>3, <4>1 DEF Bounded
    <3>6. /\ p \in Schemes /\ q \in Schemes /\ jws' = jws
          /\ e.version \in Nat /\ jws[p] \in Nat /\ inTurn[q][p] \in Nat
      BY <2>3, <3>2, AdapterAssumption DEF Deliver, TypeOK, Schemes, Versions, JwsEvent
    <3>7. CASE e.late \/ c # drops[q]
      <4>1. e.version \in 0..jws[p]
        BY <3>5, <3>6
      <4>2. known' = [known EXCEPT ![q][p] = e.version] /\ inTurn' = inTurn
        BY <3>3, <3>5, <3>7
      <4>3. Relay!LearnLate(q, p)
        BY <3>1, <3>6, <4>1, <4>2 DEF Relay!LearnLate
      <4>4. QED
        BY <3>6, <4>3 DEF Relay!Next
    <3>8. CASE ~e.late /\ c = drops[q]
      <4>1. inTurn[q][p] <= e.version
        BY <3>2, <3>3, <3>4, <3>8, RestOfEvents DEF RelayInv, outNow
      <4>2. e.version \in inTurn[q][p]..jws[p]
        BY <3>5, <3>6, <4>1
      <4>3. known' = [known EXCEPT ![q][p] = e.version] /\ inTurn' = [inTurn EXCEPT ![q][p] = e.version]
        BY <3>3, <3>5, <3>8
      <4>4. Relay!Learn(q, p)
        BY <3>1, <3>6, <4>2, <4>3 DEF Relay!Learn
      <4>5. QED
        BY <3>6, <4>4 DEF Relay!Next
    <3>9. QED
      BY <3>7, <3>8
  <2>4. ASSUME NEW p \in Peers, JwsLoop(p) PROVE UNCHANGED <<jws, known, inTurn>>
    BY <2>4 DEF JwsLoop
  <2>5. ASSUME NEW p \in Peers, NEW c \in Connections, PeerJws(p, c) PROVE UNCHANGED <<jws, known, inTurn>>
    BY <2>5 DEF PeerJws
  <2>6. TypeOK
    BY <2>1 DEF IInv
  <2>7. QED
    BY <2>1, <2>2, <2>3, <2>4, <2>5, <2>6, OtherSteps DEF JwsStep, jwsVars
<1>3. QED
  BY <1>1, <1>2, Invariance, PTL DEF Spec, ImplementsRelay, Relay!Spec

\* Ping callbacks to a hub carry the credentials of that hub
\* (PeerServer.ts:144-155, InboundPingService.ts:89-96).
THEOREM PingCredentials == Spec => []PingCredentialsAgree
<1>1. IInv => PingCredentialsAgree
  BY DEF IInv
<1>2. QED
  BY <1>1, Invariance, PTL

\* No request and no callback goes out without the token and the certs of its destination
\* (config.ts:12-222, InboundPingService.ts:89-105, PeerServer.ts:67-73).
THEOREM SentWithOwnCredentials == Spec => []CredentialsOfDestination
<1>1. IInv => CredentialsOfDestination
  BY DEF IInv
<1>2. QED
  BY <1>1, Invariance, PTL
================================================================================
