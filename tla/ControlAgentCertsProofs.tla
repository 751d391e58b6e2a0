------------------------ MODULE ControlAgentCertsProofs ------------------------
(***************************************************************************)
(* The order in which the certs of the hub reach onCert, for every set of  *)
(* sockets, every inbox, any number of certificate versions, and whether   *)
(* or not pings are on time and frames arrive late.                        *)
(***************************************************************************)
EXTENDS ControlAgentProofs

\* The versions in q are in the order they were issued in, the last one at most n.
Ordered(q, n) ==
    /\ \A i, j \in 1..Len(q) : i <= j => q[i] <= q[j]
    /\ \A i \in 1..Len(q) : q[i] <= n

\* What is in transit to any socket, current or not: in order, none if the socket takes
\* no more frames, and up to the newest version if the socket is open.
TransitInv ==
    \A s \in Sockets :
        /\ Ordered(answer[s], hubCerts)
        /\ ~Receives(s) => answer[s] = <<>>
        /\ sock[s] = "OPEN" /\ answer[s] # <<>> => newest(s)

CertsInv ==
    /\ TransitInv
    /\ certs <= hubCerts
    /\ CertsInOrder

--------------------------------------------------------------------------------
(* Sequences of versions *)

\* Nothing in transit is in order.
LEMMA EmptyOrdered == ASSUME NEW n PROVE Ordered(<<>>, n)
BY DEF Ordered

\* A version newer than all of q comes last.
LEMMA AppendOrdered ==
    ASSUME NEW q \in Seq(Nat), NEW n \in Nat, NEW v \in Nat, Ordered(q, n), n <= v
    PROVE  /\ Ordered(Append(q, v), v)
           /\ Append(q, v) # <<>>
           /\ Append(q, v)[Len(Append(q, v))] = v
<1> DEFINE a == Append(q, v)
<1>1. Len(a) = Len(q) + 1 /\ a[Len(q) + 1] = v /\ Len(q) \in Nat
  OBVIOUS
<1>2. \A i \in 1..Len(q) : a[i] = q[i] /\ q[i] \in Nat
  OBVIOUS
<1>3. \A i \in 1..Len(a) : a[i] <= v
  <2>1. SUFFICES ASSUME NEW i \in 1..Len(a) PROVE a[i] <= v
    OBVIOUS
  <2>2. CASE i = Len(q) + 1
    BY <1>1, <2>2
  <2>3. CASE i \in 1..Len(q)
    <3>1. q[i] <= n /\ q[i] \in Nat
      BY <1>2, <2>3 DEF Ordered
    <3>2. QED
      BY <1>2, <2>3, <3>1
  <2>4. QED
    BY <1>1, <2>1, <2>2, <2>3
<1>4. ASSUME NEW i \in 1..Len(a), NEW j \in 1..Len(a), i <= j PROVE a[i] <= a[j]
  <2>1. CASE j = Len(q) + 1
    BY <1>1, <1>3, <2>1
  <2>2. CASE j \in 1..Len(q)
    <3>1. i \in 1..Len(q)
      BY <1>1, <1>4, <2>2
    <3>2. q[i] <= q[j]
      BY <1>4, <2>2, <3>1 DEF Ordered
    <3>3. QED
      BY <1>2, <2>2, <3>1, <3>2
  <2>3. QED
    BY <1>1, <2>1, <2>2
<1>5. QED
  BY <1>1, <1>3, <1>4 DEF Ordered

\* The version that arrives is older than none of those that follow it, and the last of
\* those is the last of all.
LEMMA TailOrdered ==
    ASSUME NEW q \in Seq(Nat), NEW n \in Nat, Ordered(q, n), q # <<>>
    PROVE  /\ Ordered(Tail(q), n)
           /\ Head(q) <= n
           /\ \A i \in 1..Len(Tail(q)) : Head(q) <= Tail(q)[i]
           /\ Tail(q) # <<>> => Tail(q)[Len(Tail(q))] = q[Len(q)]
           /\ Tail(q) = <<>> => Head(q) = q[Len(q)]
<1>1. /\ Len(q) \in Nat \ {0} /\ Head(q) = q[1]
      /\ Tail(q) \in Seq(Nat) /\ Len(Tail(q)) = Len(q) - 1
      /\ \A i \in 1..Len(q) - 1 : Tail(q)[i] = q[i + 1]
  OBVIOUS
<1>2. Tail(q) = <<>> <=> Len(q) = 1
  <2>1. \A r \in Seq(Nat) : r = <<>> <=> Len(r) = 0
    OBVIOUS
  <2>2. Tail(q) = <<>> <=> Len(Tail(q)) = 0
    BY <1>1, <2>1
  <2>3. QED
    BY <1>1, <2>2
<1>3. Head(q) <= n
  BY <1>1 DEF Ordered
<1>4. ASSUME NEW i \in 1..Len(Tail(q)) PROVE Tail(q)[i] <= n /\ Head(q) <= Tail(q)[i]
  <2>1. i + 1 \in 1..Len(q) /\ 1 \in 1..Len(q) /\ 1 <= i + 1 /\ Tail(q)[i] = q[i + 1]
    BY <1>1
  <2>2. QED
    BY <1>1, <2>1 DEF Ordered
<1>5. ASSUME NEW i \in 1..Len(Tail(q)), NEW j \in 1..Len(Tail(q)), i <= j
      PROVE  Tail(q)[i] <= Tail(q)[j]
  <2>1. /\ i + 1 \in 1..Len(q) /\ Tail(q)[i] = q[i + 1]
        /\ j + 1 \in 1..Len(q) /\ Tail(q)[j] = q[j + 1]
        /\ i + 1 <= j + 1
    BY <1>1, <1>5
  <2>2. QED
    BY <2>1 DEF Ordered
<1>6. Tail(q) # <<>> => Tail(q)[Len(Tail(q))] = q[Len(q)]
  <2>1. SUFFICES ASSUME Tail(q) # <<>> PROVE Tail(q)[Len(Tail(q))] = q[Len(q)]
    OBVIOUS
  <2>2. Len(q) - 1 \in 1..Len(q) - 1
    BY <1>1, <1>2, <2>1
  <2>3. QED
    BY <1>1, <2>2
<1>7. QED
  BY <1>1, <1>2, <1>3, <1>4, <1>5, <1>6 DEF Ordered

\* A sequence over a set is one over a larger set.
LEMMA SeqOfSubset ==
    ASSUME NEW S, NEW T, S \subseteq T
    PROVE  \A q \in Seq(S) : q \in Seq(T)
<1>1. SUFFICES ASSUME NEW q \in Seq(S) PROVE q \in Seq(T)
  OBVIOUS
<1>2. Len(q) \in Nat /\ q = [i \in 1..Len(q) |-> q[i]] /\ \A i \in 1..Len(q) : q[i] \in S
  OBVIOUS
<1>3. [i \in 1..Len(q) |-> q[i]] \in Seq(T)
  BY <1>2
<1>4. QED
  BY <1>2, <1>3

\* The types of the variables these proofs are about.
LEMMA CertTypes ==
    ASSUME TypeOK
    PROVE  /\ hubCerts \in Nat /\ certs \in Nat
           /\ \A s \in Sockets : answer[s] \in Seq(Nat)
           /\ ws # NoSocket => ws \in Sockets
<1>1. 1..MaxCerts \subseteq Nat /\ 0..MaxCerts \subseteq Nat
  BY ControlAgentAssumption
<1>2. \A q \in Seq(1..MaxCerts) : q \in Seq(Nat)
  BY <1>1, SeqOfSubset
<1>3. \A s \in Sockets : answer[s] \in Seq(1..MaxCerts)
  BY DEF TypeOK
<1>4. QED
  BY <1>1, <1>2, <1>3 DEF TypeOK

--------------------------------------------------------------------------------
(* Steps *)

\* When sockets only close, what is left in transit is a part of what was, and no more is
\* asked of the certs.
LEMMA LeavesInTransit ==
    ASSUME TypeOK, CertsInv, sock' \in [Sockets -> SocketStates], answer' = inTransit(sock'),
           \A s \in Sockets : sock'[s] = "OPEN" => sock[s] = "OPEN",
           UNCHANGED <<ws, certs, overtaken, hubCerts>>, asked' => asked, Running
    PROVE  CertsInv'
<1>1. \A s \in Sockets : answer'[s] = answer[s] \/ answer'[s] = <<>>
  BY DEF inTransit
<1>2. \A s \in Sockets : Receives(s)' => answer'[s] = answer[s]
  BY DEF inTransit, Receives
<1>3. \A s \in Sockets : ~Receives(s)' => answer'[s] = <<>>
  BY DEF inTransit, Receives
<1>4. \A s \in Sockets : sock'[s] = "OPEN" => answer'[s] = answer[s]
  BY <1>2 DEF Receives, Delivers
<1>5. ASSUME NEW s \in Sockets PROVE Ordered(answer'[s], hubCerts')
  BY <1>1, EmptyOrdered DEF CertsInv, TransitInv
<1>6. ASSUME NEW s \in Sockets, sock'[s] = "OPEN", answer'[s] # <<>> PROVE newest(s)'
  <2>1. newest(s) /\ answer'[s] = answer[s]
    BY <1>4, <1>6 DEF CertsInv, TransitInv
  <2>2. QED
    BY <2>1 DEF newest
<1>7. TransitInv'
  BY <1>3, <1>5, <1>6 DEF TransitInv
<1>8. CertsInOrder'
  <2>1. SUFFICES ASSUME ws # NoSocket, ~overtaken
                 PROVE  /\ \A i \in 1..Len(answer'[ws]) : certs <= answer'[ws][i]
                        /\ Running' /\ sock'[ws] = "OPEN" /\ asked' => certs = hubCerts \/ newest(ws)'
    BY DEF CertsInOrder
  <2>2. ws \in Sockets
    BY <2>1, CertTypes
  <2>3. \A i \in 1..Len(answer'[ws]) : certs <= answer'[ws][i]
    <3>1. CASE answer'[ws] = answer[ws]
      BY <2>1, <3>1 DEF CertsInv, CertsInOrder
    <3>2. CASE answer'[ws] = <<>>
      BY <3>2
    <3>3. QED
      BY <1>1, <2>2, <3>1, <3>2
  <2>4. ASSUME sock'[ws] = "OPEN", asked' PROVE certs = hubCerts \/ newest(ws)'
    <3>1. answer'[ws] = answer[ws]
      BY <1>4, <2>2, <2>4
    <3>2. certs = hubCerts \/ newest(ws)
      BY <2>1, <2>2, <2>4 DEF CertsInv, CertsInOrder
    <3>3. QED
      BY <3>1, <3>2 DEF newest
  <2>5. QED
    BY <2>3, <2>4
<1>9. QED
  BY <1>7, <1>8 DEF CertsInv

\* The same when nothing that the certs depend on changes, and when another socket closes.
LEMMA LeavesCerts ==
    ASSUME CertsInv, UNCHANGED <<sock, answer, certs, overtaken, hubCerts>>,
           ws' = ws \/ ws' = NoSocket, asked' => asked, Running
    PROVE  CertsInv'
<1>1. TransitInv'
  BY DEF CertsInv, TransitInv, Receives, newest
<1>2. CertsInOrder'
  <2>1. CASE ws' = NoSocket
    BY <2>1 DEF CertsInOrder
  <2>2. CASE ws' = ws
    BY <2>2 DEF CertsInv, CertsInOrder, newest
  <2>3. QED
    BY <2>1, <2>2
<1>3. QED
  BY <1>1, <1>2 DEF CertsInv

\* open() takes a new socket, to which nothing is in transit.
LEMMA OpenCerts ==
    ASSUME TypeOK, CertsInv, NEW c \in Callers, open(c), Running,
           UNCHANGED <<answer, certs, overtaken, hubCerts>>
    PROVE  CertsInv'
<1>1. asked' => asked
  BY DEF open, asked
<1>2. CASE UNCHANGED <<sock, ws>>
  BY <1>1, <1>2, LeavesCerts
<1>3. ASSUME NEW s \in Sockets, Free(s), ws' = s, sock' = [sock EXCEPT ![s] = "CONNECTING"]
      PROVE  CertsInv'
  <2>1. sock'[s] = "CONNECTING" /\ \A t \in Sockets \ {s} : sock'[t] = sock[t]
    BY <1>3 DEF TypeOK
  <2>2. answer[s] = <<>>
    BY <1>3 DEF CertsInv, TransitInv, Receives, Delivers, Free
  <2>3. TransitInv'
    <3>1. SUFFICES ASSUME NEW t \in Sockets
                   PROVE  /\ Ordered(answer[t], hubCerts)
                          /\ ~Delivers(sock'[t]) => answer[t] = <<>>
                          /\ sock'[t] = "OPEN" /\ answer[t] # <<>> => newest(t)
      BY DEF TransitInv, Receives, newest
    <3>2. CASE t = s
      BY <2>1, <2>2, <3>2 DEF CertsInv, TransitInv
    <3>3. CASE t # s
      BY <2>1, <3>3 DEF CertsInv, TransitInv, Receives
    <3>4. QED
      BY <3>2, <3>3
  <2>4. CertsInOrder'
    BY <1>3, <2>1, <2>2 DEF CertsInOrder
  <2>5. QED
    BY <2>3, <2>4 DEF CertsInv
<1>4. QED
  BY <1>2, <1>3 DEF open

\* A socket that opens has nothing in transit, and a current one is asked for the certs
\* before anything else happens.
LEMMA WsOpenedCerts ==
    ASSUME TypeOK, ConnectingIsAwaited, CertsInv, NEW s \in Sockets, WsOpened(s)
    PROVE  CertsInv'
<1>1. /\ sock'[s] = "OPEN" /\ \A t \in Sockets \ {s} : sock'[t] = sock[t]
      /\ UNCHANGED <<answer, ws, certs, overtaken, hubCerts>>
      /\ tasks' = tasks \cup {<<opener[s], "opened">>}
      /\ Running
  BY DEF WsOpened, TypeOK, certVars, Quiet
<1>2. answer[s] = <<>>
  BY DEF WsOpened, CertsInv, TransitInv, Receives, Delivers
<1>3. ~asked'
  <2>1. opener[s] \in Callers
    BY DEF WsOpened, ConnectingIsAwaited
  <2>2. QED
    BY <1>1, <2>1 DEF asked
<1>4. TransitInv'
  <2>1. SUFFICES ASSUME NEW t \in Sockets
                 PROVE  /\ Ordered(answer[t], hubCerts)
                        /\ ~Delivers(sock'[t]) => answer[t] = <<>>
                        /\ sock'[t] = "OPEN" /\ answer[t] # <<>> => newest(t)
    BY <1>1 DEF TransitInv, Receives, newest
  <2>2. CASE t = s
    BY <1>2, <2>2 DEF CertsInv, TransitInv
  <2>3. CASE t # s
    BY <1>1, <2>3 DEF CertsInv, TransitInv, Receives
  <2>4. QED
    BY <2>2, <2>3
<1>5. CertsInOrder'
  BY <1>1, <1>3 DEF CertsInv, CertsInOrder
<1>6. QED
  BY <1>1, <1>4, <1>5 DEF CertsInv

\* The hub sends the newest version to a socket on which the agent asks for it.
LEMMA OpenedCerts ==
    ASSUME TypeOK, CertsInv, NEW c \in Callers, Opened(c)
    PROVE  CertsInv'
<1>1. UNCHANGED <<sock, ws, certs, overtaken, hubCerts>> /\ Running
  BY DEF Opened, certVars
<1>2. CASE ~_checkSocketState
  <2>1. UNCHANGED answer
    BY <1>2 DEF Opened, loadCerts
  <2>2. TransitInv'
    BY <1>1, <2>1 DEF CertsInv, TransitInv, Receives, newest
  <2>3. ws # NoSocket => sock[ws] # "OPEN"
    BY <1>2 DEF _checkSocketState, IsOpen
  <2>4. CertsInOrder'
    BY <1>1, <2>1, <2>3 DEF CertsInv, CertsInOrder
  <2>5. QED
    BY <1>1, <2>2, <2>4 DEF CertsInv
<1>3. CASE _checkSocketState /\ sock[ws] # "OPEN"
  <2>1. UNCHANGED answer
    BY <1>3 DEF Opened, loadCerts
  <2>2. TransitInv'
    BY <1>1, <2>1 DEF CertsInv, TransitInv, Receives, newest
  <2>3. CertsInOrder'
    BY <1>1, <1>3, <2>1 DEF CertsInv, CertsInOrder
  <2>4. QED
    BY <1>1, <2>2, <2>3 DEF CertsInv
<1>4. CASE _checkSocketState /\ sock[ws] = "OPEN"
  <2>1. ws \in Sockets
    BY <1>4, CertTypes DEF _checkSocketState
  <2>2. /\ answer'[ws] = Append(answer[ws], hubCerts)
        /\ \A t \in Sockets \ {ws} : answer'[t] = answer[t]
    BY <1>4, <2>1 DEF Opened, loadCerts, TypeOK
  <2>3. answer[ws] \in Seq(Nat) /\ hubCerts \in Nat /\ certs \in Nat
    BY <2>1, CertTypes
  <2>4. /\ Ordered(answer'[ws], hubCerts)
        /\ answer'[ws] # <<>>
        /\ answer'[ws][Len(answer'[ws])] = hubCerts
    <3>1. Ordered(answer[ws], hubCerts)
      BY <2>1 DEF CertsInv, TransitInv
    <3>2. QED
      BY <2>2, <2>3, <3>1, AppendOrdered
  <2>5. newest(ws)'
    BY <1>1, <2>4 DEF newest
  <2>6. TransitInv'
    <3>1. SUFFICES ASSUME NEW t \in Sockets
                   PROVE  /\ Ordered(answer'[t], hubCerts)
                          /\ ~Delivers(sock[t]) => answer'[t] = <<>>
                          /\ sock[t] = "OPEN" /\ answer'[t] # <<>> => newest(t)'
      BY <1>1 DEF TransitInv, Receives
    <3>2. CASE t = ws
      BY <1>1, <1>4, <2>4, <3>2 DEF Delivers, newest
    <3>3. CASE t # ws
      BY <1>1, <2>2, <3>3 DEF CertsInv, TransitInv, Receives, newest
    <3>4. QED
      BY <3>2, <3>3
  <2>7. CertsInOrder'
    <3>1. ASSUME ~overtaken, NEW i \in 1..Len(answer'[ws]) PROVE certs <= answer'[ws][i]
      <4>1. CASE i = Len(answer[ws]) + 1
        BY <2>2, <2>3, <4>1 DEF CertsInv
      <4>2. CASE i \in 1..Len(answer[ws])
        <5>1. certs <= answer[ws][i]
          BY <1>4, <3>1, <4>2 DEF CertsInv, CertsInOrder, _checkSocketState
        <5>2. QED
          BY <2>2, <2>3, <4>2, <5>1
      <4>3. QED
        BY <2>2, <2>3, <3>1, <4>1, <4>2
    <3>2. QED
      BY <1>1, <2>5, <3>1 DEF CertsInOrder
  <2>8. QED
    BY <1>1, <2>6, <2>7 DEF CertsInv
<1>5. QED
  BY <1>2, <1>3, <1>4

\* The hub sends a new version to every open socket, after all it has sent there.
LEMMA RotateCerts == ASSUME TypeOK, CertsInv, Rotate PROVE CertsInv'
<1>1. /\ UNCHANGED <<sock, ws, certs, overtaken, tasks>> /\ Running
      /\ hubCerts' = hubCerts + 1 /\ hubCerts \in Nat /\ certs \in Nat
  BY CertTypes DEF Rotate, certVars
<1>2. ASSUME NEW s \in Sockets, sock[s] = "OPEN"
      PROVE  /\ answer'[s] = Append(answer[s], hubCerts')
             /\ Ordered(answer'[s], hubCerts')
             /\ newest(s)'
  <2>1. answer'[s] = Append(answer[s], hubCerts')
    BY <1>1, <1>2 DEF Rotate
  <2>2. answer[s] \in Seq(Nat) /\ Ordered(answer[s], hubCerts)
    BY CertTypes DEF CertsInv, TransitInv
  <2>3. hubCerts' \in Nat /\ hubCerts <= hubCerts'
    BY <1>1
  <2>4. QED
    BY <1>1, <2>1, <2>2, <2>3, AppendOrdered DEF newest
<1>3. ASSUME NEW s \in Sockets, sock[s] # "OPEN"
      PROVE  answer'[s] = answer[s] /\ Ordered(answer'[s], hubCerts')
  <2>1. answer'[s] = answer[s]
    BY <1>3 DEF Rotate
  <2>2. answer[s] \in Seq(Nat) /\ Ordered(answer[s], hubCerts)
    BY CertTypes DEF CertsInv, TransitInv
  <2>3. \A i \in 1..Len(answer[s]) : answer[s][i] \in Nat
    BY <2>2
  <2>4. QED
    BY <1>1, <2>1, <2>2, <2>3 DEF Ordered
<1>4. TransitInv'
  <2>1. SUFFICES ASSUME NEW s \in Sockets
                 PROVE  /\ Ordered(answer'[s], hubCerts')
                        /\ ~Delivers(sock[s]) => answer'[s] = <<>>
                        /\ sock[s] = "OPEN" /\ answer'[s] # <<>> => newest(s)'
    BY <1>1 DEF TransitInv, Receives
  <2>2. CASE sock[s] = "OPEN"
    BY <1>2, <2>2 DEF Delivers
  <2>3. CASE sock[s] # "OPEN"
    BY <1>3, <2>3 DEF CertsInv, TransitInv, Receives
  <2>4. QED
    BY <2>2, <2>3
<1>5. CertsInOrder'
  <2>1. SUFFICES ASSUME ws # NoSocket, ~overtaken
                 PROVE  /\ \A i \in 1..Len(answer'[ws]) : certs <= answer'[ws][i]
                        /\ sock[ws] = "OPEN" => newest(ws)'
    BY <1>1 DEF CertsInOrder
  <2>2. ws \in Sockets /\ answer[ws] \in Seq(Nat)
    BY <2>1, CertTypes
  <2>3. \A i \in 1..Len(answer[ws]) : certs <= answer[ws][i] /\ answer[ws][i] \in Nat
    BY <2>1, <2>2 DEF CertsInv, CertsInOrder
  <2>4. CASE sock[ws] # "OPEN"
    BY <1>3, <2>2, <2>3, <2>4
  <2>5. CASE sock[ws] = "OPEN"
    <3>1. answer'[ws] = Append(answer[ws], hubCerts') /\ newest(ws)'
      BY <1>1, <1>2, <2>2, <2>5 DEF newest
    <3>2. ASSUME NEW i \in 1..Len(answer'[ws]) PROVE certs <= answer'[ws][i]
      <4>1. CASE i = Len(answer[ws]) + 1
        <5>1. answer'[ws][i] = hubCerts + 1 /\ certs <= hubCerts
          BY <1>1, <2>2, <3>1, <4>1 DEF CertsInv
        <5>2. QED
          BY <1>1, <5>1
      <4>2. CASE i \in 1..Len(answer[ws])
        BY <2>2, <2>3, <3>1, <4>2
      <4>3. QED
        BY <2>2, <3>1, <3>2, <4>1, <4>2
    <3>3. QED
      BY <3>1, <3>2
  <2>6. QED
    BY <2>4, <2>5
<1>6. certs' <= hubCerts'
  BY <1>1 DEF CertsInv
<1>7. QED
  BY <1>4, <1>5, <1>6 DEF CertsInv

\* What a frame does to the certs, and to what is in transit: the next version in transit
\* is given to onCert, or nothing changes.
LEMMA FrameCerts ==
    ASSUME TypeOK, NEW s \in Sockets, NEW m \in Inbox, WsMessage(s, m)
    PROVE  \/ UNCHANGED <<answer, certs, overtaken>>
           \/ /\ answer[s] # <<>>
              /\ answer' = [answer EXCEPT ![s] = Tail(answer[s])]
              /\ certs' = Head(answer[s])
              /\ overtaken' = (s # ws)
<1>1. handle(m) = "onCert" <=> isCertsPayload(m)
  BY OnCertIsCerts
<1>2. CASE isCertsPayload(m)
  BY <1>1, <1>2 DEF WsMessage, handled, certVars
<1>3. CASE ~isCertsPayload(m)
  BY <1>1, <1>3 DEF WsMessage, handled, certVars
<1>4. QED
  BY <1>2, <1>3

\* A frame of the current socket brings the next version, which leaves newer ones, and
\* the newest last; a frame of another socket is what overtaken remembers.
LEMMA MessageCerts ==
    ASSUME TypeOK, CertsInv, NEW s \in Sockets, NEW m \in Inbox, WsMessage(s, m)
    PROVE  CertsInv'
<1>1. UNCHANGED <<sock, ws, hubCerts, initCall>> /\ Running
  BY DEF WsMessage, Quiet
<1>2. asked' => asked
  BY DEF WsMessage, asked, Quiet
<1>3. CASE UNCHANGED <<answer, certs, overtaken>>
  BY <1>1, <1>2, <1>3, LeavesCerts
<1>4. CASE /\ answer[s] # <<>>
           /\ answer' = [answer EXCEPT ![s] = Tail(answer[s])]
           /\ certs' = Head(answer[s])
           /\ overtaken' = (s # ws)
  <2>1. /\ answer[s] \in Seq(Nat) /\ Ordered(answer[s], hubCerts)
        /\ hubCerts \in Nat
    BY CertTypes DEF CertsInv, TransitInv
  <2>2. answer'[s] = Tail(answer[s]) /\ \A t \in Sockets \ {s} : answer'[t] = answer[t]
    BY <1>4 DEF TypeOK
  <2>3. /\ Ordered(answer'[s], hubCerts)
        /\ certs' <= hubCerts
        /\ \A i \in 1..Len(answer'[s]) : certs' <= answer'[s][i]
        /\ answer'[s] # <<>> => answer'[s][Len(answer'[s])] = answer[s][Len(answer[s])]
        /\ answer'[s] = <<>> => certs' = answer[s][Len(answer[s])]
    BY <1>4, <2>1, <2>2, TailOrdered
  <2>4. sock[s] = "OPEN" => answer[s][Len(answer[s])] = hubCerts
    BY <1>4 DEF CertsInv, TransitInv, newest
  <2>5. TransitInv'
    <3>1. SUFFICES ASSUME NEW t \in Sockets
                   PROVE  /\ Ordered(answer'[t], hubCerts)
                          /\ ~Delivers(sock[t]) => answer'[t] = <<>>
                          /\ sock[t] = "OPEN" /\ answer'[t] # <<>> => newest(t)'
      BY <1>1 DEF TransitInv, Receives
    <3>2. CASE t = s
      BY <1>1, <2>3, <2>4, <3>2 DEF WsMessage, Receives, newest
    <3>3. CASE t # s
      BY <1>1, <2>2, <3>3 DEF CertsInv, TransitInv, Receives, newest
    <3>4. QED
      BY <3>2, <3>3
  <2>6. CertsInOrder'
    <3>1. SUFFICES ASSUME ws = s
                   PROVE  /\ \A i \in 1..Len(answer'[s]) : certs' <= answer'[s][i]
                          /\ sock[s] = "OPEN" => certs' = hubCerts \/ newest(s)'
      BY <1>1, <1>4 DEF CertsInOrder, newest
    <3>2. QED
      BY <1>1, <2>3, <2>4 DEF newest
  <2>7. QED
    BY <1>1, <2>3, <2>5, <2>6 DEF CertsInv
<1>5. QED
  BY <1>3, <1>4, FrameCerts

\* Every step keeps the certs in order.
LEMMA CertsStep == IInv /\ CertsInv /\ [Next]_vars => CertsInv'
<1> SUFFICES ASSUME IInv, CertsInv, [Next]_vars PROVE CertsInv'
  OBVIOUS
<1> USE DEF sockVars, certVars, Quiet, asked, Callers
<1>types. TypeOK /\ TypeOK' /\ ConnectingIsAwaited /\ sock' \in [Sockets -> SocketStates]
  BY TypeStep DEF IInv, TypeOK
<1>current. ASSUME NEW states \in [Sockets -> SocketStates], sock' = CloseCurrent(states),
                   \A s \in Sockets : states[s] = "OPEN" => sock[s] = "OPEN"
            PROVE  \A s \in Sockets : sock'[s] = "OPEN" => sock[s] = "OPEN"
  BY <1>current, <1>types, CloseCurrentStates
<1>1. CASE CallInit
  BY <1>1, <1>types, OpenCerts DEF CallInit
<1>2. CASE CloseUnopened \/ Shutdown \/ InitFailed
  <2>1. \A s \in Sockets : sock'[s] = "OPEN" => sock[s] = "OPEN"
    BY <1>2, <1>types, <1>current DEF CloseUnopened, Shutdown, InitFailed, close, TypeOK
  <2>2. QED
    BY <1>2, <1>types, <2>1, LeavesInTransit DEF CloseUnopened, Shutdown, InitFailed, close
<1>3. ASSUME NEW c \in Callers, Opened(c) PROVE CertsInv'
  BY <1>3, <1>types, OpenedCerts
<1>4. ASSUME NEW c \in Callers, Loaded(c) PROVE CertsInv'
  BY <1>4, LeavesCerts DEF Loaded
<1>5. CASE ReconnectFailed \/ CloseDone \/ CloseTimeout
  BY <1>5, LeavesCerts DEF ReconnectFailed, CloseDone, CloseTimeout
<1>6. CASE PingTimeout
  BY <1>6, <1>types, OpenCerts DEF PingTimeout
<1>7. ASSUME NEW c \in Callers, NEW s \in Sockets, ReceiveTimeout(c, s) PROVE CertsInv'
  BY <1>7, LeavesCerts DEF ReceiveTimeout
<1>8. ASSUME NEW s \in Sockets, WsOpened(s) PROVE CertsInv'
  BY <1>8, <1>types, WsOpenedCerts
<1>9. ASSUME NEW s \in Sockets, WsPing(s) PROVE CertsInv'
  BY <1>9, LeavesCerts DEF WsPing
<1>10. ASSUME NEW s \in Sockets, NEW m \in Inbox, WsMessage(s, m) PROVE CertsInv'
  BY <1>10, <1>types, MessageCerts
<1>11. ASSUME NEW s \in Sockets, WsClosed(s) \/ Drop(s) \/ Blackhole(s) PROVE CertsInv'
  <2>1. \A t \in Sockets : sock'[t] = "OPEN" => sock[t] = "OPEN"
    BY <1>11, <1>types DEF WsClosed, Drop, Blackhole, TypeOK
  <2>2. QED
    BY <1>11, <1>types, <2>1, LeavesInTransit DEF WsClosed, Drop, Blackhole
<1>12. ASSUME NEW s \in Sockets, WsFailed(s) \/ WsError(s) PROVE CertsInv'
  <2>1. \A state \in {"CLOSED", "DROPPED"} :
          /\ [sock EXCEPT ![s] = state] \in [Sockets -> SocketStates]
          /\ \A t \in Sockets : [sock EXCEPT ![s] = state][t] = "OPEN" => sock[t] = "OPEN"
    BY <1>types DEF TypeOK, SocketStates
  <2>2. \A t \in Sockets : sock'[t] = "OPEN" => sock[t] = "OPEN"
    BY <1>12, <2>1, <1>current DEF WsFailed, WsError
  <2>3. QED
    BY <1>12, <1>types, <2>2, LeavesInTransit DEF WsFailed, WsError
<1>13. CASE Rotate
  BY <1>13, <1>types, RotateCerts
<1>14. CASE UNCHANGED vars
  BY <1>14 DEF vars, CertsInv, TransitInv, CertsInOrder, Receives, newest, Running
<1>15. QED
  BY <1>1, <1>2, <1>3, <1>4, <1>5, <1>6, <1>7, <1>8, <1>9, <1>10, <1>11, <1>12, <1>13, <1>14
     DEF Next, Continuation, SocketEvent

--------------------------------------------------------------------------------
(* The theorems *)

\* What is in transit to any socket is in order, and so are the certs that were given.
THEOREM CertsInvariance == Spec => []CertsInv
<1>1. Init => CertsInv
  <2>1. SUFFICES ASSUME Init PROVE CertsInv
    OBVIOUS
  <2>2. hubCerts = 1 /\ certs = 0 /\ ws = NoSocket /\ \A s \in Sockets : answer[s] = <<>>
    BY <2>1 DEF Init
  <2>3. QED
    BY <2>2, EmptyOrdered DEF CertsInv, TransitInv, CertsInOrder
<1>2. QED
  BY <1>1, CertsStep, Invariance, PTL DEF Spec

\* However often the agent reconnects and the hub rotates, the certs given to onCert are
\* never ahead of what the current socket still brings, and its newest version is on the
\* way once it is asked for (ControlAgent.ts:73-116, 187-201, 249-256).
THEOREM CertsArriveInOrder == Spec => []CertsInOrder
<1>1. CertsInv => CertsInOrder
  BY DEF CertsInv
<1>2. QED
  BY <1>1, CertsInvariance, PTL

\* An older version of the certs replaces a newer one only where a socket that was
\* replaced or closed has a part in it (ControlAgent.ts:249-256).
CertsNeverGoBack == [][certs' < certs => overtaken \/ overtaken']_vars

\* Older certs never replace newer ones but by a frame of a replaced or closed socket, or
\* after one (ControlAgent.ts:249-256).
THEOREM CertsOnlyAdvance == Spec => CertsNeverGoBack
<1>1. IInv /\ CertsInv /\ [Next]_vars => (certs' < certs => overtaken \/ overtaken')
  <2>1. SUFFICES ASSUME IInv, CertsInv, [Next]_vars, certs' # certs, ~overtaken, ~overtaken'
                 PROVE  certs <= certs'
    <3>1. ASSUME IInv, [Next]_vars PROVE certs \in Nat /\ certs' \in Nat
      BY <3>1, TypeStep, ControlAgentAssumption DEF IInv, TypeOK
    <3>2. QED
      BY <3>1
  <2>2. PICK s \in Sockets, m \in Inbox : WsMessage(s, m)
    BY <2>1 DEF Next, vars, certVars, Continuation, SocketEvent, CallInit, CloseUnopened, Shutdown,
       Opened, Loaded, InitFailed, ReconnectFailed, CloseDone, PingTimeout, CloseTimeout,
       ReceiveTimeout, WsOpened, WsPing, WsClosed, WsFailed, WsError, Drop, Blackhole, Rotate
  <2>3. TypeOK
    BY <2>1 DEF IInv
  <2>4. answer[s] # <<>> /\ certs' = Head(answer[s]) /\ s = ws
    BY <2>1, <2>2, <2>3, FrameCerts
  <2>5. answer[s] \in Seq(Nat) /\ ws # NoSocket
    BY <2>3, <2>4, CertTypes, ControlAgentAssumption
  <2>6. Len(answer[s]) \in Nat \ {0} /\ Head(answer[s]) = answer[s][1]
    BY <2>4, <2>5
  <2>7. QED
    BY <2>1, <2>4, <2>5, <2>6 DEF CertsInv, CertsInOrder
<1>2. QED
  BY <1>1, Invariance, CertsInvariance, PTL DEF Spec, CertsNeverGoBack

================================================================================
