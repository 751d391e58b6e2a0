-------------------------------- MODULE JwsRelay --------------------------------
(***************************************************************************)
(* What relaying promises: a hub learns the signing certificates (JWS) of  *)
(* the other scheme, perhaps not every version.  What it learns in turn    *)
(* never goes back to an older one; a message of a connection that was     *)
(* replaced may, until the next one in turn.                               *)
(***************************************************************************)
EXTENDS Naturals

CONSTANT Schemes

VARIABLES
    jws,    \* version of the JWS of a scheme
    known,  \* version of the JWS of each scheme that the hub of a scheme knows
    inTurn  \* the last one it was told in turn

vars == <<jws, known, inTurn>>

Init ==
    /\ jws = [s \in Schemes |-> 0]
    /\ known = [h \in Schemes |-> [s \in Schemes |-> 0]]
    /\ inTurn = [h \in Schemes |-> [s \in Schemes |-> 0]]

Change(s) ==
    /\ jws' = [jws EXCEPT ![s] = @ + 1]
    /\ UNCHANGED <<known, inTurn>>

Learn(h, s) ==
    /\ h # s
    /\ \E version \in inTurn[h][s]..jws[s] :
          /\ known' = [known EXCEPT ![h][s] = version]
          /\ inTurn' = [inTurn EXCEPT ![h][s] = version]
    /\ UNCHANGED jws

LearnLate(h, s) ==
    /\ h # s
    /\ \E version \in 0..jws[s] : known' = [known EXCEPT ![h][s] = version]
    /\ UNCHANGED <<jws, inTurn>>

Next == \E s \in Schemes : Change(s) \/ \E h \in Schemes : Learn(h, s) \/ LearnLate(h, s)

Spec == Init /\ [][Next]_vars
================================================================================
