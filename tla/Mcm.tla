---------------------------------- MODULE Mcm ----------------------------------
(***************************************************************************)
(* The management-api message protocol, as the control agent reads it:     *)
(* which payloads pass the two type guards of types.ts and what            *)
(* ControlAgent._handle does with a received frame.                        *)
(*                                                                         *)
(* A frame is abstracted to what the code tells apart: whether it parses   *)
(* to an object, its verb, its msg, and whether data is absent, holds      *)
(* outbound.tls.creds, or is something else.  The message id only serves   *)
(* to correlate error replies and is left out.                             *)
(***************************************************************************)

\* The enums of constants.ts; "unknown" stands for any other or no value.
VERB    == {"READ", "NOTIFY", "PATCH"}
MESSAGE == {"CONFIGURATION", "PEER_JWS", "ERROR"}
Data    == {"absent", "creds", "other"}

WsPayload(verb, msg, data) ==
    [form |-> "object", verb |-> verb, msg |-> msg, data |-> data]

\* Frames that are not JSON, and the JSON literal null.
Unparsable == [form |-> "unparsable", verb |-> "unknown", msg |-> "unknown", data |-> "absent"]
JsonNull   == [form |-> "null", verb |-> "unknown", msg |-> "unknown", data |-> "absent"]

Frames ==
    {WsPayload(v, m, d) : v \in VERB \cup {"unknown"}, m \in MESSAGE \cup {"unknown"}, d \in Data}
        \cup {Unparsable, JsonNull}

\* The frames the management API is known to send.
CertsNotify   == WsPayload("NOTIFY", "CONFIGURATION", "creds")
ConfigPatch   == WsPayload("PATCH", "CONFIGURATION", "other")
PeerJwsNotify == WsPayload("NOTIFY", "PEER_JWS", "other")
ErrorNotify   == WsPayload("NOTIFY", "ERROR", "other")

isWsPayload(m) ==
    /\ m.form = "object"
    /\ m.verb \in VERB
    /\ m.msg \in MESSAGE
    /\ m.data # "absent"

isCertsPayload(m) ==
    /\ m.verb = "NOTIFY"
    /\ m.msg = "CONFIGURATION"
    /\ m.data = "creds"

Replies   == {"JSON_PARSE_ERROR", "UNSUPPORTED_VERB", "UNSUPPORTED_MESSAGE"}
Reactions == Replies \cup {"onCert", "onPeerJWS", "none", "throw"}

\* deserialise() fails inside the try block of _handle, so a frame that does not
\* parse is answered; reading msg.msg of null throws outside of it.
handle(m) ==
    CASE m.form = "unparsable" -> "JSON_PARSE_ERROR"
      [] m.form = "null"       -> "throw"
      [] m.msg = "CONFIGURATION" /\ m.verb \in {"NOTIFY", "PATCH"} ->
             IF isCertsPayload(m) THEN "onCert" ELSE "none"
      [] m.msg = "PEER_JWS" /\ m.verb = "NOTIFY" -> "onPeerJWS"
      [] m.msg \in {"CONFIGURATION", "PEER_JWS"} /\ m.verb \notin {"NOTIFY", "PATCH"} ->
             "UNSUPPORTED_VERB"
      [] m.msg = "PEER_JWS" /\ m.verb = "PATCH" -> "UNSUPPORTED_VERB"
      [] m.msg = "ERROR"   -> "none"
      [] OTHER             -> "UNSUPPORTED_MESSAGE"

================================================================================
