--------------------------------- MODULE Wiring ---------------------------------
(***************************************************************************)
(* What the two peers are connected to: config.ts, whose values come from  *)
(* the environment, and createProxyAdapter.ts, which builds the peers.     *)
(*                                                                         *)
(* A scheme has a hub, an identity provider that issues the tokens of the  *)
(* hub, and a management API that issues its certs.  Each goes here by the *)
(* label of its scheme.                                                    *)
(*                                                                         *)
(* A definition marked "Variant" is what a plausible bug would make of the *)
(* definition that follows it; no specification uses it.                   *)
(***************************************************************************)

Peers   == {"A", "B"}
Schemes == Peers

\* The scheme an address in the environment belongs to.
env ==
    [PEER_ENDPOINT_A        |-> "A", PEER_ENDPOINT_B        |-> "B",
     OAUTH_TOKEN_ENDPOINT_A |-> "A", OAUTH_TOKEN_ENDPOINT_B |-> "B",
     MGMT_API_WS_URL_A      |-> "A", MGMT_API_WS_URL_B      |-> "B"]

\* Where the management API of a scheme listens.
controlAgentConfigA == [wsHost |-> env.MGMT_API_WS_URL_A]
controlAgentConfigB == [wsHost |-> env.MGMT_API_WS_URL_B]

\* A peer serves requests to one scheme and sends its callbacks to the other.  Of its
\* configuration only the addresses are here: keys, secrets and ports are left out, and the
\* intervals are CONSTANTS of the modules that use them.
peerAConfig ==
    [peerEndpoint         |-> env.PEER_ENDPOINT_A,
     pingCallbackEndpoint |-> env.PEER_ENDPOINT_B,
     tokenEndpoint        |-> env.OAUTH_TOKEN_ENDPOINT_A,
     controlAgentConfig   |-> controlAgentConfigA]

\* Variant of peerBConfig: an endpoint is left as it was copied from peerAConfig.
peerBConfigCopied ==
    [peerEndpoint         |-> env.PEER_ENDPOINT_B,
     pingCallbackEndpoint |-> env.PEER_ENDPOINT_B,
     tokenEndpoint        |-> env.OAUTH_TOKEN_ENDPOINT_B,
     controlAgentConfig   |-> controlAgentConfigB]

peerBConfig ==
    [peerEndpoint         |-> env.PEER_ENDPOINT_B,
     pingCallbackEndpoint |-> env.PEER_ENDPOINT_A,
     tokenEndpoint        |-> env.OAUTH_TOKEN_ENDPOINT_B,
     controlAgentConfig   |-> controlAgentConfigB]

\* What the parts of a peer talk to.
createPeerServer(config) ==
    [proxyService |-> config.peerEndpoint,
     pingService  |-> config.pingCallbackEndpoint,
     authClient   |-> config.tokenEndpoint,
     controlAgent |-> config.controlAgentConfig.wsHost]

createProxyAdapter ==
    [p \in Peers |-> createPeerServer(IF p = "A" THEN peerAConfig ELSE peerBConfig)]

\* The peer the events of a peer go to: addPeerEventListeners.
other(p) == IF p = "A" THEN "B" ELSE "A"
================================================================================
