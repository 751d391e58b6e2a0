---------------------------- MODULE MCControlAgent ----------------------------
(* The control agent on small instances: two or three sockets. *)
EXTENDS ControlAgentLifecycle, TLC

\* One frame of every kind the agent tells apart.
AllInbox == {CertsNotify, ConfigPatch, PeerJwsNotify, ErrorNotify, Unparsable, JsonNull}

\* Nothing but the certs; with the notifications that can come in between; with a frame
\* that is not JSON.
CertsInbox == {CertsNotify}
ApiInbox   == {CertsNotify, PeerJwsNotify}
BadFrames  == {CertsNotify, Unparsable}

Symmetry == Permutations(Sockets)
================================================================================
