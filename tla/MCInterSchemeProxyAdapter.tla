----------------------- MODULE MCInterSchemeProxyAdapter -----------------------
(* The two peers, with few versions of what they exchange. *)
EXTENDS InterSchemeProxyAdapter
================================================================================
