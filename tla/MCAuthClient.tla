----------------------------- MODULE MCAuthClient ------------------------------
(* Three token loops, a token endpoint that answers within one time unit. *)
EXTENDS AuthClient
================================================================================
