----------------------------- MODULE MCHttpServer ------------------------------
(* A request with two retries across two renewals of the certs. *)
EXTENDS HttpServer
================================================================================
