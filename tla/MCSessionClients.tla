-------------------------- MODULE MCSessionClients --------------------------
(* A session of two clients, the second of which comes from the web. *)
EXTENDS SessionClients

MCWebConns == {2}
=============================================================================
