--------------------------- MODULE MCClientSender ---------------------------
(* The main loop, which gives a slow client up, and two threads that do not. *)
EXTENDS ClientSender

MCCallers == {"main loop", "router", "screen"}
MCCareful == {"main loop"}
=============================================================================
