-------------------------- MODULE MCPluginLoading --------------------------
(* Plugins at one location, and clients. *)
EXTENDS PluginLoading

MCLocation == [p \in Plugins |-> CHOOSE q \in Plugins : TRUE]
=============================================================================
