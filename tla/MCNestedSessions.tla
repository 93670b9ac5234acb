-------------------------- MODULE MCNestedSessions --------------------------
(* NestedSessions with clients that may trade places. *)
EXTENDS NestedSessions, TLC

ClientSymmetry == Permutations(Clients)
=============================================================================
