------------------------- MODULE MCHostQueryForward -------------------------
(* Instances of HostQueryForward for TLC. *)
EXTENDS HostQueryForward

SingleQueries == {<<>>, <<"host">>, <<"clipboard">>, <<"local">>}
\* OSC 4 asks for several registers in one sequence.
WithPalette == SingleQueries \cup {<<"host", "host">>}
=============================================================================
