--------------------------- MODULE MCForwardClient ---------------------------
(* Instances of ForwardClient for TLC. *)
EXTENDS ForwardClient

AllTerminals == {"prompt", "late", "mute"}
PromptTerminal == {"prompt"}
=============================================================================
