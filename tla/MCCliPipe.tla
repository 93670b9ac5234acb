------------------------------ MODULE MCCliPipe ------------------------------
(* Settings of CliPipe for TLC. *)
EXTENDS CliPipe

CONSTANTS q1, q2, p1, p2, c1, c2, e

One == {<<p1, c1>>}

\* Two background plugins in two clients: one instance may block, another set an exit
\* code and fail, so that the release that ends the pipe comes while others handle it.
Backpressure ==
  [pipes |-> {q1}, piped |-> {q1}, instances |-> {p1, p2} \X {c1, c2}, panes |-> {},
   blockers |-> One, coders |-> {<<p2, c1>>}, crashers |-> {<<p2, c1>>},
   messages |-> 2, removals |-> 0, kills |-> 1]

\* A pane plugin that may do anything, a background plugin, and an unload.
Detour ==
  [pipes |-> {q1}, piped |-> {q1}, instances |-> {p1, p2} \X {c1}, panes |-> {p1},
   blockers |-> One, coders |-> One, crashers |-> One,
   messages |-> 2, removals |-> 1, kills |-> 0]

\* Nothing blocks explicitly; plugins fail, are unloaded, lose their client.
NoBlocks ==
  [pipes |-> {q1}, piped |-> {q1}, instances |-> {p1, p2} \X {c1}, panes |-> {p2},
   blockers |-> {}, coders |-> One, crashers |-> One,
   messages |-> 3, removals |-> 1, kills |-> 0]

\* A single recipient that sets exit codes, and two command-line clients.
OneRecipient ==
  [pipes |-> {q1, q2}, piped |-> {q1}, instances |-> One, panes |-> {},
   blockers |-> One, coders |-> One, crashers |-> {},
   messages |-> 2, removals |-> 0, kills |-> 0]

\* A pane plugin that blocks and unblocks one message.
RenderThenUnblock ==
  [pipes |-> {q1}, piped |-> {q1}, instances |-> {p1, p2} \X {c1}, panes |-> {p1},
   blockers |-> One, coders |-> {}, crashers |-> {},
   messages |-> 1, removals |-> 0, kills |-> 0]

AllSettings == {Backpressure, Detour, NoBlocks, OneRecipient}
OvertakingSettings == {RenderThenUnblock}
=============================================================================
