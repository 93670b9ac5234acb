-------------------------- MODULE MCPromptRequests --------------------------
(* Requests and settings of PromptRequests for TLC. *)
EXTENDS PromptRequests

CONSTANTS c1, c2, A, B

\* A plugin asks the user of its client; another, which two clients share, asks the same
\* user and shows this user a notice.
Question == [plugin |-> A, client |-> c1, id |-> 1, owner |-> c1, notice |-> FALSE]
Guest == [plugin |-> B, client |-> c2, id |-> 1, owner |-> c1, notice |-> FALSE]
Notice == [plugin |-> B, client |-> c2, id |-> 2, owner |-> c1, notice |-> TRUE]
Asked == {Question, Guest, Notice}

Scene(requests, quitters, dialogues, departures, closings) ==
  [requests |-> requests, quitters |-> quitters, dialogues |-> dialogues,
   departures |-> departures, closings |-> closings]

Scenes == {
  Scene({Question, Guest}, {}, 0, {}, {A}),
  Scene({Question}, {}, 0, {c1}, {A}),
  Scene({Guest}, {}, 0, {c1, c2}, {}),
  Scene({Notice}, {}, 0, {c1}, {B}),
  Scene({Guest}, {c1}, 1, {}, {}),
  Scene({}, {c1, c2}, 1, {c2}, {}),
  Scene({}, {c1}, 2, {c1}, {})}
=============================================================================
