---------------------------- MODULE PromptPromise ----------------------------
(***************************************************************************)
(* What a prompt promises its caller, whichever threads it passes through  *)
(* (zellij-tile/src/shim.rs, prompt): a request is shown to the user or    *)
(* settled, and once it is settled nothing more comes of it. At most one   *)
(* result is sent; none is when the caller went or withdrew the request,   *)
(* or when a notice was closed.                                            *)
(***************************************************************************)
EXTENDS Naturals, Sequences

CONSTANTS Requests, Results

VARIABLES
  phase,  \* per request: "new", "waiting", "shown" or "settled"
  sent    \* per request: the results sent to its caller

vars == <<phase, sent>>

Init ==
  /\ phase = [r \in Requests |-> "new"]
  /\ sent = [r \in Requests |-> <<>>]

Moves(r, from, to) == phase[r] \in from /\ phase'[r] = to

\* Ask, show and hide; an invalid request is settled at once.
Quietly(r) ==
  /\ \/ Moves(r, {"new"}, "waiting")
     \/ Moves(r, {"waiting"}, "shown")
     \/ Moves(r, {"shown"}, "waiting")
     \/ Moves(r, {"waiting", "shown"}, "settled")
     \/ phase'[r] = phase[r]
  /\ sent'[r] = sent[r]

Answer(r) ==
  /\ Moves(r, {"new", "waiting", "shown"}, "settled")
  /\ \E result \in Results : sent'[r] = Append(sent[r], result)

\* Requests do not disturb each other, and some may move together.
Next ==
  /\ DOMAIN phase' = Requests /\ DOMAIN sent' = Requests
  /\ \A r \in Requests : Quietly(r) \/ Answer(r)

\* No request waits unseen for ever (there are finitely many).
Served == []<>(\A r \in Requests : phase[r] # "waiting")

Spec == Init /\ [][Next]_vars /\ Served
=============================================================================
