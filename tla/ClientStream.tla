---------------------------- MODULE ClientStream ----------------------------
(***************************************************************************)
(* What the sender of a client promises: the client gets the messages that *)
(* were accepted for it, in the order in which they were accepted, each    *)
(* once; and when it is removed it gets all of them, and after them one    *)
(* Exit, the last thing it ever gets. A client that hangs up gets no more. *)
(***************************************************************************)
EXTENDS Naturals, Sequences

VARIABLES
  accepted,  \* messages accepted so far
  got,       \* those the client has got
  removed,   \* the client has been removed: nothing more is accepted
  exited,    \* it has got its Exit
  listening  \* it has not hung up

vars == <<accepted, got, removed, exited, listening>>

Init ==
  /\ accepted = <<>>
  /\ got = <<>>
  /\ removed = FALSE
  /\ exited = FALSE
  /\ listening = TRUE

Accept ==
  /\ ~removed
  /\ Len(accepted') = Len(accepted) + 1
  /\ accepted = SubSeq(accepted', 1, Len(accepted))
  /\ UNCHANGED <<got, removed, exited, listening>>

Deliver ==
  /\ listening
  /\ Len(got) < Len(accepted)
  /\ got' = Append(got, accepted[Len(got) + 1])
  /\ UNCHANGED <<accepted, removed, exited, listening>>

Remove ==
  /\ removed' = TRUE
  /\ UNCHANGED <<accepted, got, exited, listening>>

Exit ==
  /\ removed
  /\ listening
  /\ got = accepted
  /\ ~exited
  /\ exited' = TRUE
  /\ UNCHANGED <<accepted, got, removed, listening>>

HangUp ==
  /\ listening' = FALSE
  /\ UNCHANGED <<accepted, got, removed, exited>>

Next == Accept \/ Deliver \/ Remove \/ Exit \/ HangUp

Spec == Init /\ [][Next]_vars
=============================================================================
