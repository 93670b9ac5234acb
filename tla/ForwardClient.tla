---------------------------- MODULE ForwardClient ----------------------------
(***************************************************************************)
(* A client that carries host queries to its terminal                      *)
(* (zellij-client/src/lib.rs, stdin_ansi_parser.rs): the batches of queries *)
(* written to the terminal, the one forward slot that may be collecting,   *)
(* the clipboard slot, the timers, and the answers sent back to the server.*)
(*                                                                         *)
(* The server's next forward may come at any time: its own deadline        *)
(* releases a token whether or not this client has answered it.            *)
(*                                                                         *)
(* A batch is a query followed by a Primary-DA query, the barrier. HostReply   *)
(* bytes are a sequence of the answers they are made of, an answer being   *)
(* that to the query of a batch or the content of the clipboard.           *)
(***************************************************************************)
EXTENDS Integers, Sequences, SequencesExt

CONSTANTS
  MaxToken,       \* bound: forwards the server dispatches to this client
  MaxOwn,         \* bound: batches of queries zellij writes for itself
  Terminals       \* the kinds of terminal that may be attached

None == 0                 \* STARTUP_SENTINEL_TOKEN: never a forward
Own == 0                  \* the token of a batch BatchOwner::Zellij
Forwards == 1 .. MaxToken
TerminalKinds == {"prompt", "late", "mute"}

ASSUME ClientAssumption ==
  /\ MaxToken \in Nat
  /\ MaxOwn \in Nat
  /\ Terminals \subseteq TerminalKinds

VARIABLES
  terminal,     \* "prompt" answers within the batch expiry, "late" may take
                \* longer, "mute" answers no barrier
  next_forward,
  own_left,     \* what remains of the bound MaxOwn
  batches,      \* batches: [token, reply_bytes, abandoned]
  clipboard,    \* active_clipboard_forward: its token or None
  timers,       \* tokens whose timer has not fired
  stdout,       \* batches the terminal has yet to answer: [token, replied]
  asked_clip,   \* clipboard queries the terminal has yet to answer
  answers       \* history: the replies sent to the server for each token

forwardVars == <<terminal, next_forward, own_left, batches, clipboard, timers,
                 stdout, asked_clip, answers>>

HostReply(t) == [kind |-> "reply", token |-> t]
ClipboardContent(t) == [kind |-> "clipboard", token |-> t]

Batch(t) == [token |-> t, reply_bytes |-> <<>>, abandoned |-> FALSE]

IsLive(b) == b.token # Own /\ ~b.abandoned
Live == {k \in DOMAIN batches : IsLive(batches[k])}

\* Variant: the reply goes to whichever slot is live.
CollectingAnywhere == Live

\* collecting_forward_mut: only the batch in front collects.
Collecting == Live \cap {1}

Answer(t, bytes) == [answers EXCEPT ![t] = Append(@, bytes)]

\* Every batch of K gives up its bytes and stays, to swallow a late reply.
AbandonAll(K) ==
  [k \in DOMAIN batches |->
     IF k \in K THEN [batches[k] EXCEPT !.abandoned = TRUE, !.reply_bytes = <<>>]
                ELSE batches[k]]

\* Variant: the slot handed over stays open.
LeftOpen(K) == batches

Abandoned(K) == AbandonAll(K)

\* Variant: the slot that is still open is forgotten and not handed over.
Forgotten == answers

\* The reply for the slot that is handed over, if one is open.
HandedOver ==
  [t \in Forwards \cup {Own} |->
     IF \E k \in Live : batches[k].token = t
       THEN Append(answers[t],
                   batches[CHOOSE k \in Live : batches[k].token = t].reply_bytes)
       ELSE answers[t]]

\* close_forward_on_timeout: the live slot, when it is the timer's.
TimedOut(t) == {k \in Live : batches[k].token = t}

ClientInit ==
  /\ terminal \in Terminals
  /\ next_forward = 1
  /\ own_left = MaxOwn
  /\ batches = <<>>
  /\ clipboard = None
  /\ timers = {}
  /\ stdout = <<>>
  /\ asked_clip = {}
  /\ answers = [t \in Forwards \cup {Own} |-> <<>>]

(***************************************************************************)
(* Messages of the server                                                  *)
(***************************************************************************)
\* ForwardQueryToHost: hand over a slot that is still open, open one for the new
\* token, write the query and its barrier, arm the timer.
OpenForward ==
  LET t == next_forward IN
  /\ t <= MaxToken
  /\ next_forward' = t + 1
  /\ answers' = HandedOver
  /\ batches' = Append(Abandoned(Live), Batch(t))
  /\ stdout' = Append(stdout, [token |-> t, replied |-> FALSE])
  /\ timers' = timers \cup {t}
  /\ UNCHANGED <<terminal, own_left, clipboard, asked_clip>>

\* ForwardQueryToHost with resolve_async: the same, for the clipboard slot.
ForwardClipboardQuery ==
  LET t == next_forward IN
  /\ t <= MaxToken
  /\ next_forward' = t + 1
  /\ answers' = IF clipboard = None THEN answers ELSE Answer(clipboard, <<>>)
  /\ clipboard' = t
  /\ timers' = timers \cup {t}
  /\ asked_clip' = asked_clip \cup {t}
  /\ UNCHANGED <<terminal, own_left, batches, stdout>>

\* The client asks for itself, at its start and when the pixel size may change.
OwnQuery ==
  /\ own_left > 0
  /\ own_left' = own_left - 1
  /\ batches' = Append(batches, Batch(Own))
  /\ stdout' = Append(stdout, [token |-> Own, replied |-> FALSE])
  /\ UNCHANGED <<terminal, next_forward, clipboard, timers, asked_clip, answers>>

(***************************************************************************)
(* Bytes from the terminal: feed                                           *)
(***************************************************************************)
Collect(answer) ==
  batches' = [k \in DOMAIN batches |->
                IF k \in Collecting
                  THEN [batches[k] EXCEPT !.reply_bytes = Append(@, answer)]
                  ELSE batches[k]]

\* The terminal answers the query of its oldest batch (it may know no answer).
TerminalReply ==
  /\ terminal # "mute"
  /\ stdout # <<>>
  /\ ~stdout[1].replied
  /\ stdout' = [stdout EXCEPT ![1].replied = TRUE]
  /\ Collect(HostReply(stdout[1].token))
  /\ UNCHANGED <<terminal, next_forward, own_left, clipboard, timers, asked_clip,
                 answers>>

\* The barrier: the batch in front is over and, unless it was abandoned, so is
\* its forward.
TerminalBarrier ==
  /\ terminal # "mute"
  /\ stdout # <<>>
  /\ stdout' = Tail(stdout)
  /\ batches' = IF batches = <<>> THEN <<>> ELSE Tail(batches)
  /\ answers' = IF 1 \in Live
                  THEN Answer(batches[1].token, batches[1].reply_bytes)
                  ELSE answers
  /\ UNCHANGED <<terminal, next_forward, own_left, clipboard, timers, asked_clip>>

\* An OSC 52 answer closes the clipboard slot; with none open it is a reply like
\* any other.
TerminalClipboard(t) ==
  /\ t \in asked_clip
  /\ asked_clip' = asked_clip \ {t}
  /\ IF clipboard # None
       THEN /\ answers' = Answer(clipboard, <<ClipboardContent(t)>>)
            /\ clipboard' = None
            /\ UNCHANGED batches
       ELSE /\ Collect(ClipboardContent(t))
            /\ UNCHANGED <<answers, clipboard>>
  /\ UNCHANGED <<terminal, next_forward, own_left, timers, stdout>>

\* A key or the mouse closes the clipboard slot with an empty reply.
UserInput ==
  /\ clipboard # None
  /\ answers' = Answer(clipboard, <<>>)
  /\ clipboard' = None
  /\ UNCHANGED <<terminal, next_forward, own_left, batches, timers, stdout,
                 asked_clip>>

\* Batches that no barrier closed within UNANSWERED_BATCH_EXPIRY are dropped,
\* oldest first: long after the timer of their forward has fired.
ExpireBatch ==
  /\ terminal # "prompt"
  /\ batches # <<>>
  /\ batches[1].token \notin timers
  /\ batches' = Tail(batches)
  /\ UNCHANGED <<terminal, next_forward, own_left, clipboard, timers, stdout,
                 asked_clip, answers>>

(***************************************************************************)
(* Timers                                                                  *)
(***************************************************************************)
\* schedule_forward_timeout, schedule_clipboard_forward_timeout: the slot is
\* closed if it is still the timer's.
Timeout(t) ==
  /\ t \in timers
  /\ timers' = timers \ {t}
  /\ LET slots == TimedOut(t) IN
     /\ batches' = AbandonAll(slots)
     /\ clipboard' = IF clipboard = t THEN None ELSE clipboard
     /\ answers' = IF slots # {}
                     THEN Answer(t, batches[CHOOSE k \in slots : TRUE].reply_bytes)
                     ELSE IF clipboard = t THEN Answer(t, <<>>) ELSE answers
  /\ UNCHANGED <<terminal, next_forward, own_left, stdout, asked_clip>>

ClientNext ==
  \/ OpenForward
  \/ ForwardClipboardQuery
  \/ OwnQuery
  \/ TerminalReply
  \/ TerminalBarrier
  \/ \E t \in Forwards : TerminalClipboard(t)
  \/ UserInput
  \/ ExpireBatch
  \/ \E t \in Forwards : Timeout(t)

ClientSpec == ClientInit /\ [][ClientNext]_forwardVars

\* Only the client's timers are sure to go off: neither the terminal nor the user
\* has to do anything.
FairClientSpec == ClientSpec /\ \A t \in Forwards : WF_forwardVars(Timeout(t))

(***************************************************************************)
(* Properties                                                              *)
(***************************************************************************)
Bytes == Seq([kind : {"reply", "clipboard"}, token : Forwards \cup {Own}])

\* Every variable keeps its type, and no batch of zellij's own is ever answered to
\* the server.
ClientTypeOK ==
  /\ terminal \in TerminalKinds
  /\ next_forward \in 1 .. MaxToken + 1
  /\ own_left \in 0 .. MaxOwn
  /\ batches \in Seq([token : Forwards \cup {Own}, reply_bytes : Bytes,
                      abandoned : BOOLEAN])
  /\ clipboard \in Forwards \cup {None}
  /\ timers \subseteq Forwards
  /\ stdout \in Seq([token : Forwards \cup {Own}, replied : BOOLEAN])
  /\ asked_clip \subseteq Forwards
  /\ answers \in [Forwards \cup {Own} -> Seq(Bytes)]
  /\ answers[Own] = <<>>

\* The server hears of a token once: barrier, timer, user input and the next
\* forward never both answer it.
AnsweredAtMostOnce == \A t \in Forwards : Len(answers[t]) <= 1

\* A token the server still waits for has its slot open and its timer running: no
\* forward is lost when a slot closes.
OpenUntilAnswered ==
  \A t \in 1 .. next_forward - 1 :
    answers[t] = <<>> =>
      t \in timers /\ (clipboard = t \/ \E k \in Live : batches[k].token = t)

\* Each token has either its slot open or its one answer.
OpenOrAnsweredOnce == OpenUntilAnswered /\ AnsweredAtMostOnce

\* The parser's batches are the terminal's, in the same order: a barrier closes
\* the batch it belongs to, however many slots were abandoned before.
BatchesFollowTerminal ==
  terminal = "prompt" =>
    /\ Len(batches) = Len(stdout)
    /\ \A k \in DOMAIN batches : batches[k].token = stdout[k].token

Delivered(t) == UNION {Range(answers[t][k]) : k \in DOMAIN answers[t]}

\* The reply to a token holds no answer to another batch's query, however many
\* forwards were abandoned: "a late reply for an abandoned forward is dropped, not
\* given to the next pane". Only a terminal that answers after the batch expiry
\* escapes it: nothing tells its answer from the next one's.
NoForeignReply ==
  terminal # "late" =>
    \A t \in Forwards : \A a \in Delivered(t) : a.kind = "reply" => a.token = t

\* Answers stay with the batch, and with the query, that they belong to.
RepliesMatchQueries == BatchesFollowTerminal /\ NoForeignReply

\* "clipboard reply is not accumulated into a barrier slot".
ClipboardStaysOut ==
  \A k \in DOMAIN batches :
    \A a \in Range(batches[k].reply_bytes) : a.kind # "clipboard"

\* Every token the server dispatches is answered, whatever the terminal does.
AlwaysAnswered ==
  \A t \in Forwards : (next_forward > t) ~> (answers[t] # <<>>)
=============================================================================
