-------------------------- MODULE HostQueryForward --------------------------
(***************************************************************************)
(* Host queries on the server: a pane whose program asks something only    *)
(* the host terminal knows is paused, the query is sent to one client, and *)
(* the pane goes on, with the input it buffered, when an answer comes or   *)
(* the deadline passes (screen.rs, tab/mod.rs, panes/terminal_pane.rs,     *)
(* lib.rs, route.rs of zellij-server).                                     *)
(*                                                                         *)
(* There are two lanes, one for the clipboard and one for all other        *)
(* queries, each with at most one query at a client. A client may answer   *)
(* what it was sent, at any time or never (ForwardClient is the client's   *)
(* side); it may leave, and a write to it may fail.                        *)
(*                                                                         *)
(* A pane's output is a series of sequences, each with the lanes of the    *)
(* queries it makes: << >> is one the pane's own grid answers, "local" one *)
(* Screen answers without a client. Queries are numbered per pane. Pane    *)
(* output reaches Screen's channel at any time, so it is handled when it   *)
(* arrives.                                                                *)
(***************************************************************************)
EXTENDS Integers, Sequences, SequencesExt

CONSTANTS
  Panes,
  Clients,       \* clients that attach at some time
  PtySequences,  \* the sequences a program may write
  MaxQueries,    \* bound: queries of all panes together
  NoClient

Lanes == {"host", "clipboard"}
Sentinel == 0                       \* STARTUP_SENTINEL_TOKEN
Tokens == 1 .. MaxQueries

ASSUME ForwardAssumption ==
  /\ MaxQueries \in Nat
  /\ PtySequences \subseteq Seq(Lanes \cup {"local"})
  /\ NoClient \notin Clients

VARIABLES
  open,          \* panes that some tab has
  asked,         \* per pane: how many queries its program has written
  paused,        \* forward_paused
  pending_input, \* pending_pty_input: sequences not fed to the grid yet
  answered,      \* history: per pane, what its program was answered
  several,       \* history: panes that made several queries in one sequence
  to_screen,     \* Screen's channel: queries of panes, replies for tokens
  next_token,    \* next_forward_token
  in_flight,     \* per lane: the token at a client, or Sentinel
  entries,       \* per lane: the pending entries of dispatched tokens
  waiting,       \* per lane: the queue of queries to dispatch
  deadlines,     \* tokens whose server-side deadline has not passed
  to_server,     \* ForwardQueryToHost instructions to the main loop
  clients,       \* SessionState::clients
  routed,        \* clients whose router thread runs
  last_active,   \* last_active_client
  in_hand,       \* forwards_in_flight: pairs of token and client
  sent           \* tokens each client was sent and has not answered

paneVars == <<open, asked, paused, pending_input, answered, several>>
laneVars == <<next_token, in_flight, entries, waiting, deadlines, to_server>>
serverVars == <<clients, routed, last_active, in_hand, sent>>
vars == <<paneVars, to_screen, laneVars, serverVars>>

FirstToken == Sentinel + 1

Query(p, n, lane) == [kind |-> "query", pane |-> p, n |-> n, lane |-> lane]
Reply(t, bytes) == [kind |-> "reply", token |-> t, bytes |-> bytes]
Sequence(n, lanes) == [n |-> n, lanes |-> lanes]
Answered(n, bytes) == [n |-> n, bytes |-> bytes]
SumOver(f) == FoldFunction(LAMBDA x, y : x + y, 0, f)

(***************************************************************************)
(* A pane reading its program's output                                     *)
(***************************************************************************)
Asks(s) == s.lanes # <<>>

\* The number of sequences of ss that are fed: up to the first that asks.
Consumed(ss) ==
  IF \E k \in DOMAIN ss : Asks(ss[k])
    THEN CHOOSE k \in DOMAIN ss : Asks(ss[k]) /\ \A j \in 1 .. k - 1 : ~Asks(ss[j])
    ELSE Len(ss)

\* The queries for Screen that feeding ss makes (only the last sequence fed may ask),
\* and the grid's own answers.
QueriesOf(p, ss) ==
  LET s == ss[Consumed(ss)] IN
  IF \E k \in DOMAIN ss : Asks(ss[k])
    THEN [i \in DOMAIN s.lanes |-> Query(p, s.n + i - 1, s.lanes[i])]
    ELSE <<>>
GridAnswers(ss) ==
  LET own == {k \in 1 .. Consumed(ss) : ~Asks(ss[k])}
  IN  [k \in own |-> Answered(ss[k].n, "grid")]

\* Variant: the pane reads on after it has asked.
NeverPauses(p, ss) == FALSE

PausesAfter(p, ss) == QueriesOf(p, ss) # <<>>

Rest(ss) == SubSeq(ss, Consumed(ss) + 1, Len(ss))

\* process_pty_bytes on a pane that is not paused, which has just been given the
\* answers now; channel is what Screen's channel holds by then.
Feed(p, ss, now, channel) ==
  /\ paused' = [paused EXCEPT ![p] = PausesAfter(p, ss)]
  /\ pending_input' = [pending_input EXCEPT ![p] = Rest(ss)]
  /\ answered' = [answered EXCEPT ![p] = @ \o now \o GridAnswers(ss)]
  /\ to_screen' = channel \o QueriesOf(p, ss)

\* resume_pane_after_forward: the answer is written to the program, then the
\* buffered sequences are fed. A pane no tab has is written to all the same,
\* and nobody reads it.
Resume(p, n, bytes, channel) ==
  IF p \in open
    THEN Feed(p, pending_input[p], <<Answered(n, bytes)>>, channel)
    ELSE /\ to_screen' = channel
         /\ UNCHANGED <<paused, pending_input, answered>>

(***************************************************************************)
(* The lanes                                                               *)
(***************************************************************************)
Pending(t, p, n) == [token |-> t, pane |-> p, n |-> n]

\* Variant: a forward is dispatched without a deadline of its own.
DeadlinesAsTheyAre(t) == deadlines

Armed(t) == deadlines \cup {t}

\* dispatch_forward, dispatch_clipboard_forward, the lane having the entries left.
Dispatch(lane, e, left) ==
  /\ in_flight' = [in_flight EXCEPT ![lane] = e.token]
  /\ entries' = [entries EXCEPT ![lane] = left \cup {e}]
  /\ to_server' = Append(to_server, e.token)
  /\ deadlines' = Armed(e.token)

EntriesWithout(lane, t) == {e \in entries[lane] : e.token # t}

\* What is left to dispatch: the clipboard lane passes over closed panes.
Dispatchable(lane) ==
  IF lane = "host" THEN waiting[lane]
  ELSE LET skipped == {k \in 0 .. Len(waiting[lane]) :
                         \A j \in 1 .. k : waiting[lane][j].pane \notin open}
           most == CHOOSE k \in skipped : \A j \in skipped : j <= k
       IN  SubSeq(waiting[lane], most + 1, Len(waiting[lane]))

\* The lane whose query in flight is t: the guard against stale replies.
LaneOf(t) == {lane \in Lanes : in_flight[lane] = t}

Init ==
  /\ open = Panes
  /\ asked = [p \in Panes |-> 0]
  /\ paused = [p \in Panes |-> FALSE]
  /\ pending_input = [p \in Panes |-> <<>>]
  /\ answered = [p \in Panes |-> <<>>]
  /\ several = {}
  /\ to_screen = <<>>
  /\ next_token = FirstToken
  /\ in_flight = [lane \in Lanes |-> Sentinel]
  /\ entries = [lane \in Lanes |-> {}]
  /\ waiting = [lane \in Lanes |-> <<>>]
  /\ deadlines = {}
  /\ to_server = <<>>
  /\ clients = Clients
  /\ routed = Clients
  /\ last_active = NoClient
  /\ in_hand = {}
  /\ sent = [c \in Clients |-> {}]

(***************************************************************************)
(* Screen                                                                  *)
(***************************************************************************)
\* A program writes a sequence (handle_pty_bytes): a paused pane keeps it.
PtyBytes(p, lanes) ==
  /\ p \in open
  /\ SumOver(asked) + Len(lanes) <= MaxQueries
  /\ lanes = <<>> => SumOver(asked) < MaxQueries
  /\ LET s == Sequence(asked[p] + 1, lanes) IN
       IF paused[p]
         THEN /\ pending_input' = [pending_input EXCEPT ![p] = Append(@, s)]
              /\ UNCHANGED <<paused, answered, to_screen>>
         ELSE Feed(p, <<s>>, <<>>, to_screen)
  /\ asked' = [asked EXCEPT ![p] = @ + (IF lanes = <<>> THEN 1 ELSE Len(lanes))]
  /\ several' = IF Len(lanes) > 1 THEN several \cup {p} ELSE several
  /\ UNCHANGED <<open, laneVars, serverVars>>

ClosePane(p) ==
  /\ p \in open
  /\ open' = open \ {p}
  /\ UNCHANGED <<asked, paused, pending_input, answered, several, to_screen,
                 laneVars, serverVars>>

\* ForwardHostQuery: answer locally, dispatch, or queue behind the query in flight.
ForwardHostQuery ==
  /\ to_screen # <<>>
  /\ Head(to_screen).kind = "query"
  /\ LET q == Head(to_screen)
         e == Pending(next_token, q.pane, q.n)
     IN  IF q.lane = "local"
           THEN /\ Resume(q.pane, q.n, "cache", Tail(to_screen))
                /\ UNCHANGED laneVars
           ELSE /\ to_screen' = Tail(to_screen)
                /\ next_token' = next_token + 1
                /\ IF in_flight[q.lane] # Sentinel
                     THEN /\ waiting' = [waiting EXCEPT ![q.lane] = Append(@, e)]
                          /\ UNCHANGED <<in_flight, entries, deadlines, to_server>>
                     ELSE Dispatch(q.lane, e, entries[q.lane]) /\ UNCHANGED waiting
                /\ UNCHANGED <<paused, pending_input, answered>>
  /\ UNCHANGED <<open, asked, several, serverVars>>

\* ForwardedReplyFromHost: a stale reply is dropped; any other resumes its pane
\* (an empty one with what zellij has cached), releases the slot and dispatches
\* the next query of the lane.
ForwardedReply ==
  /\ to_screen # <<>>
  /\ Head(to_screen).kind = "reply"
  /\ LET r == Head(to_screen) IN
       IF LaneOf(r.token) = {}
         THEN /\ to_screen' = Tail(to_screen)
              /\ UNCHANGED <<paused, pending_input, answered, laneVars>>
         ELSE LET lane == CHOOSE l \in LaneOf(r.token) : TRUE
                  found == {e \in entries[lane] : e.token = r.token}
                  left == EntriesWithout(lane, r.token)
                  next == Dispatchable(lane)
              IN  /\ IF found = {}
                       THEN /\ to_screen' = Tail(to_screen)
                            /\ UNCHANGED <<paused, pending_input, answered>>
                       ELSE LET e == CHOOSE e \in found : TRUE IN
                              Resume(e.pane, e.n, r.bytes, Tail(to_screen))
                  /\ IF next = <<>>
                       THEN /\ in_flight' = [in_flight EXCEPT ![lane] = Sentinel]
                            /\ entries' = [entries EXCEPT ![lane] = left]
                            /\ UNCHANGED <<to_server, deadlines>>
                       ELSE Dispatch(lane, Head(next), left)
                  /\ waiting' = [waiting EXCEPT ![lane] =
                                   IF next = <<>> THEN <<>> ELSE Tail(next)]
                  /\ UNCHANGED next_token
  /\ UNCHANGED <<open, asked, several, serverVars>>

\* The server-side deadline of a token passes: an empty reply.
Deadline(t) ==
  /\ t \in deadlines
  /\ deadlines' = deadlines \ {t}
  /\ to_screen' = Append(to_screen, Reply(t, "cache"))
  /\ UNCHANGED <<paneVars, next_token, in_flight, entries, waiting, to_server,
                 serverVars>>

(***************************************************************************)
(* The server's main loop, the router and the clients                      *)
(***************************************************************************)
\* pick_forward_target
Targets == IF last_active \in clients THEN {last_active} ELSE clients

\* Variant: the tokens of a client that goes are forgotten with it.
NothingStuck(c, hand) == {}

\* remove_client: the tokens that were in this client's hands.
Stuck(c, hand) == {h[1] : h \in {g \in hand : g[2] = c}}

\* remove_client_and_flush_forwards, hand being forwards_in_flight by then: an
\* empty reply for each of its tokens, in the order of a hash map.
RemoveClient(c, hand) ==
  /\ clients' = clients \ {c}
  /\ last_active' = IF last_active = c THEN NoClient ELSE last_active
  /\ in_hand' = {h \in hand : h[2] # c}
  /\ \E s \in SetToSeqs(Stuck(c, hand)) :
       to_screen' = to_screen \o [k \in DOMAIN s |-> Reply(s[k], "cache")]

\* ForwardQueryToHost: mark the token as in the client's hands and write it to
\* the client; a write that fails removes the client. No client: an empty reply.
ForwardQueryToHost ==
  /\ to_server # <<>>
  /\ to_server' = Tail(to_server)
  /\ LET t == Head(to_server) IN
       \/ /\ clients = {}
          /\ to_screen' = Append(to_screen, Reply(t, "cache"))
          /\ UNCHANGED serverVars
       \/ \E c \in Targets :
            /\ in_hand' = in_hand \cup {<<t, c>>}
            /\ sent' = [sent EXCEPT ![c] = @ \cup {t}]
            /\ UNCHANGED <<to_screen, clients, routed, last_active>>
       \/ \E c \in Targets :
            /\ RemoveClient(c, in_hand \cup {<<t, c>>})
            /\ UNCHANGED <<routed, sent>>
  /\ UNCHANGED <<paneVars, next_token, in_flight, entries, waiting, deadlines>>

\* The router reads a client's reply; the client may have been removed already.
RouteReply(c, t) ==
  /\ t \in sent[c]
  /\ sent' = [sent EXCEPT ![c] = @ \ {t}]
  /\ in_hand' = {h \in in_hand : h[1] # t}
  /\ to_screen' = Append(to_screen, Reply(t, "host"))
  /\ UNCHANGED <<paneVars, laneVars, clients, routed, last_active>>

\* The router reads a key of a client, removed or not.
RouteKey(c) ==
  /\ c \in routed
  /\ last_active' = c
  /\ UNCHANGED <<paneVars, to_screen, laneVars, clients, routed, in_hand, sent>>

\* A client leaves, and answers nothing any more.
ClientExit(c) ==
  /\ c \in routed
  /\ routed' = routed \ {c}
  /\ RemoveClient(c, in_hand)
  /\ sent' = [sent EXCEPT ![c] = {}]
  /\ UNCHANGED <<paneVars, laneVars>>

ScreenStep == ForwardHostQuery \/ ForwardedReply

Next ==
  \/ \E p \in Panes, lanes \in PtySequences : PtyBytes(p, lanes)
  \/ \E p \in Panes : ClosePane(p)
  \/ ScreenStep
  \/ \E t \in Tokens : Deadline(t)
  \/ ForwardQueryToHost
  \/ \E c \in Clients, t \in Tokens : RouteReply(c, t)
  \/ \E c \in Clients : RouteKey(c) \/ ClientExit(c)

Spec == Init /\ [][Next]_vars

\* Screen and the deadlines go on; the main loop may be stuck, and no client has
\* to answer.
FairSpec == Spec /\ WF_vars(ScreenStep) /\ \A t \in Tokens : WF_vars(Deadline(t))

(***************************************************************************)
(* Properties                                                              *)
(***************************************************************************)
Entry == [token : Tokens, pane : Panes, n : Tokens]

\* Every variable keeps its type.
TypeOK ==
  /\ open \subseteq Panes
  /\ asked \in [Panes -> 0 .. MaxQueries]
  /\ paused \in [Panes -> BOOLEAN]
  /\ pending_input \in [Panes -> Seq([n : Tokens, lanes : PtySequences])]
  /\ several \subseteq Panes
  /\ answered \in [Panes -> Seq([n : Tokens, bytes : {"grid", "cache", "host"}])]
  /\ to_screen \in Seq([kind : {"query"}, pane : Panes, n : Tokens,
                        lane : Lanes \cup {"local"}]
                       \cup [kind : {"reply"}, token : Tokens,
                             bytes : {"cache", "host"}])
  /\ next_token \in 1 .. MaxQueries + 1
  /\ in_flight \in [Lanes -> Tokens \cup {Sentinel}]
  /\ entries \in [Lanes -> SUBSET Entry]
  /\ waiting \in [Lanes -> Seq(Entry)]
  /\ deadlines \subseteq Tokens
  /\ to_server \in Seq(Tokens)
  /\ clients \subseteq Clients
  /\ routed \subseteq Clients
  /\ last_active \in Clients \cup {NoClient}
  /\ in_hand \subseteq Tokens \X Clients
  /\ sent \in [Clients -> SUBSET Tokens]

RepliedTo(t) ==
  \E k \in DOMAIN to_screen : to_screen[k].kind = "reply" /\ to_screen[k].token = t

\* A lane's slot is never stuck: a token in flight has a deadline running or a
\* reply on its way to Screen, whatever became of the client.
SlotHasReleaser ==
  \A lane \in Lanes : in_flight[lane] # Sentinel =>
    in_flight[lane] \in deadlines \/ RepliedTo(in_flight[lane])

\* A lane need not wait for the deadline when a client goes: a token in flight is on
\* its way to the main loop, in the hands of a client that is still there, or has
\* a reply on its way to Screen.
HeldByAClient ==
  \A lane \in Lanes : LET t == in_flight[lane] IN
    t # Sentinel =>
      \/ RepliedTo(t)
      \/ t \in Range(to_server)
      \/ \E c \in clients : <<t, c>> \in in_hand

\* The pending entries are those of the tokens in flight, and queries wait in a
\* lane only behind one: no entry leaks, and no queue is left behind a free slot.
EntriesInFlight ==
  \A lane \in Lanes :
    /\ {e.token : e \in entries[lane]} = {in_flight[lane]} \ {Sentinel}
    /\ in_flight[lane] = Sentinel => waiting[lane] = <<>>

QueryUnderWay(p) ==
  \/ \E k \in DOMAIN to_screen : to_screen[k].kind = "query" /\ to_screen[k].pane = p
  \/ \E lane \in Lanes :
       \/ \E e \in entries[lane] : e.pane = p
       \/ \E k \in DOMAIN waiting[lane] : waiting[lane][k].pane = p

\* A paused pane has a query under way that will resume it, and only a paused
\* pane holds input back.
PausedForAReason ==
  \A p \in open :
    /\ paused[p] => QueryUnderWay(p)
    /\ pending_input[p] # <<>> => paused[p]

\* Nothing waits for what has no one to release it: neither a lane's slot, nor an
\* entry or a query behind it, nor a pane.
NothingWaitsForNobody ==
  SlotHasReleaser /\ HeldByAClient /\ EntriesInFlight /\ PausedForAReason

InOrder(p) ==
  \A j, k \in DOMAIN answered[p] : j < k => answered[p][j].n < answered[p][k].n

\* A program reads the answers to its queries in the order it made them, each
\* once, whoever answers: "the reply lands on the pane in the correct stream
\* position".
StreamOrder == \A p \in Panes : InOrder(p)

\* So it does, over pauses, both lanes, deadlines and closed panes, as long as no
\* sequence makes several queries.
StreamOrderOfSingles == \A p \in Panes \ several : InOrder(p)

\* Every query of a pane that stays open is answered.
EveryQueryAnswered ==
  \A p \in Panes, n \in Tokens :
    (asked[p] >= n) ~> (p \notin open \/ \E k \in DOMAIN answered[p] : answered[p][k].n = n)
=============================================================================
