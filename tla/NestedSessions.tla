--------------------------- MODULE NestedSessions ---------------------------
(***************************************************************************)
(* Sessions that run in panes of a session: how their host finds them,     *)
(* loses and finds them again, and whose keys go to them unseen            *)
(* (zellij-server/src/screen.rs, nested_guest.rs, lib.rs,                  *)
(* background_jobs.rs; zellij-client/src/nested_reannounce.rs,             *)
(* input_handler.rs, lib.rs; zellij-utils/src/nested_session.rs).          *)
(*                                                                         *)
(* A guest announces itself in the output of its pane. Screen answers,     *)
(* offers its clients to descend, and has background jobs remind it to     *)
(* ping; a guest that is silent is suspended, and one that hears nothing   *)
(* announces itself again. When a client that has descended focuses the    *)
(* pane, Screen tells the main loop, which lets the client's keys pass     *)
(* and tells the guest that it has the focus.                              *)
(*                                                                         *)
(* Time is a timer that may have run out at any moment. Messages to Screen *)
(* wait in sets, or in the pane's output: Screen may take those of         *)
(* different senders in any order. Background jobs take theirs in order,   *)
(* and at once: a tick may still wait when its pings are over.             *)
(*                                                                         *)
(* What is left out: modes and key bindings reported upwards, full screen, *)
(* the ancestry. Each pane has one program, in which guests come and go;   *)
(* Shell is a pane without guests.                                         *)
(***************************************************************************)
EXTENDS Integers, Sequences, FiniteSets, SequencesExt

CONSTANTS
  Clients,    \* clients of the host
  Hosts,      \* terminal panes in which guests may run
  Handlings,  \* the values of nested_session_handling
  Budget,     \* max_unacked_announces
  Room        \* bound: messages for the main loop, or frames for a guest, before Screen waits

None == 0
Shell == 1

ASSUME NestedAssumption ==
  /\ IsFiniteSet(Clients) /\ IsFiniteSet(Hosts)
  /\ Hosts \subseteq Nat \ {None, Shell}
  /\ Handlings \subseteq {"Ask", "Descend", "Never"}
  /\ {Budget, Room} \subseteq Nat \ {0}

VARIABLES
  handling,    \* nested_session_handling
  client,      \* by client: not yet here, connected for the main loop, or gone
  open,        \* the panes of the tabs
  flagged,     \* the panes that are nested guests
  tracker,     \* nested_guest_tracker
  heard,       \* the panes heard from within the pong timeout
  modals,      \* the clients a pane shows its modal
  choices,     \* nested_guest_choices
  dimmed,      \* dimmed_clients
  focus,       \* the active pane of each client of Screen
  keys_to,     \* key_passthrough_clients
  pinging,     \* nested_guest_pings
  to_server,   \* the main loop's channel
  ticks, chosen, ended, coming, going, \* Screen's channel: ticks of panes, choices in modals,
               \* panes whose program ended, clients to add and to remove
  to_guest,    \* the frames written to each pane
  from_guest,  \* the frames in each pane's output
  guest,       \* the guest in each pane
  program,     \* the program of each pane: is it running
  strayed      \* history: panes a client's focus left or reached without a report

guestVars == <<guest, program>>
mainVars == <<client, keys_to>>
screenVars == <<open, flagged, tracker, heard, modals, choices, dimmed, focus, strayed>>
toScreen == <<ticks, chosen, ended, coming, going>>
nestedVars == <<handling, client, open, flagged, tracker, heard, modals, choices, dimmed, focus, keys_to,
                pinging, to_server, ticks, chosen, ended, coming, going, to_guest, from_guest, guest,
                program, strayed>>

NoGuest == [on |-> FALSE, contacted |-> FALSE, tries |-> 0, deciding |-> FALSE, focused |-> FALSE]

NestedInit ==
  /\ handling \in Handlings
  /\ client \in [Clients -> {"new", "here"}]
  /\ open = Hosts \cup {Shell}
  /\ flagged = {}
  /\ tracker = [p \in Hosts |-> "unknown"]
  /\ heard = {}
  /\ modals = {}
  /\ choices = [c \in Clients |-> [p \in Hosts |-> "none"]]
  /\ dimmed = {}
  /\ focus = [c \in Clients |-> IF client[c] = "here" THEN Shell ELSE None]
  /\ keys_to = [c \in Clients |-> None]
  /\ pinging = {}
  /\ to_server = <<>>
  /\ ticks = {} /\ chosen = {} /\ ended = {} /\ coming = {} /\ going = {}
  /\ to_guest = [p \in Hosts |-> <<>>]
  /\ from_guest = [p \in Hosts |-> <<>>]
  /\ guest = [p \in Hosts |-> NoGuest]
  /\ program = [p \in Hosts |-> TRUE]
  /\ strayed = {}

KeyPassthrough(c, p, route, notify) ==
  [kind |-> "KeyPassthroughChanged", client |-> c, pane |-> p, route |-> route, notify |-> notify]
ExitOf(c) ==
  [kind |-> "ClientExit", client |-> c, pane |-> None, route |-> FALSE, notify |-> FALSE]

Waits(m, q) == \E i \in DOMAIN q : q[i] = m
FrameTo(p, frames) == to_guest' = [to_guest EXCEPT ![p] = @ \o frames]

-----------------------------------------------------------------------------
(* Screen *)

\* what was chosen for the guest of a pane is forgotten
Forgotten(p) == [c \in Clients |-> [choices[c] EXCEPT ![p] = "none"]]

ShouldRoute(c, p) ==
  /\ p \in open \cap flagged
  /\ tracker[p] = "tracked"
  /\ choices[c][p] = "Descend"

Descended(c) == ShouldRoute(c, focus[c])
FocusedOn(p) == {c \in Clients : focus[c] = p}
Attached == {c \in Clients : focus[c] # None}

\* the last part of a handler: each of these clients is dimmed, and its keys pass, if
\* it has descended into the pane it now focuses (report_key_passthrough_state)
Report(C) ==
  /\ dimmed' = (dimmed \ C) \cup {c \in C : Descended(c)'}
  /\ \E order \in SetToSeqs(C) :
       to_server' = to_server \o [i \in DOMAIN order |->
         KeyPassthrough(order[i], focus'[order[i]], Descended(order[i])', TRUE)]

\* or: the keys of these clients do not pass
Release(C, p, notify) ==
  /\ dimmed' = dimmed \ C
  /\ \E order \in SetToSeqs(C) :
       to_server' = to_server \o [i \in DOMAIN order |->
         KeyPassthrough(order[i], p, FALSE, notify)]

ScreenHasRoom == Len(to_server) < Room /\ \A p \in Hosts : Len(to_guest[p]) < Room

ScreenActs ==
  /\ ScreenHasRoom
  /\ UNCHANGED <<handling, mainVars, guestVars>>

\* the next frame in the output of a pane
Takes(p, frame) ==
  /\ ScreenActs
  /\ from_guest[p] # <<>> /\ Head(from_guest[p]) = frame
  /\ from_guest' = [from_guest EXCEPT ![p] = Tail(@)]
  /\ UNCHANGED toScreen

\* the part of every announcement but those of panes that are gone
Announced(p) ==
  /\ Takes(p, "Announce")
  /\ p \in open
  /\ tracker' = [tracker EXCEPT ![p] = "tracked"]
  /\ heard' = heard \cup {p}
  /\ flagged' = flagged \cup {p}
  /\ UNCHANGED <<open, focus, strayed>>

Ack(p) ==
  FrameTo(p, IF \E c \in FocusedOn(p) : Descended(c)'
             THEN <<"AnnounceAck", "FocusGained">> ELSE <<"AnnounceAck">>)

\* Variant: it is not told that it has the focus
AnnounceUntold(p) ==
  /\ Announced(p) /\ tracker[p] # "unknown"
  /\ UNCHANGED <<modals, choices>>
  /\ Report(FocusedOn(p))
  /\ FrameTo(p, <<"AnnounceAck">>)
  /\ pinging' = pinging \cup {p}

\* Variant: it is still pinged, is it not
AnnounceUnpinged(p) ==
  /\ Announced(p) /\ tracker[p] # "unknown"
  /\ UNCHANGED <<modals, choices, pinging>>
  /\ Report(FocusedOn(p))
  /\ Ack(p)

\* a guest that was suspended, or started anew without a goodbye, or only heard nothing
AnnounceAgain(p) ==
  /\ Announced(p) /\ tracker[p] # "unknown"
  /\ UNCHANGED <<modals, choices>>
  /\ Report(FocusedOn(p))
  /\ Ack(p)
  /\ pinging' = pinging \cup {p}

\* a guest that is not known: what was chosen for another is forgotten
AnnounceNew(p) ==
  /\ Announced(p) /\ tracker[p] = "unknown"
  /\ choices' = [c \in Clients |-> [choices[c] EXCEPT ![p] =
       IF handling = "Descend" /\ c \in Attached THEN "Descend" ELSE "none"]]
  /\ modals' = IF handling = "Ask" THEN modals \cup (Attached \X {p}) ELSE modals
  /\ Report(IF handling = "Descend" THEN FocusedOn(p) ELSE {})
  /\ FrameTo(p, <<"AnnounceAck">>)
  /\ pinging' = pinging \cup {p}

\* the pane is gone by now
AnnounceNowhere(p) ==
  /\ Takes(p, "Announce")
  /\ p \notin open
  /\ tracker' = [tracker EXCEPT ![p] = "unknown"]
  /\ heard' = heard \ {p}
  /\ choices' = IF tracker[p] # "unknown" THEN choices ELSE Forgotten(p)
  /\ UNCHANGED <<open, flagged, modals, dimmed, focus, strayed, pinging, to_server, to_guest>>

Pong(p) ==
  /\ Takes(p, "Pong")
  /\ heard' = IF tracker[p] = "tracked" THEN heard \cup {p} ELSE heard
  /\ UNCHANGED <<open, flagged, tracker, modals, choices, dimmed, focus, strayed, pinging, to_server,
                 to_guest>>

\* Variant: only of the clients that focus the pane
SuspendFocused(p) ==
  /\ tracker' = [tracker EXCEPT ![p] = "dormant"]
  /\ modals' = {m \in modals : m[2] # p}
  /\ Release(FocusedOn(p), p, FALSE)
  /\ pinging' = pinging \ {p}

\* suspend_nested_guest; the keys of whoever is dimmed do not pass any more
Suspend(p) ==
  /\ tracker' = [tracker EXCEPT ![p] = "dormant"]
  /\ modals' = {m \in modals : m[2] # p}
  /\ Release(FocusedOn(p) \cup dimmed, p, FALSE)
  /\ pinging' = pinging \ {p}

\* handle_nested_guest_ping_tick
PingTick(p) ==
  /\ ScreenActs
  /\ p \in ticks /\ ticks' = ticks \ {p}
  /\ \/ /\ tracker[p] = "tracked" /\ p \in heard
        /\ FrameTo(p, <<"Ping">>)
        /\ UNCHANGED <<tracker, modals, dimmed, to_server, pinging>>
     \/ /\ tracker[p] = "tracked" /\ p \notin heard
        /\ Suspend(p)
        /\ UNCHANGED to_guest
     \/ /\ tracker[p] # "tracked"
        /\ pinging' = pinging \ {p}
        /\ UNCHANGED <<tracker, modals, dimmed, to_server, to_guest>>
  /\ UNCHANGED <<open, flagged, heard, choices, focus, strayed, from_guest, chosen, ended, coming,
                 going>>

\* clear_nested_guest; its clients are those that chose to descend or focus the pane now
Clear(p) ==
  /\ tracker' = [tracker EXCEPT ![p] = "unknown"]
  /\ heard' = heard \ {p}
  /\ flagged' = flagged \ {p}
  /\ modals' = {m \in modals : m[2] # p}
  /\ choices' = Forgotten(p)
  /\ Release({c \in Clients : choices[c][p] = "Descend" \/ focus'[c] = p}, p, FALSE)
  /\ pinging' = pinging \ {p}
  /\ UNCHANGED to_guest

Bye(p) ==
  /\ Takes(p, "Bye")
  /\ UNCHANGED <<open, focus, strayed>>
  /\ Clear(p)

\* FocusHost without a direction: the clients on the pane are back in the host
FocusHost(p) ==
  /\ Takes(p, "FocusHost")
  /\ choices' = [c \in Clients |->
       [choices[c] EXCEPT ![p] = IF focus[c] = p THEN "Dismissed" ELSE @]]
  /\ Release(FocusedOn(p), p, TRUE)
  /\ UNCHANGED <<open, flagged, tracker, heard, modals, focus, strayed, pinging, to_guest>>

\* or with one: they go to the next pane, where there is one
FocusBeyond(p) ==
  /\ Takes(p, "FocusBeyond")
  /\ \E next \in [FocusedOn(p) -> open] :
       /\ focus' = [c \in Clients |-> IF c \in DOMAIN next THEN next[c] ELSE focus[c]]
       /\ UNCHANGED <<open, flagged, tracker, heard, modals, choices, strayed, pinging, to_guest>>
       /\ Report({c \in DOMAIN next : next[c] # p})

\* handle_guest_modal_choice: by now the guest may be suspended, or gone
GuestModalChoice(c, p) ==
  /\ ScreenActs
  /\ <<c, p>> \in chosen /\ chosen' = chosen \ {<<c, p>>}
  /\ choices' = [choices EXCEPT ![c][p] = "Descend"]
  /\ modals' = modals \ {<<c, p>>}
  /\ UNCHANGED <<open, flagged, tracker, heard, focus, strayed, pinging, to_guest, from_guest,
                 ticks, ended, coming, going>>
  /\ Report({c} \cap FocusedOn(p))

\* a pane goes: whoever focused it focuses another, and of its output no more is parsed
Leaves(p) ==
  \E next \in [FocusedOn(p) -> open \ {p}], parsed \in 0 .. Len(from_guest[p]) :
    /\ open' = open \ {p}
    /\ from_guest' = [from_guest EXCEPT ![p] = SubSeq(@, 1, parsed)]
    /\ focus' = [c \in Clients |-> IF c \in DOMAIN next THEN next[c] ELSE focus[c]]

\* the handler of ClosePane
ClosePane(p) ==
  /\ ScreenActs
  /\ p \in ended /\ ended' = ended \ {p}
  /\ IF p \in open THEN Leaves(p) ELSE UNCHANGED <<open, focus, from_guest>>
  /\ strayed' = strayed \cup {focus'[c] : c \in FocusedOn(p)}
  /\ UNCHANGED <<ticks, chosen, coming, going>>
  /\ Clear(p)

\* show_guest_modals_for_new_client and the report of a new client's state
AddClient(c) ==
  /\ ScreenActs
  /\ c \in coming /\ coming' = coming \ {c}
  /\ LET live == {p \in open \cap flagged : tracker[p] = "tracked" /\ choices[c][p] = "none"}
     IN /\ modals' = IF handling = "Ask" THEN modals \cup ({c} \X live) ELSE modals
        /\ choices' = [choices EXCEPT ![c] = [q \in Hosts |->
             IF handling = "Descend" /\ q \in live THEN "Descend" ELSE @[q]]]
  /\ \E p \in open : focus' = [focus EXCEPT ![c] = p]
  /\ UNCHANGED <<open, flagged, tracker, heard, strayed, pinging, to_guest, from_guest, ticks,
                 chosen, ended, going>>
  /\ Report({c})

\* remove_client, which also takes back what is on its way to the main loop
RemoveClient(c) ==
  /\ ScreenActs
  /\ c \in going \ coming /\ going' = going \ {c}
  /\ \E order \in SetToSeqs({p \in Hosts : choices[c][p] = "Descend"}) :
       to_server' = to_server \o [i \in DOMAIN order |-> KeyPassthrough(c, order[i], FALSE, TRUE)]
  /\ choices' = [choices EXCEPT ![c] = [q \in Hosts |-> "none"]]
  /\ modals' = {m \in modals : m[1] # c}
  /\ focus' = [focus EXCEPT ![c] = None]
  /\ dimmed' = dimmed \ {c}
  /\ UNCHANGED <<open, flagged, tracker, heard, strayed, pinging, to_guest, from_guest, ticks,
                 chosen, ended, coming>>

ScreenParses(p) ==
  \/ AnnounceNew(p) \/ AnnounceAgain(p) \/ AnnounceNowhere(p)
  \/ Pong(p) \/ Bye(p) \/ FocusHost(p) \/ FocusBeyond(p)

ScreenThread ==
  \/ \E p \in Hosts : ScreenParses(p) \/ PingTick(p) \/ ClosePane(p)
  \/ \E c \in Clients, p \in Hosts : GuestModalChoice(c, p)
  \/ \E c \in Clients : AddClient(c) \/ RemoveClient(c)

\* What users ask of Screen is taken when Screen gets to it
Asked(c) ==
  /\ ScreenActs
  /\ focus[c] # None
  /\ UNCHANGED <<pinging, toScreen, to_guest>>

MoveFocus(c) ==
  /\ Asked(c)
  /\ \E p \in open \ {focus[c]} : focus' = [focus EXCEPT ![c] = p]
  /\ UNCHANGED <<open, flagged, tracker, heard, modals, choices, strayed, from_guest>>
  /\ Report({c})

\* a new pane takes the focus, or floating panes do when they are shown
FocusTaken(c) ==
  /\ Asked(c)
  /\ focus[c] # Shell
  /\ focus' = [focus EXCEPT ![c] = Shell]
  /\ strayed' = strayed \cup {focus[c]}
  /\ UNCHANGED <<open, flagged, tracker, heard, modals, choices, dimmed, to_server, from_guest>>

\* focus_guest_session
FocusGuest(c) ==
  /\ Asked(c)
  /\ focus[c] \in open \cap flagged
  /\ tracker[focus[c]] = "tracked"
  /\ choices' = [choices EXCEPT ![c][focus[c]] = "Descend"]
  /\ modals' = modals \ {<<c, focus[c]>>}
  /\ UNCHANGED <<open, flagged, tracker, heard, focus, strayed, from_guest>>
  /\ Report({c})

\* the state of the other clients of the pane is not reported
CloseFocusedPane(c) ==
  /\ Asked(c)
  /\ focus[c] \in Hosts
  /\ Leaves(focus[c])
  /\ modals' = {m \in modals : m[2] # focus[c]}
  /\ strayed' = strayed \cup {focus'[d] : d \in FocusedOn(focus[c]) \ {c}}
  /\ UNCHANGED <<flagged, tracker, heard, choices>>
  /\ Report({c})

\* a key for the modal
Choose(c, p) ==
  /\ focus[c] = p /\ <<c, p>> \in modals \ chosen
  /\ chosen' = chosen \cup {<<c, p>>}
  /\ UNCHANGED <<handling, mainVars, screenVars, guestVars, pinging, to_server, ticks, ended, coming,
                 going, to_guest, from_guest>>

\* pong_timeout_ms have passed
PongTimeout(p) ==
  /\ p \in heard
  /\ heard' = heard \ {p}
  /\ UNCHANGED <<handling, mainVars, guestVars, open, flagged, tracker, modals, choices, dimmed,
                 focus, strayed, pinging, to_server, toScreen, to_guest, from_guest>>

-----------------------------------------------------------------------------
(* The main loop and background jobs *)

KeysOfOthers(c, p) == \E d \in Clients \ {c} : keys_to[d] = p

\* of the first client whose keys it gets, and of the last, a pane is told
Told(c, p, frame) == IF KeysOfOthers(c, p) THEN <<>> ELSE <<frame>>

MainTakes(kind) ==
  /\ \A p \in Hosts : Len(to_guest[p]) < Room
  /\ to_server # <<>> /\ Head(to_server).kind = kind
  /\ to_server' = Tail(to_server)
  /\ UNCHANGED <<handling, pinging, guestVars, screenVars, ticks, chosen, ended, coming, from_guest>>

KeyPassthroughChanged ==
  /\ MainTakes("KeyPassthroughChanged")
  /\ LET m == Head(to_server)
         old == keys_to[m.client]
         new == IF m.route THEN m.pane ELSE None
     IN /\ keys_to' = [keys_to EXCEPT ![m.client] = new]
        /\ to_guest' = [p \in Hosts |-> to_guest[p] \o
             CASE p = new /\ p # old -> Told(m.client, p, "FocusGained")
               [] p = old /\ p # new /\ m.notify -> Told(m.client, p, "FocusLost")
               [] OTHER -> <<>>]
  /\ UNCHANGED <<client, going>>

ClientExit ==
  /\ MainTakes("ClientExit")
  /\ LET c == Head(to_server).client
     IN /\ keys_to' = [keys_to EXCEPT ![c] = None]
        /\ to_guest' = [p \in Hosts |-> to_guest[p] \o
             IF p = keys_to[c] THEN Told(c, p, "FocusLost") ELSE <<>>]
        /\ client' = [client EXCEPT ![c] = "gone"]
        /\ going' = going \cup {c}

MainLoop == KeyPassthroughChanged \/ ClientExit

AttachClient(c) ==
  /\ client[c] = "new"
  /\ client' = [client EXCEPT ![c] = "here"]
  /\ coming' = coming \cup {c}
  /\ UNCHANGED <<handling, keys_to, screenVars, guestVars, pinging, to_server, ticks, chosen, ended,
                 going, to_guest, from_guest>>

\* its router asks for it
Leave(c) ==
  /\ client[c] = "here"
  /\ Len(to_server) < Room
  /\ ~Waits(ExitOf(c), to_server)
  /\ to_server' = Append(to_server, ExitOf(c))
  /\ UNCHANGED <<handling, mainVars, screenVars, guestVars, pinging, toScreen, to_guest, from_guest>>

\* an interval has passed for StartNestedGuestPing's task
Interval(p) ==
  /\ p \in pinging \ ticks
  /\ ticks' = ticks \cup {p}
  /\ UNCHANGED <<handling, mainVars, screenVars, guestVars, pinging, to_server, chosen, ended, coming,
                 going, to_guest, from_guest>>

-----------------------------------------------------------------------------
(* The guests *)

GuestActs ==
  UNCHANGED <<handling, mainVars, screenVars, pinging, to_server, ticks, chosen, coming, going>>

\* what a pane that is gone is sent is lost; and (a bound) a frame is not written while the
\* same waits to be read, with no goodbye behind it
Writes(p, frame) ==
  LET q == from_guest[p]
      waits == \E i \in DOMAIN q : q[i] = frame /\ \A j \in i .. Len(q) : q[j] # "Bye"
  IN from_guest' = [from_guest EXCEPT ![p] = IF waits \/ p \notin open THEN q ELSE Append(q, frame)]

\* what a guest does of its own accord waits for its output to be read
AtEase(p) ==
  /\ Len(from_guest[p]) < Room
  /\ GuestActs
  /\ UNCHANGED <<to_guest, program, ended>>

\* start_client
StartGuest(p) ==
  /\ AtEase(p)
  /\ program[p] /\ ~guest[p].on /\ ~guest[p].deciding
  /\ guest' = [guest EXCEPT ![p] = [NoGuest EXCEPT !.on = TRUE, !.tries = 1]]
  /\ Writes(p, "Announce")

\* the client goes to another session and tells it of the focus
SwitchSession(p) ==
  /\ AtEase(p)
  /\ guest[p].on
  /\ guest' = [guest EXCEPT ![p].contacted = FALSE, ![p].tries = 1]
  /\ Writes(p, "Announce")

\* a user of the guest goes back to the host
Ascend(p) ==
  /\ AtEase(p)
  /\ guest[p].on /\ guest[p].contacted
  /\ \E frame \in {"FocusHost", "FocusBeyond"} : Writes(p, frame)
  /\ UNCHANGED guest

\* says_goodbye_to_host; the thread that announces may be about to
Quit(p) ==
  /\ AtEase(p)
  /\ guest[p].on
  /\ \E late \in {FALSE, guest[p].deciding} :
       guest' = [guest EXCEPT ![p] = [NoGuest EXCEPT !.deciding = late]]
  /\ IF guest[p].contacted THEN Writes(p, "Bye") ELSE UNCHANGED from_guest

\* handle_nested_session_frame_from_host, and what becomes of the focus in the guest's
\* session; without a guest the frame is lost
ReadFrame(p) ==
  /\ to_guest[p] # <<>>
  /\ LET frame == Head(to_guest[p])
     IN IF ~guest[p].on THEN UNCHANGED <<guest, from_guest>>
        ELSE /\ guest' = [guest EXCEPT ![p].contacted = TRUE,
               ![p].focused = frame = "FocusGained" \/ (@ /\ frame # "FocusLost")]
             /\ IF frame = "Ping" THEN Writes(p, "Pong") ELSE UNCHANGED from_guest
  /\ to_guest' = [to_guest EXCEPT ![p] = Tail(@)]
  /\ GuestActs
  /\ UNCHANGED <<program, ended>>

Exhausted(g) == ~g.contacted /\ g.tries >= Budget

\* Variant: contact does not end the count
DecideWithin(p) ==
  /\ guest[p].on /\ ~guest[p].deciding /\ guest[p].tries < Budget
  /\ guest' = [guest EXCEPT ![p].deciding = TRUE, ![p].tries = @ + 1]
  /\ GuestActs
  /\ UNCHANGED <<from_guest, to_guest, program, ended>>

\* ReannounceScheduler.on_tick, on a thread of its own, once the host has been silent
Decide(p) ==
  /\ guest[p].on /\ ~guest[p].deciding /\ ~Exhausted(guest[p])
  /\ guest' = [guest EXCEPT ![p].deciding = TRUE,
                            ![p].tries = IF guest[p].contacted THEN @ ELSE @ + 1]
  /\ GuestActs
  /\ UNCHANGED <<from_guest, to_guest, program, ended>>

\* the thread writes what it decided to, even when it was told to stop meanwhile
Reannounce(p) ==
  /\ guest[p].deciding
  /\ guest' = [guest EXCEPT ![p].deciding = FALSE]
  /\ Writes(p, "Announce")
  /\ GuestActs
  /\ UNCHANGED <<to_guest, program, ended>>

Killed(p) ==
  /\ guest[p].on
  /\ guest' = [guest EXCEPT ![p] = NoGuest]
  /\ GuestActs
  /\ UNCHANGED <<from_guest, to_guest, program, ended>>

\* the pane's program ends, and the guest with it
ProgramEnds(p) ==
  /\ program[p]
  /\ program' = [program EXCEPT ![p] = FALSE]
  /\ guest' = [guest EXCEPT ![p] = NoGuest]
  /\ ended' = ended \cup {p}
  /\ GuestActs
  /\ UNCHANGED <<from_guest, to_guest>>

-----------------------------------------------------------------------------

NestedNext ==
  \/ ScreenThread
  \/ KeyPassthroughChanged \/ ClientExit
  \/ \E c \in Clients : MoveFocus(c) \/ FocusTaken(c) \/ FocusGuest(c) \/ CloseFocusedPane(c)
                        \/ AttachClient(c) \/ Leave(c)
  \/ \E c \in Clients, p \in Hosts : Choose(c, p)
  \/ \E p \in Hosts : \/ PongTimeout(p) \/ Interval(p)
                      \/ StartGuest(p) \/ SwitchSession(p) \/ ReadFrame(p)
                      \/ Decide(p) \/ Reannounce(p) \/ Ascend(p) \/ Quit(p) \/ Killed(p)
                      \/ ProgramEnds(p)

NestedSpec == NestedInit /\ [][NestedNext]_nestedVars

\* What waits for Screen or the main loop is taken, whatever else they are sent: their channels
\* keep its place. The timers of a guest and a host that do not hear each other run out.
NestedFairness ==
  /\ SF_nestedVars(MainLoop)
  /\ \A p \in Hosts :
       /\ SF_nestedVars(ScreenParses(p)) /\ SF_nestedVars(PingTick(p))
       /\ WF_nestedVars(Interval(p)) /\ WF_nestedVars(~guest[p].on /\ PongTimeout(p))
       /\ WF_nestedVars(ReadFrame(p))
       /\ WF_nestedVars(tracker[p] # "tracked" /\ Decide(p)) /\ WF_nestedVars(Reannounce(p))

FairNestedSpec == NestedSpec /\ NestedFairness

\* The types of the variables.
NestedTypeOK ==
  /\ handling \in Handlings
  /\ client \in [Clients -> {"new", "here", "gone"}]
  /\ open \subseteq Hosts \cup {Shell} /\ Shell \in open
  /\ {flagged, heard, pinging, ticks, ended} \subseteq SUBSET Hosts
  /\ {dimmed, coming, going} \subseteq SUBSET Clients
  /\ strayed \subseteq Hosts \cup {Shell}
  /\ {modals, chosen} \subseteq SUBSET (Clients \X Hosts)
  /\ tracker \in [Hosts -> {"unknown", "tracked", "dormant"}]
  /\ choices \in [Clients -> [Hosts -> {"none", "Descend", "Dismissed"}]]
  /\ focus \in [Clients -> open \cup {None}]
  /\ keys_to \in [Clients -> Hosts \cup {None}]
  /\ to_server \in Seq([kind : {"KeyPassthroughChanged", "ClientExit"}, client : Clients,
                        pane : Hosts \cup {None, Shell}, route : BOOLEAN, notify : BOOLEAN])
  /\ to_guest \in [Hosts -> Seq({"AnnounceAck", "Ping", "FocusGained", "FocusLost"})]
  /\ from_guest \in [Hosts -> Seq({"Announce", "Pong", "Bye", "FocusHost", "FocusBeyond"})]
  /\ guest \in [Hosts -> [on : BOOLEAN, contacted : BOOLEAN, tries : 0 .. Budget,
                          deciding : BOOLEAN, focused : BOOLEAN]]
  /\ program \in [Hosts -> BOOLEAN]

\* Screen's messages have reached the main loop
Settled == \A i \in DOMAIN to_server : to_server[i].kind # "KeyPassthroughChanged"

\* Keys go past the host's key bindings only for a client that is there and has descended into
\* a guest that is alive and has not been left since: not when the guest falls silent or says
\* goodbye while the client looks elsewhere, nor when the client goes while Screen still sends
\* its keys to a guest. Only the pane's, or the client's, own end may still have to be
\* dealt with.
KeysToLiveGuests ==
  Settled => \A c \in Clients : keys_to[c] # None =>
    LET p == keys_to[c]
    IN /\ \/ p \in open /\ tracker[p] = "tracked" /\ choices[c][p] = "Descend"
          \/ p \notin open /\ (program[p] \/ p \in ended)
       /\ client[c] = "here" \/ c \in going

\* A client is shown a dimmed host exactly when its keys pass.
DimmedAsRouted ==
  Settled => \A c \in Clients : client[c] = "here" => (c \in dimmed <=> keys_to[c] # None)

\* Both: what Screen knows and shows of a client's keys, and what the main loop does with them.
KeysAsShown == KeysToLiveGuests /\ DimmedAsRouted

Announcing(p) == Waits("Announce", from_guest[p])

\* A guest that gets a client's keys knows it, once it has read what was written to it: also
\* one that was started anew, suspended and found again, or shared by clients that come and
\* go. Both Screen and the main loop tell it. (Not if the focus was ever moved
\* without a report: then the client's keys may go to a pane it does not focus.)
GuestKnowsFocus ==
  Settled => \A c \in Clients, p \in Hosts :
    (/\ keys_to[c] = p /\ focus[c] = p /\ p \notin strayed
     /\ guest[p].on /\ to_guest[p] = <<>> /\ ~Announcing(p))
      => guest[p].focused

\* A guest that is gone without a goodbye, or said so before its last announcement, is not
\* taken for alive for ever.
SilentGuestsSuspended ==
  \A p \in Hosts : ~guest[p].on ~> (tracker[p] # "tracked" \/ guest[p].on)

\* A guest that runs is known to its host, and known again whenever it was suspended for
\* being slow, however often, although it announces itself to deaf ears only so often.
RunningGuestsTracked ==
  \A p \in Hosts : guest[p].on ~> (tracker[p] = "tracked" \/ ~guest[p].on \/ p \notin open)

\* A client that has descended into the guest it focuses sends it its keys, whatever happens
\* to other guests ("always control the nested session on focus", default.kdl:133).
KeysFollowDescent ==
  Settled => \A c \in Clients :
    focus[c] \notin strayed /\ client[c] = "here" /\ Descended(c) => keys_to[c] = focus[c]

\* A guest that is alive and gets no keys any more has been told so (screen_tests.rs:9629),
\* also when it was suspended meanwhile.
LosersAreTold ==
  Settled => \A p \in open \cap Hosts :
    guest[p].on /\ guest[p].focused /\ tracker[p] = "tracked" /\ to_guest[p] = <<>>
      => \E c \in Clients : keys_to[c] = p
=============================================================================
