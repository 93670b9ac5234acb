--------------------------- MODULE SessionClients ---------------------------
(***************************************************************************)
(* Who is connected to a session: the connections, one router thread for   *)
(* each, the session state they share with the server's main loop          *)
(* (zellij-server/src/lib.rs, route.rs), and what the Screen and plugin    *)
(* threads know of the clients (screen.rs, plugins/wasm_bridge.rs).        *)
(*                                                                         *)
(* A client leaves in many ways - it closes its end, it is detached,       *)
(* disconnected by another, given up because it does not read - and each   *)
(* way reaches the threads in another order. What holds it together is     *)
(* that every router ends by asking the main loop for a RemoveClient.      *)
(*                                                                         *)
(* Connections are numbered in the order in which they are accepted. A     *)
(* message a client has under way is chosen when its router handles it.    *)
(* The channel to the main loop holds 50 messages in the code and any      *)
(* number here.                                                            *)
(***************************************************************************)
EXTENDS Integers, Sequences, FiniteSets, Functions

CONSTANTS
  MaxConns,   \* bound: connections
  LastId,     \* ClientId::MAX
  WebConns,   \* the connections that are web clients
  MaxEvents   \* bound: what clients, Screen and plugins do of their own accord

ASSUME ClientsAssumption ==
  /\ MaxConns \in Nat
  /\ LastId \in Nat \ {0}
  /\ WebConns \subseteq 1 .. MaxConns
  /\ MaxEvents \in Nat

Conns == 1 .. MaxConns
Ids == 1 .. LastId
None == 0
Kinds == {"first", "attach", "watch", "cli"}

VARIABLES
  kind,        \* what a connection's first message makes of it
  id,          \* the client id it was given
  open,        \* the client's end of the connection is open
  told,        \* the client has been sent an Exit, or will be as its sender goes
  router,      \* its thread: "none", "accepted", "opening", "running" or "ended"
  server,      \* "starting": session_data is None; "up"; "ended"; "crashed"
  sharing,     \* web_sharing.web_clients_allowed()
  inbox,       \* instructions for the main loop
  clients,     \* SessionState.clients: id -> "bare" (None), "terminal" or "web"
  watchers,    \* SessionState.watchers: id -> is a web client
  pipes,       \* the ids in SessionState.pipes
  lastActive,  \* last_active_client
  nextId,      \* next_client_id
  senders,     \* client_senders: id -> connection
  screenQ,     \* instructions for Screen
  connected,   \* Screen.connected_clients
  active,      \* the clients in Screen.active_tab_ids
  highest,     \* highest_client_id_seen
  viewers,     \* Screen.watcher_clients
  pluginQ,     \* instructions for the plugin thread
  plugged,     \* WasmBridge.connected_clients
  ptyQ,        \* layouts whose terminals are being spawned
  events       \* bound: events so far

connVars == <<kind, id, open, router>>
stateVars == <<clients, watchers, pipes, lastActive>>
queueVars == <<screenQ, pluginQ, ptyQ>>
screenVars == <<connected, active, highest, viewers, plugged>>
vars == <<kind, id, open, told, router, server, sharing, inbox, clients,
          watchers, pipes, lastActive, nextId, senders, screenQ, connected,
          active, highest, viewers, pluginQ, plugged, ptyQ, events>>

Msg(op, i) == [op |-> op, id |-> i]
Without(f, S) == Restrict(f, DOMAIN f \ S)
With(f, k, v) == [x \in DOMAIN f \cup {k} |-> IF x = k THEN v ELSE f[x]]
Larger(a, b) == IF a > b THEN a ELSE b
Lowest(S) == CHOOSE n \in S : \A m \in S : n <= m
Running == server \in {"starting", "up"}
IsWatcher(c) == id[c] \in DOMAIN watchers

Init ==
  /\ kind = [c \in Conns |-> "none"]
  /\ id = [c \in Conns |-> None]
  /\ open = [c \in Conns |-> FALSE]
  /\ told = [c \in Conns |-> FALSE]
  /\ router = [c \in Conns |-> "none"]
  /\ server = "starting"
  /\ sharing = TRUE
  /\ inbox = <<>>
  /\ clients = <<>>
  /\ watchers = <<>>
  /\ pipes = {}
  /\ lastActive = None
  /\ nextId = 1
  /\ senders = <<>>
  /\ screenQ = <<>>
  /\ connected = {}
  /\ active = {}
  /\ highest = 0
  /\ viewers = {}
  /\ pluginQ = <<>>
  /\ plugged = {}
  /\ ptyQ = <<>>
  /\ events = 0

Event == events < MaxEvents /\ events' = events + 1

-----------------------------------------------------------------------------
(* The session state *)

\* new_client: the counter as long as it can be incremented, then the lowest
\* id that neither a client nor a watcher has
NewId ==
  IF nextId + 1 <= LastId
  THEN nextId
  ELSE Lowest((1 .. LastId + MaxConns) \ (DOMAIN clients \cup DOMAIN watchers))

\* remove_client!, for each of a set of clients: session state and sender
Forget(S) ==
  /\ senders' = Without(senders, S)
  /\ clients' = Without(clients, S)
  /\ pipes' = pipes \ S
  /\ lastActive' = IF lastActive \in S THEN None ELSE lastActive

\* an Exit for these clients, or the one their senders write as they go
Tell(S) ==
  told' = [c \in Conns |-> told[c] \/ \E i \in S \cap DOMAIN senders : senders[i] = c]

\* Variant: Screen alone is told
ForgetInScreen(i) ==
  IF server = "up"
  THEN screenQ' = Append(screenQ, Msg("remove", i)) /\ UNCHANGED pluginQ
  ELSE UNCHANGED <<screenQ, pluginQ>>

\* RemoveClient for Screen and for the plugins, when the session is up
ForgetInThreads(i) ==
  IF server = "up"
  THEN /\ screenQ' = Append(screenQ, Msg("remove", i))
       /\ pluginQ' = Append(pluginQ, Msg("remove", i))
  ELSE UNCHANGED <<screenQ, pluginQ>>

-----------------------------------------------------------------------------
(* Connections and routers *)

\* handle_client_connection: the id first, then the sender
Accept(c) ==
  /\ Running
  /\ router[c] = "none"
  /\ \A d \in 1 .. c - 1 : router[d] # "none"
  /\ \E k \in IF c = 1 THEN {"first"} ELSE Kinds \ {"first"} :
       kind' = [kind EXCEPT ![c] = k]
  /\ id' = [id EXCEPT ![c] = NewId]
  /\ nextId' = IF nextId + 1 <= LastId THEN nextId + 1 ELSE nextId
  /\ clients' = With(clients, NewId, "bare")
  /\ open' = [open EXCEPT ![c] = TRUE]
  /\ router' = [router EXCEPT ![c] = "accepted"]
  /\ UNCHANGED <<told, server, sharing, inbox, watchers, pipes, lastActive,
                 senders, queueVars, screenVars, events>>

Register(c) ==
  /\ Running
  /\ router[c] = "accepted"
  /\ senders' = With(senders, id[c], c)
  /\ router' = [router EXCEPT ![c] = IF kind[c] = "cli" THEN "running" ELSE "opening"]
  /\ UNCHANGED <<kind, id, open, told, server, sharing, inbox, stateVars, nextId,
                 queueVars, screenVars, events>>

\* What a client that opens the session, attaches to it or watches it says
\* first. An attaching client's router waits until the session is ready, or 10
\* seconds; a web client is turned away where sharing is off or not yet known.
Open(c) ==
  /\ Running
  /\ router[c] = "opening"
  /\ LET forbidden == /\ c \in WebConns
                      /\ kind[c] # "first"
                      /\ ~(server = "up" /\ sharing)
     IN inbox' = Append(inbox, Msg(IF forbidden THEN "forbid" ELSE kind[c], id[c]))
  /\ router' = [router EXCEPT ![c] = "running"]
  /\ UNCHANGED <<kind, id, open, told, server, sharing, stateVars, nextId, senders,
                 queueVars, screenVars, events>>

\* A message of the client of router c; a watcher's are ignored
Request(c) ==
  /\ Running
  /\ router[c] = "running"
  /\ ~IsWatcher(c)
  /\ Event

\* the client an action of c is for: a CLI's is the last active one's
Target(c) == IF kind[c] = "cli" /\ lastActive # None THEN lastActive ELSE id[c]

\* the router's last words, and the end of its thread
EndRouter(c, q) ==
  /\ router' = [router EXCEPT ![c] = "ended"]
  /\ inbox' = Append(q, Msg("remove", id[c]))

Key(c) ==
  /\ Request(c)
  /\ kind[c] # "cli"
  /\ lastActive # id[c]
  /\ lastActive' = id[c]
  /\ UNCHANGED <<connVars, told, server, sharing, inbox, clients, watchers, pipes,
                 nextId, senders, queueVars, screenVars>>

\* TerminalResize: set_client_size inserts a client that is not there
Resize(c) ==
  /\ Request(c)
  /\ kind[c] # "cli"
  /\ id[c] \notin DOMAIN clients
  /\ clients' = With(clients, id[c], "bare")
  /\ UNCHANGED <<connVars, told, server, sharing, inbox, watchers, pipes, lastActive,
                 nextId, senders, queueVars, screenVars>>

NewTab(c) ==
  /\ Request(c)
  /\ server = "up"
  /\ screenQ' = Append(screenQ, Msg("newtab", Target(c)))
  /\ UNCHANGED <<connVars, told, server, sharing, inbox, stateVars, nextId, senders,
                 pluginQ, ptyQ, screenVars>>

\* Action::Detach breaks the router's loop
Detach(c) ==
  /\ Request(c)
  /\ server = "up"
  /\ EndRouter(c, Append(inbox, Msg("detach", Target(c))))
  /\ UNCHANGED <<kind, id, open, told, server, sharing, stateVars, nextId, senders,
                 queueVars, screenVars>>

\* DetachSession for everybody else, from a connection that asks for that only
DetachOthers(c) ==
  /\ Request(c)
  /\ kind[c] = "cli"
  /\ EndRouter(c, Append(inbox, Msg("others", id[c])))
  /\ UNCHANGED <<kind, id, open, told, server, sharing, stateVars, nextId, senders,
                 queueVars, screenVars>>

KillSession(c) ==
  /\ Request(c)
  /\ kind[c] = "cli"
  /\ inbox' = Append(inbox, Msg("kill", id[c]))
  /\ UNCHANGED <<connVars, told, server, sharing, stateVars, nextId, senders,
                 queueVars, screenVars>>

\* a CLI pipe makes itself known
AssociatePipe(c) ==
  /\ Request(c)
  /\ kind[c] = "cli"
  /\ server = "up"
  /\ id[c] \notin pipes
  /\ inbox' = Append(inbox, Msg("pipe", id[c]))
  /\ UNCHANGED <<connVars, told, server, sharing, stateVars, nextId, senders,
                 queueVars, screenVars>>

\* Esc, Ctrl-q or Ctrl-c of a watcher
WatcherQuits(c) ==
  /\ Running
  /\ router[c] = "running"
  /\ IsWatcher(c)
  /\ Event
  /\ Tell({id[c]})
  /\ screenQ' = IF server = "up" THEN Append(screenQ, Msg("unwatch", id[c])) ELSE screenQ
  /\ EndRouter(c, inbox)
  /\ UNCHANGED <<kind, id, open, server, sharing, stateVars, nextId, senders,
                 pluginQ, ptyQ, screenVars>>

\* the client goes, of itself or because it has read an Exit
Leave(c) ==
  /\ Running
  /\ open[c]
  /\ router[c] \notin {"none", "accepted"}
  /\ open' = [open EXCEPT ![c] = FALSE]
  /\ UNCHANGED <<kind, id, told, router, server, sharing, inbox, stateVars, nextId,
                 senders, queueVars, screenVars, events>>

HearExit(c) == told[c] /\ Leave(c)

\* ClientExited, or the end of the stream
RouterEnds(c) ==
  /\ Running
  /\ router[c] = "running"
  /\ ~open[c]
  /\ EndRouter(c, inbox)
  /\ UNCHANGED <<kind, id, open, told, server, sharing, stateVars, nextId, senders,
                 queueVars, screenVars, events>>

-----------------------------------------------------------------------------
(* The main loop: one action for each instruction *)

Take(op) ==
  /\ Running
  /\ inbox # <<>>
  /\ Head(inbox).op = op

ClientOfHead == Head(inbox).id

KindOf(i) ==
  IF \E c \in WebConns : id[c] = i /\ router[c] # "none" THEN "web" ELSE "terminal"

FirstClientConnected ==
  /\ Take("first")
  /\ inbox' = Tail(inbox)
  /\ server' = "up"
  /\ clients' = With(clients, ClientOfHead, KindOf(ClientOfHead))
  /\ screenQ' = Append(screenQ, Msg("newtab", ClientOfHead))
  /\ pluginQ' = Append(pluginQ, Msg("add", ClientOfHead))
  /\ UNCHANGED <<connVars, told, sharing, watchers, pipes, lastActive, nextId,
                 senders, ptyQ, screenVars, events>>

\* a client that switches sessions may ask for all others to be disconnected
AttachClient ==
  /\ Take("attach")
  /\ server = "up"
  /\ \E others \in BOOLEAN :
       inbox' = IF others THEN Append(Tail(inbox), Msg("others", ClientOfHead))
                          ELSE Tail(inbox)
  /\ clients' = With(clients, ClientOfHead, KindOf(ClientOfHead))
  /\ screenQ' = Append(screenQ, Msg("add", ClientOfHead))
  /\ pluginQ' = Append(pluginQ, Msg("add", ClientOfHead))
  /\ UNCHANGED <<connVars, told, server, sharing, watchers, pipes, lastActive,
                 nextId, senders, ptyQ, screenVars, events>>

\* "The session is not ready yet", or "web clients are forbidden"
TurnAway ==
  /\ \/ Take("attach") /\ server = "starting"
     \/ Take("forbid")
  /\ inbox' = Tail(inbox)
  /\ Tell({ClientOfHead})
  /\ Forget({ClientOfHead})
  /\ UNCHANGED <<connVars, server, sharing, watchers, nextId, queueVars, screenVars,
                 events>>

\* The watcher is converted before Screen is told of it; without a session
\* there is no Screen, and the main loop panics
AttachWatcherClient ==
  /\ Take("watch")
  /\ inbox' = Tail(inbox)
  /\ clients' = Without(clients, {ClientOfHead})
  /\ watchers' = With(watchers, ClientOfHead, KindOf(ClientOfHead) = "web")
  /\ IF server = "up"
     THEN screenQ' = Append(screenQ, Msg("watch", ClientOfHead)) /\ UNCHANGED server
     ELSE server' = "crashed" /\ UNCHANGED screenQ
  /\ UNCHANGED <<connVars, told, sharing, pipes, lastActive, nextId, senders,
                 pluginQ, ptyQ, screenVars, events>>

ForgetWatcher(i) ==
  /\ watchers' = Without(watchers, {i})
  /\ senders' = Without(senders, {i})
  /\ screenQ' = IF server = "up" THEN Append(screenQ, Msg("unwatch", i)) ELSE screenQ
  /\ UNCHANGED <<clients, pipes, lastActive, pluginQ>>

\* ClientExit ends the session when only pipes are connected besides
ClientExit ==
  /\ Take("exit")
  /\ inbox' = Tail(inbox)
  /\ LET i == ClientOfHead
         last == DOMAIN clients \ {i} \subseteq pipes
     IN \/ /\ i \in DOMAIN watchers
           /\ Tell({i})
           /\ ForgetWatcher(i)
           /\ UNCHANGED server
        \/ /\ i \notin DOMAIN watchers
           /\ ~last
           /\ Tell({i})
           /\ Forget({i})
           /\ ForgetInThreads(i)
           /\ UNCHANGED <<watchers, server>>
        \/ /\ i \notin DOMAIN watchers
           /\ last
           /\ Tell(DOMAIN clients \cup DOMAIN watchers \cup {i})
           /\ Forget(DOMAIN clients \cup {i})
           /\ server' = "ended"
           /\ UNCHANGED <<watchers, screenQ, pluginQ>>
  /\ UNCHANGED <<connVars, sharing, nextId, ptyQ, screenVars, events>>

RemoveClient ==
  /\ Take("remove")
  /\ inbox' = Tail(inbox)
  /\ Tell({ClientOfHead})
  /\ IF ClientOfHead \in DOMAIN watchers
     THEN ForgetWatcher(ClientOfHead)
     ELSE /\ Forget({ClientOfHead})
          /\ ForgetInThreads(ClientOfHead)
          /\ UNCHANGED watchers
  /\ UNCHANGED <<connVars, server, sharing, nextId, ptyQ, screenVars, events>>

\* DetachSession
DetachSession ==
  /\ Take("detach")
  /\ inbox' = Tail(inbox)
  /\ Tell({ClientOfHead})
  /\ Forget({ClientOfHead})
  /\ ForgetInThreads(ClientOfHead)
  /\ UNCHANGED <<connVars, server, sharing, watchers, nextId, ptyQ, screenVars, events>>

\* The threads are not told; the routers of those that go will see to it
DisconnectAllClientsExcept ==
  /\ Take("others")
  /\ inbox' = Tail(inbox)
  /\ Tell(DOMAIN clients \ {ClientOfHead})
  /\ Forget(DOMAIN clients \ {ClientOfHead})
  /\ UNCHANGED <<connVars, server, sharing, watchers, nextId, queueVars, screenVars,
                 events>>

ClientsAndWatchers == DOMAIN clients \cup DOMAIN watchers
EndFor(informed, forgotten) ==
  /\ Tell(informed)
  /\ Forget(forgotten)

\* Variant: the end of the session is told to the client that caused it
EndSessionQuietly ==
  /\ \/ Take("kill") /\ EndFor({ClientOfHead}, DOMAIN clients)
     \/ Take("lastpane") /\ EndFor(ClientsAndWatchers, ClientsAndWatchers)
  /\ inbox' = Tail(inbox)
  /\ server' = "ended"
  /\ UNCHANGED <<connVars, sharing, watchers, nextId, queueVars, screenVars, events>>

\* KillSession, and Render(None) of a Screen whose last pane was closed, which
\* tells the watchers as well
EndSession ==
  /\ \/ Take("kill") /\ EndFor(DOMAIN clients, DOMAIN clients)
     \/ Take("lastpane") /\ EndFor(ClientsAndWatchers, ClientsAndWatchers)
  /\ inbox' = Tail(inbox)
  /\ server' = "ended"
  /\ UNCHANGED <<connVars, sharing, watchers, nextId, queueVars, screenVars, events>>

\* StopSharingCurrentSession: remove_client! and remove_watcher! for web clients
StopSharing ==
  /\ Take("unshare")
  /\ inbox' = Tail(inbox)
  /\ sharing' = FALSE
  /\ LET web == {i \in DOMAIN clients : clients[i] = "web"}
         webWatchers == {i \in DOMAIN watchers : watchers[i]}
     IN IF sharing
        THEN /\ Tell(web \cup webWatchers)
             /\ Forget(web \cup webWatchers)
             /\ watchers' = Without(watchers, webWatchers)
        ELSE UNCHANGED <<told, stateVars, senders>>
  /\ UNCHANGED <<connVars, server, nextId, queueVars, screenVars, events>>

AssociatePipeWithClient ==
  /\ Take("pipe")
  /\ inbox' = Tail(inbox)
  /\ pipes' = pipes \cup {ClientOfHead}
  /\ UNCHANGED <<connVars, told, server, sharing, clients, watchers, lastActive,
                 nextId, senders, queueVars, screenVars, events>>

\* send_to_client! finds the client's buffer full
GiveUp(i) ==
  /\ Running
  /\ i \in DOMAIN senders
  /\ Event
  /\ Tell({i})
  /\ Forget({i})
  /\ UNCHANGED <<connVars, server, sharing, inbox, watchers, nextId, queueVars,
                 screenVars>>

-----------------------------------------------------------------------------
(* Screen, the plugin thread and the PTY thread *)

\* What Screen asks the main loop for: the end of the session when its last
\* pane is closed, or what a client's close dialogue or on_quit says
ScreenAsks(op, i) ==
  /\ server = "up"
  /\ i \in active
  /\ Event
  /\ inbox' = Append(inbox, Msg(op, IF op = "lastpane" THEN None ELSE i))
  /\ UNCHANGED <<connVars, told, server, sharing, stateVars, nextId, senders,
                 queueVars, screenVars>>

PluginStopsSharing ==
  /\ server = "up"
  /\ sharing
  /\ WebConns # {}
  /\ Event
  /\ inbox' = Append(inbox, Msg("unshare", None))
  /\ UNCHANGED <<connVars, told, server, sharing, stateVars, nextId, senders,
                 queueVars, screenVars>>

\* add_client, given the clients that are already connected
AddToScreen(i, already) ==
  /\ connected' = already \cup {i}
  /\ active' = active \cup {i}
  /\ highest' = Larger(highest, i)

\* Variant: only a client that another came after has left
IsNotTheNewest(i) == i < highest

\* A layout is for the client that asked for it or, if that has no tab, for the
\* first that has; a client without a tab is taken for one that left when it,
\* or one that came later, has been added or removed
LayoutClient(i) == IF i \in active \/ active = {} THEN i ELSE Lowest(active)
HasSinceDisconnected(i) == i <= highest

ApplyLayout(i) ==
  LET c == LayoutClient(i) IN
    IF c \in active
    THEN UNCHANGED screenVars
    ELSE /\ IF HasSinceDisconnected(c)
            THEN connected' = connected \cup {c} /\ UNCHANGED <<active, highest>>
            ELSE AddToScreen(c, connected \cup {c})
         /\ UNCHANGED <<viewers, plugged>>

RemoveFromScreen(i) ==
  /\ connected' = connected \ {i}
  /\ active' = active \ {i}
  /\ highest' = Larger(highest, i)

ScreenStep ==
  /\ server = "up"
  /\ screenQ # <<>>
  /\ screenQ' = Tail(screenQ)
  /\ LET m == Head(screenQ) IN
       \/ /\ m.op = "newtab"
          /\ pluginQ' = Append(pluginQ, m)
          /\ UNCHANGED screenVars
       \/ /\ m.op = "layout"
          /\ ApplyLayout(m.id)
          /\ UNCHANGED pluginQ
       \/ /\ m.op = "add"
          /\ AddToScreen(m.id, connected)
          /\ UNCHANGED <<viewers, plugged, pluginQ>>
       \/ /\ m.op = "remove"
          /\ RemoveFromScreen(m.id)
          /\ UNCHANGED <<viewers, plugged, pluginQ>>
       \/ /\ m.op = "watch"
          /\ viewers' = viewers \cup {m.id}
          /\ UNCHANGED <<connected, active, highest, plugged, pluginQ>>
       \/ /\ m.op = "unwatch"
          /\ viewers' = viewers \ {m.id}
          /\ UNCHANGED <<connected, active, highest, plugged, pluginQ>>
  /\ UNCHANGED <<connVars, told, server, sharing, inbox, stateVars, nextId, senders,
                 ptyQ, events>>

\* A new tab's plugins are loaded for a client that is connected, if there is one
PluginStep ==
  /\ server = "up"
  /\ pluginQ # <<>>
  /\ pluginQ' = Tail(pluginQ)
  /\ LET m == Head(pluginQ) IN
       \/ /\ m.op = "add"
          /\ plugged' = plugged \cup {m.id}
          /\ UNCHANGED ptyQ
       \/ /\ m.op = "remove"
          /\ plugged' = plugged \ {m.id}
          /\ UNCHANGED ptyQ
       \/ /\ m.op = "newtab"
          /\ \E i \in IF m.id \in plugged \/ plugged = {} THEN {m.id} ELSE plugged :
               ptyQ' = Append(ptyQ, Msg("layout", i))
          /\ UNCHANGED plugged
  /\ UNCHANGED <<connVars, told, server, sharing, inbox, stateVars, nextId, senders,
                 screenQ, connected, active, highest, viewers, events>>

PtyStep ==
  /\ server = "up"
  /\ ptyQ # <<>>
  /\ ptyQ' = Tail(ptyQ)
  /\ screenQ' = Append(screenQ, Head(ptyQ))
  /\ UNCHANGED <<connVars, told, server, sharing, inbox, stateVars, nextId, senders,
                 pluginQ, screenVars, events>>

-----------------------------------------------------------------------------

Router(c) ==
  \/ Register(c) \/ Open(c) \/ RouterEnds(c)

ClientActs(c) ==
  \/ Accept(c) \/ Leave(c)
  \/ Key(c) \/ Resize(c) \/ NewTab(c) \/ Detach(c) \/ DetachOthers(c)
  \/ KillSession(c) \/ AssociatePipe(c) \/ WatcherQuits(c)

MainLoop ==
  \/ FirstClientConnected \/ AttachClient \/ TurnAway \/ AttachWatcherClient
  \/ ClientExit \/ RemoveClient \/ DetachSession \/ DisconnectAllClientsExcept
  \/ EndSession \/ StopSharing \/ AssociatePipeWithClient

Next ==
  \/ \E c \in Conns : Router(c) \/ ClientActs(c)
  \/ MainLoop
  \/ \E i \in DOMAIN senders : GiveUp(i)
  \/ \E i \in active, op \in {"exit", "detach", "kill", "lastpane"} : ScreenAsks(op, i)
  \/ PluginStopsSharing
  \/ ScreenStep \/ PluginStep \/ PtyStep

\* The threads run, and a client that is told to exit does. (As each of them
\* has only so much to do, that some of them runs is enough.)
Threads ==
  \/ PtyStep \/ ScreenStep \/ PluginStep
  \/ \E c \in Conns : Router(c) \/ HearExit(c)
  \/ MainLoop

Fairness == WF_vars(Threads)

Spec == Init /\ [][Next]_vars /\ Fairness

-----------------------------------------------------------------------------
(* Properties *)

Message(ops) == [op : ops, id : Nat]

\* Every variable holds a value of its kind.
TypeOK ==
  /\ kind \in [Conns -> Kinds \cup {"none"}]
  /\ id \in [Conns -> Nat]
  /\ open \in [Conns -> BOOLEAN] /\ told \in [Conns -> BOOLEAN]
  /\ router \in [Conns -> {"none", "accepted", "opening", "running", "ended"}]
  /\ server \in {"starting", "up", "ended", "crashed"}
  /\ sharing \in BOOLEAN
  /\ inbox \in Seq(Message((Kinds \ {"cli"}) \cup {"forbid", "remove", "exit", "detach", "others",
                                       "kill", "lastpane", "pipe", "unshare"}))
  /\ DOMAIN clients \subseteq Nat /\ Range(clients) \subseteq {"bare", "terminal", "web"}
  /\ DOMAIN watchers \subseteq Nat /\ Range(watchers) \subseteq BOOLEAN
  /\ DOMAIN senders \subseteq Nat /\ Range(senders) \subseteq Conns
  /\ screenQ \in Seq(Message({"newtab", "layout", "add", "remove", "watch", "unwatch"}))
  /\ pluginQ \in Seq(Message({"newtab", "add", "remove"}))
  /\ ptyQ \in Seq(Message({"layout"}))
  /\ pipes \cup connected \cup active \cup viewers \cup plugged \subseteq Nat
  /\ {lastActive, nextId, highest, events} \subseteq Nat

Live == {"accepted", "opening", "running"}
Among(op, i, q) == \E n \in DOMAIN q : q[n].op = op /\ q[n].id = i
Watchers == {id[c] : c \in {d \in Conns : kind[d] = "watch"}}
\* somebody will still see to the client's leaving
Attended(i) ==
  \/ \E c \in Conns : id[c] = i /\ router[c] \in Live
  \/ Among("remove", i, inbox)

\* Nothing of a client outlives it: as long as a session has a client, watches
\* over one, shows it a tab or has its plugins, its router is running, or the
\* removal it asked for is on its way to whoever still has it - whatever else
\* removed, refused or gave up the client meanwhile, and in whatever order. (For
\* what a watcher's early input leaves on Screen, see WatcherOnlyWatches.)
NothingLeftBehind ==
  server = "up" =>
    /\ \A i \in DOMAIN clients \cup DOMAIN watchers \cup DOMAIN senders \cup pipes : Attended(i)
    /\ \A i \in active \ Watchers : Attended(i) \/ Among("remove", i, screenQ)
    /\ \A i \in plugged : Attended(i) \/ Among("remove", i, pluginQ)

\* Nobody is dropped in silence: a client whose first message has been handled
\* and that has not been sent an Exit is one the session knows of, and will
\* include in whatever it tells its clients; and when the session has ended,
\* only watchers may not have been told (KillSession tells the clients only).
KeptOrTold ==
  server # "crashed" =>
    \A c \in Conns :
      (/\ kind[c] # "cli" /\ router[c] = "running"
       /\ ~Among(kind[c], id[c], inbox) /\ ~Among("forbid", id[c], inbox)
       /\ ~told[c])
      => id[c] \in DOMAIN watchers \cup (IF Running THEN DOMAIN clients ELSE {})

\* A client that attaches and stays is answered: it has a tab or is told that it
\* is out; one that watches is a watcher on Screen as well.
Answered(c) ==
  router[c] = "running" /\ open[c] /\ ~told[c] =>
    /\ kind[c] = "attach" => id[c] \in active
    /\ kind[c] = "watch" => id[c] \in viewers

\* A client whose router has ended is forgotten by everybody.
Forgotten(c) ==
  router[c] = "ended" =>
    id[c] \notin DOMAIN clients \cup DOMAIN watchers \cup DOMAIN senders
                 \cup (active \ Watchers) \cup plugged

\* In the end every client is answered and every one that left is forgotten, or
\* the session is over.
EverybodySettled == []<>(Running => \A c \in Conns : Answered(c) /\ (server = "up" => Forgotten(c)))

\* "the quit choice says how many other clients it disconnects": what Screen
\* counts as connected is connected.
QuitChoiceCounts ==
  server = "up" => \A i \in connected : Attended(i) \/ Among("remove", i, screenQ)

\* The first client of a session is shown a tab, or told to go.
FirstShown ==
  []<>(server \in {"starting", "up"} /\ router[1] = "running" /\ open[1] =>
         id[1] \in active \/ told[1] \/ screenQ # <<>>)

\* "Ignore all input from watcher clients": a watcher is never the client that
\* the CLI's actions are for, and it is no client of Screen's.
WatcherOnlyWatches ==
  lastActive \notin DOMAIN watchers /\ active \cap DOMAIN watchers = {}

\* Screen has no watcher that left.
ViewersThere ==
  server = "up" => \A i \in viewers : Attended(i) \/ Among("unwatch", i, screenQ)
=============================================================================
