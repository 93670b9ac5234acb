------------------------------- MODULE CliPipe -------------------------------
(***************************************************************************)
(* `zellij pipe`: a command-line client sends its input, one message at a  *)
(* time, to the plugins, and sends the next message when the server        *)
(* releases the pipe (zellij-client/src/cli_client.rs,                     *)
(* zellij-server/src/plugins/pipes.rs and what they go through).           *)
(*                                                                         *)
(*   client -> router -> plugin thread -> one job per plugin instance      *)
(*      ^                     ^   |               |                        *)
(*      +----- main loop <----|---+               | state changes          *)
(*                            +-- (screen) <------+                        *)
(*                                                                         *)
(* A plugin with a pane may answer a call with a render, and then its      *)
(* state changes reach the plugin thread through the screen thread; those  *)
(* of a call that renders nothing go to the plugin thread directly.        *)
(*                                                                         *)
(* An instance is a plugin and the client it runs for. A client socket and *)
(* the queue of its ClientSender are one FIFO, and so are the socket and   *)
(* the router that reads it.                                               *)
(***************************************************************************)
EXTENDS Integers, Sequences, FiniteSets, SequencesExt

CONSTANTS
  Pipes,        \* one command-line client per pipe
  Plugins,
  Clients,      \* attached clients: each runs an instance of every plugin
  Codes,        \* exit codes a plugin may set
  None,
  Settings      \* what a behaviour may start from

Instances == Plugins \X Clients

(***************************************************************************)
(* A setting is the plugins and clients of a session, what the plugins may *)
(* do, and the bounds of the behaviours that start from it.                *)
(***************************************************************************)
Setting == [
  pipes     : SUBSET Pipes,      \* the command-line clients that run
  piped     : SUBSET Pipes,      \* those that stream their standard input
  instances : SUBSET Instances,  \* the instances that run at first
  panes     : SUBSET Plugins,    \* the plugins that have a pane and may render
  blockers  : SUBSET Instances,  \* the instances that may block the pipe they handle
  coders    : SUBSET Instances,  \* the instances that may set an exit code
  crashers  : SUBSET Instances,  \* the instances whose calls may fail
  messages  : Nat,               \* bound: messages per pipe
  removals  : Nat,               \* bound: plugins unloaded and clients removed
  kills     : Nat]               \* bound: command-line clients interrupted

ASSUME PipeAssumption ==
  /\ Settings \subseteq Setting
  /\ IsFiniteSet(Pipes) /\ IsFiniteSet(Instances)
  /\ None \notin Pipes \cup Plugins \cup Clients \cup Codes \cup {"done", "killed"}
  /\ Codes \cap {"done", "killed"} = {}

VARIABLES
  setting,    \* never changes
  cli,        \* per pipe: the client, [read, sent, ended, waiting, exit]
  socket,     \* per pipe: what its client sent and its router has not handled
  seen,       \* seen_cli_pipes of the routers
  inbox,      \* instructions for the plugin thread
  jobs,       \* per plugin: calls queued on its pinned thread
  screen,     \* PluginBytes on their way through the screen thread
  main,       \* instructions for the server's main loop
  session,    \* per pipe: its client in SessionState, "new", "associated", "gone"
  link,       \* per pipe: releases on their way to its client
  pending,    \* PendingPipes, per pipe
  running,    \* the instances in the plugin map
  to_block, to_unblock, \* per instance: input_pipes_to_block, input_pipes_to_unblock
  holding,    \* per instance: the pipes its plugin means to unblock later
  removals, kills,      \* bounded so far
  asked,      \* history: pipes a plugin unblocked, not released since
  due         \* history: per pipe, the exit code of the call that unblocked it

clientVars == <<cli, kills>>
callVars == <<to_block, to_unblock, holding>>
vars == <<setting, clientVars, callVars, socket, seen, inbox, jobs, screen, main, session,
          link, pending, running, removals, asked, due>>

Changes(i, of) == [kind |-> "changes", from |-> i, of |-> of]
Released(q, code) == [kind |-> "release", pipe |-> q, code |-> code]
Plain(kind, q) == [kind |-> kind, pipe |-> q]

(***************************************************************************)
(* PendingPipes, one pipe at a time: an operation gives the pipe's new     *)
(* entry and the exit code its release carries, <<None>> when the release  *)
(* is not final and <<>> when it makes none.                               *)
(***************************************************************************)
Forgotten == [known |-> FALSE, blocked |-> FALSE, by |-> None, processing |-> {}]
NewEntry == [info |-> Forgotten, code |-> None, owner |-> None, finished |-> FALSE]

Quiet(entry) == [entry |-> entry, out |-> <<>>]

\* Variant: a pipe that was released for good is like a new one.
ForgetFinished(entry) == NewEntry

Finished(entry) == [NewEntry EXCEPT !.finished = TRUE]

\* Variant: only a crash makes a release final.
CrashFinal(change) == change = "crashed"

IsFinal(change) == change \in {"unblock", "crashed"}

Release(entry, final) ==
  IF final /\ entry.code # None
  THEN [entry |-> Finished(entry), out |-> <<entry.code>>]
  ELSE [entry |-> entry, out |-> <<None>>]

\* Variant: a pipe is held by a block alone.
HeldByBlock(info) == info.blocked

Held(info) == info.processing # {} \/ info.blocked

\* The entry of a pipe whose info has become info: its info goes when nothing holds it.
Settled(entry, info, final) ==
  IF info.known /\ Held(info)
  THEN Quiet([entry EXCEPT !.info = info])
  ELSE Release([entry EXCEPT !.info = Forgotten], final)

Blocked(info, change, p) ==
  CASE change = "block" -> [info EXCEPT !.blocked = TRUE, !.by = p]
    [] change = "unblock" -> [info EXCEPT !.blocked = FALSE, !.by = None]
    [] OTHER -> info

\* A change for a pipe that is not known releases it.
Updated(entry, change, i) ==
  CASE entry.finished -> Quiet(entry)
    [] ~entry.finished /\ change = "crashed" /\ entry.code # None -> Release(entry, TRUE)
    [] OTHER -> LET info == Blocked(entry.info, change, i[1]) IN
                Settled(entry, [info EXCEPT !.processing = @ \ {i}], IsFinal(change))

WithoutPlugin(info, p) ==
  LET rest == [info EXCEPT !.processing = {i \in @ : i[1] # p}] IN
  IF info.by = p THEN [rest EXCEPT !.blocked = FALSE, !.by = None] ELSE rest

Unloaded(entry, p) ==
  CASE entry.code # None /\ entry.owner = p -> Release(entry, TRUE)
    [] ~(entry.code # None /\ entry.owner = p) /\ entry.info.known ->
         Settled(entry, WithoutPlugin(entry.info, p), FALSE)
    [] OTHER -> Quiet(entry)

ClientUnloaded(entry, c) ==
  LET info == [entry.info EXCEPT !.processing = {i \in @ : i[2] # c}] IN
  IF entry.info.known THEN Settled(entry, info, FALSE) ELSE Quiet(entry)

Marked(entry) ==
  [entry EXCEPT !.info.known = TRUE, !.info.processing = @ \cup running]

Init ==
  /\ setting \in Settings
  /\ cli = [q \in Pipes |-> [read |-> 0, sent |-> 0, ended |-> FALSE, waiting |-> FALSE,
                             exit |-> IF q \in setting.pipes THEN None ELSE "done"]]
  /\ socket = [q \in Pipes |-> <<>>]
  /\ seen = {}
  /\ inbox = <<>>
  /\ jobs = [p \in Plugins |-> <<>>]
  /\ screen = <<>>
  /\ main = <<>>
  /\ session = [q \in Pipes |-> IF q \in setting.pipes THEN "new" ELSE "gone"]
  /\ link = [q \in Pipes |-> <<>>]
  /\ pending = [q \in Pipes |-> NewEntry]
  /\ running = setting.instances
  /\ to_block = [i \in Instances |-> {}]
  /\ to_unblock = [i \in Instances |-> {}]
  /\ holding = [i \in Instances |-> {}]
  /\ removals = 0
  /\ kills = 0
  /\ asked = {}
  /\ due = [q \in Pipes |-> None]

(***************************************************************************)
(* The command-line client (drive_streaming_pipe, drive_pipe).             *)
(***************************************************************************)
Queue(client) == client.read - client.sent

MaySend(client) == ~client.waiting /\ Queue(client) > 0

\* What a turn of the client's loop ends with.
Turn(q, client) ==
  LET sending == client.exit = None /\ MaySend(client) IN
  /\ cli' = [cli EXCEPT ![q] =
       IF sending THEN [client EXCEPT !.sent = @ + 1, !.waiting = TRUE] ELSE client]
  /\ socket' = [socket EXCEPT ![q] =
       CASE sending -> Append(@, client.sent + 1)
         [] ~sending /\ client.exit # None -> Append(@, 0)
         [] OTHER -> @]

\* A message, or the empty one at the end of the input; one message if its
\* standard input is not piped.
ReadInput(q, last) ==
  /\ cli[q].exit = None
  /\ ~cli[q].ended
  /\ cli[q].read < setting.messages
  /\ q \notin setting.piped => last
  /\ Turn(q, [cli[q] EXCEPT !.read = @ + 1, !.ended = last])
  /\ UNCHANGED <<setting, kills, callVars, seen, inbox, jobs, screen, main, session, link,
                 pending, running, removals, asked, due>>

\* handle_pipe_server_message: releases of other pipes are ignored.
ReceiveRelease(q) ==
  LET client == cli[q] release == Head(link[q]) IN
  /\ link[q] # <<>>
  /\ link' = [link EXCEPT ![q] = Tail(@)]
  /\ IF client.exit # None \/ release.pipe # q
     THEN UNCHANGED <<cli, socket>>
     ELSE CASE release.code # None -> Turn(q, [client EXCEPT !.exit = release.code])
            [] release.code = None /\ client.ended /\ Queue(client) = 0 ->
                 Turn(q, [client EXCEPT !.waiting = FALSE, !.exit = "done"])
            [] OTHER -> Turn(q, [client EXCEPT !.waiting = FALSE])
  /\ UNCHANGED <<setting, kills, callVars, seen, inbox, jobs, screen, main, session,
                 pending, running, removals, asked, due>>

\* The client is interrupted.
Interrupt(q) ==
  /\ cli[q].exit = None
  /\ kills < setting.kills
  /\ kills' = kills + 1
  /\ Turn(q, [cli[q] EXCEPT !.exit = "killed"])
  /\ UNCHANGED <<setting, callVars, seen, inbox, jobs, screen, main, session, link,
                 pending, running, removals, asked, due>>

(***************************************************************************)
(* The client's router and the main loop. 0 is the end of the connection.  *)
(***************************************************************************)
MayForward(q) == q \in seen

RouteAssociate(q) ==
  /\ socket[q] # <<>>
  /\ Head(socket[q]) # 0
  /\ q \notin seen
  /\ seen' = seen \cup {q}
  /\ main' = Append(main, Plain("associate", q))
  /\ UNCHANGED <<setting, clientVars, callVars, socket, inbox, jobs, screen, session, link,
                 pending, running, removals, asked, due>>

RouteMessage(q) ==
  /\ socket[q] # <<>>
  /\ Head(socket[q]) # 0
  /\ MayForward(q)
  /\ socket' = [socket EXCEPT ![q] = Tail(@)]
  /\ inbox' = Append(inbox, [kind |-> "message", pipe |-> q, n |-> Head(socket[q])])
  /\ UNCHANGED <<setting, clientVars, callVars, seen, jobs, screen, main, session, link,
                 pending, running, removals, asked, due>>

RouteExit(q) ==
  /\ socket[q] # <<>>
  /\ Head(socket[q]) = 0
  /\ socket' = [socket EXCEPT ![q] = Tail(@)]
  /\ main' = Append(main, Plain("remove", q))
  /\ UNCHANGED <<setting, clientVars, callVars, seen, inbox, jobs, screen, session, link,
                 pending, running, removals, asked, due>>

\* The clients a release goes to: all of them if the pipe's is not known.
Recipients(q) ==
  IF session[q] = "associated" THEN {q} ELSE {r \in Pipes : session[r] # "gone"}

MainLoop ==
  LET m == Head(main) IN
  /\ main # <<>>
  /\ main' = Tail(main)
  /\ CASE m.kind = "associate" ->
            /\ session' = [session EXCEPT ![m.pipe] = "associated"]
            /\ UNCHANGED link
       [] m.kind = "remove" ->
            /\ session' = [session EXCEPT ![m.pipe] = "gone"]
            /\ UNCHANGED link
       [] m.kind = "release" ->
            /\ link' = [r \in Pipes |->
                 IF r \in Recipients(m.pipe) THEN Append(link[r], m) ELSE link[r]]
            /\ UNCHANGED session
  /\ UNCHANGED <<setting, clientVars, callVars, socket, seen, inbox, jobs, screen,
                 pending, running, removals, asked, due>>

(***************************************************************************)
(* The plugin thread                                                       *)
(***************************************************************************)
\* Applies an operation of PendingPipes to some pipes and sends its releases.
Apply(result) ==
  LET released == {q \in DOMAIN result : result[q].out # <<>>}
      order == SetToSeq(released)
  IN
  /\ pending' = [q \in Pipes |-> IF q \in DOMAIN result THEN result[q].entry ELSE pending[q]]
  /\ main' = main \o [k \in DOMAIN order |-> Released(order[k], result[order[k]].out[1])]
  /\ asked' = asked \ released

\* Variant: a message without recipients is let lie.
NeverAtOnce(q) == FALSE

ReleasesAtOnce(q) == running = {} /\ ~pending[q].info.known

RunningOf(p) == {i \in running : i[1] = p}

\* The instances of each plugin in some order.
Orders ==
  {f \in [Plugins -> UNION {SetToSeqs(RunningOf(p)) : p \in Plugins}] :
     \A p \in Plugins : f[p] \in SetToSeqs(RunningOf(p))}

OnMessage(m) ==
  LET q == m.pipe IN
  IF pending[q].finished
  THEN UNCHANGED <<pending, main, asked, jobs>>
  ELSE \E order \in Orders :
         /\ jobs' = [p \in Plugins |-> jobs[p] \o
              [k \in DOMAIN order[p] |-> [pipe |-> q, n |-> m.n, on |-> order[p][k]]]]
         /\ IF running # {}
            THEN pending' = [pending EXCEPT ![q] = Marked(@)] /\ UNCHANGED <<main, asked>>
            ELSE Apply([r \in (IF ReleasesAtOnce(q) THEN {q} ELSE {}) |->
                         [entry |-> pending[r], out |-> <<None>>]])

OnSetCode(m) ==
  /\ pending' = IF pending[m.pipe].finished
                THEN pending
                ELSE [pending EXCEPT ![m.pipe].code = m.code, ![m.pipe].owner = m.by]
  /\ UNCHANGED <<main, asked, jobs>>

OnChanges(m) ==
  /\ Apply([q \in DOMAIN m.of |-> Updated(pending[q], m.of[q], m.from)])
  /\ UNCHANGED jobs

\* unload_plugin; the instances handle BeforeClose after the calls they have queued.
OnUnload(m) ==
  LET closing == SetToSeq(RunningOf(m.plugin)) IN
  /\ jobs' = [jobs EXCEPT ![m.plugin] = @ \o
       [k \in DOMAIN closing |-> [pipe |-> None, n |-> 0, on |-> closing[k]]]]
  /\ Apply([q \in Pipes |-> Unloaded(pending[q], m.plugin)])

OnRemoveClient(m) ==
  /\ Apply([q \in Pipes |-> ClientUnloaded(pending[q], m.client)])
  /\ UNCHANGED jobs

PluginThread ==
  LET m == Head(inbox) IN
  /\ inbox # <<>>
  /\ inbox' = Tail(inbox)
  /\ CASE m.kind = "message" -> OnMessage(m)
       [] m.kind = "code" -> OnSetCode(m)
       [] m.kind = "changes" -> OnChanges(m)
       [] m.kind = "unload" -> OnUnload(m)
       [] m.kind = "remove" -> OnRemoveClient(m)
  /\ running' = CASE m.kind = "unload" -> {i \in running : i[1] # m.plugin}
                  [] m.kind = "remove" -> {i \in running : i[2] # m.client}
                  [] OTHER -> running
  /\ UNCHANGED <<setting, clientVars, callVars, socket, seen, screen, session, link, removals, due>>

ScreenThread ==
  /\ screen # <<>>
  /\ screen' = Tail(screen)
  /\ inbox' = Append(inbox, Head(screen))
  /\ UNCHANGED <<setting, clientVars, callVars, socket, seen, jobs, main, session, link,
                 pending, running, removals, asked, due>>

(***************************************************************************)
(* A plugin's calls, on its pinned thread. A call may set an exit code and *)
(* ask to block or to unblock the pipe; what it asked is drained once it   *)
(* has returned, and stays for the next call when it fails.                *)
(***************************************************************************)
Asks == [block : BOOLEAN, unblock : BOOLEAN, code : Codes \cup {None}]

\* pipes_to_block_or_unblock: an unblock has priority over a block.
Drained(i, current, blocks, unblocks) ==
  [q \in current \cup blocks \cup unblocks |->
     CASE q \in unblocks -> "unblock"
       [] q \in blocks \ unblocks -> "block"
       [] OTHER -> "no change"]

\* A call of instance i that may ask something of pipe q, and handles current.
Call(i, q, current, ask) ==
  LET blocks == to_block[i] \cup (IF ask.block THEN {q} ELSE {})
      unblocks == to_unblock[i] \cup (IF ask.unblock THEN {q} ELSE {})
      coded == IF ask.code = None THEN inbox
               ELSE Append(inbox, [kind |-> "code", pipe |-> q, code |-> ask.code, by |-> i[1]])
  IN
  /\ ask.block \/ ask.unblock => i \in setting.blockers
  /\ ask.code # None => i \in setting.coders
  /\ asked' = IF ask.unblock THEN asked \cup {q} ELSE asked
  /\ due' = IF ask.unblock /\ ask.code # None THEN [due EXCEPT ![q] = ask.code] ELSE due
  /\ holding' = [holding EXCEPT ![i] =
       CASE ask.unblock -> @ \ {q}
         [] ask.block /\ ~ask.unblock -> @ \cup {q}
         [] OTHER -> @]
  /\ \/ /\ to_block' = [to_block EXCEPT ![i] = {}]
        /\ to_unblock' = [to_unblock EXCEPT ![i] = {}]
        /\ LET m == Changes(i, Drained(i, current, blocks, unblocks)) IN
           \/ inbox' = Append(coded, m) /\ UNCHANGED screen
           \/ /\ i[1] \in setting.panes
              /\ inbox' = coded
              /\ screen' = Append(screen, m)
     \/ /\ i \in setting.crashers
        /\ to_block' = [to_block EXCEPT ![i] = blocks]
        /\ to_unblock' = [to_unblock EXCEPT ![i] = unblocks]
        /\ inbox' = IF current = {} THEN coded
                    ELSE Append(coded, Changes(i, [r \in current |-> "crashed"]))
        /\ UNCHANGED screen
  /\ UNCHANGED <<setting, clientVars, socket, seen, main, session, link, pending, running, removals>>

\* BeforeClose: the last chance to unblock, and nothing is rendered.
Close(i) ==
  /\ \E q \in Pipes, ask \in Asks :
    /\ ~ask.block
    /\ ask.unblock \/ ask.code # None => q \in holding[i]
    /\ Call(i, q, {}, ask)
  /\ UNCHANGED screen

\* The next call queued for plugin p: its pipe handler, or BeforeClose.
RunJob(p) ==
  LET job == Head(jobs[p]) IN
  /\ jobs[p] # <<>>
  /\ jobs' = [jobs EXCEPT ![p] = Tail(@)]
  /\ IF job.pipe = None
     THEN Close(job.on)
     ELSE \E ask \in Asks : Call(job.on, job.pipe, {job.pipe}, ask)

\* An event, by which a plugin unblocks a pipe it has blocked.
UnblockLater(i, q, code) ==
  /\ i \in running
  /\ q \in holding[i]
  /\ Call(i, q, {}, [block |-> FALSE, unblock |-> TRUE, code |-> code])
  /\ UNCHANGED jobs

(***************************************************************************)
(* A plugin's pane is closed; an attached client leaves.                   *)
(***************************************************************************)
RequestRemoval(instruction) ==
  /\ removals < setting.removals
  /\ removals' = removals + 1
  /\ inbox' = Append(inbox, instruction)
  /\ UNCHANGED <<setting, clientVars, callVars, socket, seen, jobs, screen, main, session, link,
              pending, running, asked, due>>

UnloadPlugin(p) ==
  /\ \E i \in running : i[1] = p
  /\ RequestRemoval([kind |-> "unload", plugin |-> p])

RemoveClient(c) ==
  /\ \E i \in running : i[2] = c
  /\ RequestRemoval([kind |-> "remove", client |-> c])

Next ==
  \/ \E q \in Pipes :
       \/ \E last \in BOOLEAN : ReadInput(q, last)
       \/ ReceiveRelease(q) \/ Interrupt(q)
       \/ RouteAssociate(q) \/ RouteMessage(q) \/ RouteExit(q)
  \/ MainLoop \/ PluginThread \/ ScreenThread
  \/ \E p \in Plugins : UnloadPlugin(p) \/ RunJob(p)
  \/ \E c \in Clients : RemoveClient(c)
  \/ \E i \in Instances, q \in Pipes, code \in Codes \cup {None} : UnblockLater(i, q, code)

Spec == Init /\ [][Next]_vars

\* Every thread goes on, a queued call is made, and a plugin unblocks what it blocks. As
\* the messages are bounded it is enough that something of this goes on.
Going ==
  \/ MainLoop \/ ScreenThread \/ PluginThread
  \/ \E q \in Pipes : ReceiveRelease(q) \/ RouteAssociate(q) \/ RouteMessage(q) \/ RouteExit(q)
  \/ \E p \in Plugins : RunJob(p)
  \/ \E q \in Pipes, i \in Instances, code \in Codes \cup {None} : UnblockLater(i, q, code)
Fairness == WF_vars(Going)

FairSpec == Spec /\ Fairness

(***************************************************************************)
(* Properties                                                              *)
(***************************************************************************)
IsMessage(m, q) == m.kind = "message" /\ m.pipe = q
IsRelease(m, q) == m.kind = "release" /\ m.pipe = q

\* Pipe q is held by the plugins.
Known(q) == pending[q].info.known

\* The calls queued for pipe q; its releases that its client has still to see; its
\* messages that the plugin thread has still to see; and with them what holds it.
CallsOf(q) == UNION {{k \in DOMAIN jobs[p] : jobs[p][k].pipe = q} : p \in Plugins}
OnTheWay(q) ==
  {<<"main", k>> : k \in {n \in DOMAIN main : IsRelease(main[n], q)}}
  \cup {<<"link", k>> : k \in {n \in DOMAIN link[q] : link[q][n].pipe = q}}
Unseen(q) ==
  {<<"socket", k>> : k \in {n \in DOMAIN socket[q] : socket[q][n] # 0}}
  \cup {<<"inbox", k>> : k \in {n \in DOMAIN inbox : IsMessage(inbox[n], q)}}
UnderWay(q) ==
  Unseen(q) \cup OnTheWay(q) \cup (IF Known(q) THEN {<<"plugins", 0>>} ELSE {})

\* The release that ends pipe q has been sent.
FinalSent(q) ==
  \/ cli[q].exit \in Codes
  \/ \E n \in DOMAIN main : IsRelease(main[n], q) /\ main[n].code # None
  \/ \E n \in DOMAIN link[q] : link[q][n].pipe = q /\ link[q][n].code # None

\* Every client sends what it has read and no more, and a pipe that is known to the
\* plugin thread is held by a call or a block (PendingPipeInfo).
TypeOK ==
  /\ \A q \in Pipes :
       /\ cli[q].sent \in 0 .. cli[q].read /\ cli[q].read \in 0 .. setting.messages
       /\ cli[q].exit \in {None, "done", "killed"} \cup Codes
       /\ pending[q].info.processing \subseteq Instances
       /\ pending[q].info.known => pending[q].info.processing # {} \/ pending[q].info.blocked
       /\ (pending[q].code = None) <=> (pending[q].owner = None)
  /\ running \subseteq Instances
  /\ session \in [Pipes -> {"new", "associated", "gone"}]

\* No plugin renders and none has been unloaded, so the changes of an instance arrive in
\* the order of its calls; and only one instance blocks, whose calls do not fail, so that
\* nobody unblocks a pipe that was released before.
Undisturbed ==
  /\ setting.panes = {} /\ removals = 0
  /\ setting.blockers \cap setting.crashers = {}
  /\ \A i, j \in setting.blockers : i = j

\* Backpressure (drive_streaming_pipe's waiting_for_release): a client that waits has
\* exactly one thing to wait for: its message on its way to the plugins, the pipe they
\* hold, or one release. A client that does not wait has none of them. With renders a
\* late change releases a pipe nobody holds, and so does a second instance that unblocks
\* it; an unload may release it twice.
OneMessageAtATime ==
  \A q \in Pipes : Undisturbed /\ cli[q].exit = None =>
    IF cli[q].waiting THEN \E t \in UnderWay(q) : UnderWay(q) = {t} ELSE UnderWay(q) = {}

\* update_state_change: the pipe is released when no call that handles its message is
\* left to run, unless the release is the one that ends it.
ReleasedWhenHandled ==
  \A q \in Pipes : Undisturbed /\ ~FinalSent(q) =>
    (OnTheWay(q) # {} \/ ~cli[q].waiting => CallsOf(q) = {})

\* AssociatePipeWithClient: a release that the main loop comes to while the client is
\* still connected goes to this client alone ("this pipe might not have been associated
\* yet" does not happen).
RoutedToItsClient ==
  main # <<>> /\ Head(main).kind = "release" => session[Head(main).pipe] # "new"

\* One release for each message, when all have handled it, to the client that sent it.
ReleasedInTurn == OneMessageAtATime /\ ReleasedWhenHandled /\ RoutedToItsClient

\* finished: once a release with an exit code is sent, no other release of the pipe is,
\* however late the changes of its plugins arrive. (A step takes the first message for
\* the main loop, or adds to them.)
NothingAfterFinal ==
  [][\A q \in Pipes : FinalSent(q) =>
       \A n \in DOMAIN main' \ DOMAIN main : ~IsRelease(main'[n], q)]_vars

\* Backpressure never jams: a client that waits hears of its pipe again, whichever
\* plugins are unloaded, crash or lose their client meanwhile, if no plugin blocks the
\* pipe explicitly (a plugin that has may be gone before it unblocks).
EveryMessageReleased ==
  []<>(setting.blockers = {} =>
         \A q \in Pipes : cli[q].waiting => cli[q].exit # None)

\* SetCliPipeExitCode: the exit code set by the call that unblocks the pipe is the exit
\* code of the client, if the pipe has a single recipient (with a second one that still
\* handles the message, the release that comes last is not final).
ExitCodeArrives ==
  []<>(Cardinality(setting.instances) = 1 =>
         \A q \in Pipes : due[q] # None => cli[q].exit \in {"killed"} \cup Codes)

\* "Unblock the input side of a pipe, requesting the next message be sent if there is
\* one" (zellij-tile/src/shim.rs): a pipe a plugin has unblocked is released.
UnblockRequestsNext == \A q \in Pipes : q \in asked ~> q \notin asked \/ cli[q].exit # None
=============================================================================
