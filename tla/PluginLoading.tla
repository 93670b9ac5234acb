--------------------------- MODULE PluginLoading ---------------------------
(***************************************************************************)
(* Loading of plugins and what becomes of the events meanwhile             *)
(* (zellij-server/src/plugins/wasm_bridge.rs, plugin_loader.rs).           *)
(*                                                                         *)
(* Three parties: the plugin thread with its tables; a thread for each     *)
(* plugin that runs its jobs in order - loading it, calling it with an     *)
(* event (PinnedExecutor) - and the tasks that download a remote one. A    *)
(* plugin has an instance for each client. While it is being loaded, or    *)
(* asks the user for permissions, its events are cached, and applied when  *)
(* its thread, or the user, has answered.                                  *)
(*                                                                         *)
(* Instructions that come from elsewhere are taken when the plugin thread  *)
(* gets to them; those of the plugins' own threads wait in inbox. Plugins  *)
(* that clients share, workers and pipe messages are left out, and a       *)
(* plugin subscribes to all events. Each plugin has a configuration of its *)
(* own, and client ids are not used twice.                                 *)
(***************************************************************************)
EXTENDS Integers, Sequences, FiniteSets, Functions, SequencesExt

CONSTANTS
  Plugins,        \* plugin ids
  Clients,        \* client ids
  Location,       \* plugin -> RunPlugin.location
  Remote,         \* the plugins that must be downloaded
  Asking,         \* those that may ask for permissions the user has not granted
  MaxEvents,      \* bound: events
  MaxTrouble      \* bound: requests to reload and loads that fail

ASSUME LoadingAssumption ==
  /\ Location \in [Plugins -> Plugins]
  /\ Remote \subseteq Plugins
  /\ Asking \subseteq Plugins
  /\ {MaxEvents, MaxTrouble} \subseteq Nat
  /\ IsFiniteSet(Clients)   \* ClientId is a u16

VARIABLES
  connected,     \* connected_clients
  gone,          \* the clients that have left
  meta,          \* plugin_map: the plugins with metadata
  instances,     \* plugin_map: <<plugin, client>> -> a running instance
  caching,       \* cached_events_for_pending_plugins
  loading,       \* loading_plugins
  waiting,       \* plugin_ids_waiting_for_permission_request
  toUnload,      \* plugins_to_unload_once_loaded
  reloads,       \* pending_plugin_reloads
  downloading,   \* download tasks: plugin -> the load they go on with
  jobs,          \* the queue of each plugin's thread
  inbox,         \* instructions from the plugins' threads
  sent,          \* events so far; an event is its number
  born,          \* loads that ran, to tell instances apart
  requested,     \* the plugins whose load was requested
  unloaded,      \* those whose unload was requested
  overlapped,    \* history: a load began before the events of another were applied
  failed,        \* history: the plugins a load of which failed, or could not start
  reloaded       \* bound: reloads so far

clientVars == <<connected, gone>>
mapVars == <<meta, instances>>
tableVars == <<caching, loading, waiting, toUnload, reloads>>
historyVars == <<requested, unloaded, overlapped, failed, reloaded>>
vars == <<connected, gone, meta, instances, caching, loading, waiting, toUnload,
          reloads, downloading, jobs, inbox, sent, born, requested, unloaded,
          overlapped, failed, reloaded>>

Init ==
  /\ connected = {}
  /\ gone = {}
  /\ meta = {}
  /\ instances = <<>>
  /\ caching = <<>>
  /\ loading = {}
  /\ waiting = {}
  /\ toUnload = {}
  /\ reloads = {}
  /\ downloading = <<>>
  /\ jobs = [p \in Plugins |-> <<>>]
  /\ inbox = <<>>
  /\ sent = 0
  /\ born = 0
  /\ requested = {}
  /\ unloaded = {}
  /\ overlapped = {}
  /\ failed = {}
  /\ reloaded = 0

MoreTrouble == reloaded + Cardinality(failed) < MaxTrouble

With(f, S, v) == [x \in DOMAIN f \cup S |-> IF x \in S THEN v ELSE f[x]]
Without(f, S) == Restrict(f, DOMAIN f \ S)
InstancesOf(p, m) == {i \in DOMAIN m : i[1] = p}

\* how a thread is asked to load: for one client and, unless it joins a plugin
\* that runs already, for all that are connected by then
LoadJob(op, c) == [op |-> op, client |-> c, since |-> sent]
\* events for the instance that was in the map when they were sent
EventJob(c, i, events) == [op |-> "events", client |-> c, gen |-> i.gen, events |-> events]

-----------------------------------------------------------------------------
(* The plugin thread: loading, reloading, unloading *)

\* events are cached from now on; what was cached before is gone
StartCaching(P) ==
  /\ caching' = With(caching, P, <<>>)
  /\ loading' = loading \cup P
  /\ overlapped' = overlapped \cup (P \cap DOMAIN caching)

\* load_plugin_with_kind, for a client that is connected if there is one
LoadPlugin(p, c) ==
  /\ p \notin requested
  /\ connected # {} => c \in connected
  /\ c \notin gone
  /\ requested' = requested \cup {p}
  /\ StartCaching({p})
  /\ IF p \in Remote
     THEN downloading' = With(downloading, {p}, LoadJob("load", c)) /\ UNCHANGED jobs
     ELSE jobs' = [jobs EXCEPT ![p] = Append(@, LoadJob("load", c))] /\ UNCHANGED downloading
  /\ UNCHANGED <<clientVars, mapVars, waiting, toUnload, reloads, inbox, sent, born,
                 unloaded, failed, reloaded>>

Downloaded(p) ==
  /\ p \in DOMAIN downloading
  /\ jobs' = [jobs EXCEPT ![p] = Append(@, downloading[p])]
  /\ downloading' = Without(downloading, {p})
  /\ UNCHANGED <<clientVars, mapVars, tableVars, inbox, sent, born, historyVars>>

\* a failed download is reported, and that is all
DownloadFails(p) ==
  /\ p \in DOMAIN downloading
  /\ MoreTrouble
  /\ downloading' = Without(downloading, {p})
  /\ failed' = failed \cup {p}
  /\ UNCHANGED <<clientVars, mapVars, tableVars, jobs, inbox, sent, born, requested,
                 unloaded, overlapped, reloaded>>

\* reload_plugin_with_id of a plugin in map m, which returns late when nobody is
\* connected
ReloadWithId(p, m) ==
  IF p \in m
  THEN /\ StartCaching({p})
       /\ \/ /\ connected = {}
             /\ failed' = failed \cup {p}
             /\ UNCHANGED jobs
          \/ \E c \in connected :
               /\ jobs' = [jobs EXCEPT ![p] = Append(@, LoadJob("reload", c))]
               /\ UNCHANGED failed
  ELSE UNCHANGED <<caching, loading, overlapped, jobs, failed>>

ReloadPluginWithId(p) ==
  /\ p \in meta
  /\ MoreTrouble
  /\ reloaded' = reloaded + 1
  /\ ReloadWithId(p, meta)
  /\ UNCHANGED <<clientVars, mapVars, waiting, toUnload, reloads, downloading, inbox,
                 sent, born, requested, unloaded>>

\* a location is being loaded, whatever the configuration
BeingLoaded(p) == \E q \in loading : Location[q] = Location[p]

\* reload_plugin; a plugin that does not run is loaded instead (LoadPlugin)
ReloadPlugin(p) ==
  /\ p \in meta \/ BeingLoaded(p)
  /\ MoreTrouble
  /\ reloaded' = reloaded + 1
  /\ IF BeingLoaded(p)
     THEN /\ reloads' = reloads \cup {p}
          /\ UNCHANGED <<caching, loading, overlapped, jobs, failed>>
     ELSE ReloadWithId(p, meta) /\ UNCHANGED reloads
  /\ UNCHANGED <<clientVars, mapVars, waiting, toUnload, downloading, inbox, sent,
                 born, requested, unloaded>>

\* Variant: an unload forgets that the plugin is being loaded.
UnloadWhatRuns(p) ==
  /\ p \in requested \ unloaded
  /\ unloaded' = unloaded \cup {p}
  /\ loading' = loading \ {p}
  /\ meta' = meta \ {p}
  /\ instances' = Without(instances, InstancesOf(p, instances))
  /\ UNCHANGED <<clientVars, caching, waiting, toUnload, reloads, downloading, jobs, inbox,
                 sent, born, requested, overlapped, failed, reloaded>>

\* unload_plugin: out of the map now, and once more when it has loaded
UnloadPlugin(p) ==
  /\ p \in requested \ unloaded
  /\ unloaded' = unloaded \cup {p}
  /\ loading' = loading \ {p}
  /\ toUnload' = toUnload \cup (loading \cap {p})
  /\ meta' = meta \ {p}
  /\ instances' = Without(instances, InstancesOf(p, instances))
  /\ UNCHANGED <<clientVars, caching, waiting, reloads, downloading, jobs, inbox, sent,
                 born, requested, overlapped, failed, reloaded>>

-----------------------------------------------------------------------------
(* The plugin thread: clients *)

\* add_client: every plugin of the map is loaded for it as well
AddClient(c) ==
  /\ c \notin connected \cup gone
  /\ connected' = connected \cup {c}
  /\ LET new == {p \in meta : <<p, c>> \notin DOMAIN instances} IN
       /\ StartCaching(new)
       /\ jobs' = [p \in Plugins |->
                     IF p \in new THEN Append(jobs[p], LoadJob("join", c)) ELSE jobs[p]]
  /\ UNCHANGED <<gone, mapVars, waiting, toUnload, reloads, downloading, inbox, sent,
                 born, requested, unloaded, failed, reloaded>>

RemoveClient(c) ==
  /\ c \in connected
  /\ connected' = connected \ {c}
  /\ gone' = gone \cup {c}
  /\ instances' = Without(instances, {i \in DOMAIN instances : i[2] = c})
  /\ UNCHANGED <<meta, tableVars, downloading, jobs, inbox, sent, born, historyVars>>

-----------------------------------------------------------------------------
(* The plugin thread: events *)

\* jobs for the instances of a plugin, in any order
Given(p, events, queue) ==
  LET cs == SetToSeq({i[2] : i \in InstancesOf(p, instances)})
  IN queue \o [n \in DOMAIN cs |-> EventJob(cs[n], instances[<<p, cs[n]>>], events)]

\* update_plugins: an event for everybody, or cached
Update ==
  /\ sent < MaxEvents
  /\ sent' = sent + 1
  /\ jobs' = [p \in Plugins |->
                IF p \in DOMAIN caching THEN jobs[p] ELSE Given(p, <<sent'>>, jobs[p])]
  /\ caching' = [p \in DOMAIN caching |-> Append(caching[p], sent')]
  /\ UNCHANGED <<clientVars, mapVars, loading, waiting, toUnload, reloads, downloading,
                 inbox, born, historyVars>>

\* Variant: what has been cached while the plugin was loaded is thrown away.
CachePluginEventsAnew(p) ==
  /\ waiting' = waiting \cup {p}
  /\ caching' = With(caching, {p}, <<>>)
  /\ UNCHANGED <<mapVars, loading, toUnload, reloads, jobs, overlapped, failed>>

\* CachePluginEvents, from a plugin that has asked the user
CachePluginEvents(p) ==
  /\ waiting' = waiting \cup {p}
  /\ caching' = With(caching, {p} \ DOMAIN caching, <<>>)
  /\ UNCHANGED <<mapVars, loading, toUnload, reloads, jobs, overlapped, failed>>

\* apply_cached_events when nothing holds it up: the events, then an unload or a
\* reload that had to wait
Applied(p) ==
  LET m == IF p \in toUnload THEN meta \ {p} ELSE meta
      events == IF p \in DOMAIN caching THEN caching[p] ELSE <<>>
      queue == IF p \in DOMAIN caching THEN Given(p, events, jobs[p]) ELSE jobs[p]
      again == p \in loading /\ p \in reloads
      rest == loading \ {p}
      busy == \E q \in rest : Location[q] = Location[p]
  IN /\ meta' = m
     /\ instances' = IF p \in toUnload
                     THEN Without(instances, InstancesOf(p, instances)) ELSE instances
     /\ toUnload' = toUnload \ {p}
     /\ waiting' = waiting \ {p}
     /\ reloads' = IF again /\ ~busy THEN reloads \ {p} ELSE reloads
     /\ \/ /\ again /\ ~busy /\ p \in m
           /\ caching' = With(caching, {p}, <<>>)
           /\ loading' = rest \cup {p}
           /\ \/ connected = {} /\ failed' = failed \cup {p} /\ jobs' = [jobs EXCEPT ![p] = queue]
              \/ \E c \in connected :
                   /\ jobs' = [jobs EXCEPT ![p] = Append(queue, LoadJob("reload", c))]
                   /\ UNCHANGED failed
        \/ /\ ~(again /\ ~busy /\ p \in m)
           /\ caching' = Without(caching, {p})
           /\ loading' = rest
           /\ jobs' = [jobs EXCEPT ![p] = queue]
           /\ UNCHANGED failed
     /\ UNCHANGED overlapped

\* ApplyCachedEvents comes too early for a plugin that waits for the user
HeldUp(p) == p \in waiting

\* the next instruction of a plugin's thread or of its permission prompt
Instruction ==
  /\ inbox # <<>>
  /\ inbox' = Tail(inbox)
  /\ LET m == Head(inbox) IN
       \/ m.op = "cache" /\ CachePluginEvents(m.plugin)
       \/ /\ m.op = "apply" /\ HeldUp(m.plugin)
          /\ UNCHANGED <<mapVars, tableVars, jobs, overlapped, failed>>
       \/ m.op = "apply" /\ ~HeldUp(m.plugin) /\ Applied(m.plugin)
       \/ m.op = "answered" /\ Applied(m.plugin)
  /\ UNCHANGED <<clientVars, downloading, sent, born, requested, unloaded, reloaded>>

\* the user answers in the plugin's pane
Answer(p) ==
  /\ p \in waiting \ unloaded
  /\ ~\E n \in DOMAIN inbox : inbox[n] = [op |-> "answered", plugin |-> p]
  /\ inbox' = Append(inbox, [op |-> "answered", plugin |-> p])
  /\ UNCHANGED <<clientVars, mapVars, tableVars, downloading, jobs, sent, born, historyVars>>

-----------------------------------------------------------------------------
(* The thread of a plugin *)

\* Variant: only the client it was requested for gets an instance.
LoadForOne(job) == {job.client}

\* clone_instance_for_other_clients
LoadFor(job) == {job.client} \cup (IF job.op = "join" THEN {} ELSE connected)

\* start_plugin, under the lock of the map: metadata first, then an instance for
\* each client, the one it is loaded for first; it may fail at any of them, and
\* one of them may ask the user, unless permissions are cached
RunLoad(p) ==
  /\ jobs[p] # <<>>
  /\ LET job == Head(jobs[p])
         asking == IF p \in Asking THEN {<<>>, <<[op |-> "cache", plugin |-> p]>>} ELSE {<<>>}
         apply == <<[op |-> "apply", plugin |-> p]>>
     IN /\ job.op \in {"load", "reload", "join"}
        /\ \E S \in SUBSET LoadFor(job), ok \in BOOLEAN, asks \in asking :
             /\ S = {} => asks = <<>>
             /\ S # {} => job.client \in S
             /\ ok => S = LoadFor(job)
             /\ ok \/ MoreTrouble
             /\ failed' = IF ok THEN failed ELSE failed \cup {p}
             /\ instances' = With(instances, {p} \X S,
                                  [gen |-> born + 1, since |-> job.since, got |-> <<>>])
             /\ inbox' = inbox \o asks \o (IF ok \/ job.op # "join" THEN apply ELSE <<>>)
  /\ meta' = meta \cup {p}
  /\ born' = born + 1
  /\ jobs' = [jobs EXCEPT ![p] = Tail(@)]
  /\ UNCHANGED <<clientVars, tableVars, downloading, sent, requested, unloaded,
                 overlapped, reloaded>>

\* the instance is called, or one that is no longer in the map
RunEvents(p) ==
  /\ jobs[p] # <<>>
  /\ Head(jobs[p]).op = "events"
  /\ LET job == Head(jobs[p])
         i == <<p, job.client>>
     IN instances' = IF i \in DOMAIN instances /\ instances[i].gen = job.gen
                     THEN [instances EXCEPT ![i].got = @ \o job.events]
                     ELSE instances
  /\ jobs' = [jobs EXCEPT ![p] = Tail(@)]
  /\ UNCHANGED <<clientVars, meta, tableVars, downloading, inbox, sent, born, historyVars>>

-----------------------------------------------------------------------------

Thread(p) == RunLoad(p) \/ RunEvents(p)

Next ==
  \/ \E p \in Plugins :
       \/ \E c \in Clients : LoadPlugin(p, c)
       \/ Downloaded(p) \/ DownloadFails(p)
       \/ ReloadPluginWithId(p) \/ ReloadPlugin(p) \/ UnloadPlugin(p)
       \/ Answer(p) \/ Thread(p)
  \/ \E c \in Clients : AddClient(c) \/ RemoveClient(c)
  \/ Update
  \/ Instruction

\* The threads run and downloads end; users need not answer.
Fairness ==
  /\ WF_vars(Instruction)
  /\ \A p \in Plugins : WF_vars(Thread(p)) /\ WF_vars(Downloaded(p) \/ DownloadFails(p))

Spec == Init /\ [][Next]_vars /\ Fairness

-----------------------------------------------------------------------------
(* Properties *)

\* Every variable holds a value of its kind.
TypeOK ==
  /\ connected \subseteq Clients /\ gone \subseteq Clients
  /\ meta \subseteq Plugins
  /\ DOMAIN instances \subseteq Plugins \X Clients
  /\ \A i \in DOMAIN instances :
       instances[i] \in [gen : 1 .. born, since : 0 .. sent, got : Seq(1 .. sent)]
  /\ DOMAIN caching \subseteq Plugins /\ \A p \in DOMAIN caching : caching[p] \in Seq(1 .. sent)
  /\ loading \subseteq DOMAIN caching /\ waiting \subseteq DOMAIN caching
  /\ toUnload \subseteq unloaded /\ reloads \subseteq Plugins
  /\ DOMAIN downloading \subseteq Remote
  /\ \A p \in Plugins : \A n \in DOMAIN jobs[p] : jobs[p][n].op \in {"load", "reload", "join", "events"}
  /\ inbox \in Seq([op : {"cache", "apply", "answered"}, plugin : Plugins])

\* Every client has every plugin: whoever comes while a plugin is being loaded,
\* on another thread, is either found by that load or has one of its own -
\* unless a load failed or the plugin has been unloaded.
EveryClientServed ==
  \A p \in meta \ (failed \cup unloaded), c \in connected :
    \/ <<p, c>> \in DOMAIN instances
    \/ \E n \in DOMAIN jobs[p] :
         \/ jobs[p][n].op \in {"load", "reload"}
         \/ jobs[p][n].op = "join" /\ jobs[p][n].client = c

Cached(p) == IF p \in DOMAIN caching THEN caching[p] ELSE <<>>

\* the places of the jobs that bring events to an instance
Own(i) ==
  {n \in DOMAIN jobs[i[1]] :
     LET j == jobs[i[1]][n]
     IN j.op = "events" /\ j.client = i[2] /\ j.gen = instances[i].gen}

Rising(s) == \A m, n \in DOMAIN s : m < n => s[m] < s[n]
AllBefore(s, t) == \A m \in DOMAIN s, n \in DOMAIN t : s[m] < t[n]

\* No instance gets an event twice, or after a later one, whatever loads overlap: what it
\* has got comes before what its jobs bring, that in the order of the jobs, and last what
\* is cached.
OrderKept ==
  \A i \in DOMAIN instances :
    LET got == instances[i].got
        cached == Cached(i[1])
        events(n) == jobs[i[1]][n].events
    IN /\ Rising(got) /\ Rising(cached) /\ AllBefore(got, cached)
       /\ \A n \in Own(i) :
            Rising(events(n)) /\ AllBefore(got, events(n)) /\ AllBefore(events(n), cached)
       /\ \A m, n \in Own(i) : m < n => AllBefore(events(m), events(n))

\* all that an instance has got, or will
Events(i) ==
  Range(instances[i].got) \cup Range(Cached(i[1]))
  \cup UNION {Range(jobs[i[1]][n].events) : n \in Own(i)}

\* An instance gets every event since its load was requested: those from before
\* it exists were cached and are sent when it has loaded.
Complete(p) ==
  \A i \in InstancesOf(p, instances) :
    instances[i].since + 1 .. sent \subseteq Events(i)

\* So it is for every plugin whose loads have not overlapped.
EventsKept == OrderKept /\ \A p \in meta \ overlapped : Complete(p)

\* "probably currently being loaded, we'll send them these events when they load"
\* (not those that are about to be replaced)
Replaced(p) == \E n \in DOMAIN jobs[p] : jobs[p][n].op = "reload"
EventsReachLoaded == \A p \in meta : Replaced(p) \/ Complete(p)

\* In the end no plugin's events are cached, but for those of plugins that wait
\* for the user, or a load of which failed; and a plugin that was unloaded, be
\* it while it was being loaded, is gone.
PluginsSettle ==
  []<>(\A p \in Plugins :
         /\ p \in DOMAIN caching => p \in waiting \cup failed
         /\ p \in unloaded \ (waiting \cup overlapped \cup failed) =>
              p \notin meta /\ InstancesOf(p, instances) = {})
=============================================================================
