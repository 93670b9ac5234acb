--------------------------- MODULE PinnedExecutor ---------------------------
(***************************************************************************)
(* The thread pool that runs every plugin's code                           *)
(* (zellij-server/src/plugins/pinned_executor.rs), with its callers in     *)
(* wasm_bridge.rs: the plugin thread, which loads local plugins, hands     *)
(* work to loaded ones and unloads them, and the asynchronous tasks that   *)
(* load a remote plugin once its download ends.                            *)
(*                                                                         *)
(* The three mutexes of the pool are explicit: an action takes a lock only *)
(* when it is free, and a lock kept over several actions names its holder. *)
(* Plugin ids are never used twice, so a plugin is loaded once.            *)
(***************************************************************************)
EXTENDS Integers, Sequences, FiniteSets

CONSTANTS
  LocalPlugins,   \* plugin ids the plugin thread loads itself
  RemotePlugins,  \* plugin ids loaded by a download task
  PluginThread,   \* the thread of wasm_bridge
  Downloaders,    \* the tasks that finish a download and load the plugin
  MaxThreads,     \* max_threads
  Instances,      \* running instances of a plugin, one per connected client
  MaxWork,        \* bound: plugin -> how many events are delivered to it
  SpawnMayFail,   \* the operating system may refuse a thread
  Free, NoThread, NoPlugin

Plugins == LocalPlugins \cup RemotePlugins
Callers == {PluginThread} \cup Downloaders
ThreadIdx == 0 .. MaxThreads - 1
Holders == Callers \cup ThreadIdx

ASSUME PoolAssumption ==
  /\ MaxThreads \in Nat \ {0}
  /\ IsFiniteSet(Plugins)
  /\ Instances \in Nat \ {0}
  /\ MaxWork \in [Plugins -> Nat]
  /\ SpawnMayFail \in BOOLEAN
  /\ Callers \cap ThreadIdx = {}
  /\ Free \notin Holders
  /\ NoThread \notin ThreadIdx
  /\ NoPlugin \notin Plugins

VARIABLES
  execution_threads,   \* the slots that hold Some(thread)
  threads_len,         \* execution_threads.len(), its None slots included
  next_thread_idx,
  plugin_assignments,  \* plugin -> thread index, NoThread when unassigned
  thread_plugins,      \* thread index -> plugins assigned to it
  jobs_in_flight,
  queue,               \* per thread: the channel of its jobs
  locks,               \* holder of each of the three mutexes
  caller,              \* per caller: where it is in the call it makes
  exec_pc,             \* per thread: where it is in its worker loop
  running,             \* per thread: the job it has taken
  instances,           \* plugin_map: running instances of each plugin
  work_left,           \* what remains of the bound MaxWork
  load_called,         \* plugins whose load was asked for
  accepted,            \* history: jobs of each plugin a channel accepted
  ran,                 \* history: jobs of each plugin that have run
  dropped              \* history: the kinds of calls given up on, per plugin

poolVars == <<execution_threads, threads_len, next_thread_idx>>
mapVars == <<plugin_assignments, thread_plugins>>
bridgeVars == <<instances, work_left, load_called>>
historyVars == <<accepted, ran, dropped>>
vars == <<poolVars, mapVars, jobs_in_flight, queue, locks, caller, exec_pc,
          running, bridgeVars, historyVars>>

LockNames == {"assignments", "thread_plugins", "threads"}
JobKinds == {"load", "work", "unload"}
CallerPcs == {"idle", "reg_assignments", "reg_thread_plugins", "reg_threads",
              "add_thread", "reg_record", "lookup", "send"}
ExecPcs == {"unspawned", "failed", "recv", "run", "unreg_assignments",
            "unreg_remove", "shrink_threads", "shrink_remove", "finish",
            "stopped"}

Work(p, k, n) == [plugin |-> p, kind |-> k, n |-> n]
Shutdown == [plugin |-> NoPlugin, kind |-> "shutdown", n |-> 0]
Idle == [pc |-> "idle", plugin |-> NoPlugin, kind |-> "work", left |-> 0,
         idx |-> NoThread]

(***************************************************************************)
(* Helpers                                                                 *)
(***************************************************************************)
IsFree(l) == locks[l] = Free
Holds(h, l) == locks[l] = h

\* The locks after holder h lets go of every lock in L that it holds.
Release(h, L) ==
  [l \in LockNames |-> IF l \in L /\ locks[l] = h THEN Free ELSE locks[l]]

LiveThreads == {i \in ThreadIdx : execution_threads[i]}
IdleThreads == {i \in LiveThreads : jobs_in_flight[i] = 0}
Load(i) == Cardinality(thread_plugins[i])

\* The first of the least loaded threads of S.
LeastLoaded(S) ==
  CHOOSE i \in S :
    \A j \in S : Load(i) < Load(j) \/ (Load(i) = Load(j) /\ i <= j)

\* The vector, its empty slots included, is shorter than max_threads.
RoomToGrow == threads_len < MaxThreads

FetchAdd == next_thread_idx' = next_thread_idx + 1

\* Variant: busy is a flag and not a count.
FlagBusy(i) == [jobs_in_flight EXCEPT ![i] = 1]

MarkBusy(i) == [jobs_in_flight EXCEPT ![i] = @ + 1]

\* Variant: a job goes to whichever live thread has the fewest plugins.
AnyThread(p) == IF plugin_assignments[p] = NoThread
                  THEN NoThread ELSE LeastLoaded(LiveThreads)

ThreadOf(p) == plugin_assignments[p]

\* thread_plugins once p is out of the set of the thread it is assigned to.
Unlisted(p) == [i \in ThreadIdx |-> IF plugin_assignments[p] = i
                                      THEN thread_plugins[i] \ {p}
                                      ELSE thread_plugins[i]]

\* Variant: a thread that is not busy may go, whoever is assigned to it.
RemovableWhenIdle == {i \in IdleThreads : i >= 1}

\* try_shrink_pool: the live threads no plugin is assigned to, thread 0 excepted.
Removable == {i \in LiveThreads : i >= 1 /\ thread_plugins[i] = {}}

\* Variant: the slot is read and not taken.
KeptAnyway(i) == execution_threads[i]

\* What is left in slot i once the removable threads are taken out.
Kept(i) == execution_threads[i] /\ i \notin Removable

\* The receiving end of a thread's channel exists from its spawn to its exit.
Receiving(i) == exec_pc[i] \notin {"unspawned", "failed", "stopped"}

Moved(c, pc) == [caller EXCEPT ![c].pc = pc]

\* A call of execute_for_plugin returns: the caller makes the remaining calls
\* (unload_plugin makes one per running instance), then is idle again.
Returned(c) ==
  LET call == caller[c] IN
  [caller EXCEPT ![c] =
     IF call.left > 1
       THEN [call EXCEPT !.pc = "lookup", !.left = call.left - 1]
       ELSE Idle]

(***************************************************************************)
(* Initial state: PinnedExecutor::new has spawned thread 0.                *)
(***************************************************************************)
Init ==
  /\ execution_threads = [i \in ThreadIdx |-> i = 0]
  /\ threads_len = 1
  /\ next_thread_idx = 1
  /\ plugin_assignments = [p \in Plugins |-> NoThread]
  /\ thread_plugins = [i \in ThreadIdx |-> {}]
  /\ jobs_in_flight = [i \in ThreadIdx |-> 0]
  /\ queue = [i \in ThreadIdx |-> <<>>]
  /\ locks = [l \in LockNames |-> Free]
  /\ caller = [c \in Callers |-> Idle]
  /\ exec_pc = [i \in ThreadIdx |-> IF i = 0 THEN "recv" ELSE "unspawned"]
  /\ running = [i \in ThreadIdx |-> Shutdown]
  /\ instances = [p \in Plugins |-> 0]
  /\ work_left = MaxWork
  /\ load_called = {}
  /\ accepted = [p \in Plugins |-> 0]
  /\ ran = [p \in Plugins |-> 0]
  /\ dropped = [p \in Plugins |-> {}]

(***************************************************************************)
(* The callers                                                             *)
(***************************************************************************)
\* wasm_bridge loads plugin p: execute_plugin_load.
LoadPlugin(c, p) ==
  /\ caller[c].pc = "idle"
  /\ p \notin load_called
  /\ p \in (IF c = PluginThread THEN LocalPlugins ELSE RemotePlugins)
  /\ load_called' = load_called \cup {p}
  /\ caller' = [caller EXCEPT ![c] = [pc |-> "reg_assignments", plugin |-> p,
                                      kind |-> "load", left |-> 1,
                                      idx |-> NoThread]]
  /\ UNCHANGED <<poolVars, mapVars, jobs_in_flight, queue, locks, exec_pc,
                 running, instances, work_left, historyVars>>

\* wasm_bridge delivers an event to a plugin of the plugin map.
DeliverWork(p) ==
  /\ caller[PluginThread].pc = "idle"
  /\ instances[p] > 0
  /\ work_left[p] > 0
  /\ work_left' = [work_left EXCEPT ![p] = @ - 1]
  /\ caller' = [caller EXCEPT ![PluginThread] =
                  [pc |-> "lookup", plugin |-> p, kind |-> "work", left |-> 1,
                   idx |-> NoThread]]
  /\ UNCHANGED <<poolVars, mapVars, jobs_in_flight, queue, locks, exec_pc,
                 running, instances, load_called, historyVars>>

\* unload_plugin: every running instance leaves the plugin map, then a cleanup
\* is scheduled for each of them.
UnloadPlugin(p) ==
  /\ caller[PluginThread].pc = "idle"
  /\ instances[p] > 0
  /\ instances' = [instances EXCEPT ![p] = 0]
  /\ caller' = [caller EXCEPT ![PluginThread] =
                  [pc |-> "lookup", plugin |-> p, kind |-> "unload",
                   left |-> instances[p], idx |-> NoThread]]
  /\ UNCHANGED <<poolVars, mapVars, jobs_in_flight, queue, locks, exec_pc,
                 running, work_left, load_called, historyVars>>

\* register_plugin locks plugin_assignments; a plugin that has a thread keeps it.
RegisterLockAssignments(c) ==
  /\ caller[c].pc = "reg_assignments"
  /\ IsFree("assignments")
  /\ IF plugin_assignments[caller[c].plugin] # NoThread
       THEN /\ caller' = Moved(c, "lookup")
            /\ UNCHANGED locks
       ELSE /\ caller' = Moved(c, "reg_thread_plugins")
            /\ locks' = [locks EXCEPT !["assignments"] = c]
  /\ UNCHANGED <<poolVars, mapVars, jobs_in_flight, queue, exec_pc, running,
                 bridgeVars, historyVars>>

RegisterLockThreadPlugins(c) ==
  /\ caller[c].pc = "reg_thread_plugins"
  /\ IsFree("thread_plugins")
  /\ locks' = [locks EXCEPT !["thread_plugins"] = c]
  /\ caller' = Moved(c, "reg_threads")
  /\ UNCHANGED <<poolVars, mapVars, jobs_in_flight, queue, exec_pc, running,
                 bridgeVars, historyVars>>

\* With all three locks: the least loaded thread that is not busy, or the least
\* loaded of all when the vector has no room for one more.
ChooseThread(c) ==
  /\ caller[c].pc = "reg_threads"
  /\ IsFree("threads")
  /\ IdleThreads # {} \/ ~RoomToGrow
  /\ LET candidates == IF IdleThreads # {} THEN IdleThreads ELSE LiveThreads
         choice == IF candidates = {} THEN 0 ELSE LeastLoaded(candidates)
     IN  caller' = [caller EXCEPT ![c].pc = "reg_record", ![c].idx = choice]
  /\ locks' = [locks EXCEPT !["threads"] = c]
  /\ UNCHANGED <<poolVars, mapVars, jobs_in_flight, queue, exec_pc, running,
                 bridgeVars, historyVars>>

\* All threads are busy and the vector may grow: take the next index and drop
\* the lock on the threads, to be taken again by add_thread.
ReserveThread(c) ==
  /\ caller[c].pc = "reg_threads"
  /\ IsFree("threads")
  /\ IdleThreads = {}
  /\ RoomToGrow
  /\ FetchAdd
  /\ caller' = [caller EXCEPT ![c].pc = "add_thread", ![c].idx = next_thread_idx]
  /\ UNCHANGED <<execution_threads, threads_len, mapVars, jobs_in_flight, queue,
                 locks, exec_pc, running, bridgeVars, historyVars>>

\* add_thread: spawn a worker and put it in its slot. A spawn the system refuses
\* is logged, and leaves a slot whose channel has no receiver.
AddThread(c) ==
  /\ caller[c].pc = "add_thread"
  /\ IsFree("threads")
  /\ LET i == caller[c].idx IN
     /\ execution_threads' = [execution_threads EXCEPT ![i] = TRUE]
     /\ threads_len' = IF threads_len <= i THEN i + 1 ELSE threads_len
     /\ \E spawned \in {TRUE, ~SpawnMayFail} :
          exec_pc' = [exec_pc EXCEPT ![i] = IF spawned THEN "recv" ELSE "failed"]
  /\ caller' = Moved(c, "reg_record")
  /\ UNCHANGED <<next_thread_idx, mapVars, jobs_in_flight, queue, locks, running,
                 bridgeVars, historyVars>>

\* register_plugin records the thread in both maps and drops its locks.
RecordAssignment(c) ==
  /\ caller[c].pc = "reg_record"
  /\ LET p == caller[c].plugin
         i == caller[c].idx
     IN  /\ plugin_assignments' = [plugin_assignments EXCEPT ![p] = i]
         /\ thread_plugins' = [thread_plugins EXCEPT ![i] = @ \cup {p}]
  /\ locks' = Release(c, LockNames)
  /\ caller' = Moved(c, "lookup")
  /\ UNCHANGED <<poolVars, jobs_in_flight, queue, exec_pc, running, bridgeVars,
                 historyVars>>

GiveUp(c) ==
  /\ dropped' = [dropped EXCEPT ![caller[c].plugin] = @ \cup {caller[c].kind}]
  /\ caller' = Returned(c)

\* execute_for_plugin reads the plugin's thread and drops the lock.
LookupThread(c) ==
  /\ caller[c].pc = "lookup"
  /\ IsFree("assignments")
  /\ LET i == ThreadOf(caller[c].plugin) IN
       IF i = NoThread
         THEN GiveUp(c)
         ELSE /\ caller' = [caller EXCEPT ![c].pc = "send", ![c].idx = i]
              /\ UNCHANGED dropped
  /\ UNCHANGED <<poolVars, mapVars, jobs_in_flight, queue, locks, exec_pc,
                 running, bridgeVars, accepted, ran>>

\* execute_for_plugin marks the thread busy and sends it the job, both under the
\* lock on the threads; a failed send takes the mark back.
SendJob(c) ==
  /\ caller[c].pc = "send"
  /\ IsFree("threads")
  /\ LET i == caller[c].idx
         p == caller[c].plugin
     IN  IF execution_threads[i] /\ Receiving(i)
           THEN /\ jobs_in_flight' = MarkBusy(i)
                /\ queue' = [queue EXCEPT ![i] =
                               Append(@, Work(p, caller[c].kind, accepted[p] + 1))]
                /\ accepted' = [accepted EXCEPT ![p] = @ + 1]
                /\ caller' = Returned(c)
                /\ UNCHANGED dropped
           ELSE /\ GiveUp(c)
                /\ UNCHANGED <<jobs_in_flight, queue, accepted>>
  /\ UNCHANGED <<poolVars, mapVars, locks, exec_pc, running, bridgeVars, ran>>

(***************************************************************************)
(* The worker loop of an execution thread                                  *)
(***************************************************************************)
TakeJob(t) ==
  /\ exec_pc[t] = "recv"
  /\ queue[t] # <<>>
  /\ running' = [running EXCEPT ![t] = Head(queue[t])]
  /\ queue' = [queue EXCEPT ![t] = Tail(@)]
  /\ exec_pc' = [exec_pc EXCEPT ![t] = IF Head(queue[t]) = Shutdown
                                         THEN "stopped" ELSE "run"]
  /\ UNCHANGED <<poolVars, mapVars, jobs_in_flight, locks, caller, bridgeVars,
                 historyVars>>

\* The closure runs. A load puts the plugin's instances in the plugin map; a
\* cleanup goes on to unregister_plugin.
RunJob(t) ==
  /\ exec_pc[t] = "run"
  /\ LET job == running[t] IN
     /\ ran' = [ran EXCEPT ![job.plugin] = @ + 1]
     /\ instances' = IF job.kind = "load"
                       THEN [instances EXCEPT ![job.plugin] = Instances]
                       ELSE instances
     /\ exec_pc' = [exec_pc EXCEPT ![t] = IF job.kind = "unload"
                                            THEN "unreg_assignments"
                                            ELSE "finish"]
  /\ UNCHANGED <<poolVars, mapVars, jobs_in_flight, queue, locks, caller,
                 running, work_left, load_called, accepted, dropped>>

UnregisterLockAssignments(t) ==
  /\ exec_pc[t] = "unreg_assignments"
  /\ IsFree("assignments")
  /\ locks' = [locks EXCEPT !["assignments"] = t]
  /\ exec_pc' = [exec_pc EXCEPT ![t] = "unreg_remove"]
  /\ UNCHANGED <<poolVars, mapVars, jobs_in_flight, queue, caller, running,
                 bridgeVars, historyVars>>

\* unregister_plugin takes the second lock, forgets the plugin in both maps and
\* drops both locks.
UnregisterRemove(t) ==
  /\ exec_pc[t] = "unreg_remove"
  /\ IsFree("thread_plugins")
  /\ plugin_assignments' =
       [plugin_assignments EXCEPT ![running[t].plugin] = NoThread]
  /\ thread_plugins' = Unlisted(running[t].plugin)
  /\ locks' = Release(t, {"assignments"})
  /\ exec_pc' = [exec_pc EXCEPT ![t] = "shrink_threads"]
  /\ UNCHANGED <<poolVars, jobs_in_flight, queue, caller, running, bridgeVars,
                 historyVars>>

\* try_shrink_pool locks the threads first ...
ShrinkLockThreads(t) ==
  /\ exec_pc[t] = "shrink_threads"
  /\ IsFree("threads")
  /\ locks' = [locks EXCEPT !["threads"] = t]
  /\ exec_pc' = [exec_pc EXCEPT ![t] = "shrink_remove"]
  /\ UNCHANGED <<poolVars, mapVars, jobs_in_flight, queue, caller, running,
                 bridgeVars, historyVars>>

\* ... then thread_plugins, and takes every removable thread out of its slot
\* with a last message.
ShrinkRemove(t) ==
  /\ exec_pc[t] = "shrink_remove"
  /\ IsFree("thread_plugins")
  /\ execution_threads' = [i \in ThreadIdx |-> Kept(i)]
  /\ queue' = [i \in ThreadIdx |-> IF i \in Removable /\ Receiving(i)
                                     THEN Append(queue[i], Shutdown)
                                     ELSE queue[i]]
  /\ locks' = Release(t, {"threads"})
  /\ exec_pc' = [exec_pc EXCEPT ![t] = "finish"]
  /\ UNCHANGED <<threads_len, next_thread_idx, mapVars, jobs_in_flight, caller,
                 running, bridgeVars, historyVars>>

\* The worker is no longer busy with this job.
FinishJob(t) ==
  /\ exec_pc[t] = "finish"
  /\ jobs_in_flight' = [jobs_in_flight EXCEPT ![t] = @ - 1]
  /\ exec_pc' = [exec_pc EXCEPT ![t] = "recv"]
  /\ running' = [running EXCEPT ![t] = Shutdown]
  /\ UNCHANGED <<poolVars, mapVars, queue, locks, caller, bridgeVars, historyVars>>

(***************************************************************************)
(* The specification                                                       *)
(***************************************************************************)
\* The steps that finish a call a caller has begun.
CallStep(c) ==
  \/ RegisterLockAssignments(c)
  \/ RegisterLockThreadPlugins(c)
  \/ ChooseThread(c)
  \/ ReserveThread(c)
  \/ AddThread(c)
  \/ RecordAssignment(c)
  \/ LookupThread(c)
  \/ SendJob(c)

WorkerStep(t) ==
  \/ TakeJob(t)
  \/ RunJob(t)
  \/ UnregisterLockAssignments(t)
  \/ UnregisterRemove(t)
  \/ ShrinkLockThreads(t)
  \/ ShrinkRemove(t)
  \/ FinishJob(t)

Next ==
  \/ \E c \in Callers, p \in Plugins : LoadPlugin(c, p)
  \/ \E p \in Plugins : DeliverWork(p) \/ UnloadPlugin(p)
  \/ \E c \in Callers : CallStep(c)
  \/ \E t \in ThreadIdx : WorkerStep(t)

Spec == Init /\ [][Next]_vars

\* Threads are scheduled: one that can go on does. Nobody has to load, use or
\* unload a plugin.
Fairness ==
  /\ \A c \in Callers : WF_vars(CallStep(c))
  /\ \A t \in ThreadIdx : WF_vars(WorkerStep(t))

FairSpec == Spec /\ Fairness

(***************************************************************************)
(* Properties                                                              *)
(***************************************************************************)
Message == [plugin : Plugins \cup {NoPlugin}, kind : JobKinds \cup {"shutdown"},
            n : Nat]
Call == [pc : CallerPcs, plugin : Plugins \cup {NoPlugin}, kind : JobKinds,
         left : Nat, idx : ThreadIdx \cup {NoThread}]

\* Every variable keeps its type (that no counter of jobs_in_flight goes below
\* zero is part of BusyCountExact): in particular the index reserved for a new
\* thread never passes max_threads, though it is advanced and never given back.
TypeOK ==
  /\ execution_threads \in [ThreadIdx -> BOOLEAN]
  /\ threads_len \in 1 .. MaxThreads
  /\ next_thread_idx \in 1 .. MaxThreads
  /\ plugin_assignments \in [Plugins -> ThreadIdx \cup {NoThread}]
  /\ thread_plugins \in [ThreadIdx -> SUBSET Plugins]
  /\ jobs_in_flight \in [ThreadIdx -> Int]
  /\ queue \in [ThreadIdx -> Seq(Message)]
  /\ locks \in [LockNames -> Holders \cup {Free}]
  /\ caller \in [Callers -> Call]
  /\ exec_pc \in [ThreadIdx -> ExecPcs]
  /\ running \in [ThreadIdx -> Message]
  /\ instances \in [Plugins -> {0, Instances}]
  /\ work_left \in [Plugins -> Nat]
  /\ load_called \subseteq Plugins
  /\ accepted \in [Plugins -> Nat]
  /\ ran \in [Plugins -> Nat]
  /\ dropped \in [Plugins -> SUBSET JobKinds]

\* A thread is not shut down under a plugin: the slot of an assigned plugin is
\* live, whatever the interleaving of registering, expanding and shrinking.
AssignedThreadLive ==
  \A p \in Plugins :
    plugin_assignments[p] # NoThread => execution_threads[plugin_assignments[p]]

\* The two maps of the pool say the same of every plugin and thread, so that
\* loads are what they seem and a thread that is in use is never thought empty.
MapsAgree ==
  \A p \in Plugins, i \in ThreadIdx :
    p \in thread_plugins[i] <=> plugin_assignments[p] = i

InJob(t) == exec_pc[t] \in {"run", "unreg_assignments", "unreg_remove",
                            "shrink_threads", "shrink_remove", "finish"}

WorkQueued(t) == {k \in DOMAIN queue[t] : queue[t][k] # Shutdown}

\* A thread is taken for busy exactly while it has jobs queued or running: the
\* counter, raised by callers and lowered by the worker, never drifts.
BusyCountExact ==
  \A t \in ThreadIdx :
    jobs_in_flight[t] = Cardinality(WorkQueued(t)) + (IF InJob(t) THEN 1 ELSE 0)

\* No job is lost to a shutdown: a shutdown message is the last of its queue, it
\* is only sent to a thread that has left its slot, and nothing waits in the
\* queue of a thread that has stopped.
NothingBehindShutdown ==
  \A t \in ThreadIdx :
    /\ \A k \in DOMAIN queue[t] :
         queue[t][k] = Shutdown => k = Len(queue[t]) /\ ~execution_threads[t]
    /\ exec_pc[t] = "stopped" => queue[t] = <<>> /\ ~execution_threads[t]

\* The jobs of one plugin run one after the other, each once, in the order they
\* were sent: what pinning a plugin to a thread is for.
PinnedOrder ==
  \A t \in ThreadIdx :
    exec_pc[t] = "run" => running[t].n = ran[running[t].plugin] + 1

\* A reserved index belongs to one caller and no thread was ever spawned at it,
\* though the lock on the threads is dropped between the two.
SpawnsIntoFreshSlot ==
  \A c \in Callers :
    caller[c].pc = "add_thread" =>
      /\ exec_pc[caller[c].idx] = "unspawned"
      /\ ~execution_threads[caller[c].idx]

\* What the two maps and the slots say of a plugin's thread holds over every
\* expansion and shrinking, and no slot is given to two threads.
AssignmentsHold == AssignedThreadLive /\ MapsAgree /\ SpawnsIntoFreshSlot

\* No event of a plugin that runs is given up on ("Failed to find thread"), though its
\* thread is read under one lock and used under another and threads are removed
\* meanwhile.
EventsKept == \A p \in Plugins : "work" \notin dropped[p]

\* A plugin's jobs are all run by its thread, in order: none is dropped by the caller,
\* lost behind a shutdown or overtaken.
JobsKeptInOrder == EventsKept /\ NothingBehindShutdown /\ PinnedOrder

\* register_plugin has thread_plugins and waits for the threads, and
\* try_shrink_pool has the threads and waits for thread_plugins.
LockCycle ==
  \E c \in Callers, t \in ThreadIdx :
    caller[c].pc \in {"reg_threads", "add_thread"} /\ exec_pc[t] = "shrink_remove"

\* Unless the two run into that lock cycle, the pool always catches up again: every
\* job a thread has accepted is run, over every expansion and shrinking.
AcceptedJobsRun ==
  []~LockCycle => []<>(\A p \in Plugins : ran[p] = accepted[p])

\* "shrinks when plugins unload": a worker that begins to shrink the pool does
\* so and goes back to its jobs.
ShrinkCompletes ==
  \A t \in ThreadIdx : (exec_pc[t] = "shrink_threads") ~> (exec_pc[t] = "recv")
=============================================================================
