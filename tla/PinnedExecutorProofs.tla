------------------------ MODULE PinnedExecutorProofs ------------------------
(***************************************************************************)
(* For every number of plugins, callers, threads and instances: the types  *)
(* of PinnedExecutor, that no thread is shut down under a plugin, that the *)
(* count of a thread's jobs is exact, and that a plugin's jobs are run in  *)
(* the order they were sent, its events never given up on.                 *)
(***************************************************************************)
EXTENDS PinnedExecutor, FiniteSetTheorems, SequenceTheorems, WellFoundedInduction, TLAPS

(***************************************************************************)
(* The inductive invariant. A caller between its first lock and its last   *)
(* owns the maps, a worker that is about to remove a plugin or a thread    *)
(* owns the lock that keeps its reading of the pool true, and the indices  *)
(* at or past threads_len have never been used.                            *)
(***************************************************************************)
Registering == {"reg_thread_plugins", "reg_threads", "add_thread", "reg_record"}
Mapping == {"reg_threads", "add_thread", "reg_record"}

CallsNameTheirThread ==
  \A c \in Callers :
    /\ caller[c].pc # "idle" => caller[c].plugin \in Plugins
    /\ caller[c].pc \in {"add_thread", "reg_record", "send"}
         => caller[c].idx \in ThreadIdx

LocksHeld ==
  /\ \A c \in Callers :
       /\ caller[c].pc \in Registering => locks["assignments"] = c
       /\ caller[c].pc \in Mapping => locks["thread_plugins"] = c
  /\ \A t \in ThreadIdx :
       /\ exec_pc[t] = "unreg_remove" => locks["assignments"] = t
       /\ exec_pc[t] = "shrink_remove" => locks["threads"] = t

SlotsBeyondUnused ==
  \A i \in ThreadIdx :
    i >= threads_len => ~execution_threads[i] /\ exec_pc[i] = "unspawned"

IndexReserved ==
  /\ (\A c \in Callers : caller[c].pc # "add_thread")
       => next_thread_idx = threads_len
  /\ \A c \in Callers :
       caller[c].pc = "add_thread" =>
         /\ caller[c].idx = threads_len
         /\ next_thread_idx = threads_len + 1

NotYetAssigned ==
  \A c \in Callers :
    caller[c].pc \in Registering
      => plugin_assignments[caller[c].plugin] = NoThread

RecordsLiveThread ==
  \A c \in Callers :
    caller[c].pc = "reg_record" => execution_threads[caller[c].idx]

IInv ==
  /\ TypeOK
  /\ CallsNameTheirThread
  /\ LocksHeld
  /\ SlotsBeyondUnused
  /\ IndexReserved
  /\ NotYetAssigned
  /\ RecordsLiveThread
  /\ execution_threads[0]
  /\ MapsAgree
  /\ AssignedThreadLive

-----------------------------------------------------------------------------
\* A nonempty set of naturals has a least element.
LEMMA LeastNatural ==
  ASSUME NEW T, T \subseteq Nat, T # {}
  PROVE  \E m \in T : \A k \in T : m <= k
<1> DEFINE Less == {ss \in Nat \X Nat : ss[1] < ss[2]}
<1>1. IsWellFoundedOn(Less, Nat)
  BY NatLessThanWellFounded DEF OpToRel
<1>2. \E m \in T : \A k \in T : ~(<<k, m>> \in Less)
  <2> HIDE DEF Less
  <2> QED
    BY <1>1, WFMin
<1>3. PICK m \in T : \A k \in T : ~(<<k, m>> \in Less)
  BY <1>2
<1>4. \A k \in T : m <= k
  <2> SUFFICES ASSUME NEW k \in T PROVE m <= k
    OBVIOUS
  <2>1. ~(<<k, m>> \in Less)
    BY <1>3
  <2>2. k \in Nat /\ m \in Nat
    OBVIOUS
  <2>3. ~(k < m)
    BY <2>1, <2>2
  <2> QED
    BY <2>2, <2>3
<1> QED
  BY <1>4

\* A nonempty set of live threads has a least loaded one, so that the choice of
\* register_plugin is one of the threads it chooses from.
LEMMA LeastLoadedChosen ==
  ASSUME TypeOK, NEW S, S \subseteq ThreadIdx, S # {}
  PROVE  LeastLoaded(S) \in S
<1>1. \A i \in ThreadIdx : Load(i) \in Nat
  <2> SUFFICES ASSUME NEW i \in ThreadIdx PROVE Load(i) \in Nat
    OBVIOUS
  <2>1. thread_plugins[i] \subseteq Plugins
    BY DEF TypeOK
  <2>2. IsFiniteSet(thread_plugins[i])
    BY <2>1, PoolAssumption, FS_Subset DEF PoolAssumption
  <2> QED
    BY <2>2, FS_CardinalityType DEF Load
<1> DEFINE Loads == {Load(i) : i \in S}
<1>2. \E m \in Loads : \A y \in Loads : m <= y
  <2>1. Loads \subseteq Nat /\ Loads # {}
    BY <1>1
  <2> HIDE DEF Loads
  <2> QED
    BY <2>1, LeastNatural
<1>3. PICK m \in Loads : \A i \in S : m <= Load(i)
  BY <1>2
<1> DEFINE Best == {i \in S : Load(i) = m}
<1>4. Best \subseteq Nat /\ Best # {}
  BY <1>3, PoolAssumption DEF ThreadIdx, PoolAssumption
<1>5. PICK k \in Best : \A j \in Best : k <= j
  <2> HIDE DEF Best
  <2> QED
    BY <1>4, LeastNatural
<1>6. \A j \in S : Load(k) < Load(j) \/ (Load(k) = Load(j) /\ k <= j)
  BY <1>1, <1>3, <1>5
<1> QED
  BY <1>5, <1>6 DEF LeastLoaded

\* The record a caller is left with when a call returns.
LEMMA ReturnedType ==
  ASSUME TypeOK, NEW c \in Callers
  PROVE  /\ Returned(c) \in [Callers -> Call]
         /\ \A d \in Callers : d # c => Returned(c)[d] = caller[d]
         /\ Returned(c)[c].pc \in {"idle", "lookup"}
         /\ Returned(c)[c].pc = "lookup" => Returned(c)[c].plugin = caller[c].plugin
<1>1. caller[c] \in Call /\ caller \in [Callers -> Call]
  BY DEF TypeOK
<1>2. Idle \in Call
  BY DEF Idle, Call, CallerPcs, JobKinds
<1>3. CASE caller[c].left > 1
  <2>1. Returned(c) =
          [caller EXCEPT ![c] = [caller[c] EXCEPT !.pc = "lookup",
                                                  !.left = caller[c].left - 1]]
    BY <1>1, <1>3 DEF Returned
  <2>2. [caller[c] EXCEPT !.pc = "lookup", !.left = caller[c].left - 1] \in Call
    <3> SUFFICES ASSUME NEW r \in Call, r.left > 1
                 PROVE  [r EXCEPT !.pc = "lookup", !.left = r.left - 1] \in Call
      BY <1>1, <1>3
    <3>1. r.left - 1 \in Nat
      BY DEF Call
    <3> QED
      BY <3>1 DEF Call, CallerPcs
  <2> QED
    BY <1>1, <2>1, <2>2 DEF Call
<1>4. CASE ~(caller[c].left > 1)
  <2>1. Returned(c) = [caller EXCEPT ![c] = Idle]
    BY <1>1, <1>4 DEF Returned
  <2> QED
    BY <1>1, <1>2, <2>1 DEF Idle
<1> QED
  BY <1>3, <1>4
-----------------------------------------------------------------------------
LEMMA InitInv == Init => IInv
<1> SUFFICES ASSUME Init PROVE IInv
  OBVIOUS
<1> USE PoolAssumption DEF PoolAssumption, Init, ThreadIdx
<1>1. TypeOK
  <2>1. Idle \in Call /\ Shutdown \in Message
    BY DEF Idle, Call, CallerPcs, JobKinds, Shutdown, Message
  <2>2. NoThread \notin {} /\ <<>> \in Seq(Message)
    OBVIOUS
  <2> QED
    BY <2>1, <2>2 DEF TypeOK, ExecPcs, LockNames, Holders
<1>2. CallsNameTheirThread
  BY DEF CallsNameTheirThread, Idle
<1>3. LocksHeld
  BY DEF LocksHeld, Registering, Mapping, Idle
<1>4. SlotsBeyondUnused
  <2>1. threads_len = 1
    OBVIOUS
  <2>2. \A i \in ThreadIdx : i >= 1 => i # 0
    OBVIOUS
  <2>3. \A i \in ThreadIdx : i # 0 => ~execution_threads[i] /\ exec_pc[i] = "unspawned"
    BY Zenon
  <2> QED
    BY <2>1, <2>2, <2>3, Zenon DEF SlotsBeyondUnused
<1>5. IndexReserved
  BY DEF IndexReserved, Idle
<1>6. RecordsLiveThread
  BY DEF RecordsLiveThread, Idle
<1>7. execution_threads[0]
  <2>1. 0 \in ThreadIdx
    OBVIOUS
  <2> QED
    BY <2>1, Zenon
<1>8. MapsAgree
  BY DEF MapsAgree
<1>9. AssignedThreadLive
  BY DEF AssignedThreadLive
<1>10. NotYetAssigned
  BY DEF NotYetAssigned, Registering, Idle
<1> QED
  BY <1>1, <1>2, <1>3, <1>4, <1>5, <1>6, <1>7, <1>8, <1>9, <1>10 DEF IInv

\* The thread register_plugin chooses is a live one.
LEMMA ChoiceIsLive ==
  ASSUME IInv, NEW c \in Callers, ChooseThread(c)
  PROVE  \E i \in LiveThreads :
           caller' = [caller EXCEPT ![c].pc = "reg_record", ![c].idx = i]
<1> DEFINE candidates == IF IdleThreads # {} THEN IdleThreads ELSE LiveThreads
<1>1. 0 \in LiveThreads
  BY PoolAssumption DEF IInv, LiveThreads, ThreadIdx, PoolAssumption
<1>2. candidates # {} /\ candidates \subseteq LiveThreads
  BY <1>1 DEF IdleThreads
<1>3. LiveThreads \subseteq ThreadIdx
  BY DEF LiveThreads
<1>4. LeastLoaded(candidates) \in candidates
  <2> HIDE DEF candidates
  <2> QED
    BY <1>2, <1>3, LeastLoadedChosen DEF IInv
<1>5. caller' = [caller EXCEPT ![c].pc = "reg_record",
                               ![c].idx = LeastLoaded(candidates)]
  BY <1>2 DEF ChooseThread
<1> QED
  BY <1>2, <1>4, <1>5

\* Only one caller is registering, and there is room for the index it reserves.
LEMMA RoomForIndex ==
  ASSUME IInv, NEW c \in Callers, ReserveThread(c)
  PROVE  /\ next_thread_idx = threads_len
         /\ next_thread_idx \in ThreadIdx
         /\ \A d \in Callers : d # c => caller[d].pc \notin Mapping
<1>1. \A d \in Callers : d # c => caller[d].pc \notin Mapping
  BY DEF IInv, LocksHeld, ReserveThread, Mapping
<1>2. \A d \in Callers : caller[d].pc # "add_thread"
  BY <1>1 DEF Mapping, ReserveThread
<1>3. next_thread_idx = threads_len
  BY <1>2 DEF IInv, IndexReserved
<1> QED
  BY <1>1, <1>3, PoolAssumption
  DEF IInv, TypeOK, ReserveThread, RoomToGrow, ThreadIdx, PoolAssumption

\* The record of a caller that goes on to its next step.
LEMMA MovedType ==
  ASSUME TypeOK, NEW c \in Callers, NEW pc \in CallerPcs
  PROVE  Moved(c, pc) \in [Callers -> Call]
<1>1. ASSUME NEW r \in Call PROVE [r EXCEPT !.pc = pc] \in Call
  BY DEF Call
<1> QED
  BY <1>1 DEF TypeOK, Moved

\* The record of a caller that has been told a thread.
LEMMA PlacedType ==
  ASSUME TypeOK, NEW c \in Callers, NEW pc \in CallerPcs, NEW i \in ThreadIdx
  PROVE  [caller EXCEPT ![c].pc = pc, ![c].idx = i] \in [Callers -> Call]
<1>1. ASSUME NEW r \in Call PROVE [r EXCEPT !.pc = pc, !.idx = i] \in Call
  BY DEF Call
<1>2. [caller EXCEPT ![c].pc = pc, ![c].idx = i]
        = [caller EXCEPT ![c] = [caller[c] EXCEPT !.pc = pc, !.idx = i]]
  BY DEF TypeOK, Call
<1>3. caller[c] \in Call
  BY DEF TypeOK
<1> QED
  BY <1>1, <1>2, <1>3 DEF TypeOK

LEMMA ReleaseType ==
  ASSUME TypeOK, NEW h, NEW L
  PROVE  Release(h, L) \in [LockNames -> Holders \cup {Free}]
BY DEF TypeOK, Release

\* Counting one more at any place of a function leaves it a function to Nat.
LEMMA CountedType ==
  ASSUME NEW S, NEW f \in [S -> Nat], NEW x
  PROVE  [f EXCEPT ![x] = @ + 1] \in [S -> Nat]
<1> DEFINE g == [f EXCEPT ![x] = @ + 1]
<1>1. ASSUME NEW y \in S PROVE g[y] \in Nat
  <2>1. f[y] \in Nat
    OBVIOUS
  <2>2. g[y] = IF y = x THEN f[y] + 1 ELSE f[y]
    OBVIOUS
  <2> QED
    BY <2>1, <2>2
<1> QED
  BY <1>1

\* Sending a message on any channel leaves the channels well typed.
LEMMA SentType ==
  ASSUME NEW S, NEW M, NEW f \in [S -> Seq(M)], NEW x, NEW m \in M
  PROVE  [f EXCEPT ![x] = Append(@, m)] \in [S -> Seq(M)]
<1> DEFINE g == [f EXCEPT ![x] = Append(@, m)]
<1>1. ASSUME NEW y \in S PROVE g[y] \in Seq(M)
  <2>1. f[y] \in Seq(M) /\ Append(f[y], m) \in Seq(M)
    OBVIOUS
  <2>2. g[y] = IF y = x THEN Append(f[y], m) ELSE f[y]
    OBVIOUS
  <2> QED
    BY <2>1, <2>2
<1> QED
  BY <1>1

\* execute_for_plugin moves its caller on, or ends the call.
LEMMA ExecuteStep ==
  ASSUME IInv, NEW c \in Callers, LookupThread(c) \/ SendJob(c)
  PROVE  /\ \A d \in Callers : d # c => caller'[d] = caller[d]
         /\ caller[c].pc \in {"lookup", "send"}
         /\ caller'[c].pc \in {"idle", "lookup", "send"}
         /\ caller'[c].pc # "idle" => caller'[c].plugin = caller[c].plugin
         /\ caller'[c].pc = "send" => caller'[c].idx \in ThreadIdx
<1>0. TypeOK /\ caller[c].pc \in {"lookup", "send"}
  BY DEF IInv, LookupThread, SendJob
<1>1. CASE caller' = Returned(c)
  BY <1>0, <1>1, ReturnedType
<1>2. CASE caller' # Returned(c)
  <2>1. LookupThread(c) /\ plugin_assignments[caller[c].plugin] # NoThread
    BY <1>2 DEF LookupThread, SendJob, GiveUp, ThreadOf
  <2>2. plugin_assignments[caller[c].plugin] \in ThreadIdx
    BY <2>1 DEF LookupThread, CallsNameTheirThread, IInv, TypeOK
  <2>3. caller' = [caller EXCEPT ![c].pc = "send",
                                 ![c].idx = plugin_assignments[caller[c].plugin]]
    BY <2>1 DEF LookupThread, ThreadOf
  <2>4. caller \in [Callers -> Call]
    BY <1>0 DEF TypeOK
  <2> QED
    BY <1>0, <2>2, <2>3, <2>4 DEF Call
<1> QED
  BY <1>1, <1>2

\* The types.
LEMMA TypeStep == IInv /\ [Next]_vars => TypeOK'
<1> SUFFICES ASSUME IInv, [Next]_vars PROVE TypeOK'
  OBVIOUS
<1>0. TypeOK
  BY DEF IInv
<1> USE <1>0 DEF poolVars, mapVars, bridgeVars, historyVars
<1>1. ASSUME NEW c \in Callers, NEW p \in Plugins, LoadPlugin(c, p)
      PROVE  TypeOK'
  <2>1. caller' \in [Callers -> Call]
    <3>1. [pc |-> "reg_assignments", plugin |-> p, kind |-> "load", left |-> 1,
           idx |-> NoThread] \in Call
      BY PoolAssumption DEF Call, CallerPcs, JobKinds
    <3> QED
      BY <1>1, <3>1 DEF TypeOK, LoadPlugin, Callers
  <2> QED
    BY <1>1, <2>1 DEF TypeOK, LoadPlugin
<1>2. ASSUME NEW p \in Plugins, DeliverWork(p)
      PROVE  TypeOK'
  <2>1. caller' \in [Callers -> Call]
    <3>1. [pc |-> "lookup", plugin |-> p, kind |-> "work", left |-> 1,
           idx |-> NoThread] \in Call
      BY PoolAssumption DEF Call, CallerPcs, JobKinds
    <3> QED
      BY <1>2, <3>1 DEF TypeOK, DeliverWork, Callers
  <2>2. work_left' \in [Plugins -> Nat]
    BY <1>2, PoolAssumption DEF TypeOK, DeliverWork, PoolAssumption
  <2> QED
    BY <1>2, <2>1, <2>2 DEF TypeOK, DeliverWork
<1>3. ASSUME NEW p \in Plugins, UnloadPlugin(p)
      PROVE  TypeOK'
  <2>1. caller' \in [Callers -> Call]
    <3>0. instances[p] \in Nat
      <4>1. instances[p] \in {0, Instances}
        BY <1>3 DEF TypeOK
      <4> QED
        BY <4>1, PoolAssumption DEF PoolAssumption
    <3>1. [pc |-> "lookup", plugin |-> p, kind |-> "unload", left |-> instances[p],
           idx |-> NoThread] \in Call
      BY <3>0 DEF Call, CallerPcs, JobKinds
    <3> QED
      BY <1>3, <3>1 DEF TypeOK, UnloadPlugin, Callers
  <2> QED
    BY <1>3, <2>1 DEF TypeOK, UnloadPlugin
<1>4. ASSUME NEW c \in Callers, RegisterLockAssignments(c)
      PROVE  TypeOK'
  <2>1. caller' \in [Callers -> Call]
    BY <1>4, MovedType DEF RegisterLockAssignments, CallerPcs
  <2>2. locks' \in [LockNames -> Holders \cup {Free}]
    BY <1>4 DEF RegisterLockAssignments, TypeOK, Holders
  <2> QED
    BY <1>4, <2>1, <2>2 DEF TypeOK, RegisterLockAssignments
<1>5. ASSUME NEW c \in Callers, RegisterLockThreadPlugins(c)
      PROVE  TypeOK'
  <2>1. caller' \in [Callers -> Call]
    BY <1>5, MovedType DEF RegisterLockThreadPlugins, CallerPcs
  <2>2. locks' \in [LockNames -> Holders \cup {Free}]
    BY <1>5 DEF RegisterLockThreadPlugins, TypeOK, Holders
  <2> QED
    BY <1>5, <2>1, <2>2 DEF TypeOK, RegisterLockThreadPlugins
<1>6. ASSUME NEW c \in Callers, ChooseThread(c)
      PROVE  TypeOK'
  <2>1. caller' \in [Callers -> Call]
    <3>1. PICK i \in LiveThreads :
            caller' = [caller EXCEPT ![c].pc = "reg_record", ![c].idx = i]
      BY <1>6, ChoiceIsLive
    <3>2. i \in ThreadIdx
      BY DEF LiveThreads
    <3> QED
      BY <3>1, <3>2, PlacedType DEF CallerPcs
  <2>2. locks' \in [LockNames -> Holders \cup {Free}]
    BY <1>6 DEF ChooseThread, TypeOK, Holders
  <2> QED
    BY <1>6, <2>1, <2>2 DEF TypeOK, ChooseThread
<1>7. ASSUME NEW c \in Callers, ReserveThread(c)
      PROVE  TypeOK'
  <2>1. caller' \in [Callers -> Call]
    BY <1>7, RoomForIndex, PlacedType DEF ReserveThread, CallerPcs
  <2>2. next_thread_idx' \in 1 .. MaxThreads
    <3>1. next_thread_idx = threads_len
      BY <1>7, RoomForIndex
    <3>2. threads_len \in 1 .. MaxThreads /\ threads_len < MaxThreads
      BY <1>7 DEF ReserveThread, RoomToGrow, TypeOK
    <3> QED
      BY <1>7, <3>1, <3>2, PoolAssumption
      DEF ReserveThread, FetchAdd, PoolAssumption
  <2> QED
    BY <1>7, <2>1, <2>2 DEF TypeOK, ReserveThread
<1>8. ASSUME NEW c \in Callers, AddThread(c)
      PROVE  TypeOK'
  <2>0. caller[c].idx \in ThreadIdx
    BY <1>8 DEF AddThread, IInv, CallsNameTheirThread
  <2>1. caller' \in [Callers -> Call]
    BY <1>8, MovedType DEF AddThread, CallerPcs
  <2>2. exec_pc' \in [ThreadIdx -> ExecPcs]
    BY <1>8 DEF AddThread, TypeOK, ExecPcs
  <2>3. threads_len' \in 1 .. MaxThreads
    BY <1>8, <2>0, PoolAssumption DEF AddThread, TypeOK, ThreadIdx,
      PoolAssumption
  <2>4. execution_threads' \in [ThreadIdx -> BOOLEAN]
    BY <1>8 DEF AddThread, TypeOK
  <2> QED
    BY <1>8, <2>1, <2>2, <2>3, <2>4 DEF TypeOK, AddThread
<1>9. ASSUME NEW c \in Callers, RecordAssignment(c)
      PROVE  TypeOK'
  <2>0. caller[c].idx \in ThreadIdx /\ caller[c].plugin \in Plugins
    BY <1>9 DEF RecordAssignment, IInv, CallsNameTheirThread
  <2>1. caller' \in [Callers -> Call]
    BY <1>9, MovedType DEF RecordAssignment, CallerPcs
  <2>2. locks' \in [LockNames -> Holders \cup {Free}]
    BY <1>9, ReleaseType DEF RecordAssignment
  <2>3. plugin_assignments' \in [Plugins -> ThreadIdx \cup {NoThread}]
    BY <1>9, <2>0 DEF RecordAssignment, TypeOK
  <2>4. thread_plugins' \in [ThreadIdx -> SUBSET Plugins]
    BY <1>9, <2>0 DEF RecordAssignment, TypeOK
  <2> QED
    BY <1>9, <2>1, <2>2, <2>3, <2>4 DEF TypeOK, RecordAssignment
<1>10. ASSUME NEW c \in Callers, LookupThread(c)
      PROVE  TypeOK'
  <2>1. caller' \in [Callers -> Call]
    <3>1. CASE plugin_assignments[caller[c].plugin] = NoThread
      BY <1>10, <3>1, ReturnedType DEF LookupThread, GiveUp, ThreadOf
    <3>2. CASE plugin_assignments[caller[c].plugin] # NoThread
      <4>1. plugin_assignments[caller[c].plugin] \in ThreadIdx
        BY <1>10, <3>2 DEF LookupThread, CallsNameTheirThread, IInv, TypeOK
      <4>2. caller' = [caller EXCEPT ![c].pc = "send",
                                     ![c].idx = plugin_assignments[caller[c].plugin]]
        BY <1>10, <3>2 DEF LookupThread, ThreadOf
      <4> QED
        BY <4>1, <4>2, PlacedType DEF CallerPcs
    <3> QED
      BY <3>1, <3>2
  <2>2. dropped' \in [Plugins -> SUBSET JobKinds]
    <3>1. \/ \E k \in JobKinds : dropped' = [dropped EXCEPT ![caller[c].plugin] = @ \cup {k}]
          \/ UNCHANGED dropped
      BY <1>10 DEF LookupThread, GiveUp, TypeOK, Call
    <3>2. dropped \in [Plugins -> SUBSET JobKinds]
      BY DEF TypeOK
    <3> QED
      BY <3>1, <3>2
  <2> QED
    BY <1>10, <2>1, <2>2 DEF TypeOK, LookupThread
<1>11. ASSUME NEW c \in Callers, SendJob(c)
      PROVE  TypeOK'
  <2>1. caller' \in [Callers -> Call]
    BY <1>11, ReturnedType DEF SendJob, GiveUp
  <2>2. dropped' \in [Plugins -> SUBSET JobKinds]
    <3>1. \/ \E k \in JobKinds : dropped' = [dropped EXCEPT ![caller[c].plugin] = @ \cup {k}]
          \/ UNCHANGED dropped
      BY <1>11 DEF SendJob, GiveUp, TypeOK, Call
    <3>2. dropped \in [Plugins -> SUBSET JobKinds]
      BY DEF TypeOK
    <3> QED
      BY <3>1, <3>2
  <2>3. jobs_in_flight' \in [ThreadIdx -> Int]
    BY <1>11 DEF SendJob, MarkBusy, TypeOK
  <2>4. accepted' \in [Plugins -> Nat]
    <3>1. accepted' = [accepted EXCEPT ![caller[c].plugin] = @ + 1] \/ UNCHANGED accepted
      BY <1>11 DEF SendJob
    <3>2. accepted \in [Plugins -> Nat]
      BY DEF TypeOK
    <3> QED
      BY <3>1, <3>2, CountedType
  <2>5. queue' \in [ThreadIdx -> Seq(Message)]
    <3>1. Work(caller[c].plugin, caller[c].kind, accepted[caller[c].plugin] + 1) \in Message
      BY <1>11 DEF Work, Message, TypeOK, Call, SendJob, IInv,
        CallsNameTheirThread
    <3> DEFINE work == Work(caller[c].plugin, caller[c].kind,
                            accepted[caller[c].plugin] + 1)
    <3>2. \/ queue' = [queue EXCEPT ![caller[c].idx] = Append(@, work)]
          \/ UNCHANGED queue
      BY <1>11 DEF SendJob
    <3>3. work \in Message /\ queue \in [ThreadIdx -> Seq(Message)]
      BY <3>1 DEF TypeOK
    <3> HIDE DEF work
    <3>4. [queue EXCEPT ![caller[c].idx] = Append(@, work)]
            \in [ThreadIdx -> Seq(Message)]
      BY <3>3, SentType
    <3> QED
      BY <3>2, <3>3, <3>4
  <2> QED
    BY <1>11, <2>1, <2>2, <2>3, <2>4, <2>5 DEF TypeOK, SendJob
<1>12. ASSUME NEW t \in ThreadIdx, TakeJob(t)
      PROVE  TypeOK'
  <2>1. exec_pc' \in [ThreadIdx -> ExecPcs]
    BY <1>12 DEF TakeJob, TypeOK, ExecPcs
  <2>2. running' \in [ThreadIdx -> Message]
    BY <1>12 DEF TakeJob, TypeOK
  <2>3. queue' \in [ThreadIdx -> Seq(Message)]
    BY <1>12 DEF TakeJob, TypeOK
  <2> QED
    BY <1>12, <2>1, <2>2, <2>3 DEF TypeOK, TakeJob
<1>13. ASSUME NEW t \in ThreadIdx, RunJob(t)
      PROVE  TypeOK'
  <2>1. exec_pc' \in [ThreadIdx -> ExecPcs]
    BY <1>13 DEF RunJob, TypeOK, ExecPcs
  <2>2. instances' \in [Plugins -> {0, Instances}]
    BY <1>13 DEF RunJob, TypeOK
  <2>3. ran' \in [Plugins -> Nat]
    <3>1. ran' = [ran EXCEPT ![running[t].plugin] = @ + 1]
      BY <1>13 DEF RunJob
    <3>2. ran \in [Plugins -> Nat]
      BY DEF TypeOK
    <3> QED
      BY <3>1, <3>2, CountedType
  <2> QED
    BY <1>13, <2>1, <2>2, <2>3 DEF TypeOK, RunJob
<1>14. ASSUME NEW t \in ThreadIdx, UnregisterLockAssignments(t)
      PROVE  TypeOK'
  <2>1. exec_pc' \in [ThreadIdx -> ExecPcs]
    BY <1>14 DEF UnregisterLockAssignments, TypeOK, ExecPcs
  <2>2. locks' \in [LockNames -> Holders \cup {Free}]
    BY <1>14 DEF UnregisterLockAssignments, TypeOK, Holders
  <2> QED
    BY <1>14, <2>1, <2>2 DEF TypeOK, UnregisterLockAssignments
<1>15. ASSUME NEW t \in ThreadIdx, UnregisterRemove(t)
      PROVE  TypeOK'
  <2>1. exec_pc' \in [ThreadIdx -> ExecPcs]
    BY <1>15 DEF UnregisterRemove, TypeOK, ExecPcs
  <2>2. locks' \in [LockNames -> Holders \cup {Free}]
    BY <1>15, ReleaseType DEF UnregisterRemove
  <2>3. plugin_assignments' \in [Plugins -> ThreadIdx \cup {NoThread}]
    BY <1>15 DEF UnregisterRemove, TypeOK
  <2>4. thread_plugins' \in [ThreadIdx -> SUBSET Plugins]
    BY <1>15 DEF UnregisterRemove, Unlisted, TypeOK
  <2> QED
    BY <1>15, <2>1, <2>2, <2>3, <2>4 DEF TypeOK, UnregisterRemove
<1>16. ASSUME NEW t \in ThreadIdx, ShrinkLockThreads(t)
      PROVE  TypeOK'
  <2>1. exec_pc' \in [ThreadIdx -> ExecPcs]
    BY <1>16 DEF ShrinkLockThreads, TypeOK, ExecPcs
  <2>2. locks' \in [LockNames -> Holders \cup {Free}]
    BY <1>16 DEF ShrinkLockThreads, TypeOK, Holders
  <2> QED
    BY <1>16, <2>1, <2>2 DEF TypeOK, ShrinkLockThreads
<1>17. ASSUME NEW t \in ThreadIdx, ShrinkRemove(t)
      PROVE  TypeOK'
  <2>1. exec_pc' \in [ThreadIdx -> ExecPcs]
    BY <1>17 DEF ShrinkRemove, TypeOK, ExecPcs
  <2>2. locks' \in [LockNames -> Holders \cup {Free}]
    BY <1>17, ReleaseType DEF ShrinkRemove
  <2>3. execution_threads' \in [ThreadIdx -> BOOLEAN]
    BY <1>17 DEF ShrinkRemove, Kept, TypeOK
  <2>4. queue' \in [ThreadIdx -> Seq(Message)]
    <3>1. Shutdown \in Message
      BY DEF Shutdown, Message
    <3> QED
      BY <1>17, <3>1 DEF ShrinkRemove, TypeOK
  <2> QED
    BY <1>17, <2>1, <2>2, <2>3, <2>4 DEF TypeOK, ShrinkRemove
<1>18. ASSUME NEW t \in ThreadIdx, FinishJob(t)
      PROVE  TypeOK'
  <2>1. exec_pc' \in [ThreadIdx -> ExecPcs]
    BY <1>18 DEF FinishJob, TypeOK, ExecPcs
  <2>2. jobs_in_flight' \in [ThreadIdx -> Int]
    BY <1>18 DEF FinishJob, TypeOK
  <2>3. running' \in [ThreadIdx -> Message]
    BY <1>18 DEF FinishJob, TypeOK, Shutdown, Message
  <2> QED
    BY <1>18, <2>1, <2>2, <2>3 DEF TypeOK, FinishJob
<1>19. CASE UNCHANGED vars
  BY <1>19 DEF TypeOK, vars
<1> QED
  BY <1>1, <1>2, <1>3, <1>4, <1>5, <1>6, <1>7, <1>8, <1>9, <1>10, <1>11, <1>12,
    <1>13, <1>14, <1>15, <1>16, <1>17, <1>18, <1>19
  DEF Next, CallStep, WorkerStep

\* The steps of a caller, and who holds which lock.
LEMMA LocksStep == IInv /\ [Next]_vars => CallsNameTheirThread' /\ LocksHeld'
<1> SUFFICES ASSUME IInv, [Next]_vars PROVE CallsNameTheirThread' /\ LocksHeld'
  OBVIOUS
<1>0. TypeOK
  BY DEF IInv
<1> USE PoolAssumption, <1>0 DEF poolVars, mapVars, bridgeVars, historyVars
<1>1. ASSUME NEW c \in Callers, NEW p \in Plugins, LoadPlugin(c, p)
      PROVE  CallsNameTheirThread' /\ LocksHeld'
  BY <1>1
  DEF IInv, TypeOK, Call, LoadPlugin, CallsNameTheirThread, Idle, LocksHeld,
    Registering, Mapping, IsFree, Holders, Callers, LockNames, PoolAssumption
<1>2. ASSUME NEW p \in Plugins, DeliverWork(p)
      PROVE  CallsNameTheirThread' /\ LocksHeld'
  BY <1>2
  DEF IInv, TypeOK, Call, DeliverWork, CallsNameTheirThread, Idle, LocksHeld,
    Registering, Mapping, IsFree, Holders, Callers, LockNames, PoolAssumption
<1>3. ASSUME NEW p \in Plugins, UnloadPlugin(p)
      PROVE  CallsNameTheirThread' /\ LocksHeld'
  BY <1>3
  DEF IInv, TypeOK, Call, UnloadPlugin, CallsNameTheirThread, Idle, LocksHeld,
    Registering, Mapping, IsFree, Holders, Callers, LockNames, PoolAssumption
<1>4. ASSUME NEW c \in Callers, RegisterLockAssignments(c)
      PROVE  CallsNameTheirThread' /\ LocksHeld'
  <2>1. CallsNameTheirThread'
    <3>1. \/ caller' = [caller EXCEPT ![c].pc = "lookup"]
          \/ caller' = [caller EXCEPT ![c].pc = "reg_thread_plugins"]
      BY <1>4 DEF RegisterLockAssignments, Moved
    <3>2. caller \in [Callers -> Call] /\ caller[c].pc = "reg_assignments"
      BY <1>4 DEF TypeOK, RegisterLockAssignments
    <3>3. CallsNameTheirThread
      BY DEF IInv
    <3> QED
      BY <3>1, <3>2, <3>3 DEF CallsNameTheirThread, Call
  <2>2. LocksHeld'
    <3>0. \A d \in Callers : d # c => caller'[d] = caller[d]
      BY <1>4 DEF TypeOK, RegisterLockAssignments, Moved
    <3>1. CASE caller'[c].pc = "lookup" /\ locks' = locks
      BY <1>4, <3>0, <3>1 DEF IInv, LocksHeld, Registering, Mapping,
         RegisterLockAssignments
    <3>2. CASE /\ caller'[c].pc = "reg_thread_plugins"
               /\ locks' = [locks EXCEPT !["assignments"] = c]
      <4>1. locks["assignments"] = Free /\ exec_pc' = exec_pc
        BY <1>4 DEF RegisterLockAssignments, IsFree
      <4>2. /\ locks'["assignments"] = c
            /\ locks'["thread_plugins"] = locks["thread_plugins"]
            /\ locks'["threads"] = locks["threads"]
        BY <3>2 DEF TypeOK, LockNames
      <4>3. Free \notin Callers /\ Free \notin ThreadIdx
        BY PoolAssumption DEF PoolAssumption, Holders
      <4> QED
        BY <3>0, <3>2, <4>1, <4>2, <4>3 DEF IInv, LocksHeld, Registering,
          Mapping
    <3> QED
      BY <1>4, <3>1, <3>2 DEF RegisterLockAssignments, Moved, TypeOK, Call
  <2> QED
    BY <2>1, <2>2
<1>5. ASSUME NEW c \in Callers, RegisterLockThreadPlugins(c)
      PROVE  CallsNameTheirThread' /\ LocksHeld'
  BY <1>5
  DEF IInv, TypeOK, Call, RegisterLockThreadPlugins, Moved,
    CallsNameTheirThread, Idle, LocksHeld, Registering, Mapping, IsFree,
    Holders, Callers, LockNames, PoolAssumption
<1>6. ASSUME NEW c \in Callers, ChooseThread(c)
      PROVE  CallsNameTheirThread' /\ LocksHeld'
  <2>1. CallsNameTheirThread'
    <3>1. PICK i \in LiveThreads :
            caller' = [caller EXCEPT ![c].pc = "reg_record", ![c].idx = i]
      BY <1>6, ChoiceIsLive
    <3>2. i \in ThreadIdx /\ caller[c].pc = "reg_threads"
      BY <1>6 DEF LiveThreads, ChooseThread
    <3>3. CallsNameTheirThread /\ caller \in [Callers -> Call]
      BY DEF IInv, TypeOK
    <3> QED
      BY <3>1, <3>2, <3>3 DEF CallsNameTheirThread, Call
  <2>2. LocksHeld'
    BY <1>6, ChoiceIsLive
    DEF IInv, TypeOK, Call, ChooseThread, LocksHeld, Registering, Mapping,
      IsFree, Holders, Callers, LockNames, Idle, PoolAssumption
  <2> QED
    BY <2>1, <2>2
<1>7. ASSUME NEW c \in Callers, ReserveThread(c)
      PROVE  CallsNameTheirThread' /\ LocksHeld'
  <2>1. CallsNameTheirThread'
    <3>1. caller' = [caller EXCEPT ![c].pc = "add_thread",
                                   ![c].idx = next_thread_idx]
      BY <1>7 DEF ReserveThread
    <3>2. next_thread_idx \in ThreadIdx /\ caller[c].pc = "reg_threads"
      BY <1>7, RoomForIndex DEF ReserveThread
    <3>3. CallsNameTheirThread /\ caller \in [Callers -> Call]
      BY DEF IInv, TypeOK
    <3> QED
      BY <3>1, <3>2, <3>3 DEF CallsNameTheirThread, Call
  <2>2. LocksHeld'
    BY <1>7, RoomForIndex
    DEF IInv, TypeOK, Call, ReserveThread, FetchAdd, LocksHeld, Registering,
      Mapping, IsFree, Holders, Callers, LockNames, Idle, PoolAssumption
  <2> QED
    BY <2>1, <2>2
<1>8. ASSUME NEW c \in Callers, AddThread(c)
      PROVE  CallsNameTheirThread' /\ LocksHeld'
  BY <1>8
  DEF IInv, TypeOK, Call, AddThread, Moved, CallsNameTheirThread, Idle,
    LocksHeld, Registering, Mapping, IsFree, Holders, Callers, LockNames,
    PoolAssumption
<1>9. ASSUME NEW c \in Callers, RecordAssignment(c)
      PROVE  CallsNameTheirThread' /\ LocksHeld'
  BY <1>9
  DEF IInv, TypeOK, Call, RecordAssignment, Moved, Release,
    CallsNameTheirThread, Idle, LocksHeld, Registering, Mapping, IsFree,
    Holders, Callers, LockNames, PoolAssumption
<1>10. ASSUME NEW c \in Callers, LookupThread(c)
      PROVE  CallsNameTheirThread' /\ LocksHeld'
  BY <1>10, ExecuteStep
  DEF IInv, LookupThread, CallsNameTheirThread, Idle, LocksHeld, Registering,
    Mapping, IsFree, Holders, Callers, LockNames, PoolAssumption
<1>11. ASSUME NEW c \in Callers, SendJob(c)
      PROVE  CallsNameTheirThread' /\ LocksHeld'
  BY <1>11, ExecuteStep
  DEF IInv, SendJob, CallsNameTheirThread, Idle, LocksHeld, Registering,
    Mapping, IsFree, Holders, Callers, LockNames, PoolAssumption
<1>12. ASSUME NEW t \in ThreadIdx, TakeJob(t)
      PROVE  CallsNameTheirThread' /\ LocksHeld'
  BY <1>12
  DEF IInv, TypeOK, Call, TakeJob, CallsNameTheirThread, Idle, LocksHeld,
    Registering, Mapping, IsFree, Holders, Callers, LockNames, PoolAssumption
<1>13. ASSUME NEW t \in ThreadIdx, RunJob(t)
      PROVE  CallsNameTheirThread' /\ LocksHeld'
  BY <1>13
  DEF IInv, TypeOK, Call, RunJob, CallsNameTheirThread, Idle, LocksHeld,
    Registering, Mapping, IsFree, Holders, Callers, LockNames, PoolAssumption
<1>14. ASSUME NEW t \in ThreadIdx, UnregisterLockAssignments(t)
      PROVE  CallsNameTheirThread' /\ LocksHeld'
  BY <1>14
  DEF IInv, TypeOK, Call, UnregisterLockAssignments, CallsNameTheirThread, Idle,
    LocksHeld, Registering, Mapping, IsFree, Holders, Callers, LockNames,
    PoolAssumption
<1>15. ASSUME NEW t \in ThreadIdx, UnregisterRemove(t)
      PROVE  CallsNameTheirThread' /\ LocksHeld'
  BY <1>15
  DEF IInv, TypeOK, Call, UnregisterRemove, Unlisted, Release,
    CallsNameTheirThread, Idle, LocksHeld, Registering, Mapping, IsFree,
    Holders, Callers, LockNames, PoolAssumption
<1>16. ASSUME NEW t \in ThreadIdx, ShrinkLockThreads(t)
      PROVE  CallsNameTheirThread' /\ LocksHeld'
  BY <1>16
  DEF IInv, TypeOK, Call, ShrinkLockThreads, CallsNameTheirThread, Idle,
    LocksHeld, Registering, Mapping, IsFree, Holders, Callers, LockNames,
    PoolAssumption
<1>17. ASSUME NEW t \in ThreadIdx, ShrinkRemove(t)
      PROVE  CallsNameTheirThread' /\ LocksHeld'
  BY <1>17
  DEF IInv, TypeOK, Call, ShrinkRemove, Kept, Release, Removable, LiveThreads,
    CallsNameTheirThread, Idle, LocksHeld, Registering, Mapping, IsFree,
    Holders, Callers, LockNames, PoolAssumption
<1>18. ASSUME NEW t \in ThreadIdx, FinishJob(t)
      PROVE  CallsNameTheirThread' /\ LocksHeld'
  BY <1>18
  DEF IInv, TypeOK, Call, FinishJob, CallsNameTheirThread, Idle, LocksHeld,
    Registering, Mapping, IsFree, Holders, Callers, LockNames, PoolAssumption
<1>19. CASE UNCHANGED vars
  BY <1>19
  DEF IInv, TypeOK, Call, vars, CallsNameTheirThread, Idle, LocksHeld,
    Registering, Mapping, IsFree, Holders, Callers, LockNames, PoolAssumption
<1> QED
  BY <1>1, <1>2, <1>3, <1>4, <1>5, <1>6, <1>7, <1>8, <1>9, <1>10, <1>11, <1>12,
    <1>13, <1>14, <1>15, <1>16, <1>17, <1>18, <1>19
  DEF Next, CallStep, WorkerStep

\* The indices of the slots.
LEMMA IndexStep == IInv /\ [Next]_vars => SlotsBeyondUnused' /\ IndexReserved'
<1> SUFFICES ASSUME IInv, [Next]_vars PROVE SlotsBeyondUnused' /\ IndexReserved'
  OBVIOUS
<1>0. TypeOK
  BY DEF IInv
<1> USE PoolAssumption, <1>0 DEF poolVars, mapVars, bridgeVars, historyVars
<1>1. ASSUME NEW c \in Callers, NEW p \in Plugins, LoadPlugin(c, p)
      PROVE  SlotsBeyondUnused' /\ IndexReserved'
  BY <1>1
  DEF IInv, TypeOK, Call, LoadPlugin, SlotsBeyondUnused, ThreadIdx,
    IndexReserved, LocksHeld, Mapping, Registering, Idle
<1>2. ASSUME NEW p \in Plugins, DeliverWork(p)
      PROVE  SlotsBeyondUnused' /\ IndexReserved'
  BY <1>2
  DEF IInv, TypeOK, Call, DeliverWork, SlotsBeyondUnused, ThreadIdx,
    IndexReserved, LocksHeld, Mapping, Registering, Idle
<1>3. ASSUME NEW p \in Plugins, UnloadPlugin(p)
      PROVE  SlotsBeyondUnused' /\ IndexReserved'
  BY <1>3
  DEF IInv, TypeOK, Call, UnloadPlugin, SlotsBeyondUnused, ThreadIdx,
    IndexReserved, LocksHeld, Mapping, Registering, Idle
<1>4. ASSUME NEW c \in Callers, RegisterLockAssignments(c)
      PROVE  SlotsBeyondUnused' /\ IndexReserved'
  <2>1. SlotsBeyondUnused'
    BY <1>4
    DEF IInv, TypeOK, Call, RegisterLockAssignments, Moved, SlotsBeyondUnused,
      ThreadIdx
  <2>2. IndexReserved'
    <3>0. \A d \in Callers : d # c => caller'[d] = caller[d]
      BY <1>4 DEF TypeOK, RegisterLockAssignments, Moved
    <3>1. /\ caller[c].pc = "reg_assignments"
          /\ caller'[c].pc \in {"lookup", "reg_thread_plugins"}
      BY <1>4 DEF TypeOK, Call, RegisterLockAssignments, Moved
    <3> QED
      BY <1>4, <3>0, <3>1, Zenon DEF IInv, IndexReserved,
        RegisterLockAssignments
  <2> QED
    BY <2>1, <2>2
<1>5. ASSUME NEW c \in Callers, RegisterLockThreadPlugins(c)
      PROVE  SlotsBeyondUnused' /\ IndexReserved'
  BY <1>5
  DEF IInv, TypeOK, Call, RegisterLockThreadPlugins, Moved, SlotsBeyondUnused,
    ThreadIdx, IndexReserved, LocksHeld, Mapping, Registering, Idle
<1>6. ASSUME NEW c \in Callers, ChooseThread(c)
      PROVE  SlotsBeyondUnused' /\ IndexReserved'
  <2>1. SlotsBeyondUnused'
    BY <1>6, ChoiceIsLive
    DEF IInv, TypeOK, Call, ChooseThread, SlotsBeyondUnused, ThreadIdx
  <2>2. IndexReserved'
    <3>0. \A d \in Callers : d # c => caller'[d] = caller[d]
      BY <1>6 DEF TypeOK, ChooseThread
    <3>1. caller[c].pc = "reg_threads" /\ caller'[c].pc = "reg_record"
      <4>1. PICK i \in LiveThreads :
              caller' = [caller EXCEPT ![c].pc = "reg_record", ![c].idx = i]
        BY <1>6, ChoiceIsLive
      <4> QED
        BY <1>6, <4>1 DEF TypeOK, Call, ChooseThread
    <3> QED
      BY <1>6, <3>0, <3>1 DEF IInv, IndexReserved, ChooseThread
  <2> QED
    BY <2>1, <2>2
<1>7. ASSUME NEW c \in Callers, ReserveThread(c)
      PROVE  SlotsBeyondUnused' /\ IndexReserved'
  <2>1. SlotsBeyondUnused'
    BY <1>7, RoomForIndex
    DEF IInv, TypeOK, Call, ReserveThread, FetchAdd, SlotsBeyondUnused,
      ThreadIdx
  <2>2. IndexReserved'
    <3>0. \A d \in Callers : d # c => caller'[d] = caller[d]
      BY <1>7 DEF TypeOK, ReserveThread
    <3>1. /\ caller'[c].pc = "add_thread"
          /\ caller'[c].idx = next_thread_idx
      BY <1>7 DEF TypeOK, Call, ReserveThread
    <3>2. \A d \in Callers : d # c => caller[d].pc # "add_thread"
      BY <1>7, RoomForIndex DEF Mapping
    <3>3. /\ next_thread_idx = threads_len
          /\ next_thread_idx' = threads_len' + 1
          /\ threads_len' = threads_len
      BY <1>7, RoomForIndex DEF ReserveThread, FetchAdd
    <3> QED
      BY <3>0, <3>1, <3>2, <3>3 DEF IndexReserved
  <2> QED
    BY <2>1, <2>2
<1>8. ASSUME NEW c \in Callers, AddThread(c)
      PROVE  SlotsBeyondUnused' /\ IndexReserved'
  <2>1. SlotsBeyondUnused'
    <3>1. caller[c].idx = threads_len /\ threads_len \in Nat
      BY <1>8, PoolAssumption DEF IInv, IndexReserved, AddThread, TypeOK,
        PoolAssumption
    <3>2. threads_len' = threads_len + 1
      BY <1>8, <3>1 DEF AddThread
    <3>3. \A i \in ThreadIdx : i # caller[c].idx =>
            execution_threads'[i] = execution_threads[i] /\ exec_pc'[i] = exec_pc[i]
      BY <1>8 DEF AddThread, TypeOK
    <3> QED
      BY <3>1, <3>2, <3>3 DEF IInv, SlotsBeyondUnused, ThreadIdx
  <2>2. IndexReserved'
    <3>0. \A d \in Callers : d # c => caller'[d] = caller[d]
      BY <1>8 DEF TypeOK, AddThread, Moved
    <3>1. caller[c].idx = threads_len /\ threads_len \in Nat
      BY <1>8, PoolAssumption DEF IInv, IndexReserved, AddThread, TypeOK,
        PoolAssumption
    <3>2. threads_len' = threads_len + 1
      BY <1>8, <3>1 DEF AddThread
    <3>3. next_thread_idx' = threads_len + 1
      BY <1>8 DEF IInv, IndexReserved, AddThread
    <3>4. \A d \in Callers : d # c => caller[d].pc \notin Mapping
      BY <1>8 DEF IInv, LocksHeld, AddThread, Mapping
    <3>5. caller'[c].pc = "reg_record"
      BY <1>8 DEF AddThread, Moved, TypeOK, Call
    <3> QED
      BY <3>0, <3>2, <3>3, <3>4, <3>5 DEF IndexReserved, Mapping
  <2> QED
    BY <2>1, <2>2
<1>9. ASSUME NEW c \in Callers, RecordAssignment(c)
      PROVE  SlotsBeyondUnused' /\ IndexReserved'
  BY <1>9
  DEF IInv, TypeOK, Call, RecordAssignment, Moved, Release, SlotsBeyondUnused,
    ThreadIdx, IndexReserved, LocksHeld, Mapping, Registering, Idle
<1>10. ASSUME NEW c \in Callers, LookupThread(c)
      PROVE  SlotsBeyondUnused' /\ IndexReserved'
  BY <1>10, ExecuteStep
  DEF IInv, LookupThread, SlotsBeyondUnused, ThreadIdx, IndexReserved,
    LocksHeld, Mapping, Registering, Idle
<1>11. ASSUME NEW c \in Callers, SendJob(c)
      PROVE  SlotsBeyondUnused' /\ IndexReserved'
  BY <1>11, ExecuteStep
  DEF IInv, SendJob, SlotsBeyondUnused, ThreadIdx, IndexReserved, LocksHeld,
    Mapping, Registering, Idle
<1>12. ASSUME NEW t \in ThreadIdx, TakeJob(t)
      PROVE  SlotsBeyondUnused' /\ IndexReserved'
  BY <1>12
  DEF IInv, TypeOK, Call, TakeJob, SlotsBeyondUnused, ThreadIdx, IndexReserved,
    LocksHeld, Mapping, Registering, Idle
<1>13. ASSUME NEW t \in ThreadIdx, RunJob(t)
      PROVE  SlotsBeyondUnused' /\ IndexReserved'
  BY <1>13
  DEF IInv, TypeOK, Call, RunJob, SlotsBeyondUnused, ThreadIdx, IndexReserved,
    LocksHeld, Mapping, Registering, Idle
<1>14. ASSUME NEW t \in ThreadIdx, UnregisterLockAssignments(t)
      PROVE  SlotsBeyondUnused' /\ IndexReserved'
  BY <1>14
  DEF IInv, TypeOK, Call, UnregisterLockAssignments, SlotsBeyondUnused,
    ThreadIdx, IndexReserved, LocksHeld, Mapping, Registering, Idle
<1>15. ASSUME NEW t \in ThreadIdx, UnregisterRemove(t)
      PROVE  SlotsBeyondUnused' /\ IndexReserved'
  BY <1>15
  DEF IInv, TypeOK, Call, UnregisterRemove, Unlisted, Release,
    SlotsBeyondUnused, ThreadIdx, IndexReserved, LocksHeld, Mapping,
    Registering, Idle
<1>16. ASSUME NEW t \in ThreadIdx, ShrinkLockThreads(t)
      PROVE  SlotsBeyondUnused' /\ IndexReserved'
  BY <1>16
  DEF IInv, TypeOK, Call, ShrinkLockThreads, SlotsBeyondUnused, ThreadIdx,
    IndexReserved, LocksHeld, Mapping, Registering, Idle
<1>17. ASSUME NEW t \in ThreadIdx, ShrinkRemove(t)
      PROVE  SlotsBeyondUnused' /\ IndexReserved'
  BY <1>17
  DEF IInv, TypeOK, Call, ShrinkRemove, Kept, Release, Removable, LiveThreads,
    SlotsBeyondUnused, ThreadIdx, IndexReserved, LocksHeld, Mapping,
    Registering, Idle
<1>18. ASSUME NEW t \in ThreadIdx, FinishJob(t)
      PROVE  SlotsBeyondUnused' /\ IndexReserved'
  BY <1>18
  DEF IInv, TypeOK, Call, FinishJob, SlotsBeyondUnused, ThreadIdx,
    IndexReserved, LocksHeld, Mapping, Registering, Idle
<1>19. CASE UNCHANGED vars
  BY <1>19
  DEF IInv, TypeOK, Call, vars, SlotsBeyondUnused, ThreadIdx, IndexReserved,
    LocksHeld, Mapping, Registering, Idle
<1> QED
  BY <1>1, <1>2, <1>3, <1>4, <1>5, <1>6, <1>7, <1>8, <1>9, <1>10, <1>11, <1>12,
    <1>13, <1>14, <1>15, <1>16, <1>17, <1>18, <1>19
  DEF Next, CallStep, WorkerStep

\* The threads of registered plugins stay live.
ThreadsLive == NotYetAssigned /\ RecordsLiveThread /\ execution_threads[0]
                 /\ MapsAgree /\ AssignedThreadLive

LEMMA LiveStep == IInv /\ [Next]_vars => ThreadsLive'
<1> SUFFICES ASSUME IInv, [Next]_vars PROVE ThreadsLive'
  OBVIOUS
<1>0. TypeOK
  BY DEF IInv
<1> USE PoolAssumption, <1>0 DEF poolVars, mapVars, bridgeVars, historyVars
<1>1. ASSUME NEW c \in Callers, NEW p \in Plugins, LoadPlugin(c, p)
      PROVE  ThreadsLive'
  BY <1>1
  DEF IInv, TypeOK, Call, LoadPlugin, NotYetAssigned, LocksHeld,
    CallsNameTheirThread, Registering, Idle, IsFree, RecordsLiveThread, Mapping,
    ThreadIdx, MapsAgree, AssignedThreadLive, ThreadsLive
<1>2. ASSUME NEW p \in Plugins, DeliverWork(p)
      PROVE  ThreadsLive'
  BY <1>2
  DEF IInv, TypeOK, Call, DeliverWork, NotYetAssigned, LocksHeld,
    CallsNameTheirThread, Registering, Idle, IsFree, RecordsLiveThread, Mapping,
    ThreadIdx, MapsAgree, AssignedThreadLive, ThreadsLive
<1>3. ASSUME NEW p \in Plugins, UnloadPlugin(p)
      PROVE  ThreadsLive'
  BY <1>3
  DEF IInv, TypeOK, Call, UnloadPlugin, NotYetAssigned, LocksHeld,
    CallsNameTheirThread, Registering, Idle, IsFree, RecordsLiveThread, Mapping,
    ThreadIdx, MapsAgree, AssignedThreadLive, ThreadsLive
<1>4. ASSUME NEW c \in Callers, RegisterLockAssignments(c)
      PROVE  ThreadsLive'
  <2>1. NotYetAssigned'
    <3>0. \A d \in Callers : d # c => caller'[d] = caller[d]
      BY <1>4 DEF TypeOK, RegisterLockAssignments, Moved
    <3>1. /\ caller'[c].plugin = caller[c].plugin
          /\ \/ caller'[c].pc = "lookup"
             \/ plugin_assignments[caller[c].plugin] = NoThread
      BY <1>4 DEF RegisterLockAssignments, Moved, TypeOK, Call
    <3> QED
      BY <1>4, <3>0, <3>1 DEF IInv, NotYetAssigned, Registering,
         RegisterLockAssignments
  <2>2. RecordsLiveThread'
    <3>0. \A d \in Callers : d # c => caller'[d] = caller[d]
      BY <1>4 DEF TypeOK, RegisterLockAssignments, Moved
    <3>1. caller'[c].pc \in {"lookup", "reg_thread_plugins"}
      BY <1>4 DEF TypeOK, Call, RegisterLockAssignments, Moved
    <3> QED
      BY <1>4, <3>0, <3>1 DEF IInv, RecordsLiveThread, RegisterLockAssignments
  <2>3. execution_threads'[0]
    BY <1>4
    DEF IInv, TypeOK, Call, RegisterLockAssignments, Moved, ThreadIdx
  <2>4. MapsAgree'
    BY <1>4
    DEF IInv, TypeOK, Call, RegisterLockAssignments, Moved, MapsAgree,
      CallsNameTheirThread, LocksHeld, Mapping, IsFree
  <2>5. AssignedThreadLive'
    BY <1>4
    DEF IInv, TypeOK, Call, RegisterLockAssignments, Moved, AssignedThreadLive,
      MapsAgree, RecordsLiveThread, CallsNameTheirThread
  <2> QED
    BY <2>1, <2>2, <2>3, <2>4, <2>5 DEF ThreadsLive
<1>5. ASSUME NEW c \in Callers, RegisterLockThreadPlugins(c)
      PROVE  ThreadsLive'
  BY <1>5
  DEF IInv, TypeOK, Call, RegisterLockThreadPlugins, Moved, NotYetAssigned,
    LocksHeld, CallsNameTheirThread, Registering, Idle, IsFree,
    RecordsLiveThread, Mapping, ThreadIdx, MapsAgree, AssignedThreadLive,
    ThreadsLive
<1>6. ASSUME NEW c \in Callers, ChooseThread(c)
      PROVE  ThreadsLive'
  <2>1. NotYetAssigned'
    <3>0. \A d \in Callers : d # c => caller'[d] = caller[d]
      BY <1>6 DEF TypeOK, ChooseThread
    <3>1. caller'[c].plugin = caller[c].plugin /\ caller[c].pc = "reg_threads"
      <4>1. PICK i \in LiveThreads :
              caller' = [caller EXCEPT ![c].pc = "reg_record", ![c].idx = i]
        BY <1>6, ChoiceIsLive
      <4> QED
        BY <1>6, <4>1 DEF TypeOK, Call, ChooseThread
    <3> QED
      BY <1>6, <3>0, <3>1 DEF IInv, NotYetAssigned, Registering, ChooseThread
  <2>2. RecordsLiveThread'
    <3>0. \A d \in Callers : d # c => caller'[d] = caller[d]
      BY <1>6 DEF TypeOK, ChooseThread
    <3>1. PICK i \in LiveThreads :
            caller' = [caller EXCEPT ![c].pc = "reg_record", ![c].idx = i]
      BY <1>6, ChoiceIsLive
    <3>2. execution_threads[i] /\ caller'[c].idx = i
      BY <3>1 DEF LiveThreads, TypeOK, Call
    <3> QED
      BY <1>6, <3>0, <3>2 DEF IInv, RecordsLiveThread, ChooseThread
  <2>3. execution_threads'[0]
    BY <1>6, ChoiceIsLive
    DEF IInv, TypeOK, Call, ChooseThread, ThreadIdx
  <2>4. MapsAgree'
    BY <1>6, ChoiceIsLive
    DEF IInv, TypeOK, Call, ChooseThread, MapsAgree, CallsNameTheirThread,
      LocksHeld, Mapping, IsFree
  <2>5. AssignedThreadLive'
    BY <1>6, ChoiceIsLive
    DEF IInv, TypeOK, Call, ChooseThread, AssignedThreadLive, MapsAgree,
      RecordsLiveThread, CallsNameTheirThread
  <2> QED
    BY <2>1, <2>2, <2>3, <2>4, <2>5 DEF ThreadsLive
<1>7. ASSUME NEW c \in Callers, ReserveThread(c)
      PROVE  ThreadsLive'
  <2>1. NotYetAssigned'
    <3>0. \A d \in Callers : d # c => caller'[d] = caller[d]
      BY <1>7 DEF TypeOK, ReserveThread
    <3>1. caller'[c].plugin = caller[c].plugin /\ caller[c].pc = "reg_threads"
      BY <1>7 DEF TypeOK, Call, ReserveThread
    <3> QED
      BY <1>7, <3>0, <3>1 DEF IInv, NotYetAssigned, Registering, ReserveThread
  <2>2. RecordsLiveThread'
    <3>0. \A d \in Callers : d # c => caller'[d] = caller[d]
      BY <1>7 DEF TypeOK, ReserveThread
    <3>1. caller'[c].pc = "add_thread"
      BY <1>7 DEF TypeOK, Call, ReserveThread
    <3> QED
      BY <1>7, <3>0, <3>1 DEF IInv, RecordsLiveThread, ReserveThread
  <2>3. execution_threads'[0]
    BY <1>7, RoomForIndex
    DEF IInv, TypeOK, Call, ReserveThread, FetchAdd, ThreadIdx
  <2>4. MapsAgree'
    BY <1>7, RoomForIndex
    DEF IInv, TypeOK, Call, ReserveThread, FetchAdd, MapsAgree,
      CallsNameTheirThread, LocksHeld, Mapping, IsFree
  <2>5. AssignedThreadLive'
    BY <1>7, RoomForIndex
    DEF IInv, TypeOK, Call, ReserveThread, FetchAdd, AssignedThreadLive,
      MapsAgree, RecordsLiveThread, CallsNameTheirThread
  <2> QED
    BY <2>1, <2>2, <2>3, <2>4, <2>5 DEF ThreadsLive
<1>8. ASSUME NEW c \in Callers, AddThread(c)
      PROVE  ThreadsLive'
  BY <1>8
  DEF IInv, TypeOK, Call, AddThread, Moved, NotYetAssigned, LocksHeld,
    CallsNameTheirThread, Registering, Idle, IsFree, RecordsLiveThread, Mapping,
    ThreadIdx, MapsAgree, AssignedThreadLive, ThreadsLive
<1>9. ASSUME NEW c \in Callers, RecordAssignment(c)
      PROVE  ThreadsLive'
  <2>1. NotYetAssigned'
    <3>0. \A d \in Callers : d # c => caller'[d] = caller[d]
      BY <1>9 DEF TypeOK, RecordAssignment, Moved
    <3>1. \A d \in Callers : d # c => caller[d].pc \notin Registering
      BY <1>9 DEF IInv, LocksHeld, RecordAssignment, Registering
    <3>2. caller'[c].pc = "lookup"
      BY <1>9 DEF RecordAssignment, Moved, TypeOK, Call
    <3> QED
      BY <3>0, <3>1, <3>2 DEF NotYetAssigned, Registering
  <2>2. RecordsLiveThread'
    BY <1>9
    DEF IInv, TypeOK, Call, RecordAssignment, Moved, Release, RecordsLiveThread,
      LocksHeld, CallsNameTheirThread, Mapping, Registering, Idle, IsFree
  <2>3. execution_threads'[0]
    BY <1>9
    DEF IInv, TypeOK, Call, RecordAssignment, Moved, Release, ThreadIdx
  <2>4. MapsAgree'
    <3>1. /\ caller[c].plugin \in Plugins /\ caller[c].idx \in ThreadIdx
          /\ plugin_assignments[caller[c].plugin] = NoThread
      BY <1>9 DEF IInv, CallsNameTheirThread, NotYetAssigned, RecordAssignment,
         Registering
    <3>2. \A i \in ThreadIdx : caller[c].plugin \notin thread_plugins[i]
      BY <3>1, PoolAssumption DEF IInv, MapsAgree, PoolAssumption
    <3>3. /\ plugin_assignments' =
               [plugin_assignments EXCEPT ![caller[c].plugin] = caller[c].idx]
          /\ thread_plugins' =
               [thread_plugins EXCEPT ![caller[c].idx] = @ \cup {caller[c].plugin}]
      BY <1>9 DEF RecordAssignment
    <3>4. /\ plugin_assignments \in [Plugins -> ThreadIdx \cup {NoThread}]
          /\ thread_plugins \in [ThreadIdx -> SUBSET Plugins]
      BY DEF TypeOK
    <3> QED
      BY <3>1, <3>2, <3>3, <3>4 DEF IInv, MapsAgree
  <2>5. AssignedThreadLive'
    BY <1>9
    DEF IInv, TypeOK, Call, RecordAssignment, Moved, Release,
      AssignedThreadLive, MapsAgree, RecordsLiveThread, CallsNameTheirThread
  <2> QED
    BY <2>1, <2>2, <2>3, <2>4, <2>5 DEF ThreadsLive
<1>10. ASSUME NEW c \in Callers, LookupThread(c)
      PROVE  ThreadsLive'
  BY <1>10, ExecuteStep
  DEF IInv, LookupThread, NotYetAssigned, LocksHeld, CallsNameTheirThread,
    Registering, Idle, IsFree, RecordsLiveThread, Mapping, ThreadIdx, MapsAgree,
    AssignedThreadLive, ThreadsLive
<1>11. ASSUME NEW c \in Callers, SendJob(c)
      PROVE  ThreadsLive'
  BY <1>11, ExecuteStep
  DEF IInv, SendJob, NotYetAssigned, LocksHeld, CallsNameTheirThread,
    Registering, Idle, IsFree, RecordsLiveThread, Mapping, ThreadIdx, MapsAgree,
    AssignedThreadLive, ThreadsLive
<1>12. ASSUME NEW t \in ThreadIdx, TakeJob(t)
      PROVE  ThreadsLive'
  BY <1>12
  DEF IInv, TypeOK, Call, TakeJob, NotYetAssigned, LocksHeld,
    CallsNameTheirThread, Registering, Idle, IsFree, RecordsLiveThread, Mapping,
    ThreadIdx, MapsAgree, AssignedThreadLive, ThreadsLive
<1>13. ASSUME NEW t \in ThreadIdx, RunJob(t)
      PROVE  ThreadsLive'
  BY <1>13
  DEF IInv, TypeOK, Call, RunJob, NotYetAssigned, LocksHeld,
    CallsNameTheirThread, Registering, Idle, IsFree, RecordsLiveThread, Mapping,
    ThreadIdx, MapsAgree, AssignedThreadLive, ThreadsLive
<1>14. ASSUME NEW t \in ThreadIdx, UnregisterLockAssignments(t)
      PROVE  ThreadsLive'
  BY <1>14
  DEF IInv, TypeOK, Call, UnregisterLockAssignments, NotYetAssigned, LocksHeld,
    CallsNameTheirThread, Registering, Idle, IsFree, RecordsLiveThread, Mapping,
    ThreadIdx, MapsAgree, AssignedThreadLive, ThreadsLive
<1>15. ASSUME NEW t \in ThreadIdx, UnregisterRemove(t)
      PROVE  ThreadsLive'
  <2>1. NotYetAssigned'
    BY <1>15
    DEF IInv, TypeOK, Call, UnregisterRemove, Unlisted, Release, NotYetAssigned,
      LocksHeld, CallsNameTheirThread, Registering, Idle, IsFree
  <2>2. RecordsLiveThread'
    BY <1>15
    DEF IInv, TypeOK, Call, UnregisterRemove, Unlisted, Release,
      RecordsLiveThread, LocksHeld, CallsNameTheirThread, Mapping, Registering,
      Idle, IsFree
  <2>3. execution_threads'[0]
    BY <1>15
    DEF IInv, TypeOK, Call, UnregisterRemove, Unlisted, Release, ThreadIdx
  <2>4. MapsAgree'
    BY <1>15
    DEF IInv, TypeOK, Call, UnregisterRemove, Unlisted, Release, MapsAgree,
      CallsNameTheirThread, LocksHeld, Mapping, IsFree
  <2>5. AssignedThreadLive'
    BY <1>15
    DEF IInv, TypeOK, Call, UnregisterRemove, Unlisted, Release,
      AssignedThreadLive, MapsAgree, RecordsLiveThread, CallsNameTheirThread
  <2> QED
    BY <2>1, <2>2, <2>3, <2>4, <2>5 DEF ThreadsLive
<1>16. ASSUME NEW t \in ThreadIdx, ShrinkLockThreads(t)
      PROVE  ThreadsLive'
  BY <1>16
  DEF IInv, TypeOK, Call, ShrinkLockThreads, NotYetAssigned, LocksHeld,
    CallsNameTheirThread, Registering, Idle, IsFree, RecordsLiveThread, Mapping,
    ThreadIdx, MapsAgree, AssignedThreadLive, ThreadsLive
<1>17. ASSUME NEW t \in ThreadIdx, ShrinkRemove(t)
      PROVE  ThreadsLive'
  <2>1. NotYetAssigned'
    BY <1>17
    DEF IInv, TypeOK, Call, ShrinkRemove, Kept, Release, Removable, LiveThreads,
      NotYetAssigned, LocksHeld, CallsNameTheirThread, Registering, Idle, IsFree
  <2>2. RecordsLiveThread'
    <3>1. \A d \in Callers : caller[d].pc # "reg_record"
      BY <1>17, PoolAssumption DEF IInv, LocksHeld, Mapping, ShrinkRemove,
        IsFree,
         PoolAssumption, Holders
    <3> QED
      BY <1>17, <3>1 DEF RecordsLiveThread, ShrinkRemove
  <2>3. execution_threads'[0]
    BY <1>17
    DEF IInv, TypeOK, Call, ShrinkRemove, Kept, Release, Removable, LiveThreads,
      ThreadIdx
  <2>4. MapsAgree'
    BY <1>17
    DEF IInv, TypeOK, Call, ShrinkRemove, Kept, Release, Removable, LiveThreads,
      MapsAgree, CallsNameTheirThread, LocksHeld, Mapping, IsFree
  <2>5. AssignedThreadLive'
    BY <1>17
    DEF IInv, TypeOK, Call, ShrinkRemove, Kept, Release, Removable, LiveThreads,
      AssignedThreadLive, MapsAgree, RecordsLiveThread, CallsNameTheirThread
  <2> QED
    BY <2>1, <2>2, <2>3, <2>4, <2>5 DEF ThreadsLive
<1>18. ASSUME NEW t \in ThreadIdx, FinishJob(t)
      PROVE  ThreadsLive'
  BY <1>18
  DEF IInv, TypeOK, Call, FinishJob, NotYetAssigned, LocksHeld,
    CallsNameTheirThread, Registering, Idle, IsFree, RecordsLiveThread, Mapping,
    ThreadIdx, MapsAgree, AssignedThreadLive, ThreadsLive
<1>19. CASE UNCHANGED vars
  BY <1>19
  DEF IInv, TypeOK, Call, vars, NotYetAssigned, LocksHeld, CallsNameTheirThread,
    Registering, Idle, IsFree, RecordsLiveThread, Mapping, ThreadIdx, MapsAgree,
    AssignedThreadLive, ThreadsLive
<1> QED
  BY <1>1, <1>2, <1>3, <1>4, <1>5, <1>6, <1>7, <1>8, <1>9, <1>10, <1>11, <1>12,
    <1>13, <1>14, <1>15, <1>16, <1>17, <1>18, <1>19
  DEF Next, CallStep, WorkerStep

-----------------------------------------------------------------------------
\* The maps, the slots, the locks and the program counters always fit together.
THEOREM InvariantHolds == Spec => []IInv
<1>1. Init => IInv
  BY InitInv
<1>2. IInv /\ [Next]_vars => IInv'
  BY TypeStep, LocksStep, IndexStep, LiveStep DEF IInv, ThreadsLive
<1> QED
  BY <1>1, <1>2, PTL DEF Spec

\* Every variable keeps its type; the index of a new thread stays below
\* max_threads.
THEOREM PoolTypeCorrect == Spec => []TypeOK
<1>1. IInv => TypeOK
  BY DEF IInv
<1> QED
  BY <1>1, InvariantHolds, PTL

\* A plugin's thread is never shut down while the plugin is assigned to it.
THEOREM PoolThreadsStayLive == Spec => []AssignedThreadLive
<1>1. IInv => AssignedThreadLive
  BY DEF IInv
<1> QED
  BY <1>1, InvariantHolds, PTL

\* plugin_assignments and thread_plugins are inverse to each other.
THEOREM PoolMapsStayInverse == Spec => []MapsAgree
<1>1. IInv => MapsAgree
  BY DEF IInv
<1> QED
  BY <1>1, InvariantHolds, PTL

\* The index add_thread fills was never used.
THEOREM PoolSlotsFresh == Spec => []SpawnsIntoFreshSlot
<1>1. IInv => SpawnsIntoFreshSlot
  <2> SUFFICES ASSUME IInv, NEW c \in Callers, caller[c].pc = "add_thread"
               PROVE  /\ exec_pc[caller[c].idx] = "unspawned"
                      /\ ~execution_threads[caller[c].idx]
    BY DEF SpawnsIntoFreshSlot
  <2>1. caller[c].idx \in ThreadIdx /\ caller[c].idx = threads_len
    BY DEF IInv, CallsNameTheirThread, IndexReserved
  <2> QED
    BY <2>1, PoolAssumption DEF IInv, SlotsBeyondUnused, ThreadIdx,
      PoolAssumption
<1> QED
  BY <1>1, InvariantHolds, PTL

\* The maps and the slots of the pool hold together: the three theorems above.
THEOREM PoolAssignmentsHold == Spec => []AssignmentsHold
<1>1. AssignedThreadLive /\ MapsAgree /\ SpawnsIntoFreshSlot => AssignmentsHold
  BY DEF AssignmentsHold
<1> QED
  BY <1>1, PoolThreadsStayLive, PoolMapsStayInverse, PoolSlotsFresh, PTL

-----------------------------------------------------------------------------
(***************************************************************************)
(* The jobs. A job waits in its plugin's thread, in the queue or taken and *)
(* not yet run; the numbers of the jobs that wait are those between what   *)
(* was run and what was accepted, in the order of the queue.               *)
(***************************************************************************)
Unregistering == {"unreg_assignments", "unreg_remove"}

JobsTyped ==
  \A t \in ThreadIdx :
    /\ \A k \in 1 .. Len(queue[t]) :
         queue[t][k] # Shutdown
           => queue[t][k].plugin \in Plugins /\ queue[t][k].kind \in JobKinds
    /\ exec_pc[t] \in {"run"} \cup Unregistering
         => running[t].plugin \in Plugins /\ running[t].kind \in JobKinds
    /\ exec_pc[t] = "unspawned" => queue[t] = <<>>

\* The jobs that wait in thread t.
Jobs(t) ==
  {m \in Message :
     /\ m # Shutdown
     /\ \/ \E k \in 1 .. Len(queue[t]) : queue[t][k] = m
        \/ exec_pc[t] = "run" /\ running[t] = m}

\* What a call of a caller says of its plugin.
CallOf(c) ==
  LET p == caller[c].plugin IN
  /\ p \in load_called
  /\ caller[c].kind # "load" => c = PluginThread
  /\ caller[c].kind = "load"
       => accepted[p] = 0 /\ instances[p] = 0 /\ caller[c].left = 1
  /\ caller[c].kind = "work" => instances[p] > 0
  /\ caller[c].kind = "unload" => instances[p] = 0 /\ ran[p] > 0
  /\ caller[c].pc \notin {"lookup", "send"} => caller[c].kind = "load"
  /\ caller[c].kind = "load" /\ caller[c].pc \in {"lookup", "send"}
       => plugin_assignments[p] # NoThread
  /\ caller[c].pc = "send"
       => plugin_assignments[p] \in {caller[c].idx, NoThread}

CallsMatch ==
  /\ \A c \in Callers : caller[c].pc # "idle" => CallOf(c)
  /\ \A c, d \in Callers :
       caller[c].pc # "idle" /\ caller[d].pc # "idle" /\ caller[c].plugin = caller[d].plugin
         => c = d
  /\ \A p \in Plugins :
       p \notin load_called => accepted[p] = 0 /\ instances[p] = 0

\* What a job m that waits in thread t says of its plugin.
JobOf(t, m) ==
  /\ plugin_assignments[m.plugin] \in {t, NoThread}
  /\ ran[m.plugin] < m.n /\ m.n <= accepted[m.plugin]
  /\ m.kind = "load" => m.n = 1 /\ plugin_assignments[m.plugin] = t
  /\ m.kind = "unload" => ran[m.plugin] > 0 /\ instances[m.plugin] = 0
  /\ \A c \in Callers :
       caller[c].pc = "send" /\ caller[c].plugin = m.plugin => caller[c].idx = t

JobsPlaced == \A t \in ThreadIdx : \A m \in Jobs(t) : JobOf(t, m)

OneHome ==
  \A t, u \in ThreadIdx : \A m \in Jobs(t), o \in Jobs(u) :
    m.plugin = o.plugin => t = u

NoneMissing ==
  \A p \in Plugins :
    /\ ran[p] <= accepted[p]
    /\ \A n \in ran[p] + 1 .. accepted[p] :
         \E t \in ThreadIdx : \E m \in Jobs(t) : m.plugin = p /\ m.n = n

InOrder ==
  \A t \in ThreadIdx : \A k \in 1 .. Len(queue[t]) :
    queue[t][k] # Shutdown =>
      /\ \A j \in 1 .. k - 1 :
           queue[t][j].plugin = queue[t][k].plugin => queue[t][j].n < queue[t][k].n
      /\ exec_pc[t] = "run" /\ running[t].plugin = queue[t][k].plugin
           => running[t].n < queue[t][k].n

UnloadsWhenLoaded ==
  \A t \in ThreadIdx :
    exec_pc[t] \in Unregistering =>
      /\ instances[running[t].plugin] = 0 /\ ran[running[t].plugin] > 0
      /\ running[t].kind = "unload"

\* A plugin with instances has a thread that was spawned.
Served ==
  \A p \in Plugins :
    instances[p] > 0 =>
      /\ plugin_assignments[p] # NoThread
      /\ exec_pc[plugin_assignments[p]] \notin {"unspawned", "failed"}
      /\ ran[p] > 0

JobsInv ==
  /\ JobsTyped
  /\ NothingBehindShutdown
  /\ BusyCountExact
  /\ CallsMatch
  /\ JobsPlaced
  /\ OneHome
  /\ NoneMissing
  /\ InOrder
  /\ UnloadsWhenLoaded
  /\ Served
  /\ EventsKept

LEMMA TailFacts ==
  ASSUME NEW S, NEW q \in Seq(S), q # <<>>
  PROVE  /\ Len(q) \in Nat /\ Len(q) >= 1
         /\ Head(q) = q[1] /\ Head(q) \in S
         /\ Tail(q) \in Seq(S) /\ Len(Tail(q)) = Len(q) - 1
         /\ \A i \in 1 .. Len(q) - 1 : Tail(q)[i] = q[i + 1] /\ i + 1 \in 1 .. Len(q)
<1>1. Len(q) \in Nat /\ Len(q) >= 1
  BY EmptySeq
<1>2. Head(q) = q[1] /\ Head(q) \in S
  BY HeadTailProperties
<1>3. Tail(q) \in Seq(S) /\ Len(Tail(q)) = Len(q) - 1
  BY HeadTailProperties
<1>4. \A i \in 1 .. Len(q) - 1 : Tail(q)[i] = q[i + 1]
  BY <1>3, HeadTailProperties
<1>5. \A i \in 1 .. Len(q) - 1 : i + 1 \in 1 .. Len(q)
  BY <1>1
<1> QED
  BY <1>1, <1>2, <1>3, <1>4, <1>5

LEMMA AppendFacts ==
  ASSUME NEW S, NEW q \in Seq(S), NEW e \in S
  PROVE  /\ Append(q, e) \in Seq(S) /\ Len(q) \in Nat
         /\ Len(Append(q, e)) = Len(q) + 1
         /\ \A i \in 1 .. Len(q) + 1 : i \in 1 .. Len(q) \/ i = Len(q) + 1
         /\ \A i \in 1 .. Len(q) : Append(q, e)[i] = q[i] /\ i \in 1 .. Len(q) + 1
         /\ Append(q, e)[Len(q) + 1] = e
<1>1. Len(q) \in Nat
  BY LenProperties
<1>2. /\ Append(q, e) \in Seq(S) /\ Len(Append(q, e)) = Len(q) + 1
      /\ \A i \in 1 .. Len(q) : Append(q, e)[i] = q[i]
      /\ Append(q, e)[Len(q) + 1] = e
  BY AppendProperties
<1>3. \A i \in 1 .. Len(q) + 1 : i \in 1 .. Len(q) \/ i = Len(q) + 1
  BY <1>1
<1>4. \A i \in 1 .. Len(q) : i \in 1 .. Len(q) + 1
  BY <1>1
<1> QED
  BY <1>1, <1>2, <1>3, <1>4


-----------------------------------------------------------------------------
(***************************************************************************)
(* What a step does to one thread t.                                       *)
(***************************************************************************)
\* The thread moves on in its loop, not past a job; it may lose its slot.
Goes(t) ==
  /\ \/ exec_pc'[t] = exec_pc[t]
     \/ exec_pc[t] = "unreg_assignments" /\ exec_pc'[t] = "unreg_remove"
     \/ exec_pc[t] = "unreg_remove" /\ exec_pc'[t] = "shrink_threads"
     \/ exec_pc[t] = "shrink_threads" /\ exec_pc'[t] = "shrink_remove"
     \/ exec_pc[t] = "shrink_remove" /\ exec_pc'[t] = "finish"
  /\ \/ queue'[t] = queue[t] /\ execution_threads'[t] = execution_threads[t]
     \/ /\ execution_threads[t] /\ ~execution_threads'[t]
        /\ \/ queue'[t] = queue[t] /\ ~Receiving(t)
           \/ queue'[t] = Append(queue[t], Shutdown) /\ Receiving(t)
  /\ running'[t] = running[t] /\ jobs_in_flight'[t] = jobs_in_flight[t]

\* The job caller c sends.
JobSent(c) ==
  Work(caller[c].plugin, caller[c].kind, accepted[caller[c].plugin] + 1)

GetsJob(t, c) ==
  /\ SendJob(c) /\ caller[c].idx = t
  /\ execution_threads[t] /\ Receiving(t)
  /\ queue'[t] = Append(queue[t], JobSent(c))
  /\ jobs_in_flight'[t] = jobs_in_flight[t] + 1
  /\ exec_pc'[t] = exec_pc[t] /\ running'[t] = running[t]
  /\ execution_threads'[t] = execution_threads[t]

Spawns(t) ==
  /\ exec_pc[t] = "unspawned" /\ exec_pc'[t] \in {"recv", "failed"}
  /\ queue'[t] = queue[t]
  /\ running'[t] = running[t] /\ jobs_in_flight'[t] = jobs_in_flight[t]

Takes(t) ==
  /\ exec_pc[t] = "recv" /\ queue[t] # <<>>
  /\ running'[t] = Head(queue[t]) /\ queue'[t] = Tail(queue[t])
  /\ exec_pc'[t] = IF Head(queue[t]) = Shutdown THEN "stopped" ELSE "run"
  /\ jobs_in_flight'[t] = jobs_in_flight[t]
  /\ execution_threads'[t] = execution_threads[t]

Runs(t) ==
  /\ RunJob(t)
  /\ exec_pc[t] = "run"
  /\ exec_pc'[t] = IF running[t].kind = "unload" THEN "unreg_assignments" ELSE "finish"
  /\ queue'[t] = queue[t]
  /\ running'[t] = running[t] /\ jobs_in_flight'[t] = jobs_in_flight[t]
  /\ execution_threads'[t] = execution_threads[t]

Finishes(t) ==
  /\ exec_pc[t] = "finish" /\ exec_pc'[t] = "recv"
  /\ jobs_in_flight'[t] = jobs_in_flight[t] - 1
  /\ queue'[t] = queue[t] /\ execution_threads'[t] = execution_threads[t]

\* The index a caller has reserved was never used.
LEMMA FreshSlot ==
  ASSUME IInv, NEW c \in Callers, caller[c].pc = "add_thread"
  PROVE  /\ caller[c].idx \in ThreadIdx
         /\ exec_pc[caller[c].idx] = "unspawned"
         /\ ~execution_threads[caller[c].idx]
<1>1. caller[c].idx \in ThreadIdx /\ caller[c].idx = threads_len
  BY DEF IInv, CallsNameTheirThread, IndexReserved
<1> QED
  BY <1>1, PoolAssumption DEF IInv, SlotsBeyondUnused, ThreadIdx, PoolAssumption

LEMMA ThreadSteps ==
  ASSUME IInv, [Next]_vars, NEW t \in ThreadIdx
  PROVE  \/ Goes(t)
         \/ \E c \in Callers : GetsJob(t, c)
         \/ Spawns(t)
         \/ Takes(t)
         \/ Runs(t)
         \/ Finishes(t)
<1> DEFINE Cases == Goes(t) \/ (\E c \in Callers : GetsJob(t, c)) \/ Spawns(t)
                     \/ Takes(t) \/ Runs(t) \/ Finishes(t)
<1>0. /\ execution_threads \in [ThreadIdx -> BOOLEAN]
      /\ jobs_in_flight \in [ThreadIdx -> Int]
      /\ queue \in [ThreadIdx -> Seq(Message)]
      /\ exec_pc \in [ThreadIdx -> ExecPcs]
      /\ running \in [ThreadIdx -> Message]
  BY DEF IInv, TypeOK
<1>1. CASE UNCHANGED <<execution_threads, jobs_in_flight, queue, exec_pc, running>>
  BY <1>1 DEF Goes
<1>2. ASSUME NEW c \in Callers, CallStep(c) PROVE Cases
  <2>1. CASE AddThread(c)
    <3> DEFINE i == caller[c].idx
    <3>1. exec_pc[i] = "unspawned" /\ i \in ThreadIdx
      BY <2>1, FreshSlot DEF AddThread
    <3>2. UNCHANGED <<jobs_in_flight, queue, running>>
      BY <2>1 DEF AddThread
    <3>3. CASE t = i
      <4>1. exec_pc'[i] \in {"recv", "failed"}
        BY <2>1, <3>1, <1>0 DEF AddThread
      <4> QED
        BY <3>1, <3>2, <3>3, <4>1 DEF Spawns
    <3>4. CASE t # i
      <4>1. exec_pc'[t] = exec_pc[t] /\ execution_threads'[t] = execution_threads[t]
        BY <2>1, <3>4, <1>0 DEF AddThread
      <4> QED
        BY <3>2, <4>1 DEF Goes
    <3> QED
      BY <3>3, <3>4
  <2>2. CASE SendJob(c)
    <3> DEFINE i == caller[c].idx
    <3>1. UNCHANGED <<execution_threads, exec_pc, running>>
      BY <2>2 DEF SendJob, poolVars
    <3>2. CASE execution_threads[i] /\ Receiving(i)
      <4>1. /\ jobs_in_flight' = [jobs_in_flight EXCEPT ![i] = @ + 1]
            /\ queue' = [queue EXCEPT ![i] = Append(@, JobSent(c))]
        BY <2>2, <3>2 DEF SendJob, MarkBusy, JobSent
      <4>2. CASE t = i
        <5>1. jobs_in_flight'[t] = jobs_in_flight[t] + 1
          BY <4>1, <4>2, <1>0
        <5>2. queue'[t] = Append(queue[t], JobSent(c))
          BY <4>1, <4>2, <1>0
        <5> QED
          BY <2>2, <3>1, <3>2, <4>2, <5>1, <5>2 DEF GetsJob
      <4>3. CASE t # i
        <5>1. jobs_in_flight'[t] = jobs_in_flight[t] /\ queue'[t] = queue[t]
          BY <4>1, <4>3, <1>0
        <5> QED
          BY <3>1, <5>1 DEF Goes
      <4> QED
        BY <4>2, <4>3
    <3>3. CASE ~(execution_threads[i] /\ Receiving(i))
      BY <2>2, <3>1, <3>3, <1>1 DEF SendJob
    <3> QED
      BY <3>2, <3>3
  <2>3. CASE ~AddThread(c) /\ ~SendJob(c)
    BY <1>1, <1>2, <2>3
    DEF CallStep, RegisterLockAssignments, RegisterLockThreadPlugins, ChooseThread,
      ReserveThread, RecordAssignment, LookupThread, poolVars
  <2> QED
    BY <2>1, <2>2, <2>3
<1>3. ASSUME NEW u \in ThreadIdx, WorkerStep(u) PROVE Cases
  <2>1. CASE TakeJob(u)
    BY <2>1, <1>0 DEF TakeJob, Goes, Takes, poolVars
  <2>2. CASE RunJob(u)
    BY <2>2, <1>0 DEF RunJob, Goes, Runs, poolVars
  <2>3. CASE UnregisterLockAssignments(u)
    BY <2>3, <1>0 DEF UnregisterLockAssignments, Goes, poolVars
  <2>4. CASE UnregisterRemove(u)
    BY <2>4, <1>0 DEF UnregisterRemove, Goes, poolVars
  <2>5. CASE ShrinkLockThreads(u)
    BY <2>5, <1>0 DEF ShrinkLockThreads, Goes, poolVars
  <2>6. CASE ShrinkRemove(u)
    <3>1. /\ \/ exec_pc'[t] = exec_pc[t]
             \/ exec_pc[t] = "shrink_remove" /\ exec_pc'[t] = "finish"
          /\ UNCHANGED <<running, jobs_in_flight>>
      BY <2>6, <1>0 DEF ShrinkRemove
    <3>2. /\ execution_threads'[t] = (execution_threads[t] /\ t \notin Removable)
          /\ queue'[t] = IF t \in Removable /\ Receiving(t)
                           THEN Append(queue[t], Shutdown) ELSE queue[t]
      BY <2>6 DEF ShrinkRemove, Kept
    <3>3. t \in Removable => execution_threads[t]
      BY DEF Removable, LiveThreads
    <3>4. execution_threads[t] \in BOOLEAN /\ execution_threads'[t] \in BOOLEAN
      BY <1>0, <3>2
    <3>5. CASE t \in Removable
      BY <3>1, <3>2, <3>3, <3>5 DEF Goes
    <3>6. CASE t \notin Removable
      BY <3>1, <3>2, <3>4, <3>6 DEF Goes
    <3> QED
      BY <3>5, <3>6
  <2>7. CASE FinishJob(u)
    BY <2>7, <1>0 DEF FinishJob, Goes, Finishes, poolVars
  <2> QED
    BY <1>3, <2>1, <2>2, <2>3, <2>4, <2>5, <2>6, <2>7 DEF WorkerStep
<1>4. ASSUME NEW c \in Callers, NEW p \in Plugins,
             LoadPlugin(c, p) \/ DeliverWork(p) \/ UnloadPlugin(p)
      PROVE Cases
  BY <1>1, <1>4 DEF LoadPlugin, DeliverWork, UnloadPlugin, poolVars
<1>5. CASE UNCHANGED vars
  BY <1>1, <1>5 DEF vars, poolVars
<1>6. PluginThread \in Callers
  BY DEF Callers
<1> QED
  BY <1>2, <1>3, <1>4, <1>5, <1>6 DEF Next

-----------------------------------------------------------------------------
LEMMA JobSentType ==
  ASSUME IInv, NEW c \in Callers, SendJob(c)
  PROVE  /\ JobSent(c) \in Message /\ JobSent(c) # Shutdown
         /\ JobSent(c).plugin = caller[c].plugin /\ JobSent(c).plugin \in Plugins
         /\ JobSent(c).kind = caller[c].kind /\ JobSent(c).kind \in JobKinds
         /\ JobSent(c).n = accepted[caller[c].plugin] + 1
<1>1. caller[c].plugin \in Plugins /\ caller[c].pc = "send"
  BY DEF IInv, CallsNameTheirThread, SendJob
<1>2. caller[c] \in Call /\ accepted[caller[c].plugin] \in Nat
  BY <1>1 DEF IInv, TypeOK
<1>3. caller[c].kind \in JobKinds
  BY <1>2 DEF Call
<1> QED
  BY <1>1, <1>2, <1>3, PoolAssumption
  DEF JobSent, Work, Message, Shutdown, PoolAssumption

LEMMA ShutdownType == Shutdown \in Message
BY DEF Shutdown, Message

\* The jobs of the queues and of the workers are those of loaded plugins, and
\* a queue exists from the thread's spawn.
LEMMA JobsTypedKept ==
  ASSUME IInv, JobsTyped, [Next]_vars
  PROVE  JobsTyped'
<1> SUFFICES ASSUME NEW t \in ThreadIdx
             PROVE
    /\ \A k \in 1 .. Len(queue'[t]) :
         queue'[t][k] # Shutdown
           => queue'[t][k].plugin \in Plugins /\ queue'[t][k].kind \in JobKinds
    /\ exec_pc'[t] \in {"run"} \cup Unregistering
         => running'[t].plugin \in Plugins /\ running'[t].kind \in JobKinds
    /\ exec_pc'[t] = "unspawned" => queue'[t] = <<>>
  BY DEF JobsTyped
<1>0. queue[t] \in Seq(Message) /\ queue[t] \in Seq(Message) /\ exec_pc[t] \in ExecPcs
  BY DEF IInv, TypeOK
<1>1. /\ \A k \in 1 .. Len(queue[t]) :
           queue[t][k] # Shutdown
             => queue[t][k].plugin \in Plugins /\ queue[t][k].kind \in JobKinds
      /\ exec_pc[t] \in {"run"} \cup Unregistering
           => running[t].plugin \in Plugins /\ running[t].kind \in JobKinds
      /\ exec_pc[t] = "unspawned" => queue[t] = <<>>
  BY DEF JobsTyped
<1>2. CASE Goes(t)
  <2>1. CASE queue'[t] = Append(queue[t], Shutdown) /\ Receiving(t)
    <3>1. /\ Len(queue'[t]) = Len(queue[t]) + 1
          /\ \A i \in 1 .. Len(queue[t]) + 1 : i \in 1 .. Len(queue[t]) \/ i = Len(queue[t]) + 1
          /\ \A i \in 1 .. Len(queue[t]) : queue'[t][i] = queue[t][i]
          /\ queue'[t][Len(queue[t]) + 1] = Shutdown
      BY <1>0, <2>1, AppendFacts, ShutdownType
    <3> QED
      BY <1>1, <1>2, <2>1, <3>1 DEF Goes, Unregistering, Receiving
  <2>2. CASE queue'[t] = queue[t]
    BY <1>1, <1>2, <2>2 DEF Goes, Unregistering
  <2> QED
    BY <1>2, <2>1, <2>2 DEF Goes
<1>3. ASSUME NEW c \in Callers, GetsJob(t, c)
      PROVE
    /\ \A k \in 1 .. Len(queue'[t]) :
         queue'[t][k] # Shutdown
           => queue'[t][k].plugin \in Plugins /\ queue'[t][k].kind \in JobKinds
    /\ exec_pc'[t] \in {"run"} \cup Unregistering
         => running'[t].plugin \in Plugins /\ running'[t].kind \in JobKinds
    /\ exec_pc'[t] = "unspawned" => queue'[t] = <<>>
  <2>1. /\ JobSent(c) \in Message /\ JobSent(c).plugin \in Plugins
        /\ JobSent(c).kind \in JobKinds
    BY <1>3, JobSentType DEF GetsJob
  <2>2. /\ Len(queue'[t]) = Len(queue[t]) + 1
        /\ \A i \in 1 .. Len(queue[t]) + 1 : i \in 1 .. Len(queue[t]) \/ i = Len(queue[t]) + 1
        /\ \A i \in 1 .. Len(queue[t]) : queue'[t][i] = queue[t][i]
        /\ queue'[t][Len(queue[t]) + 1] = JobSent(c)
    BY <1>0, <1>3, <2>1, AppendFacts DEF GetsJob
  <2> QED
    BY <1>1, <1>3, <2>1, <2>2 DEF GetsJob, Receiving
<1>4. CASE Spawns(t)
  BY <1>1, <1>4 DEF Spawns, Unregistering
<1>5. CASE Takes(t)
  <2>1. /\ Len(queue[t]) \in Nat /\ Len(queue[t]) >= 1
        /\ Head(queue[t]) = queue[t][1]
        /\ Len(queue'[t]) = Len(queue[t]) - 1
        /\ \A i \in 1 .. Len(queue[t]) - 1 :
             queue'[t][i] = queue[t][i + 1] /\ i + 1 \in 1 .. Len(queue[t])
    BY <1>0, <1>5, TailFacts DEF Takes
  <2>2. 1 \in 1 .. Len(queue[t])
    BY <2>1
  <2> QED
    BY <1>1, <1>5, <2>1, <2>2 DEF Takes, Unregistering
<1>6. CASE Runs(t)
  BY <1>1, <1>6 DEF Runs, Unregistering
<1>7. CASE Finishes(t)
  BY <1>1, <1>7 DEF Finishes, Unregistering
<1> QED
  BY <1>2, <1>3, <1>4, <1>5, <1>6, <1>7, ThreadSteps

\* A shutdown stays the last message of its queue.
LEMMA ShutdownLastKept ==
  ASSUME IInv, JobsTyped, NothingBehindShutdown, [Next]_vars, IInv'
  PROVE  NothingBehindShutdown'
<1>0. \A u \in ThreadIdx :
        DOMAIN queue[u] = 1 .. Len(queue[u]) /\ DOMAIN queue'[u] = 1 .. Len(queue'[u])
  <2> TAKE u \in ThreadIdx
  <2>1. queue[u] \in Seq(Message) /\ queue'[u] \in Seq(Message)
    BY DEF IInv, TypeOK
  <2> QED
    BY <2>1
<1> SUFFICES ASSUME NEW t \in ThreadIdx
             PROVE
    /\ \A k \in 1 .. Len(queue'[t]) :
         queue'[t][k] = Shutdown => k = Len(queue'[t]) /\ ~execution_threads'[t]
    /\ exec_pc'[t] = "stopped" => queue'[t] = <<>> /\ ~execution_threads'[t]
  BY <1>0 DEF NothingBehindShutdown
<1>1. /\ \A k \in 1 .. Len(queue[t]) :
           queue[t][k] = Shutdown => k = Len(queue[t]) /\ ~execution_threads[t]
      /\ exec_pc[t] = "stopped" => queue[t] = <<>> /\ ~execution_threads[t]
  BY <1>0 DEF NothingBehindShutdown
<1>2. queue[t] \in Seq(Message) /\ exec_pc[t] \in ExecPcs
  BY DEF IInv, TypeOK
<1>3. CASE Goes(t)
  <2>1. CASE /\ queue'[t] = Append(queue[t], Shutdown) /\ Receiving(t)
             /\ execution_threads[t] /\ ~execution_threads'[t]
    <3>1. /\ Len(queue'[t]) = Len(queue[t]) + 1
          /\ \A i \in 1 .. Len(queue[t]) + 1 : i \in 1 .. Len(queue[t]) \/ i = Len(queue[t]) + 1
          /\ \A i \in 1 .. Len(queue[t]) : queue'[t][i] = queue[t][i]
          /\ queue'[t][Len(queue[t]) + 1] = Shutdown
      BY <1>2, <2>1, AppendFacts, ShutdownType
    <3>2. exec_pc'[t] # "stopped"
      BY <1>3, <2>1 DEF Goes, Receiving
    <3> QED
      BY <1>1, <2>1, <3>1, <3>2
  <2>2. CASE queue'[t] = queue[t] /\ (execution_threads'[t] => execution_threads[t])
    BY <1>1, <1>3, <2>2 DEF Goes
  <2> QED
    BY <1>3, <2>1, <2>2 DEF Goes
<1>4. ASSUME NEW c \in Callers, GetsJob(t, c)
      PROVE
    /\ \A k \in 1 .. Len(queue'[t]) :
         queue'[t][k] = Shutdown => k = Len(queue'[t]) /\ ~execution_threads'[t]
    /\ exec_pc'[t] = "stopped" => queue'[t] = <<>> /\ ~execution_threads'[t]
  <2>1. JobSent(c) \in Message /\ JobSent(c) # Shutdown
    BY <1>4, JobSentType DEF GetsJob
  <2>2. /\ Len(queue'[t]) = Len(queue[t]) + 1
        /\ \A i \in 1 .. Len(queue[t]) + 1 : i \in 1 .. Len(queue[t]) \/ i = Len(queue[t]) + 1
        /\ \A i \in 1 .. Len(queue[t]) : queue'[t][i] = queue[t][i]
        /\ queue'[t][Len(queue[t]) + 1] = JobSent(c)
    BY <1>2, <1>4, <2>1, AppendFacts DEF GetsJob
  <2> QED
    BY <1>1, <1>4, <2>1, <2>2 DEF GetsJob, Receiving
<1>5. CASE Spawns(t)
  BY <1>1, <1>5, EmptySeq DEF Spawns, JobsTyped
<1>6. CASE Takes(t)
  <2>1. /\ Len(queue[t]) \in Nat /\ Len(queue[t]) >= 1
        /\ Head(queue[t]) = queue[t][1] /\ queue'[t] \in Seq(Message)
        /\ Len(queue'[t]) = Len(queue[t]) - 1
        /\ \A i \in 1 .. Len(queue[t]) - 1 :
             queue'[t][i] = queue[t][i + 1] /\ i + 1 \in 1 .. Len(queue[t])
    BY <1>2, <1>6, TailFacts DEF Takes
  <2>2. 1 \in 1 .. Len(queue[t])
    BY <2>1
  <2>3. \A k \in 1 .. Len(queue'[t]) :
          queue'[t][k] = Shutdown => k = Len(queue'[t]) /\ ~execution_threads'[t]
    <3> SUFFICES ASSUME NEW k \in 1 .. Len(queue'[t]), queue'[t][k] = Shutdown
                 PROVE  k = Len(queue'[t]) /\ ~execution_threads'[t]
      OBVIOUS
    <3>1. queue[t][k + 1] = Shutdown /\ k + 1 \in 1 .. Len(queue[t])
      BY <2>1
    <3>2. k + 1 = Len(queue[t]) /\ ~execution_threads[t]
      BY <1>1, <3>1
    <3> QED
      BY <1>6, <2>1, <3>2 DEF Takes
  <2>4. ASSUME exec_pc'[t] = "stopped"
        PROVE  queue'[t] = <<>> /\ ~execution_threads'[t]
    <3>1. queue[t][1] = Shutdown
      BY <1>6, <2>1, <2>4 DEF Takes
    <3>2. Len(queue[t]) = 1 /\ ~execution_threads[t]
      BY <1>1, <2>2, <3>1
    <3>3. Len(queue'[t]) = 0
      BY <2>1, <3>2
    <3> QED
      BY <1>6, <2>1, <3>2, <3>3, EmptySeq DEF Takes
  <2> QED
    BY <2>3, <2>4
<1>7. CASE Runs(t)
  BY <1>1, <1>7 DEF Runs
<1>8. CASE Finishes(t)
  BY <1>1, <1>8 DEF Finishes
<1> QED
  BY <1>3, <1>4, <1>5, <1>6, <1>7, <1>8, ThreadSteps

-----------------------------------------------------------------------------
(***************************************************************************)
(* The count of the jobs of a thread.                                      *)
(***************************************************************************)
\* The places of q that hold a job.
Counted(q) == {k \in DOMAIN q : q[k] # Shutdown}

LEMMA CountedFinite ==
  ASSUME NEW q \in Seq(Message)
  PROVE  /\ IsFiniteSet(Counted(q)) /\ Cardinality(Counted(q)) \in Nat
         /\ Counted(q) = {k \in 1 .. Len(q) : q[k] # Shutdown}
<1>1. DOMAIN q = 1 .. Len(q) /\ Len(q) \in Nat
  BY LenProperties
<1>2. IsFiniteSet(1 .. Len(q))
  BY <1>1, FS_Interval
<1>3. Counted(q) \subseteq 1 .. Len(q)
  BY <1>1 DEF Counted
<1>4. IsFiniteSet(Counted(q))
  BY <1>2, <1>3, FS_Subset
<1> QED
  BY <1>1, <1>4, FS_CardinalityType DEF Counted

LEMMA CountAppended ==
  ASSUME NEW q \in Seq(Message), NEW m \in Message
  PROVE  Cardinality(Counted(Append(q, m)))
           = Cardinality(Counted(q)) + (IF m = Shutdown THEN 0 ELSE 1)
<1> DEFINE r == Append(q, m)
<1>1. /\ r \in Seq(Message) /\ Len(q) \in Nat
      /\ Len(r) = Len(q) + 1
      /\ \A i \in 1 .. Len(q) + 1 : i \in 1 .. Len(q) \/ i = Len(q) + 1
      /\ \A i \in 1 .. Len(q) : r[i] = q[i] /\ i \in 1 .. Len(q) + 1
      /\ r[Len(q) + 1] = m
  BY AppendFacts
<1> HIDE DEF r
<1>2. /\ IsFiniteSet(Counted(q)) /\ Cardinality(Counted(q)) \in Nat
      /\ Counted(q) = {k \in 1 .. Len(q) : q[k] # Shutdown}
      /\ Counted(r) = {k \in 1 .. Len(r) : r[k] # Shutdown}
  BY <1>1, CountedFinite
<1>3. Len(q) + 1 \in 1 .. Len(r) /\ Len(q) + 1 \notin 1 .. Len(q)
  BY <1>1
<1>4. CASE m = Shutdown
  <2>1. Counted(r) = Counted(q)
    BY <1>1, <1>2, <1>4
  <2>2. Cardinality(Counted(q)) \in Nat
    BY <1>2
  <2>3. Cardinality(Counted(q)) + 0 = Cardinality(Counted(q))
    BY <2>2
  <2>4. Cardinality(Counted(r)) = Cardinality(Counted(q)) + 0
    BY <2>1, <2>3
  <2> QED
    BY <1>4, <2>4 DEF r
<1>5. CASE m # Shutdown
  <2>1. Counted(r) = Counted(q) \cup {Len(q) + 1}
    BY <1>1, <1>2, <1>3, <1>5
  <2>2. Len(q) + 1 \notin Counted(q)
    BY <1>2, <1>3
  <2>3. Cardinality(Counted(q) \cup {Len(q) + 1}) = Cardinality(Counted(q)) + 1
    BY <1>2, <2>2, FS_AddElement
  <2> QED
    BY <1>5, <2>1, <2>3 DEF r
<1> QED
  BY <1>4, <1>5

LEMMA CountTaken ==
  ASSUME NEW q \in Seq(Message), q # <<>>
  PROVE  Cardinality(Counted(q))
           = Cardinality(Counted(Tail(q))) + (IF Head(q) = Shutdown THEN 0 ELSE 1)
<1> DEFINE r == Tail(q)
<1>1. /\ Len(q) \in Nat /\ Len(q) >= 1
      /\ Head(q) = q[1]
      /\ r \in Seq(Message) /\ Len(r) = Len(q) - 1
      /\ \A i \in 1 .. Len(q) - 1 : r[i] = q[i + 1] /\ i + 1 \in 1 .. Len(q)
  BY TailFacts
<1> HIDE DEF r
<1>2. /\ IsFiniteSet(Counted(q)) /\ Cardinality(Counted(q)) \in Nat
      /\ IsFiniteSet(Counted(r)) /\ Cardinality(Counted(r)) \in Nat
      /\ Counted(q) = {k \in 1 .. Len(q) : q[k] # Shutdown}
      /\ Counted(r) = {k \in 1 .. Len(r) : r[k] # Shutdown}
  BY <1>1, CountedFinite
<1> DEFINE Rest == Counted(q) \ {1}
           f == [k \in Counted(r) |-> k + 1]
<1>3. \A k \in Counted(r) : k \in Nat /\ k + 1 \in Rest
  <2> SUFFICES ASSUME NEW k \in Counted(r) PROVE k \in Nat /\ k + 1 \in Rest
    OBVIOUS
  <2>1. k \in 1 .. Len(q) - 1 /\ r[k] # Shutdown
    BY <1>1, <1>2
  <2>2. k + 1 \in 1 .. Len(q) /\ q[k + 1] # Shutdown
    BY <1>1, <2>1
  <2>3. k \in Nat /\ k + 1 # 1
    BY <2>1
  <2> QED
    BY <1>2, <2>2, <2>3
<1>4. \A j \in Rest : \E k \in Counted(r) : k + 1 = j
  <2> SUFFICES ASSUME NEW j \in Rest PROVE j - 1 \in Counted(r) /\ (j - 1) + 1 = j
    OBVIOUS
  <2>1. j \in 1 .. Len(q) /\ q[j] # Shutdown /\ j # 1
    BY <1>2
  <2>2. j - 1 \in 1 .. Len(q) - 1 /\ (j - 1) + 1 = j
    BY <1>1, <2>1
  <2>3. r[j - 1] = q[j]
    BY <1>1, <2>2
  <2> QED
    BY <1>1, <1>2, <2>1, <2>2, <2>3
<1>5. f \in Bijection(Counted(r), Rest)
  <2>1. f \in [Counted(r) -> Rest]
    BY <1>3
  <2>2. \A a, b \in Counted(r) : f[a] = f[b] => a = b
    BY <1>3
  <2>3. \A j \in Rest : \E k \in Counted(r) : f[k] = j
    BY <1>4
  <2> HIDE DEF f, Rest
  <2> QED
    BY <2>1, <2>2, <2>3 DEF Bijection, Injection, Surjection, IsInjective
<1>6. Cardinality(Rest) = Cardinality(Counted(r))
  <2>1. ExistsBijection(Counted(r), Rest)
    BY <1>5 DEF ExistsBijection
  <2> HIDE DEF Rest
  <2> QED
    BY <1>2, <2>1, FS_Bijection
<1>7. Cardinality(Rest)
        = IF 1 \in Counted(q) THEN Cardinality(Counted(q)) - 1 ELSE Cardinality(Counted(q))
  BY <1>2, FS_RemoveElement
<1>8. 1 \in Counted(q) <=> Head(q) # Shutdown
  BY <1>1, <1>2
<1> QED
  BY <1>2, <1>6, <1>7, <1>8 DEF r

\* jobs_in_flight counts the jobs a thread has queued and the one it runs.
LEMMA BusyCountKept ==
  ASSUME IInv, BusyCountExact, [Next]_vars
  PROVE  BusyCountExact'
<1> SUFFICES ASSUME NEW t \in ThreadIdx
             PROVE  jobs_in_flight'[t] =
                      Cardinality(Counted(queue'[t])) + (IF InJob(t)' THEN 1 ELSE 0)
  BY DEF BusyCountExact, WorkQueued, Counted
<1>1. jobs_in_flight[t] = Cardinality(Counted(queue[t])) + (IF InJob(t) THEN 1 ELSE 0)
  BY DEF BusyCountExact, WorkQueued, Counted
<1>2. queue[t] \in Seq(Message) /\ jobs_in_flight[t] \in Int
  BY DEF IInv, TypeOK
<1>3. Cardinality(Counted(queue[t])) \in Nat
  BY <1>2, CountedFinite
<1>4. CASE Goes(t)
  <2>1. InJob(t)' <=> InJob(t)
    BY <1>4 DEF Goes, InJob
  <2>2. CASE queue'[t] = Append(queue[t], Shutdown)
    <3>1. Cardinality(Counted(queue'[t])) = Cardinality(Counted(queue[t])) + 0
      BY <1>2, <2>2, CountAppended, ShutdownType
    <3> QED
      BY <1>1, <1>3, <1>4, <2>1, <3>1 DEF Goes
  <2>3. CASE queue'[t] = queue[t]
    BY <1>1, <1>4, <2>1, <2>3 DEF Goes
  <2> QED
    BY <1>4, <2>2, <2>3 DEF Goes
<1>5. ASSUME NEW c \in Callers, GetsJob(t, c)
      PROVE jobs_in_flight'[t] = Cardinality(Counted(queue'[t])) + (IF InJob(t)' THEN 1 ELSE 0)
  <2>1. JobSent(c) \in Message /\ JobSent(c) # Shutdown
    BY <1>5, JobSentType DEF GetsJob
  <2>2. Cardinality(Counted(queue'[t])) = Cardinality(Counted(queue[t])) + 1
    BY <1>2, <1>5, <2>1, CountAppended DEF GetsJob
  <2>3. InJob(t)' <=> InJob(t)
    BY <1>5 DEF GetsJob, InJob
  <2> QED
    BY <1>1, <1>3, <1>5, <2>2, <2>3 DEF GetsJob
<1>6. CASE Spawns(t)
  BY <1>1, <1>6 DEF Spawns, InJob
<1>7. CASE Takes(t)
  <2>1. Cardinality(Counted(queue[t]))
          = Cardinality(Counted(queue'[t])) + (IF Head(queue[t]) = Shutdown THEN 0 ELSE 1)
    BY <1>2, <1>7, CountTaken DEF Takes
  <2>2. Cardinality(Counted(queue'[t])) \in Nat
    BY <1>2, <1>7, TailFacts, CountedFinite DEF Takes
  <2>3. ~InJob(t) /\ (InJob(t)' <=> Head(queue[t]) # Shutdown)
    BY <1>7 DEF Takes, InJob
  <2> QED
    BY <1>1, <1>7, <2>1, <2>2, <2>3 DEF Takes
<1>8. CASE Runs(t)
  BY <1>1, <1>8 DEF Runs, InJob
<1>9. CASE Finishes(t)
  <2>1. InJob(t) /\ ~InJob(t)'
    BY <1>9 DEF Finishes, InJob
  <2> QED
    BY <1>1, <1>3, <1>9, <2>1 DEF Finishes
<1> QED
  BY <1>4, <1>5, <1>6, <1>7, <1>8, <1>9, ThreadSteps

-----------------------------------------------------------------------------
(***************************************************************************)
(* What a step does to the jobs that wait.                                 *)
(***************************************************************************)
JobsRest == accepted' = accepted /\ ran' = ran /\ \A t \in ThreadIdx : Jobs(t)' = Jobs(t)

AddsJob(c, i) ==
  /\ SendJob(c) /\ caller[c].idx = i /\ ran' = ran
  /\ execution_threads[i] /\ Receiving(i)
  /\ accepted' = [accepted EXCEPT ![caller[c].plugin] = @ + 1]
  /\ Jobs(i)' = Jobs(i) \cup {JobSent(c)}
  /\ \A t \in ThreadIdx : t # i => Jobs(t)' = Jobs(t)

EndsJob(t) ==
  /\ RunJob(t) /\ accepted' = accepted
  /\ ran' = [ran EXCEPT ![running[t].plugin] = @ + 1]
  /\ running[t] \in Jobs(t)
  /\ Jobs(t)' \subseteq Jobs(t)
  /\ Jobs(t) \subseteq Jobs(t)' \cup {running[t]}
  /\ \A m \in Jobs(t)' : m.plugin = running[t].plugin => running[t].n < m.n
  /\ \A u \in ThreadIdx : u # t => Jobs(u)' = Jobs(u)

\* The jobs of a thread that neither gets nor runs one stay the same.
LEMMA JobsStay ==
  ASSUME IInv, JobsTyped, NEW t \in ThreadIdx, Goes(t) \/ Spawns(t) \/ Takes(t) \/ Finishes(t)
  PROVE  Jobs(t)' = Jobs(t)
<1> DEFINE In(q, m) == \E k \in 1 .. Len(q) : q[k] = m
<1>1. queue[t] \in Seq(Message)
  BY DEF IInv, TypeOK
<1>2. SUFFICES ASSUME NEW m \in Message, m # Shutdown
               PROVE  (In(queue'[t], m) \/ (exec_pc'[t] = "run" /\ running'[t] = m))
                        <=> (In(queue[t], m) \/ (exec_pc[t] = "run" /\ running[t] = m))
  BY DEF Jobs
<1>3. CASE Goes(t)
  <2>1. (exec_pc'[t] = "run" <=> exec_pc[t] = "run") /\ running'[t] = running[t]
    BY <1>3 DEF Goes
  <2>2. In(queue'[t], m) <=> In(queue[t], m)
    <3>1. CASE queue'[t] = Append(queue[t], Shutdown)
      <4>1. /\ Len(queue[t]) \in Nat /\ Len(queue'[t]) = Len(queue[t]) + 1
            /\ \A i \in 1 .. Len(queue[t]) + 1 : i \in 1 .. Len(queue[t]) \/ i = Len(queue[t]) + 1
            /\ \A i \in 1 .. Len(queue[t]) :
                 queue'[t][i] = queue[t][i] /\ i \in 1 .. Len(queue[t]) + 1
            /\ queue'[t][Len(queue[t]) + 1] = Shutdown
        BY <1>1, <3>1, AppendFacts, ShutdownType
      <4> QED
        BY <1>2, <4>1
    <3>2. CASE queue'[t] = queue[t]
      BY <3>2
    <3> QED
      BY <1>3, <3>1, <3>2 DEF Goes
  <2> QED
    BY <2>1, <2>2
<1>4. CASE Spawns(t)
  BY <1>4 DEF Spawns
<1>5. CASE Takes(t)
  <2>1. /\ Len(queue[t]) \in Nat /\ Len(queue[t]) >= 1
        /\ Head(queue[t]) = queue[t][1]
        /\ Len(queue'[t]) = Len(queue[t]) - 1
        /\ \A i \in 1 .. Len(queue[t]) - 1 :
             queue'[t][i] = queue[t][i + 1] /\ i + 1 \in 1 .. Len(queue[t])
    BY <1>1, <1>5, TailFacts DEF Takes
  <2>2. In(queue[t], m) <=> queue[t][1] = m \/ In(queue'[t], m)
    <3>1. 1 \in 1 .. Len(queue[t])
      BY <2>1
    <3>2. \A k \in 1 .. Len(queue[t]) :
            k = 1 \/ (k - 1 \in 1 .. Len(queue[t]) - 1 /\ (k - 1) + 1 = k)
      BY <2>1
    <3>3. ASSUME NEW k \in 1 .. Len(queue[t]), queue[t][k] = m
          PROVE  queue[t][1] = m \/ In(queue'[t], m)
      <4>1. CASE k = 1
        BY <3>3, <4>1
      <4>2. CASE k # 1
        <5>1. k - 1 \in 1 .. Len(queue[t]) - 1 /\ (k - 1) + 1 = k
          BY <3>2, <4>2
        <5>2. queue'[t][k - 1] = m
          BY <2>1, <3>3, <5>1
        <5> QED
          BY <2>1, <5>1, <5>2
      <4> QED
        BY <4>1, <4>2
    <3>4. In(queue'[t], m) => In(queue[t], m)
      BY <2>1
    <3> QED
      BY <3>1, <3>3, <3>4
  <2>3. exec_pc[t] # "run" /\ running'[t] = queue[t][1]
    BY <1>5, <2>1 DEF Takes
  <2>4. exec_pc'[t] = "run" <=> queue[t][1] # Shutdown
    BY <1>5, <2>1 DEF Takes
  <2> QED
    BY <1>2, <2>2, <2>3, <2>4
<1>6. CASE Finishes(t)
  BY <1>6 DEF Finishes
<1> QED
  BY <1>3, <1>4, <1>5, <1>6

LEMMA JobAdded ==
  ASSUME IInv, NEW t \in ThreadIdx, NEW c \in Callers, GetsJob(t, c)
  PROVE  Jobs(t)' = Jobs(t) \cup {JobSent(c)}
<1>1. JobSent(c) \in Message /\ JobSent(c) # Shutdown
  BY JobSentType DEF GetsJob
<1>2. queue[t] \in Seq(Message)
  BY DEF IInv, TypeOK
<1>3. /\ Len(queue[t]) \in Nat /\ Len(queue'[t]) = Len(queue[t]) + 1
      /\ \A i \in 1 .. Len(queue[t]) + 1 : i \in 1 .. Len(queue[t]) \/ i = Len(queue[t]) + 1
      /\ \A i \in 1 .. Len(queue[t]) :
           queue'[t][i] = queue[t][i] /\ i \in 1 .. Len(queue[t]) + 1
      /\ queue'[t][Len(queue[t]) + 1] = JobSent(c)
  BY <1>1, <1>2, AppendFacts DEF GetsJob
<1>4. Len(queue[t]) + 1 \in 1 .. Len(queue'[t])
  BY <1>3
<1>5. \A m \in Message :
        (\E k \in 1 .. Len(queue'[t]) : queue'[t][k] = m)
          <=> (m = JobSent(c) \/ \E k \in 1 .. Len(queue[t]) : queue[t][k] = m)
  BY <1>3, <1>4
<1>6. exec_pc'[t] = exec_pc[t] /\ running'[t] = running[t]
  BY DEF GetsJob
<1> QED
  BY <1>1, <1>5, <1>6 DEF Jobs

LEMMA JobEnded ==
  ASSUME IInv, JobsTyped, InOrder, NEW t \in ThreadIdx, Runs(t)
  PROVE  /\ running[t] \in Jobs(t)
         /\ Jobs(t)' \subseteq Jobs(t)
         /\ Jobs(t) \subseteq Jobs(t)' \cup {running[t]}
         /\ \A m \in Jobs(t)' : m.plugin = running[t].plugin => running[t].n < m.n
<1>1. exec_pc[t] = "run" /\ exec_pc'[t] # "run"
  BY DEF Runs
<1>2. queue'[t] = queue[t] /\ running'[t] = running[t]
  BY DEF Runs
<1>3. running[t] \in Message /\ running[t] # Shutdown
  BY <1>1, PoolAssumption DEF IInv, TypeOK, JobsTyped, Shutdown, PoolAssumption
<1>4. Jobs(t)' = {m \in Message : m # Shutdown /\ \E k \in 1 .. Len(queue[t]) : queue[t][k] = m}
  BY <1>1, <1>2 DEF Jobs
<1>5. \A m \in Jobs(t)' : m.plugin = running[t].plugin => running[t].n < m.n
  BY <1>1, <1>4 DEF InOrder
<1> QED
  BY <1>1, <1>3, <1>4, <1>5 DEF Jobs

LEMMA JobSteps ==
  ASSUME IInv, JobsTyped, InOrder, [Next]_vars
  PROVE  \/ JobsRest
         \/ \E c \in Callers, i \in ThreadIdx : AddsJob(c, i)
         \/ \E t \in ThreadIdx : EndsJob(t)
<1>0. TypeOK
  BY DEF IInv
<1>1. CASE \E c \in Callers :
             SendJob(c) /\ execution_threads[caller[c].idx] /\ Receiving(caller[c].idx)
  <2>1. PICK c \in Callers :
          SendJob(c) /\ execution_threads[caller[c].idx] /\ Receiving(caller[c].idx)
    BY <1>1
  <2>2. PICK i \in ThreadIdx : caller[c].idx = i
    BY <2>1 DEF IInv, CallsNameTheirThread, SendJob
  <2>3. /\ jobs_in_flight' = [jobs_in_flight EXCEPT ![i] = @ + 1]
        /\ queue' = [queue EXCEPT ![i] = Append(@, JobSent(c))]
        /\ accepted' = [accepted EXCEPT ![caller[c].plugin] = @ + 1]
        /\ UNCHANGED <<execution_threads, exec_pc, running, ran>>
    BY <2>1, <2>2 DEF SendJob, MarkBusy, JobSent, poolVars
  <2>4. GetsJob(i, c)
    <3>1. jobs_in_flight'[i] = jobs_in_flight[i] + 1
      BY <2>2, <2>3, <1>0 DEF TypeOK
    <3>2. queue'[i] = Append(queue[i], JobSent(c))
      BY <2>2, <2>3, <1>0 DEF TypeOK
    <3>3. /\ exec_pc'[i] = exec_pc[i] /\ running'[i] = running[i]
          /\ execution_threads'[i] = execution_threads[i]
      BY <2>3
    <3> QED
      BY <2>1, <2>2, <3>1, <3>2, <3>3 DEF GetsJob
  <2>5. Jobs(i)' = Jobs(i) \cup {JobSent(c)}
    BY <2>2, <2>4, JobAdded
  <2>6. ASSUME NEW t \in ThreadIdx, t # i PROVE Jobs(t)' = Jobs(t)
    <3>1. queue'[t] = queue[t] /\ exec_pc' = exec_pc /\ running' = running
      BY <2>3, <2>6, <1>0 DEF TypeOK
    <3> QED
      BY <3>1 DEF Jobs
  <2> QED
    BY <2>1, <2>2, <2>3, <2>5, <2>6 DEF AddsJob
<1>2. CASE \E t \in ThreadIdx : RunJob(t)
  <2>1. PICK t \in ThreadIdx : RunJob(t)
    BY <1>2
  <2>2. /\ ran' = [ran EXCEPT ![running[t].plugin] = @ + 1]
        /\ UNCHANGED <<execution_threads, jobs_in_flight, queue, running, accepted>>
    BY <2>1 DEF RunJob, poolVars
  <2>3. Runs(t)
    BY <2>1, <2>2, <1>0 DEF Runs, RunJob, TypeOK
  <2>4. ASSUME NEW u \in ThreadIdx, u # t PROVE Jobs(u)' = Jobs(u)
    <3>1. queue' = queue /\ exec_pc'[u] = exec_pc[u] /\ running' = running
      BY <2>1, <2>2, <2>4, <1>0 DEF TypeOK, RunJob
    <3> QED
      BY <3>1 DEF Jobs
  <2> QED
    BY <2>1, <2>2, <2>3, <2>4, JobEnded DEF EndsJob
<1>3. CASE /\ ~\E c \in Callers :
                SendJob(c) /\ execution_threads[caller[c].idx] /\ Receiving(caller[c].idx)
           /\ ~\E t \in ThreadIdx : RunJob(t)
  <2>1. \A t \in ThreadIdx : Jobs(t)' = Jobs(t)
    <3> TAKE t \in ThreadIdx
    <3>1. ~Runs(t) /\ ~\E c \in Callers : GetsJob(t, c)
      BY <1>3 DEF Runs, GetsJob
    <3> QED
      BY <3>1, ThreadSteps, JobsStay
  <2>2. accepted' = accepted /\ ran' = ran
    <3>1. ASSUME NEW c \in Callers, CallStep(c) PROVE accepted' = accepted /\ ran' = ran
      BY <1>3, <3>1
      DEF CallStep, RegisterLockAssignments, RegisterLockThreadPlugins, ChooseThread,
        ReserveThread, AddThread, RecordAssignment, LookupThread, SendJob, historyVars
    <3>2. ASSUME NEW t \in ThreadIdx, WorkerStep(t) PROVE accepted' = accepted /\ ran' = ran
      BY <1>3, <3>2
      DEF WorkerStep, TakeJob, UnregisterLockAssignments, UnregisterRemove,
        ShrinkLockThreads, ShrinkRemove, FinishJob, historyVars
    <3>3. ASSUME NEW c \in Callers, NEW p \in Plugins,
                 LoadPlugin(c, p) \/ DeliverWork(p) \/ UnloadPlugin(p)
          PROVE  accepted' = accepted /\ ran' = ran
      BY <3>3 DEF LoadPlugin, DeliverWork, UnloadPlugin, historyVars
    <3>4. PluginThread \in Callers
      BY DEF Callers
    <3>5. CASE UNCHANGED vars
      BY <3>5 DEF vars, historyVars
    <3> QED
      BY <3>1, <3>2, <3>3, <3>4, <3>5 DEF Next
  <2> QED
    BY <2>1, <2>2 DEF JobsRest
<1> QED
  BY <1>1, <1>2, <1>3

\* The queues stay in the order of the numbers.
LEMMA OrderKept ==
  ASSUME IInv, JobsTyped, JobsPlaced, InOrder, [Next]_vars
  PROVE  InOrder'
<1> DEFINE Ordered(q, pc, r) ==
             \A k \in 1 .. Len(q) :
               q[k] # Shutdown =>
                 /\ \A j \in 1 .. k - 1 : q[j].plugin = q[k].plugin => q[j].n < q[k].n
                 /\ pc = "run" /\ r.plugin = q[k].plugin => r.n < q[k].n
<1> SUFFICES ASSUME NEW t \in ThreadIdx
             PROVE  Ordered(queue'[t], exec_pc'[t], running'[t])
  BY DEF InOrder
<1>1. Ordered(queue[t], exec_pc[t], running[t])
  BY DEF InOrder
<1>2. queue[t] \in Seq(Message)
  BY DEF IInv, TypeOK
<1>3. CASE Goes(t)
  <2>1. (exec_pc'[t] = "run" => exec_pc[t] = "run") /\ running'[t] = running[t]
    BY <1>3 DEF Goes
  <2>2. CASE queue'[t] = Append(queue[t], Shutdown)
    <3>1. /\ Len(queue[t]) \in Nat /\ Len(queue'[t]) = Len(queue[t]) + 1
          /\ \A i \in 1 .. Len(queue[t]) + 1 : i \in 1 .. Len(queue[t]) \/ i = Len(queue[t]) + 1
          /\ \A i \in 1 .. Len(queue[t]) : queue'[t][i] = queue[t][i]
          /\ queue'[t][Len(queue[t]) + 1] = Shutdown
      BY <1>2, <2>2, AppendFacts, ShutdownType
    <3>2. \A k \in 1 .. Len(queue[t]) : \A j \in 1 .. k - 1 : j \in 1 .. Len(queue[t])
      BY <3>1
    <3> QED
      BY <1>1, <2>1, <3>1, <3>2
  <2>3. CASE queue'[t] = queue[t]
    BY <1>1, <2>1, <2>3
  <2> QED
    BY <1>3, <2>2, <2>3 DEF Goes
<1>4. ASSUME NEW c \in Callers, GetsJob(t, c)
      PROVE  Ordered(queue'[t], exec_pc'[t], running'[t])
  <2> DEFINE p == caller[c].plugin
             w == JobSent(c)
  <2>1. w \in Message /\ w # Shutdown /\ w.plugin = p /\ p \in Plugins /\ w.n = accepted[p] + 1
    BY <1>4, JobSentType DEF GetsJob
  <2>2. /\ Len(queue[t]) \in Nat /\ Len(queue'[t]) = Len(queue[t]) + 1
        /\ \A i \in 1 .. Len(queue[t]) + 1 : i \in 1 .. Len(queue[t]) \/ i = Len(queue[t]) + 1
        /\ \A i \in 1 .. Len(queue[t]) : queue'[t][i] = queue[t][i]
        /\ queue'[t][Len(queue[t]) + 1] = w
    BY <1>2, <1>4, <2>1, AppendFacts DEF GetsJob
  <2>3. exec_pc'[t] = exec_pc[t] /\ running'[t] = running[t]
    BY <1>4 DEF GetsJob
  <2>4. accepted[p] \in Nat
    BY <2>1 DEF IInv, TypeOK
  <2>5. \A m \in Jobs(t) : m.plugin = p => m.n \in Nat /\ m.n < accepted[p] + 1
    <3> SUFFICES ASSUME NEW m \in Jobs(t), m.plugin = p PROVE m.n \in Nat /\ m.n < accepted[p] + 1
      OBVIOUS
    <3>1. m.n <= accepted[p]
      BY DEF JobsPlaced, JobOf
    <3>2. m.n \in Nat
      BY DEF Jobs, Message
    <3> QED
      BY <2>4, <3>1, <3>2
  <2>6. \A j \in 1 .. Len(queue[t]) : queue[t][j].plugin = p => queue[t][j].n < w.n
    <3> SUFFICES ASSUME NEW j \in 1 .. Len(queue[t]), queue[t][j].plugin = p
                 PROVE  queue[t][j].n < w.n
      OBVIOUS
    <3>1. queue[t][j] \in Message
      BY <1>2, ElementOfSeq
    <3>2. queue[t][j] # Shutdown
      BY <2>1, PoolAssumption DEF Shutdown, PoolAssumption
    <3>3. queue[t][j] \in Jobs(t)
      BY <3>1, <3>2 DEF Jobs
    <3> QED
      BY <2>1, <2>5, <3>3
  <2>7. exec_pc[t] = "run" /\ running[t].plugin = p => running[t].n < w.n
    <3> SUFFICES ASSUME exec_pc[t] = "run", running[t].plugin = p PROVE running[t].n < w.n
      OBVIOUS
    <3>1. running[t] \in Message
      BY DEF IInv, TypeOK
    <3>2. running[t] # Shutdown
      BY <2>1, PoolAssumption DEF Shutdown, PoolAssumption
    <3>3. running[t] \in Jobs(t)
      BY <3>1, <3>2 DEF Jobs
    <3> QED
      BY <2>1, <2>5, <3>3
  <2> HIDE DEF w, p
  <2> SUFFICES ASSUME NEW k \in 1 .. Len(queue'[t]), queue'[t][k] # Shutdown
               PROVE
         /\ \A j \in 1 .. k - 1 : queue'[t][j].plugin = queue'[t][k].plugin
                                    => queue'[t][j].n < queue'[t][k].n
         /\ exec_pc'[t] = "run" /\ running'[t].plugin = queue'[t][k].plugin
              => running'[t].n < queue'[t][k].n
    OBVIOUS
  <2>8. CASE k \in 1 .. Len(queue[t])
    <3>1. \A j \in 1 .. k - 1 : j \in 1 .. Len(queue[t])
      BY <2>2, <2>8
    <3> QED
      BY <1>1, <2>2, <2>3, <2>8, <3>1
  <2>9. CASE k = Len(queue[t]) + 1
    <3>1. \A j \in 1 .. k - 1 : j \in 1 .. Len(queue[t])
      BY <2>2, <2>9
    <3> QED
      BY <2>1, <2>2, <2>3, <2>6, <2>7, <2>9, <3>1
  <2> QED
    BY <2>2, <2>8, <2>9
<1>5. CASE Spawns(t)
  BY <1>1, <1>5 DEF Spawns
<1>6. CASE Takes(t)
  <2>1. /\ Len(queue[t]) \in Nat /\ Len(queue[t]) >= 1
        /\ Head(queue[t]) = queue[t][1]
        /\ Len(queue'[t]) = Len(queue[t]) - 1
        /\ \A i \in 1 .. Len(queue[t]) - 1 :
             queue'[t][i] = queue[t][i + 1] /\ i + 1 \in 1 .. Len(queue[t])
    BY <1>2, <1>6, TailFacts DEF Takes
  <2>2. running'[t] = queue[t][1]
    BY <1>6, <2>1 DEF Takes
  <2> SUFFICES ASSUME NEW k \in 1 .. Len(queue'[t]), queue'[t][k] # Shutdown
               PROVE
         /\ \A j \in 1 .. k - 1 : queue'[t][j].plugin = queue'[t][k].plugin
                                    => queue'[t][j].n < queue'[t][k].n
         /\ exec_pc'[t] = "run" /\ running'[t].plugin = queue'[t][k].plugin
              => running'[t].n < queue'[t][k].n
    OBVIOUS
  <2>3. queue'[t][k] = queue[t][k + 1] /\ k + 1 \in 1 .. Len(queue[t])
    BY <2>1
  <2>4. \A j \in 1 .. (k + 1) - 1 :
          queue[t][j].plugin = queue[t][k + 1].plugin => queue[t][j].n < queue[t][k + 1].n
    BY <1>1, <2>3
  <2>5. 1 \in 1 .. (k + 1) - 1
    BY <2>1
  <2>6. \A j \in 1 .. k - 1 : j + 1 \in 1 .. (k + 1) - 1 /\ j \in 1 .. Len(queue[t]) - 1
    BY <2>1
  <2>7. \A j \in 1 .. k - 1 : queue'[t][j] = queue[t][j + 1]
    BY <2>1, <2>6
  <2> QED
    BY <2>2, <2>3, <2>4, <2>5, <2>6, <2>7
<1>7. CASE Runs(t)
  BY <1>1, <1>7 DEF Runs
<1>8. CASE Finishes(t)
  BY <1>1, <1>8 DEF Finishes
<1> QED
  BY <1>3, <1>4, <1>5, <1>6, <1>7, <1>8, ThreadSteps

-----------------------------------------------------------------------------
(***************************************************************************)
(* The calls.                                                              *)
(***************************************************************************)
CallsFrame == UNCHANGED <<plugin_assignments, instances, load_called, accepted, ran>>

\* A call that is registering its plugin goes on.
Registers(c) ==
  /\ CallsFrame
  /\ \A d \in Callers : d # c => caller'[d] = caller[d]
  /\ caller[c].pc \in {"reg_assignments"} \cup Registering
  /\ /\ caller'[c].plugin = caller[c].plugin /\ caller'[c].kind = caller[c].kind
     /\ caller'[c].left = caller[c].left
     /\ caller'[c].pc \in Registering \cup {"lookup"}
     /\ caller'[c].pc = "lookup" => plugin_assignments[caller[c].plugin] # NoThread

LEMMA RegisterSteps ==
  ASSUME IInv, NEW c \in Callers,
         \/ RegisterLockAssignments(c) \/ RegisterLockThreadPlugins(c)
         \/ ChooseThread(c) \/ ReserveThread(c) \/ AddThread(c)
  PROVE  Registers(c)
<1>1. caller \in [Callers -> Call]
  BY DEF IInv, TypeOK
<1>2. CASE RegisterLockAssignments(c)
  BY <1>1, <1>2
  DEF RegisterLockAssignments, Registers, CallsFrame, Moved, Registering, Call,
    mapVars, bridgeVars, historyVars
<1>3. CASE RegisterLockThreadPlugins(c)
  BY <1>1, <1>3
  DEF RegisterLockThreadPlugins, Registers, CallsFrame, Moved, Registering, Call,
    mapVars, bridgeVars, historyVars
<1>4. CASE ChooseThread(c)
  <2>1. PICK i : caller' = [caller EXCEPT ![c].pc = "reg_record", ![c].idx = i]
    BY <1>4 DEF ChooseThread
  <2> QED
    BY <1>1, <1>4, <2>1
    DEF ChooseThread, Registers, CallsFrame, Registering, Call, mapVars, bridgeVars, historyVars
<1>5. CASE ReserveThread(c)
  BY <1>1, <1>5
  DEF ReserveThread, Registers, CallsFrame, Registering, Call, mapVars, bridgeVars, historyVars
<1>6. CASE AddThread(c)
  BY <1>1, <1>6
  DEF AddThread, Registers, CallsFrame, Moved, Registering, Call, mapVars, bridgeVars,
    historyVars
<1> QED
  BY <1>2, <1>3, <1>4, <1>5, <1>6

LEMMA ReturnedCall ==
  ASSUME TypeOK, NEW c \in Callers
  PROVE  /\ \A d \in Callers : d # c => Returned(c)[d] = caller[d]
         /\ \/ Returned(c)[c].pc = "idle"
            \/ /\ Returned(c)[c].pc = "lookup" /\ caller[c].left > 1
               /\ Returned(c)[c].plugin = caller[c].plugin
               /\ Returned(c)[c].kind = caller[c].kind
<1>1. caller[c] \in Call /\ caller \in [Callers -> Call]
  BY DEF TypeOK
<1> QED
  BY <1>1 DEF Returned, Idle, Call

\* The jobs of a plugin that is loading are all still to come: none was accepted.
\* One of a load call that waits is the first of its plugin.
LEMMA LoadsFirst ==
  ASSUME IInv, JobsPlaced, NEW t \in ThreadIdx, NEW m \in Jobs(t), m.plugin \in Plugins,
         m.kind = "load"
  PROVE  ran[m.plugin] = 0 /\ accepted[m.plugin] >= 1
<1>1. ran[m.plugin] < 1 /\ 1 <= accepted[m.plugin]
  BY DEF JobsPlaced, JobOf
<1>2. ran[m.plugin] \in Nat /\ accepted[m.plugin] \in Nat
  BY DEF IInv, TypeOK
<1> QED
  BY <1>1, <1>2

\* A call's record says what its plugin's state is: work only goes to a plugin that
\* has instances, a cleanup only to one that was loaded, and a plugin has one call.
LEMMA CallsMatchKept ==
  ASSUME IInv, IInv', [Next]_vars, JobsTyped, CallsMatch, JobsPlaced, NoneMissing,
         UnloadsWhenLoaded, Served
  PROVE  CallsMatch'
<1>0. /\ caller \in [Callers -> Call] /\ accepted \in [Plugins -> Nat]
      /\ ran \in [Plugins -> Nat] /\ instances \in [Plugins -> {0, Instances}]
      /\ plugin_assignments \in [Plugins -> ThreadIdx \cup {NoThread}]
      /\ \A p \in Plugins : ran[p] <= accepted[p]
      /\ Instances \in Nat /\ Instances > 0
      /\ \A c \in Callers : caller[c].pc # "idle" => caller[c].plugin \in Plugins
  BY PoolAssumption DEF IInv, TypeOK, NoneMissing, PoolAssumption, CallsNameTheirThread
<1>1. /\ \A c \in Callers : caller[c].pc # "idle" => CallOf(c)
      /\ \A c, d \in Callers :
           caller[c].pc # "idle" /\ caller[d].pc # "idle" /\ caller[c].plugin = caller[d].plugin
             => c = d
      /\ \A p \in Plugins : p \notin load_called => accepted[p] = 0 /\ instances[p] = 0
  BY DEF CallsMatch
<1>2. CASE CallsFrame /\ caller' = caller
  BY <1>1, <1>2 DEF CallsMatch, CallOf, CallsFrame
<1>3. ASSUME NEW c \in Callers, Registers(c)
      PROVE  CallsMatch'
  <2>1. CallOf(c)'
    BY <1>0, <1>1, <1>3 DEF CallOf, Registers, CallsFrame, Registering
  <2>2. \A d \in Callers : d # c /\ caller'[d].pc # "idle" => CallOf(d)'
    BY <1>1, <1>3 DEF CallOf, Registers, CallsFrame
  <2>3. \A d \in Callers :
          caller'[d].pc # "idle"
            => caller[d].pc # "idle" /\ caller'[d].plugin = caller[d].plugin
    BY <1>3 DEF Registers, Registering
  <2> QED
    BY <1>1, <1>3, <2>1, <2>2, <2>3 DEF CallsMatch, Registers, CallsFrame
<1>4. ASSUME NEW c \in Callers, RecordAssignment(c)
      PROVE  CallsMatch'
  <2> DEFINE p == caller[c].plugin
  <2>1. caller[c].pc = "reg_record" /\ p \in Plugins /\ caller[c].idx \in ThreadIdx
    BY <1>4 DEF RecordAssignment, IInv, CallsNameTheirThread
  <2>2. /\ plugin_assignments' = [plugin_assignments EXCEPT ![p] = caller[c].idx]
        /\ caller' = [caller EXCEPT ![c].pc = "lookup"]
        /\ UNCHANGED <<instances, load_called, accepted, ran>>
    BY <1>4 DEF RecordAssignment, Moved, bridgeVars, historyVars
  <2>3. /\ plugin_assignments'[p] = caller[c].idx /\ caller[c].idx # NoThread
        /\ \A q \in Plugins : q # p => plugin_assignments'[q] = plugin_assignments[q]
    BY <1>0, <2>1, <2>2, PoolAssumption DEF PoolAssumption
  <2>4. /\ \A d \in Callers : d # c => caller'[d] = caller[d]
        /\ caller'[c].pc = "lookup" /\ caller'[c].plugin = p
        /\ caller'[c].kind = caller[c].kind /\ caller'[c].left = caller[c].left
    BY <1>0, <2>2 DEF Call
  <2> HIDE DEF p
  <2>5. CallOf(c)'
    BY <1>1, <2>1, <2>2, <2>3, <2>4 DEF CallOf, p
  <2>6. \A d \in Callers : d # c /\ caller'[d].pc # "idle" => CallOf(d)'
    <3> SUFFICES ASSUME NEW d \in Callers, d # c, caller'[d].pc # "idle" PROVE CallOf(d)'
      OBVIOUS
    <3>1. caller'[d] = caller[d] /\ caller[d].plugin # p /\ caller[d].plugin \in Plugins
      BY <1>0, <1>1, <2>1, <2>4 DEF p
    <3> QED
      BY <1>1, <2>2, <2>3, <3>1 DEF CallOf
  <2> QED
    BY <1>1, <2>1, <2>2, <2>4, <2>5, <2>6 DEF CallsMatch, p
<1>5. ASSUME NEW c \in Callers, caller[c].pc \in {"lookup", "send"}, caller' = Returned(c),
             UNCHANGED <<plugin_assignments, instances, load_called, ran>>,
             \/ accepted' = accepted
             \/ accepted' = [accepted EXCEPT ![caller[c].plugin] = @ + 1]
      PROVE  CallsMatch'
  <2> DEFINE p == caller[c].plugin
  <2>1. /\ \A d \in Callers : d # c => caller'[d] = caller[d]
        /\ \/ caller'[c].pc = "idle"
           \/ /\ caller'[c].pc = "lookup" /\ caller[c].left > 1
              /\ caller'[c].plugin = p /\ caller'[c].kind = caller[c].kind
    BY <1>5, ReturnedCall DEF IInv
  <2>2. p \in Plugins /\ CallOf(c)
    BY <1>0, <1>1, <1>5
  <2>3. \A q \in Plugins : q # p => accepted'[q] = accepted[q]
    BY <1>0, <1>5
  <2> HIDE DEF p
  <2>4. caller'[c].pc # "idle" => CallOf(c)'
    BY <1>5, <2>1, <2>2 DEF CallOf, p
  <2>5. \A d \in Callers : d # c /\ caller'[d].pc # "idle" => CallOf(d)'
    <3> SUFFICES ASSUME NEW d \in Callers, d # c, caller'[d].pc # "idle" PROVE CallOf(d)'
      OBVIOUS
    <3>1. caller'[d] = caller[d] /\ caller[d].plugin # p /\ caller[d].plugin \in Plugins
      BY <1>0, <1>1, <1>5, <2>1 DEF p
    <3> QED
      BY <1>1, <1>5, <2>3, <3>1 DEF CallOf
  <2>6. \A q \in Plugins : q \notin load_called' => accepted'[q] = 0 /\ instances'[q] = 0
    BY <1>1, <1>5, <2>2, <2>3 DEF CallOf, p
  <2> QED
    BY <1>1, <1>5, <2>1, <2>4, <2>5, <2>6 DEF CallsMatch, p
<1>6. ASSUME NEW c \in Callers, LookupThread(c)
      PROVE  CallsMatch'
  <2> DEFINE p == caller[c].plugin
             i == plugin_assignments[p]
  <2>1. CallsFrame /\ caller[c].pc = "lookup" /\ p \in Plugins
    BY <1>0, <1>6 DEF LookupThread, CallsFrame, mapVars, bridgeVars
  <2>2. CASE i = NoThread
    BY <1>5, <1>6, <2>1, <2>2 DEF LookupThread, GiveUp, ThreadOf, CallsFrame
  <2>3. CASE i # NoThread
    <3>1. caller' = [caller EXCEPT ![c].pc = "send", ![c].idx = i]
      BY <1>6, <2>3 DEF LookupThread, ThreadOf
    <3>2. /\ \A d \in Callers : d # c => caller'[d] = caller[d]
          /\ caller'[c].pc = "send" /\ caller'[c].plugin = p /\ caller'[c].idx = i
          /\ caller'[c].kind = caller[c].kind /\ caller'[c].left = caller[c].left
      BY <1>0, <3>1 DEF Call
    <3> HIDE DEF p, i
    <3>3. CallOf(c)'
      BY <1>1, <2>1, <2>3, <3>2 DEF CallOf, CallsFrame, p, i
    <3>4. \A d \in Callers : d # c /\ caller'[d].pc # "idle" => CallOf(d)'
      BY <1>1, <2>1, <3>2 DEF CallOf, CallsFrame
    <3> QED
      BY <1>1, <2>1, <3>2, <3>3, <3>4 DEF CallsMatch, CallsFrame, p
  <2> QED
    BY <2>2, <2>3
<1>7. ASSUME NEW c \in Callers, SendJob(c)
      PROVE  CallsMatch'
  <2>1. /\ caller[c].pc \in {"lookup", "send"} /\ caller' = Returned(c)
        /\ UNCHANGED <<plugin_assignments, instances, load_called, ran>>
        /\ \/ accepted' = accepted
           \/ accepted' = [accepted EXCEPT ![caller[c].plugin] = @ + 1]
    BY <1>7 DEF SendJob, GiveUp, mapVars, bridgeVars
  <2> QED
    BY <1>5, <2>1
<1>8. ASSUME NEW t \in ThreadIdx, RunJob(t)
      PROVE  CallsMatch'
  <2> DEFINE p == running[t].plugin
  <2>1. /\ exec_pc[t] = "run" /\ running[t] \in Message /\ p \in Plugins
        /\ running[t].kind \in JobKinds
    BY <1>8 DEF RunJob, IInv, TypeOK, JobsTyped
  <2>2. running[t] \in Jobs(t)
    BY <2>1, PoolAssumption DEF Jobs, Shutdown, PoolAssumption
  <2>3. /\ UNCHANGED <<plugin_assignments, load_called, accepted, caller>>
        /\ ran' = [ran EXCEPT ![p] = @ + 1]
        /\ instances' = IF running[t].kind = "load"
                          THEN [instances EXCEPT ![p] = Instances] ELSE instances
    BY <1>8 DEF RunJob, mapVars
  <2>4. /\ \A q \in Plugins : ran[q] > 0 => ran'[q] > 0
        /\ \A q \in Plugins : q # p => instances'[q] = instances[q]
    BY <1>0, <2>1, <2>3
  <2>5. running[t].kind = "load" => ran[p] = 0 /\ accepted[p] >= 1 /\ instances'[p] > 0
    BY <1>0, <2>1, <2>2, <2>3, LoadsFirst
  <2>6. running[t].kind # "load" => instances' = instances
    BY <2>3
  <2> HIDE DEF p
  <2>7. \A d \in Callers : caller'[d].pc # "idle" => CallOf(d)'
    <3> SUFFICES ASSUME NEW d \in Callers, caller[d].pc # "idle" PROVE CallOf(d)'
      BY <2>3
    <3>1. CallOf(d) /\ caller[d].plugin \in Plugins
      BY <1>0, <1>1
    <3>2. CASE caller[d].plugin = p /\ running[t].kind = "load"
      BY <2>3, <2>5, <3>1, <3>2, <1>0 DEF CallOf
    <3>3. CASE ~(caller[d].plugin = p /\ running[t].kind = "load")
      <4>1. instances'[caller[d].plugin] = instances[caller[d].plugin]
        BY <2>4, <2>6, <3>1, <3>3
      <4> QED
        BY <2>3, <2>4, <3>1, <4>1 DEF CallOf
    <3> QED
      BY <3>2, <3>3
  <2>8. \A q \in Plugins : q \notin load_called' => accepted'[q] = 0 /\ instances'[q] = 0
    <3> SUFFICES ASSUME NEW q \in Plugins, q \notin load_called
                 PROVE  accepted[q] = 0 /\ instances'[q] = 0
      BY <2>3
    <3>1. accepted[q] = 0 /\ instances[q] = 0
      BY <1>1
    <3>2. instances'[q] = instances[q]
      BY <2>4, <2>5, <2>6, <3>1
    <3> QED
      BY <3>1, <3>2
  <2> QED
    BY <1>1, <2>3, <2>7, <2>8 DEF CallsMatch
<1>9. ASSUME NEW t \in ThreadIdx, UnregisterRemove(t)
      PROVE  CallsMatch'
  <2> DEFINE p == running[t].plugin
  <2>1. p \in Plugins /\ instances[p] = 0 /\ ran[p] > 0
    BY <1>9 DEF UnregisterRemove, JobsTyped, UnloadsWhenLoaded, Unregistering
  <2>2. /\ UNCHANGED <<instances, load_called, accepted, ran, caller>>
        /\ plugin_assignments' = [plugin_assignments EXCEPT ![p] = NoThread]
    BY <1>9 DEF UnregisterRemove, bridgeVars, historyVars
  <2>3. /\ plugin_assignments'[p] = NoThread
        /\ \A q \in Plugins : q # p => plugin_assignments'[q] = plugin_assignments[q]
    BY <1>0, <2>1, <2>2
  <2>4. accepted[p] > 0
    BY <1>0, <2>1
  <2> HIDE DEF p
  <2>5. \A d \in Callers : caller'[d].pc # "idle" => CallOf(d)'
    <3> SUFFICES ASSUME NEW d \in Callers, caller[d].pc # "idle" PROVE CallOf(d)'
      BY <2>2
    <3>1. CallOf(d) /\ caller[d].plugin \in Plugins
      BY <1>0, <1>1
    <3>2. CASE caller[d].plugin = p
      BY <2>2, <2>3, <2>4, <3>1, <3>2 DEF CallOf
    <3>3. CASE caller[d].plugin # p
      BY <2>2, <2>3, <3>1, <3>3 DEF CallOf
    <3> QED
      BY <3>2, <3>3
  <2> QED
    BY <1>1, <2>2, <2>5 DEF CallsMatch
<1>10. ASSUME NEW c \in Callers, NEW p \in Plugins, LoadPlugin(c, p)
       PROVE  CallsMatch'
  <2>1. /\ caller[c].pc = "idle" /\ p \notin load_called /\ load_called' = load_called \cup {p}
        /\ UNCHANGED <<plugin_assignments, instances, accepted, ran>>
        /\ \A d \in Callers : d # c => caller'[d] = caller[d]
        /\ caller'[c].pc = "reg_assignments" /\ caller'[c].plugin = p
        /\ caller'[c].kind = "load" /\ caller'[c].left = 1
    BY <1>0, <1>10 DEF LoadPlugin, mapVars, historyVars
  <2>2. CallOf(c)'
    BY <1>1, <2>1 DEF CallOf
  <2>3. \A d \in Callers : d # c /\ caller'[d].pc # "idle" => CallOf(d)' /\ caller'[d].plugin # p
    BY <1>1, <2>1 DEF CallOf
  <2> QED
    BY <1>1, <2>1, <2>2, <2>3 DEF CallsMatch
<1>11. ASSUME NEW p \in Plugins, DeliverWork(p) \/ UnloadPlugin(p)
       PROVE  CallsMatch'
  <2> DEFINE c == PluginThread
  <2>1. /\ c \in Callers /\ caller[c].pc = "idle" /\ instances[p] > 0
        /\ UNCHANGED <<plugin_assignments, load_called, accepted, ran>>
        /\ \A d \in Callers : d # c => caller'[d] = caller[d]
        /\ caller'[c].pc = "lookup" /\ caller'[c].plugin = p
    BY <1>0, <1>11 DEF DeliverWork, UnloadPlugin, mapVars, historyVars, Callers
  <2>2. \/ caller'[c].kind = "work" /\ instances' = instances
        \/ caller'[c].kind = "unload" /\ instances' = [instances EXCEPT ![p] = 0]
    BY <1>0, <2>1, <1>11 DEF DeliverWork, UnloadPlugin
  <2>3. ran[p] > 0 /\ p \in load_called
    BY <1>0, <1>1, <2>1 DEF Served
  <2>4. \A q \in Plugins : q # p => instances'[q] = instances[q]
    BY <1>0, <2>2
  <2>5. instances'[p] = IF caller'[c].kind = "work" THEN instances[p] ELSE 0
    BY <1>0, <2>2
  <2> HIDE DEF c
  <2>6. CallOf(c)'
    BY <2>1, <2>2, <2>3, <2>5 DEF CallOf, c
  <2>7. \A d \in Callers : d # c /\ caller'[d].pc # "idle" => CallOf(d)' /\ caller'[d].plugin # p
    <3> SUFFICES ASSUME NEW d \in Callers, d # c, caller'[d].pc # "idle"
                 PROVE  CallOf(d)' /\ caller'[d].plugin # p
      OBVIOUS
    <3>1. CallOf(d) /\ caller[d].plugin \in Plugins /\ caller'[d] = caller[d]
      BY <1>0, <1>1, <2>1
    <3>2. caller[d].plugin # p
      BY <2>1, <3>1 DEF CallOf, c
    <3> QED
      BY <2>1, <2>4, <3>1, <3>2 DEF CallOf
  <2>8. \A q \in Plugins : q \notin load_called' => accepted'[q] = 0 /\ instances'[q] = 0
    BY <1>1, <2>1, <2>3, <2>4
  <2> QED
    BY <1>1, <2>1, <2>6, <2>7, <2>8 DEF CallsMatch
<1>12. ASSUME NEW t \in ThreadIdx, WorkerStep(t), ~RunJob(t), ~UnregisterRemove(t)
       PROVE  CallsMatch'
  <2>1. CallsFrame /\ caller' = caller
    BY <1>12
    DEF WorkerStep, TakeJob, UnregisterLockAssignments, ShrinkLockThreads, ShrinkRemove,
      FinishJob, CallsFrame, mapVars, bridgeVars, historyVars
  <2> QED
    BY <1>2, <2>1
<1>13. CASE UNCHANGED vars
  <2>1. CallsFrame /\ caller' = caller
    BY <1>13 DEF vars, CallsFrame, mapVars, bridgeVars, historyVars
  <2> QED
    BY <1>2, <2>1
<1>14. ASSUME NEW c \in Callers, CallStep(c)
       PROVE  CallsMatch'
  BY <1>3, <1>4, <1>6, <1>7, <1>14, RegisterSteps DEF CallStep
<1> QED
  BY <1>8, <1>9, <1>10, <1>11, <1>12, <1>13, <1>14 DEF Next

-----------------------------------------------------------------------------
(***************************************************************************)
(* The jobs and the state of their plugins.                                *)
(***************************************************************************)
LEMMA AssignmentSteps ==
  ASSUME [Next]_vars
  PROVE  \/ plugin_assignments' = plugin_assignments
         \/ \E c \in Callers : RecordAssignment(c)
         \/ \E t \in ThreadIdx : UnregisterRemove(t)
<1>1. ASSUME NEW c \in Callers, CallStep(c), ~RecordAssignment(c)
      PROVE  plugin_assignments' = plugin_assignments
  BY <1>1
  DEF CallStep, RegisterLockAssignments, RegisterLockThreadPlugins, ChooseThread,
    ReserveThread, AddThread, LookupThread, SendJob, mapVars
<1>2. ASSUME NEW t \in ThreadIdx, WorkerStep(t), ~UnregisterRemove(t)
      PROVE  plugin_assignments' = plugin_assignments
  BY <1>2
  DEF WorkerStep, TakeJob, RunJob, UnregisterLockAssignments, ShrinkLockThreads,
    ShrinkRemove, FinishJob, mapVars
<1>3. ASSUME NEW c \in Callers, NEW p \in Plugins,
             LoadPlugin(c, p) \/ DeliverWork(p) \/ UnloadPlugin(p)
      PROVE  plugin_assignments' = plugin_assignments
  BY <1>3 DEF LoadPlugin, DeliverWork, UnloadPlugin, mapVars
<1>4. PluginThread \in Callers
  BY DEF Callers
<1>5. CASE UNCHANGED vars
  BY <1>5 DEF vars, mapVars
<1> QED
  BY <1>1, <1>2, <1>3, <1>4, <1>5 DEF Next

LEMMA InstanceSteps ==
  ASSUME IInv, [Next]_vars
  PROVE  \/ instances' = instances
         \/ \E t \in ThreadIdx : RunJob(t) /\ running[t].kind = "load"
         \/ \E p \in Plugins : UnloadPlugin(p) /\ ran' = ran
<1>1. ASSUME NEW c \in Callers, CallStep(c) PROVE instances' = instances
  BY <1>1
  DEF CallStep, RegisterLockAssignments, RegisterLockThreadPlugins, ChooseThread,
    ReserveThread, AddThread, RecordAssignment, LookupThread, SendJob, bridgeVars
<1>2. ASSUME NEW t \in ThreadIdx, WorkerStep(t),
             ~(RunJob(t) /\ running[t].kind = "load")
      PROVE  instances' = instances
  BY <1>2
  DEF WorkerStep, TakeJob, RunJob, UnregisterLockAssignments, UnregisterRemove,
    ShrinkLockThreads, ShrinkRemove, FinishJob, bridgeVars
<1>3. ASSUME NEW c \in Callers, NEW p \in Plugins, LoadPlugin(c, p) \/ DeliverWork(p)
      PROVE  instances' = instances
  BY <1>3 DEF LoadPlugin, DeliverWork
<1>4. PluginThread \in Callers
  BY DEF Callers
<1>5. CASE UNCHANGED vars
  BY <1>5 DEF vars, bridgeVars
<1>6. ASSUME NEW p \in Plugins, UnloadPlugin(p) PROVE ran' = ran
  BY <1>6 DEF UnloadPlugin, historyVars
<1> QED
  BY <1>1, <1>2, <1>3, <1>4, <1>5, <1>6 DEF Next

\* A call comes to its send step by reading the plugin's thread.
LEMMA SendSteps ==
  ASSUME IInv, [Next]_vars, NEW c \in Callers, caller'[c].pc = "send"
  PROVE  \/ caller'[c] = caller[c]
         \/ /\ caller'[c].plugin = caller[c].plugin /\ caller[c].plugin \in Plugins
            /\ caller'[c].idx = plugin_assignments[caller[c].plugin]
            /\ plugin_assignments[caller[c].plugin] # NoThread
<1>0. caller \in [Callers -> Call] /\ TypeOK
  BY DEF IInv, TypeOK
<1>1. ASSUME NEW d \in Callers, CallStep(d), d # c PROVE caller'[c] = caller[c]
  <2>1. CASE caller' = Returned(d)
    BY <1>0, <1>1, <2>1, ReturnedCall
  <2>2. CASE caller' # Returned(d)
    BY <1>0, <1>1, <2>2
    DEF CallStep, RegisterLockAssignments, RegisterLockThreadPlugins, ChooseThread,
      ReserveThread, AddThread, RecordAssignment, LookupThread, SendJob, GiveUp, Moved
  <2> QED
    BY <2>1, <2>2
<1>2. ASSUME CallStep(c)
      PROVE  /\ caller'[c].plugin = caller[c].plugin /\ caller[c].plugin \in Plugins
             /\ caller'[c].idx = plugin_assignments[caller[c].plugin]
             /\ plugin_assignments[caller[c].plugin] # NoThread
  <2>1. CASE \/ RegisterLockAssignments(c) \/ RegisterLockThreadPlugins(c)
             \/ ChooseThread(c) \/ ReserveThread(c) \/ AddThread(c)
    BY <2>1, RegisterSteps DEF Registers, Registering
  <2>2. CASE RecordAssignment(c)
    BY <1>0, <2>2 DEF RecordAssignment, Moved, Call
  <2>3. CASE caller' = Returned(c)
    BY <1>0, <2>3, ReturnedCall
  <2>4. CASE LookupThread(c) /\ caller' # Returned(c)
    <3>1. /\ caller[c].pc = "lookup" /\ plugin_assignments[caller[c].plugin] # NoThread
          /\ caller' = [caller EXCEPT ![c].pc = "send",
                                      ![c].idx = plugin_assignments[caller[c].plugin]]
      BY <2>4 DEF LookupThread, GiveUp, ThreadOf
    <3>2. caller[c].plugin \in Plugins
      BY <3>1 DEF IInv, CallsNameTheirThread
    <3> QED
      BY <1>0, <3>1, <3>2 DEF Call
  <2>5. SendJob(c) => caller' = Returned(c)
    BY DEF SendJob, GiveUp
  <2> QED
    BY <1>2, <2>1, <2>2, <2>3, <2>4, <2>5 DEF CallStep
<1>3. ASSUME NEW t \in ThreadIdx, WorkerStep(t) PROVE caller' = caller
  BY <1>3
  DEF WorkerStep, TakeJob, RunJob, UnregisterLockAssignments, UnregisterRemove,
    ShrinkLockThreads, ShrinkRemove, FinishJob
<1>4. ASSUME NEW d \in Callers, NEW p \in Plugins,
             LoadPlugin(d, p) \/ DeliverWork(p) \/ UnloadPlugin(p)
      PROVE  caller'[c] = caller[c]
  BY <1>0, <1>4 DEF LoadPlugin, DeliverWork, UnloadPlugin
<1>5. PluginThread \in Callers
  BY DEF Callers
<1>6. CASE UNCHANGED vars
  BY <1>6 DEF vars
<1> QED
  BY <1>1, <1>2, <1>3, <1>4, <1>5, <1>6 DEF Next

\* A job that waits is one of a plugin, and its number is at least 1.
LEMMA JobTypes ==
  ASSUME IInv, JobsTyped, NEW t \in ThreadIdx, NEW m \in Jobs(t)
  PROVE  m.plugin \in Plugins /\ m.kind \in JobKinds /\ m.n \in Nat /\ m \in Message
BY DEF Jobs, JobsTyped, Message

\* A plugin that was loaded and has no instances does not get any.
LEMMA UnloadedStays ==
  ASSUME IInv, [Next]_vars, JobsTyped, JobsPlaced, InOrder,
         NEW p \in Plugins, instances[p] = 0, ran[p] > 0
  PROVE  instances'[p] = 0 /\ ran'[p] > 0
<1>0. /\ ran \in [Plugins -> Nat] /\ instances \in [Plugins -> {0, Instances}]
  BY DEF IInv, TypeOK
<1>1. ran'[p] > 0
  <2>1. ran' = ran \/ \E q : ran' = [ran EXCEPT ![q] = @ + 1]
    BY JobSteps DEF JobsRest, AddsJob, EndsJob
  <2> QED
    BY <1>0, <2>1
<1>2. ASSUME NEW t \in ThreadIdx, RunJob(t), running[t].kind = "load"
      PROVE  instances'[p] = 0
  <2>1. /\ exec_pc[t] = "run" /\ running[t] \in Message /\ running[t].plugin \in Plugins
        /\ instances' = [instances EXCEPT ![running[t].plugin] = Instances]
    BY <1>2 DEF RunJob, IInv, TypeOK, JobsTyped
  <2>2. running[t] \in Jobs(t)
    BY <2>1, PoolAssumption DEF Jobs, Shutdown, PoolAssumption
  <2>3. ran[running[t].plugin] = 0
    BY <1>2, <2>1, <2>2, LoadsFirst
  <2>4. running[t].plugin # p
    BY <1>0, <2>3
  <2> QED
    BY <1>0, <2>1, <2>4
<1>3. ASSUME NEW q \in Plugins, UnloadPlugin(q) PROVE instances'[p] = 0
  BY <1>0, <1>3 DEF UnloadPlugin
<1> QED
  BY <1>1, <1>2, <1>3, InstanceSteps

\* The thread of a plugin with jobs is kept until a cleanup has run.
LEMMA AssignedStays ==
  ASSUME IInv, [Next]_vars, JobsTyped, CallsMatch, UnloadsWhenLoaded,
         NEW p \in Plugins, accepted[p] > 0
  PROVE  \/ plugin_assignments'[p] = plugin_assignments[p]
         \/ plugin_assignments'[p] = NoThread /\ ran[p] > 0 /\ instances[p] = 0
<1>0. /\ plugin_assignments \in [Plugins -> ThreadIdx \cup {NoThread}]
  BY DEF IInv, TypeOK
<1>1. ASSUME NEW c \in Callers, RecordAssignment(c)
      PROVE  plugin_assignments'[p] = plugin_assignments[p]
  <2>1. /\ caller[c].pc = "reg_record" /\ CallOf(c)
        /\ plugin_assignments' = [plugin_assignments EXCEPT ![caller[c].plugin] = caller[c].idx]
    BY <1>1 DEF RecordAssignment, CallsMatch
  <2>2. accepted[caller[c].plugin] = 0
    BY <2>1 DEF CallOf
  <2>3. caller[c].plugin # p
    BY <2>2
  <2> QED
    BY <1>0, <2>1, <2>3
<1>2. ASSUME NEW t \in ThreadIdx, UnregisterRemove(t)
      PROVE  \/ plugin_assignments'[p] = plugin_assignments[p]
             \/ plugin_assignments'[p] = NoThread /\ ran[p] > 0 /\ instances[p] = 0
  <2>1. /\ exec_pc[t] = "unreg_remove"
        /\ plugin_assignments' = [plugin_assignments EXCEPT ![running[t].plugin] = NoThread]
    BY <1>2 DEF UnregisterRemove
  <2>2. instances[running[t].plugin] = 0 /\ ran[running[t].plugin] > 0
    BY <2>1 DEF UnloadsWhenLoaded, Unregistering
  <2> QED
    BY <1>0, <2>1, <2>2
<1> QED
  BY <1>1, <1>2, AssignmentSteps

\* The job a worker runs is the next of its plugin.
LEMMA RunsNext ==
  ASSUME IInv, JobsTyped, JobsPlaced, OneHome, NoneMissing, InOrder,
         NEW t \in ThreadIdx, exec_pc[t] = "run"
  PROVE  running[t].n = ran[running[t].plugin] + 1
<1> DEFINE p == running[t].plugin
           a == ran[p] + 1
<1>1. running[t] \in Message /\ p \in Plugins
  BY DEF IInv, TypeOK, JobsTyped
<1>2. running[t] \in Jobs(t)
  BY <1>1, PoolAssumption DEF Jobs, Shutdown, PoolAssumption
<1>3. ran[p] < running[t].n /\ running[t].n <= accepted[p]
  BY <1>2 DEF JobsPlaced, JobOf
<1>4. ran[p] \in Nat /\ accepted[p] \in Nat /\ running[t].n \in Nat
  BY <1>1 DEF IInv, TypeOK, Message
<1>5. a \in ran[p] + 1 .. accepted[p]
  BY <1>3, <1>4
<1>6. PICK u \in ThreadIdx : \E m \in Jobs(u) : m.plugin = p /\ m.n = a
  BY <1>1, <1>5 DEF NoneMissing
<1>7. PICK m \in Jobs(u) : m.plugin = p /\ m.n = a
  BY <1>6
<1>8. u = t
  BY <1>2, <1>7 DEF OneHome
<1>9. CASE m = running[t]
  BY <1>7, <1>9
<1>10. ASSUME NEW k \in 1 .. Len(queue[t]), queue[t][k] = m
       PROVE  FALSE
  <2>1. queue[t][k] # Shutdown
    BY <1>7, <1>10 DEF Jobs
  <2>2. running[t].n < m.n
    BY <1>7, <1>10, <2>1 DEF InOrder
  <2> QED
    BY <1>3, <1>4, <1>7, <2>2
<1> QED
  BY <1>7, <1>8, <1>9, <1>10 DEF Jobs

\* What JobOf says of a job that is there before and after a step.
LEMMA JobStays ==
  ASSUME IInv, IInv', [Next]_vars, JobsTyped, CallsMatch, JobsPlaced, OneHome,
         NoneMissing, InOrder, UnloadsWhenLoaded,
         NEW t \in ThreadIdx, NEW m \in Jobs(t), m \in Jobs(t)'
  PROVE  JobOf(t, m)'
<1> DEFINE p == m.plugin
<1>0. /\ ran \in [Plugins -> Nat] /\ accepted \in [Plugins -> Nat]
  BY DEF IInv, TypeOK
<1>1. p \in Plugins /\ m.n \in Nat /\ m.kind \in JobKinds
  BY JobTypes
<1>2. JobOf(t, m)
  BY DEF JobsPlaced
<1>3. ran[p] < m.n /\ m.n <= accepted[p] /\ accepted[p] > 0
  BY <1>0, <1>1, <1>2 DEF JobOf
<1>4. ran'[p] < m.n /\ m.n <= accepted'[p]
  <2>1. CASE JobsRest
    BY <1>3, <2>1 DEF JobsRest
  <2>2. ASSUME NEW c \in Callers, NEW i \in ThreadIdx, AddsJob(c, i)
        PROVE  ran'[p] < m.n /\ m.n <= accepted'[p]
    <3>1. ran' = ran /\ accepted' = [accepted EXCEPT ![caller[c].plugin] = @ + 1]
      BY <2>2 DEF AddsJob
    <3>2. accepted'[p] = accepted[p] \/ accepted'[p] = accepted[p] + 1
      BY <1>0, <1>1, <3>1
    <3> QED
      BY <1>0, <1>1, <1>3, <3>1, <3>2
  <2>3. ASSUME NEW u \in ThreadIdx, EndsJob(u)
        PROVE  ran'[p] < m.n /\ m.n <= accepted'[p]
    <3>1. /\ accepted' = accepted /\ ran' = [ran EXCEPT ![running[u].plugin] = @ + 1]
          /\ running[u] \in Jobs(u)
          /\ \A o \in Jobs(u)' : o.plugin = running[u].plugin => running[u].n < o.n
      BY <2>3 DEF EndsJob
    <3>2. CASE running[u].plugin = p
      <4>1. u = t
        BY <3>1, <3>2 DEF OneHome
      <4>2. running[u].n < m.n
        BY <3>1, <3>2, <4>1
      <4>3. ran[p] < running[u].n /\ running[u].n \in Nat
        BY <3>1, <3>2, JobTypes DEF JobsPlaced, JobOf
      <4>4. ran'[p] = ran[p] + 1
        BY <1>0, <1>1, <3>1, <3>2
      <4> QED
        BY <1>0, <1>1, <1>3, <3>1, <4>2, <4>3, <4>4
    <3>3. CASE running[u].plugin # p
      BY <1>0, <1>1, <1>3, <3>1, <3>3
    <3> QED
      BY <3>2, <3>3
  <2> QED
    BY <2>1, <2>2, <2>3, JobSteps
<1>5. /\ plugin_assignments'[p] \in {t, NoThread}
      /\ m.kind = "load" => plugin_assignments'[p] = t
  <2>1. m.kind = "load" => ran[p] = 0
    BY <1>1, LoadsFirst
  <2>2. /\ plugin_assignments[p] \in {t, NoThread}
        /\ m.kind = "load" => plugin_assignments[p] = t
    BY <1>2 DEF JobOf
  <2> QED
    BY <1>1, <1>3, <2>1, <2>2, AssignedStays
<1>6. m.kind = "unload" => ran'[p] > 0 /\ instances'[p] = 0
  BY <1>1, <1>2, UnloadedStays DEF JobOf
<1>7. ASSUME NEW c \in Callers, caller'[c].pc = "send", caller'[c].plugin = p
      PROVE  caller'[c].idx = t
  <2>1. CASE caller'[c] = caller[c]
    BY <1>2, <1>7, <2>1 DEF JobOf
  <2>2. CASE /\ caller'[c].plugin = caller[c].plugin
             /\ caller'[c].idx = plugin_assignments[caller[c].plugin]
             /\ plugin_assignments[caller[c].plugin] # NoThread
    BY <1>2, <1>7, <2>2 DEF JobOf
  <2> QED
    BY <1>7, <2>1, <2>2, SendSteps
<1>8. m.kind = "load" => m.n = 1
  BY <1>2 DEF JobOf
<1> QED
  BY <1>4, <1>5, <1>6, <1>7, <1>8 DEF JobOf

\* A job that is sent goes to the thread of its plugin's other jobs, as the last.
LEMMA JobArrives ==
  ASSUME IInv, IInv', CallsMatch, JobsPlaced, NoneMissing,
         NEW c \in Callers, NEW i \in ThreadIdx, AddsJob(c, i), NEW m, m = JobSent(c)
  PROVE  /\ JobOf(i, m)'
         /\ \A t \in ThreadIdx : \A o \in Jobs(t) : o.plugin = caller[c].plugin => t = i
<1> DEFINE p == caller[c].plugin
<1>1. SendJob(c) /\ caller[c].idx = i /\ caller[c].pc = "send"
  BY DEF AddsJob, SendJob
<1>2. m = JobSent(c)
  OBVIOUS
<1>3. m.plugin = p /\ p \in Plugins /\ m.kind = caller[c].kind /\ m.n = accepted[p] + 1
  BY <1>1, <1>2, JobSentType
<1>4. CallOf(c)
  BY <1>1 DEF CallsMatch
<1>5. /\ UNCHANGED <<plugin_assignments, instances>> /\ ran' = ran
      /\ accepted' = [accepted EXCEPT ![p] = @ + 1] /\ caller' = Returned(c)
  BY <1>1 DEF AddsJob, SendJob, GiveUp, mapVars, bridgeVars
<1>6. /\ accepted'[p] = accepted[p] + 1 /\ ran[p] <= accepted[p]
      /\ ran[p] \in Nat /\ accepted[p] \in Nat
  BY <1>3, <1>5 DEF IInv, TypeOK, NoneMissing
<1>7. ran[p] < m.n /\ m.n <= accepted'[p]
  BY <1>3, <1>6
<1>8. ASSUME NEW d \in Callers, caller'[d].pc = "send", caller'[d].plugin = p
      PROVE  FALSE
  <2>1. d # c /\ caller'[d] = caller[d]
    BY <1>5, <1>8, ReturnedCall DEF IInv
  <2> QED
    BY <1>1, <1>8, <2>1 DEF CallsMatch
<1>9. m.kind = "load" => m.n = 1 /\ plugin_assignments[p] = i
  BY <1>1, <1>3, <1>4 DEF CallOf
<1>10. plugin_assignments[p] \in {i, NoThread}
  BY <1>1, <1>4 DEF CallOf
<1>11. m.kind = "unload" => ran[p] > 0 /\ instances[p] = 0
  BY <1>3, <1>4 DEF CallOf
<1>12. JobOf(i, m)'
  BY <1>3, <1>5, <1>7, <1>8, <1>9, <1>10, <1>11 DEF JobOf
<1>13. ASSUME NEW t \in ThreadIdx, NEW o \in Jobs(t), o.plugin = p
       PROVE  t = i
  BY <1>1, <1>13 DEF JobsPlaced, JobOf
<1> QED
  BY <1>2, <1>12, <1>13

LEMMA JobsPlacedKept ==
  ASSUME IInv, IInv', [Next]_vars, JobsTyped, CallsMatch, JobsPlaced, OneHome,
         NoneMissing, InOrder, UnloadsWhenLoaded
  PROVE  JobsPlaced'
<1> SUFFICES ASSUME NEW t \in ThreadIdx, NEW m \in Jobs(t)'
             PROVE  JobOf(t, m)'
  BY DEF JobsPlaced
<1>1. CASE m \in Jobs(t)
  BY <1>1, JobStays
<1>2. CASE m \notin Jobs(t)
  <2>1. PICK c \in Callers, i \in ThreadIdx : AddsJob(c, i)
    BY <1>2, JobSteps DEF JobsRest, EndsJob
  <2>2. t = i /\ m = JobSent(c)
    BY <1>2, <2>1 DEF AddsJob
  <2> QED
    BY <2>1, <2>2, JobArrives
<1> QED
  BY <1>1, <1>2

LEMMA OneHomeKept ==
  ASSUME IInv, IInv', [Next]_vars, JobsTyped, CallsMatch, JobsPlaced, OneHome,
         NoneMissing, InOrder
  PROVE  OneHome'
<1>1. CASE JobsRest
  BY <1>1 DEF JobsRest, OneHome
<1>2. ASSUME NEW c \in Callers, NEW i \in ThreadIdx, AddsJob(c, i)
      PROVE  OneHome'
  <2>1. PICK w : w = JobSent(c)
    OBVIOUS
  <2>2. w.plugin = caller[c].plugin
    BY <1>2, <2>1, JobSentType DEF AddsJob
  <2>3. /\ Jobs(i)' = Jobs(i) \cup {w}
        /\ \A t \in ThreadIdx : t # i => Jobs(t)' = Jobs(t)
    BY <1>2, <2>1 DEF AddsJob
  <2>4. \A t \in ThreadIdx : \A o \in Jobs(t) : o.plugin = w.plugin => t = i
    BY <1>2, <2>1, <2>2, JobArrives
  <2> SUFFICES ASSUME NEW t \in ThreadIdx, NEW u \in ThreadIdx, NEW m \in Jobs(t)',
                      NEW o \in Jobs(u)', m.plugin = o.plugin
               PROVE  t = u
    BY DEF OneHome
  <2>5. (m \in Jobs(t) \/ (m = w /\ t = i)) /\ (o \in Jobs(u) \/ (o = w /\ u = i))
    BY <2>3
  <2>6. CASE m \in Jobs(t) /\ o \in Jobs(u)
    BY <2>6 DEF OneHome
  <2> QED
    BY <2>4, <2>5, <2>6
<1>3. ASSUME NEW t \in ThreadIdx, EndsJob(t)
      PROVE  OneHome'
  <2>1. \A u \in ThreadIdx : Jobs(u)' \subseteq Jobs(u)
    BY <1>3 DEF EndsJob
  <2> QED
    BY <2>1 DEF OneHome
<1> QED
  BY <1>1, <1>2, <1>3, JobSteps

LEMMA NoneMissingKept ==
  ASSUME IInv, IInv', [Next]_vars, JobsTyped, CallsMatch, JobsPlaced, OneHome,
         NoneMissing, InOrder
  PROVE  NoneMissing'
<1>0. ran \in [Plugins -> Nat] /\ accepted \in [Plugins -> Nat]
  BY DEF IInv, TypeOK
<1> SUFFICES ASSUME NEW p \in Plugins
             PROVE  /\ ran'[p] <= accepted'[p]
                    /\ \A n \in ran'[p] + 1 .. accepted'[p] :
                         \E t \in ThreadIdx : \E m \in Jobs(t)' : m.plugin = p /\ m.n = n
  BY DEF NoneMissing
<1>1. /\ ran[p] <= accepted[p] /\ ran[p] \in Nat /\ accepted[p] \in Nat
      /\ \A n \in ran[p] + 1 .. accepted[p] :
           \E t \in ThreadIdx : \E m \in Jobs(t) : m.plugin = p /\ m.n = n
  BY <1>0 DEF NoneMissing
<1>2. CASE JobsRest
  BY <1>1, <1>2 DEF JobsRest
<1>3. ASSUME NEW c \in Callers, NEW i \in ThreadIdx, AddsJob(c, i)
      PROVE  /\ ran'[p] <= accepted'[p]
             /\ \A n \in ran'[p] + 1 .. accepted'[p] :
                  \E t \in ThreadIdx : \E m \in Jobs(t)' : m.plugin = p /\ m.n = n
  <2>1. PICK w : w = JobSent(c)
    OBVIOUS
  <2>2. w.plugin = caller[c].plugin /\ w.n = accepted[w.plugin] + 1
    BY <1>3, <2>1, JobSentType DEF AddsJob
  <2>3. /\ Jobs(i)' = Jobs(i) \cup {w} /\ ran' = ran
        /\ \A t \in ThreadIdx : Jobs(t) \subseteq Jobs(t)'
        /\ accepted' = [accepted EXCEPT ![w.plugin] = @ + 1]
    BY <1>3, <2>1, <2>2 DEF AddsJob
  <2>4. CASE w.plugin = p
    <3>1. accepted'[p] = accepted[p] + 1
      BY <1>0, <2>3, <2>4
    <3>2. \A n \in ran[p] + 1 .. accepted[p] + 1 :
            n \in ran[p] + 1 .. accepted[p] \/ n = w.n
      BY <1>1, <2>2, <2>4
    <3>3. w \in Jobs(i)'
      BY <2>3
    <3>4. ran[p] <= accepted[p] + 1
      BY <1>1
    <3> QED
      BY <1>1, <2>3, <2>4, <3>1, <3>2, <3>3, <3>4
  <2>5. CASE w.plugin # p
    <3>1. accepted'[p] = accepted[p]
      BY <1>0, <2>3, <2>5
    <3> QED
      BY <1>1, <2>3, <3>1
  <2> QED
    BY <2>4, <2>5
<1>4. ASSUME NEW t \in ThreadIdx, EndsJob(t)
      PROVE  /\ ran'[p] <= accepted'[p]
             /\ \A n \in ran'[p] + 1 .. accepted'[p] :
                  \E u \in ThreadIdx : \E m \in Jobs(u)' : m.plugin = p /\ m.n = n
  <2> DEFINE r == running[t]
  <2>1. /\ accepted' = accepted /\ ran' = [ran EXCEPT ![r.plugin] = @ + 1]
        /\ r \in Jobs(t) /\ exec_pc[t] = "run"
        /\ \A u \in ThreadIdx : \A m \in Jobs(u) : m \in Jobs(u)' \/ m = r
    BY <1>4 DEF EndsJob, RunJob
  <2>2. r.n = ran[r.plugin] + 1 /\ r.n <= accepted[r.plugin]
    BY <2>1, RunsNext DEF JobsPlaced, JobOf
  <2> HIDE DEF r
  <2>3. CASE r.plugin = p
    <3>1. ran'[p] = ran[p] + 1
      BY <1>0, <2>1, <2>3
    <3>2. ran[p] + 1 <= accepted[p]
      BY <2>2, <2>3
    <3> SUFFICES ASSUME NEW n \in ran[p] + 1 + 1 .. accepted[p]
                 PROVE  \E u \in ThreadIdx : \E m \in Jobs(u)' : m.plugin = p /\ m.n = n
      BY <2>1, <3>1, <3>2
    <3>3. n \in ran[p] + 1 .. accepted[p] /\ n # ran[p] + 1
      BY <1>1
    <3>4. PICK u \in ThreadIdx : \E m \in Jobs(u) : m.plugin = p /\ m.n = n
      BY <1>1, <3>3
    <3>5. PICK m \in Jobs(u) : m.plugin = p /\ m.n = n
      BY <3>4
    <3>6. m # r
      BY <2>2, <2>3, <3>3, <3>5
    <3> QED
      BY <2>1, <3>5, <3>6
  <2>4. CASE r.plugin # p
    <3>1. ran'[p] = ran[p]
      BY <1>0, <2>1, <2>4
    <3> QED
      BY <1>1, <2>1, <2>4, <3>1
  <2> QED
    BY <2>3, <2>4
<1> QED
  BY <1>2, <1>3, <1>4, JobSteps

\* A worker unregisters a plugin that was loaded and has been unloaded.
LEMMA UnloadsKept ==
  ASSUME IInv, [Next]_vars, JobsTyped, JobsPlaced, InOrder, UnloadsWhenLoaded
  PROVE  UnloadsWhenLoaded'
<1> SUFFICES ASSUME NEW t \in ThreadIdx, exec_pc'[t] \in Unregistering
             PROVE  /\ instances'[running'[t].plugin] = 0 /\ ran'[running'[t].plugin] > 0
                    /\ running'[t].kind = "unload"
  BY DEF UnloadsWhenLoaded
<1>1. /\ running'[t] = running[t] /\ running[t].plugin \in Plugins
      /\ instances[running[t].plugin] = 0 /\ ran[running[t].plugin] > 0
      /\ running[t].kind = "unload"
  <2>1. CASE Goes(t)
    BY <2>1 DEF Goes, UnloadsWhenLoaded, Unregistering, JobsTyped
  <2>2. CASE Runs(t)
    <3>1. /\ exec_pc[t] = "run" /\ running'[t] = running[t] /\ running[t].kind = "unload"
          /\ running[t] \in Message /\ running[t].plugin \in Plugins
      BY <2>2 DEF Runs, Unregistering, IInv, TypeOK, JobsTyped
    <3>2. running[t] \in Jobs(t)
      BY <3>1, PoolAssumption DEF Jobs, Shutdown, PoolAssumption
    <3> QED
      BY <3>1, <3>2 DEF JobsPlaced, JobOf
  <2>3. ASSUME NEW c \in Callers, GetsJob(t, c)
        PROVE  /\ running'[t] = running[t] /\ running[t].plugin \in Plugins
               /\ instances[running[t].plugin] = 0 /\ ran[running[t].plugin] > 0
               /\ running[t].kind = "unload"
    BY <2>3 DEF GetsJob, UnloadsWhenLoaded, Unregistering, JobsTyped
  <2>4. ~Spawns(t) /\ ~Takes(t) /\ ~Finishes(t)
    BY DEF Spawns, Takes, Finishes, Unregistering
  <2> QED
    BY <2>1, <2>2, <2>3, <2>4, ThreadSteps
<1> QED
  BY <1>1, UnloadedStays

\* A plugin with instances keeps a thread that was spawned.
LEMMA ServedKept ==
  ASSUME IInv, IInv', [Next]_vars, JobsTyped, CallsMatch, JobsPlaced, NoneMissing,
         InOrder, UnloadsWhenLoaded, Served
  PROVE  Served'
<1>0. /\ ran \in [Plugins -> Nat] /\ accepted \in [Plugins -> Nat]
      /\ instances \in [Plugins -> {0, Instances}] /\ Instances \in Nat
      /\ plugin_assignments \in [Plugins -> ThreadIdx \cup {NoThread}]
      /\ exec_pc \in [ThreadIdx -> ExecPcs]
      /\ \A p \in Plugins : ran[p] <= accepted[p]
  BY PoolAssumption DEF IInv, TypeOK, NoneMissing, PoolAssumption
<1> SUFFICES ASSUME NEW p \in Plugins, instances'[p] > 0
             PROVE  /\ plugin_assignments'[p] # NoThread
                    /\ exec_pc'[plugin_assignments'[p]] \notin {"unspawned", "failed"}
                    /\ ran'[p] > 0
  BY DEF Served
<1>1. CASE instances[p] > 0
  <2>1. /\ plugin_assignments[p] # NoThread /\ plugin_assignments[p] \in ThreadIdx
        /\ exec_pc[plugin_assignments[p]] \notin {"unspawned", "failed"}
        /\ ran[p] > 0 /\ accepted[p] > 0 /\ instances[p] # 0
    BY <1>0, <1>1 DEF Served
  <2>2. plugin_assignments'[p] = plugin_assignments[p]
    BY <2>1, AssignedStays
  <2>3. ran'[p] > 0
    <3>1. ran' = ran \/ \E q : ran' = [ran EXCEPT ![q] = @ + 1]
      BY JobSteps DEF JobsRest, AddsJob, EndsJob
    <3> QED
      BY <1>0, <2>1, <3>1
  <2>4. ASSUME NEW t \in ThreadIdx, exec_pc[t] \notin {"unspawned", "failed"}
        PROVE  exec_pc'[t] \notin {"unspawned", "failed"}
    BY <2>4, ThreadSteps DEF Goes, GetsJob, Spawns, Takes, Runs, Finishes
  <2> QED
    BY <2>1, <2>2, <2>3, <2>4
<1>2. CASE ~(instances[p] > 0)
  <2>1. ~\E q \in Plugins : UnloadPlugin(q)
    BY <1>0, <1>2 DEF UnloadPlugin
  <2>2. PICK t \in ThreadIdx : RunJob(t) /\ running[t].kind = "load"
    BY <1>0, <1>2, <2>1, InstanceSteps
  <2>3. /\ exec_pc[t] = "run" /\ exec_pc'[t] = "finish"
        /\ running[t] \in Message /\ running[t].plugin \in Plugins
        /\ instances' = [instances EXCEPT ![running[t].plugin] = Instances]
        /\ ran' = [ran EXCEPT ![running[t].plugin] = @ + 1]
        /\ plugin_assignments' = plugin_assignments
    BY <1>0, <2>2 DEF RunJob, IInv, TypeOK, JobsTyped, mapVars
  <2>4. running[t].plugin = p
    BY <1>0, <1>2, <2>3
  <2>5. running[t] \in Jobs(t)
    BY <2>3, PoolAssumption DEF Jobs, Shutdown, PoolAssumption
  <2>6. plugin_assignments[p] = t /\ t # NoThread
    BY <2>2, <2>4, <2>5, PoolAssumption DEF JobsPlaced, JobOf, PoolAssumption
  <2>7. ran'[p] > 0
    BY <1>0, <2>3, <2>4
  <2> QED
    BY <2>3, <2>6, <2>7
<1> QED
  BY <1>1, <1>2

\* Work is never given up on: its plugin has instances, so its thread is there,
\* receives, and is the one that was read.
LEMMA EventsStayKept ==
  ASSUME IInv, [Next]_vars, CallsMatch, NothingBehindShutdown, Served, EventsKept
  PROVE  EventsKept'
<1>0. dropped \in [Plugins -> SUBSET JobKinds]
  BY DEF IInv, TypeOK
<1>1. CASE dropped' = dropped
  BY <1>1 DEF EventsKept
<1>2. ASSUME NEW c \in Callers, GiveUp(c), LookupThread(c) \/ SendJob(c), dropped' # dropped
      PROVE  EventsKept'
  <2> DEFINE p == caller[c].plugin
  <2>1. p \in Plugins /\ CallOf(c) /\ caller[c].pc \in {"lookup", "send"}
    BY <1>2 DEF LookupThread, SendJob, IInv, CallsNameTheirThread, CallsMatch
  <2>2. caller[c].kind # "work"
    <3> SUFFICES ASSUME caller[c].kind = "work" PROVE FALSE
      OBVIOUS
    <3>1. /\ plugin_assignments[p] # NoThread
          /\ exec_pc[plugin_assignments[p]] \notin {"unspawned", "failed"}
      BY <2>1 DEF CallOf, Served
    <3>2. execution_threads[plugin_assignments[p]] /\ plugin_assignments[p] \in ThreadIdx
      BY <2>1, <3>1 DEF IInv, AssignedThreadLive, TypeOK
    <3>3. Receiving(plugin_assignments[p])
      BY <3>1, <3>2 DEF Receiving, NothingBehindShutdown
    <3>4. CASE LookupThread(c)
      BY <1>2, <3>1, <3>4 DEF LookupThread, ThreadOf
    <3>5. CASE SendJob(c)
      <4>1. caller[c].idx = plugin_assignments[p]
        BY <2>1, <3>1, <3>5 DEF CallOf, SendJob
      <4>2. UNCHANGED dropped
        BY <3>2, <3>3, <3>5, <4>1 DEF SendJob
      <4> QED
        BY <1>2, <4>2
    <3> QED
      BY <1>2, <3>4, <3>5
  <2>3. dropped' = [dropped EXCEPT ![p] = @ \cup {caller[c].kind}]
    BY <1>2 DEF GiveUp
  <2> HIDE DEF p
  <2>4. \A q \in Plugins :
          dropped'[q] = dropped[q] \/ dropped'[q] = dropped[q] \cup {caller[c].kind}
    BY <1>0, <2>1, <2>3
  <2> QED
    BY <2>2, <2>4 DEF EventsKept
<1>3. ASSUME NEW c \in Callers, CallStep(c)
      PROVE  dropped' = dropped \/ (GiveUp(c) /\ (LookupThread(c) \/ SendJob(c)))
  BY <1>3
  DEF CallStep, RegisterLockAssignments, RegisterLockThreadPlugins, ChooseThread,
    ReserveThread, AddThread, RecordAssignment, LookupThread, SendJob, historyVars
<1>4. ASSUME NEW t \in ThreadIdx, WorkerStep(t) PROVE dropped' = dropped
  BY <1>4
  DEF WorkerStep, TakeJob, RunJob, UnregisterLockAssignments, UnregisterRemove,
    ShrinkLockThreads, ShrinkRemove, FinishJob, historyVars
<1>5. ASSUME NEW c \in Callers, NEW p \in Plugins,
             LoadPlugin(c, p) \/ DeliverWork(p) \/ UnloadPlugin(p)
      PROVE  dropped' = dropped
  BY <1>5 DEF LoadPlugin, DeliverWork, UnloadPlugin, historyVars
<1>6. PluginThread \in Callers
  BY DEF Callers
<1>7. CASE UNCHANGED vars
  BY <1>1, <1>7 DEF vars, historyVars
<1> QED
  BY <1>1, <1>2, <1>3, <1>4, <1>5, <1>6, <1>7 DEF Next

-----------------------------------------------------------------------------
LEMMA JobsInvHolds == Init => JobsInv
<1> SUFFICES ASSUME Init PROVE JobsInv
  OBVIOUS
<1>1. /\ queue = [t \in ThreadIdx |-> <<>>]
      /\ exec_pc = [t \in ThreadIdx |-> IF t = 0 THEN "recv" ELSE "unspawned"]
      /\ caller = [c \in Callers |-> Idle] /\ jobs_in_flight = [t \in ThreadIdx |-> 0]
      /\ instances = [p \in Plugins |-> 0] /\ accepted = [p \in Plugins |-> 0]
      /\ ran = [p \in Plugins |-> 0] /\ dropped = [p \in Plugins |-> {}]
  BY DEF Init
<1>2. \A t \in ThreadIdx : queue[t] = <<>> /\ exec_pc[t] \in {"recv", "unspawned"}
  BY <1>1, Zenon
<1>3. Len(<<>>) = 0 /\ DOMAIN <<>> = {} /\ 1 .. 0 = {}
  OBVIOUS
<1>4. \A t \in ThreadIdx : Jobs(t) = {}
  BY <1>2, <1>3 DEF Jobs
<1>5. JobsTyped
  BY <1>2, <1>3 DEF JobsTyped, Unregistering
<1>6. NothingBehindShutdown
  BY <1>2, <1>3 DEF NothingBehindShutdown
<1>7. BusyCountExact
  <2>1. \A t \in ThreadIdx : WorkQueued(t) = {} /\ ~InJob(t) /\ jobs_in_flight[t] = 0
    BY <1>1, <1>2, <1>3 DEF WorkQueued, InJob
  <2> QED
    BY <2>1, FS_EmptySet DEF BusyCountExact
<1>8. CallsMatch
  BY <1>1 DEF CallsMatch, Idle
<1>9. JobsPlaced /\ OneHome
  BY <1>4 DEF JobsPlaced, OneHome
<1>10. NoneMissing
  <2>1. \A p \in Plugins : ran[p] = 0 /\ accepted[p] = 0
    BY <1>1
  <2> QED
    BY <2>1 DEF NoneMissing
<1>11. InOrder /\ UnloadsWhenLoaded
  BY <1>2, <1>3 DEF InOrder, UnloadsWhenLoaded, Unregistering
<1>12. Served /\ EventsKept
  BY <1>1 DEF Served, EventsKept
<1> QED
  BY <1>5, <1>6, <1>7, <1>8, <1>9, <1>10, <1>11, <1>12 DEF JobsInv

\* The jobs, the calls and the state of the plugins always fit together.
THEOREM JobsInvariantHolds == Spec => []JobsInv
<1>1. Init => JobsInv
  BY JobsInvHolds
<1>2. IInv /\ IInv' /\ JobsInv /\ [Next]_vars => JobsInv'
  BY JobsTypedKept, ShutdownLastKept, BusyCountKept, CallsMatchKept, JobsPlacedKept,
     OneHomeKept, NoneMissingKept, OrderKept, UnloadsKept, ServedKept, EventsStayKept
  DEF JobsInv
<1> QED
  BY <1>1, <1>2, InvariantHolds, PTL DEF Spec

\* The count of a thread's jobs never drifts from the jobs it has.
THEOREM PoolBusyCountExact == Spec => []BusyCountExact
<1>1. JobsInv => BusyCountExact
  BY DEF JobsInv
<1> QED
  BY <1>1, JobsInvariantHolds, PTL

\* No event is given up on, none is left behind a shutdown, and the jobs of a
\* plugin run in the order they were sent.
THEOREM PoolJobsKeptInOrder == Spec => []JobsKeptInOrder
<1>1. IInv /\ JobsInv => PinnedOrder
  BY RunsNext DEF JobsInv, PinnedOrder
<1>2. IInv /\ JobsInv => JobsKeptInOrder
  BY <1>1 DEF JobsInv, JobsKeptInOrder
<1> QED
  BY <1>2, InvariantHolds, JobsInvariantHolds, PTL
=============================================================================
