---------------------------- MODULE CliPipeProofs ----------------------------
(***************************************************************************)
(* What holds of CLI pipes for any number of pipes, plugins and clients,   *)
(* and any settings: nothing follows the release that ends a pipe, every   *)
(* release finds its pipe associated; and as long as nothing is rendered   *)
(* or removed and only one instance blocks, one message is under way at a  *)
(* time and is released when all have handled it.                          *)
(*                                                                         *)
(* The last rests on where a message can be: on its way to the plugins,    *)
(* with them, or on its way back as a release - in one place, once - and   *)
(* on the share that each instance has in it: one call, which ends with    *)
(* one change, and after a block one unblock later.                        *)
(***************************************************************************)
EXTENDS CliPipe, FiniteSetTheorems, SequenceTheorems, TLAPS

Change == {"no change", "block", "unblock", "crashed"}
ExitCode == Codes \cup {None}
Info == [known : BOOLEAN, blocked : BOOLEAN, by : Plugins \cup {None},
         processing : SUBSET Instances]
Entry == [info : Info, code : ExitCode, owner : Plugins \cup {None}, finished : BOOLEAN]
Outs == {<<>>} \cup {<<c>> : c \in ExitCode}
Client == [read : Nat, sent : Nat, ended : BOOLEAN, waiting : BOOLEAN,
           exit : {None, "done", "killed"} \cup Codes]

ChangeMessages ==
  [kind : {"changes"}, from : Instances, of : UNION {[S -> Change] : S \in SUBSET Pipes}]
CodeMessages == [kind : {"code"}, pipe : Pipes, code : Codes, by : Plugins]
PipeMessages == [kind : {"message"}, pipe : Pipes, n : Nat]
Removals ==
  [kind : {"unload"}, plugin : Plugins] \cup [kind : {"remove"}, client : Clients]
ToPlugins == ChangeMessages \cup CodeMessages \cup PipeMessages \cup Removals
Releases == [kind : {"release"}, pipe : Pipes, code : ExitCode]
ToMain == [kind : {"associate", "remove"}, pipe : Pipes] \cup Releases
Calls == [pipe : Pipes \cup {None}, n : Nat, on : Instances]

ClientInv ==
  /\ cli \in [Pipes -> Client]
  /\ \A q \in Pipes : cli[q].sent <= cli[q].read /\ cli[q].read <= setting.messages
QueuesInv ==
  /\ socket \in [Pipes -> Seq(Nat)]
  /\ inbox \in Seq(ToPlugins)
  /\ screen \in Seq(ChangeMessages)
  /\ main \in Seq(ToMain)
  /\ link \in [Pipes -> Seq(Releases)]
  /\ jobs \in [Plugins -> Seq(Calls)]
  /\ \A p \in Plugins : \A n \in DOMAIN jobs[p] : jobs[p][n].on[1] = p
PlainInv ==
  /\ setting \in Settings
  /\ seen \subseteq Pipes
  /\ session \in [Pipes -> {"new", "associated", "gone"}]
  /\ running \subseteq Instances
  /\ to_block \in [Instances -> SUBSET Pipes]
  /\ to_unblock \in [Instances -> SUBSET Pipes]
  /\ holding \in [Instances -> SUBSET Pipes]
  /\ removals \in Nat

\* What the plugin thread knows of a pipe: something holds it, or nothing is known; a code
\* has an owner; and when the pipe is finished nothing else is left.
Sound(entry) ==
  /\ IF entry.info.known THEN Held(entry.info) ELSE entry.info = Forgotten
  /\ entry.code = None <=> entry.owner = None
  /\ entry.finished => entry = Finished(NewEntry)
PendingInv == pending \in [Pipes -> Entry] /\ \A q \in Pipes : Sound(pending[q])

TypeInv == ClientInv /\ QueuesInv /\ PlainInv /\ PendingInv

\* Only of a pipe whose client a router has seen there is anything anywhere.
Mentions(m, q) ==
  \/ m.kind \in {"message", "code"} /\ m.pipe = q
  \/ m.kind = "changes" /\ q \in DOMAIN m.of
SeenInv ==
  /\ \A n \in DOMAIN inbox : \A q \in Pipes : Mentions(inbox[n], q) => q \in seen
  /\ \A n \in DOMAIN screen : \A q \in Pipes : Mentions(screen[n], q) => q \in seen
  /\ \A p \in Plugins : \A n \in DOMAIN jobs[p] : jobs[p][n].pipe \in seen \cup {None}
  /\ \A i \in Instances : to_block[i] \cup to_unblock[i] \cup holding[i] \subseteq seen
  /\ \A q \in Pipes \ seen : pending[q] = NewEntry
  /\ \A n \in DOMAIN main : main[n].kind = "release" => main[n].pipe \in seen

\* A release comes after the association of its pipe.
AssociationInv ==
  \A q \in seen : session[q] = "new" =>
    \E k \in DOMAIN main : /\ main[k] = Plain("associate", q)
                           /\ \A n \in DOMAIN main : IsRelease(main[n], q) => k < n

FinalInv == \A q \in Pipes : FinalSent(q) => pending[q].finished

\* Who may not block, or does not fail, leaves nothing for a later call.
Harmless(m) == \A q \in DOMAIN m.of : m.of[q] \in {"no change", "crashed"}
CallInv ==
  /\ \A i \in Instances :
       /\ i \notin setting.blockers \cap setting.crashers => to_block[i] = {} /\ to_unblock[i] = {}
       /\ i \notin setting.blockers => holding[i] = {}
  /\ \A n \in DOMAIN inbox :
       inbox[n].kind = "changes" /\ inbox[n].from \notin setting.blockers => Harmless(inbox[n])
  /\ \A n \in DOMAIN screen : screen[n].from \notin setting.blockers => Harmless(screen[n])

\* Nothing is removed, nothing rendered.
QuietInv ==
  /\ removals = 0 =>
       /\ \A n \in DOMAIN inbox : inbox[n] \notin Removals
       /\ \A p \in Plugins : \A n \in DOMAIN jobs[p] : jobs[p][n].pipe # None
  /\ setting.panes = {} => screen = <<>>

\* A client that has not left is connected.
ConnectedInv ==
  \A q \in Pipes : cli[q].exit = None =>
    /\ \A n \in DOMAIN socket[q] : socket[q][n] # 0
    /\ \A n \in DOMAIN main : main[n] # Plain("remove", q)
    /\ session[q] # "gone"

\* Messages of a kind in a queue: some, or at most one.
Has(s, T) == \E n \in DOMAIN s : s[n] \in T
Once(s, T) == \A m, n \in DOMAIN s : s[m] \in T /\ s[n] \in T => m = n

Sent == Nat \ {0}
MessagesOf(q) == {m \in ToPlugins : IsMessage(m, q)}
ReleasesOf(q) == {m \in ToMain : IsRelease(m, q)}
FinalOf(q) == {m \in ReleasesOf(q) : m.code # None}

\* One message at a time: it, or what becomes of it, is in one place - its client's socket,
\* the queue of the plugin thread, with the plugins, the queue of the main loop, the client's
\* link - once, and its client waits for it; a client that has not left waits for nothing else.
OnePlace(s, i, k, m, l) ==
  /\ s => ~i /\ ~k /\ ~m /\ ~l
  /\ i => ~k /\ ~m /\ ~l
  /\ k => ~m /\ ~l
  /\ m => ~l
InPlace(s, i, k, m, l, client) ==
  /\ OnePlace(s, i, k, m, l)
  /\ s \/ i \/ k \/ m \/ l => client.waiting
  /\ client.exit = None /\ client.waiting => s \/ i \/ k \/ m \/ l
TurnInv(q) ==
  /\ Once(socket[q], Sent) /\ Once(inbox, MessagesOf(q))
  /\ Once(main, ReleasesOf(q)) /\ Once(link[q], ReleasesOf(q))
  /\ InPlace(Has(socket[q], Sent), Has(inbox, MessagesOf(q)), Known(q),
             Has(main, ReleasesOf(q)), Has(link[q], ReleasesOf(q)), cli[q])

\* When the pipe is finished, the client has left or its last release is under way.
FinishedInv(q) ==
  pending[q].finished =>
    /\ cli[q].waiting
    /\ cli[q].exit = None => Has(main, FinalOf(q)) \/ Has(link[q], FinalOf(q))
    /\ ~Has(main, ReleasesOf(q) \ FinalOf(q)) /\ ~Has(link[q], ReleasesOf(q) \ FinalOf(q))

\* The calls of an instance for a pipe, and the changes it reports.
CallsFor(q, i) == {j \in Calls : j.pipe = q /\ j.on = i}
ChangesOf(q, i) ==
  {m \in ToPlugins : m.kind = "changes" /\ m.from = i /\ q \in DOMAIN m.of}
BlocksOf(q, i) == {m \in ChangesOf(q, i) : m.of[q] = "block"}
UnblocksOf(q, i) == {m \in ChangesOf(q, i) : m.of[q] = "unblock"}
InTurn(s, q, i) ==
  \A m, n \in DOMAIN s : m < n /\ s[m] \in ChangesOf(q, i) /\ s[n] \in ChangesOf(q, i) =>
    s[m] \in BlocksOf(q, i) /\ s[n] \in UnblocksOf(q, i)

\* What an instance still does with a message: it is called once, which ends with one
\* change; if that is a block it unblocks once, later. Until all this has been heard of the
\* pipe is held: by the call, or by the block.
ShareInv(q, i) ==
  LET handles == i \in pending[q].info.processing
      blocked == pending[q].info.blocked
  IN
  /\ Once(jobs[i[1]], CallsFor(q, i))
  /\ InTurn(inbox, q, i)
  /\ Has(jobs[i[1]], CallsFor(q, i)) =>
       handles /\ ~Has(inbox, ChangesOf(q, i)) /\ q \notin holding[i]
  /\ Has(inbox, ChangesOf(q, i)) /\ ~handles =>
       blocked /\ ~Has(inbox, ChangesOf(q, i) \ UnblocksOf(q, i))
  /\ q \in holding[i] =>
       /\ ~Has(inbox, UnblocksOf(q, i))
       /\ IF handles THEN Has(inbox, BlocksOf(q, i)) ELSE blocked

\* All of it, for one pipe.
Turning(q) ==
  /\ TurnInv(q) /\ FinishedInv(q)
  /\ ~pending[q].finished => \A i \in Instances : ShareInv(q, i)

UndisturbedInv == Undisturbed => \A q \in Pipes : Turning(q)

IInv ==
  /\ TypeInv /\ SeenInv /\ AssociationInv /\ FinalInv /\ CallInv /\ QuietInv /\ ConnectedInv
  /\ UndisturbedInv

-----------------------------------------------------------------------------
(* Queues *)

\* What appending a sequence does.
LEMMA ConcatFacts ==
  ASSUME NEW S, NEW q \in Seq(S), NEW t \in Seq(S)
  PROVE  /\ q \o t \in Seq(S)
         /\ Len(q \o t) = Len(q) + Len(t) /\ DOMAIN (q \o t) = 1 .. Len(q) + Len(t)
         /\ Len(q) \in Nat /\ Len(t) \in Nat
         /\ DOMAIN q = 1 .. Len(q) /\ DOMAIN t = 1 .. Len(t)
         /\ \A n \in DOMAIN q : n \in DOMAIN (q \o t) /\ (q \o t)[n] = q[n]
         /\ \A n \in DOMAIN t : Len(q) + n \in DOMAIN (q \o t) /\ (q \o t)[Len(q) + n] = t[n]
         /\ \A n \in DOMAIN (q \o t) :
              n \in DOMAIN q \/ (n > Len(q) /\ n - Len(q) \in DOMAIN t /\ (q \o t)[n] = t[n - Len(q)])
<1>1. /\ q \o t \in Seq(S)
      /\ Len(q \o t) = Len(q) + Len(t) /\ DOMAIN (q \o t) = 1 .. Len(q) + Len(t)
      /\ Len(q) \in Nat /\ Len(t) \in Nat
      /\ DOMAIN q = 1 .. Len(q) /\ DOMAIN t = 1 .. Len(t)
      /\ \A n \in DOMAIN q : (q \o t)[n] = q[n]
      /\ \A n \in DOMAIN t : (q \o t)[Len(q) + n] = t[n]
  OBVIOUS
<1>2. ASSUME NEW n \in DOMAIN (q \o t), n \notin DOMAIN q
      PROVE  n > Len(q) /\ n - Len(q) \in DOMAIN t /\ n = Len(q) + (n - Len(q))
  BY <1>1, <1>2
<1> QED
  BY <1>1, <1>2

\* What Append does.
LEMMA AppendFacts ==
  ASSUME NEW S, NEW q \in Seq(S), NEW m \in S
  PROVE  /\ Append(q, m) \in Seq(S)
         /\ DOMAIN q = 1 .. Len(q) /\ Len(q) \in Nat
         /\ DOMAIN Append(q, m) = 1 .. Len(q) + 1
         /\ Append(q, m)[Len(q) + 1] = m
         /\ \A n \in DOMAIN q : n \in DOMAIN Append(q, m) /\ Append(q, m)[n] = q[n]
         /\ \A n \in DOMAIN Append(q, m) : n \in DOMAIN q \/ n = Len(q) + 1
  OBVIOUS

\* What taking the first element does.
LEMMA TailFacts ==
  ASSUME NEW S, NEW q \in Seq(S), q # <<>>
  PROVE  /\ Tail(q) \in Seq(S) /\ Head(q) = q[1] /\ Head(q) \in S /\ 1 \in DOMAIN q
         /\ Len(q) \in Nat /\ DOMAIN q = 1 .. Len(q)
         /\ DOMAIN Tail(q) = 1 .. Len(q) - 1
         /\ \A n \in DOMAIN Tail(q) : n + 1 \in DOMAIN q /\ Tail(q)[n] = q[n + 1]
         /\ \A n \in DOMAIN q : n = 1 \/ (n - 1 \in DOMAIN Tail(q) /\ Tail(q)[n - 1] = q[n])
  OBVIOUS

\* SetToSeq lists the members of a finite set, each once.
LEMMA ListFacts ==
  ASSUME NEW S, IsFiniteSet(S)
  PROVE  /\ SetToSeq(S) \in Seq(S)
         /\ \A x \in S : \E n \in DOMAIN SetToSeq(S) : SetToSeq(S)[n] = x
         /\ \A m, n \in DOMAIN SetToSeq(S) : SetToSeq(S)[m] = SetToSeq(S)[n] => m = n
<1> DEFINE D == 1 .. Cardinality(S)
           s == SetToSeq(S)
<1>1. Cardinality(S) \in Nat /\ ExistsBijection(D, S)
  BY FS_CardinalityType
<1>2. PICK f \in Bijection(D, S) : TRUE
  BY <1>1 DEF ExistsBijection
<1>3. f \in [D -> S] /\ IsInjective(f)
  BY <1>2 DEF Bijection, Injection, IsInjective
<1>4. s \in [D -> S] /\ IsInjective(s)
  BY <1>3 DEF SetToSeq
<1>5. s \in Injection(D, S)
  BY <1>4 DEF Injection, IsInjective
<1>6. Cardinality(D) = Cardinality(S)
  BY <1>1, FS_Interval
<1>7. s \in Surjection(D, S)
  <2> HIDE DEF D, s
  <2> QED
    BY <1>5, <1>6, FS_Injection
<1>8. s \in Seq(S) /\ DOMAIN s = D
  BY <1>1, <1>4
<1> QED
  BY <1>4, <1>7, <1>8 DEF Surjection, IsInjective

\* So does any order of them.
LEMMA OrderFacts ==
  ASSUME NEW S, IsFiniteSet(S), NEW s \in SetToSeqs(S)
  PROVE  /\ s \in Seq(S)
         /\ \A x \in S : \E n \in DOMAIN s : s[n] = x
         /\ \A m, n \in DOMAIN s : s[m] = s[n] => m = n
<1> DEFINE D == 1 .. Cardinality(S)
<1>1. Cardinality(S) \in Nat
  BY FS_CardinalityType
<1>2. s \in [D -> S] /\ \A m, n \in D : s[m] = s[n] => m = n
  BY DEF SetToSeqs
<1>3. s \in Injection(D, S)
  BY <1>2 DEF Injection, IsInjective
<1>4. Cardinality(D) = Cardinality(S)
  BY <1>1, FS_Interval
<1>5. s \in Surjection(D, S)
  <2> HIDE DEF D
  <2> QED
    BY <1>3, <1>4, FS_Injection
<1>6. s \in Seq(S) /\ DOMAIN s = D
  BY <1>1, <1>2
<1> QED
  BY <1>2, <1>5, <1>6 DEF Surjection

\* What there is in a queue after a message more.
LEMMA AppendHas ==
  ASSUME NEW S, NEW s \in Seq(S), NEW m \in S
  PROVE  \A T : /\ Has(Append(s, m), T) <=> Has(s, T) \/ m \in T
                /\ Once(s, T) /\ (m \in T => ~Has(s, T)) => Once(Append(s, m), T)
<1> DEFINE t == Append(s, m)
<1>1. /\ t[Len(s) + 1] = m /\ Len(s) + 1 \in DOMAIN t
      /\ \A n \in DOMAIN s : n \in DOMAIN t /\ t[n] = s[n]
      /\ \A n \in DOMAIN t : n \in DOMAIN s \/ n = Len(s) + 1
  BY AppendFacts
<1> HIDE DEF t
<1>2. \A T : Has(t, T) <=> Has(s, T) \/ m \in T
  BY <1>1, Zenon DEF Has
<1>3. ASSUME NEW T, Once(s, T), m \in T => ~Has(s, T)
      PROVE  Once(t, T)
  <2> SUFFICES ASSUME NEW k \in DOMAIN t, NEW n \in DOMAIN t, t[k] \in T, t[n] \in T
               PROVE  k = n
    BY DEF Once
  <2>1. m \in T => \A l \in DOMAIN s : s[l] \notin T
    BY <1>3 DEF Has
  <2> QED
    BY <1>1, <1>3, <2>1 DEF Once
<1> QED
  BY <1>2, <1>3 DEF t

\* What there is in it after the first has been taken.
LEMMA TailHas ==
  ASSUME NEW S, NEW s \in Seq(S), s # <<>>
  PROVE  \A T : /\ Has(Tail(s), T) => Has(s, T)
                /\ Head(s) \notin T => (Has(s, T) <=> Has(Tail(s), T))
                /\ Head(s) \in T => Has(s, T)
                /\ Once(s, T) => Once(Tail(s), T)
                /\ Once(s, T) /\ Head(s) \in T => ~Has(Tail(s), T)
<1> DEFINE t == Tail(s)
<1>1. /\ Head(s) = s[1] /\ 1 \in DOMAIN s
      /\ \A n \in DOMAIN t : n + 1 \in DOMAIN s /\ t[n] = s[n + 1] /\ n \in Nat \ {0}
      /\ \A n \in DOMAIN s : n \in Nat /\ (n = 1 \/ (n - 1 \in DOMAIN t /\ t[n - 1] = s[n]))
  BY TailFacts
<1> HIDE DEF t
<1>2. \A T : /\ Has(t, T) => Has(s, T)
             /\ Head(s) \notin T => (Has(s, T) <=> Has(t, T))
             /\ Head(s) \in T => Has(s, T)
  BY <1>1 DEF Has
<1>3. ASSUME NEW T, Once(s, T)
      PROVE  Once(t, T) /\ (Head(s) \in T => ~Has(t, T))
  BY <1>1, <1>3 DEF Has, Once
<1> QED
  BY <1>2, <1>3 DEF t

\* What there is in two queues, one after the other.
LEMMA ConcatHas ==
  ASSUME NEW S, NEW s \in Seq(S), NEW t \in Seq(S)
  PROVE  \A T : /\ Has(s \o t, T) <=> Has(s, T) \/ Has(t, T)
                /\ Once(s, T) /\ Once(t, T) /\ ~(Has(s, T) /\ Has(t, T)) => Once(s \o t, T)
<1> DEFINE u == s \o t
<1>1. /\ \A n \in DOMAIN s : n \in DOMAIN u /\ u[n] = s[n]
      /\ \A n \in DOMAIN t : Len(s) + n \in DOMAIN u /\ u[Len(s) + n] = t[n]
      /\ \A n \in DOMAIN u :
           n \in DOMAIN s \/ (n - Len(s) \in DOMAIN t /\ u[n] = t[n - Len(s)])
      /\ Len(s) \in Nat /\ \A n \in DOMAIN u : n \in Nat
  BY ConcatFacts
<1> HIDE DEF u
<1>2. \A T : Has(u, T) <=> Has(s, T) \/ Has(t, T)
  BY <1>1, Zenon DEF Has
<1>3. ASSUME NEW T, Once(s, T), Once(t, T), ~(Has(s, T) /\ Has(t, T))
      PROVE  Once(u, T)
  BY <1>1, <1>3 DEF Has, Once
<1> QED
  BY <1>2, <1>3 DEF u

-----------------------------------------------------------------------------
(* PendingPipes *)

\* What an operation makes of an entry: it leaves a finished pipe alone, and finishes the
\* pipe when it sends the release that ends it.
Tidy(r, entry) ==
  /\ r.entry \in Entry /\ r.out \in Outs /\ Sound(r.entry)
  /\ entry.finished => r.entry = entry /\ r.out = <<>>
  /\ r.out # <<>> /\ r.out[1] # None => r.entry.finished

\* The parts of an entry that has no info.
LEMMA EntryFacts ==
  /\ Forgotten \in Info /\ NewEntry \in Entry /\ Finished(NewEntry) \in Entry
  /\ Sound(NewEntry) /\ Sound(Finished(NewEntry)) /\ Finished(NewEntry).finished
  /\ ~Finished(NewEntry).info.known /\ ~NewEntry.finished /\ ~NewEntry.info.known
  /\ Finished(NewEntry).code = None /\ NewEntry.code = None
  /\ Finished(NewEntry).info = Forgotten
<1>1. Forgotten \in Info /\ ~Forgotten.known
  BY DEF Forgotten, Info
<1>2. NewEntry \in Entry /\ Finished(NewEntry) \in Entry
  BY <1>1 DEF NewEntry, Finished, Entry, ExitCode
<1> QED
  BY <1>1, <1>2 DEF NewEntry, Finished, Sound

\* A release sends one message, which ends the pipe if it carries a code.
LEMMA ReleaseFacts ==
  ASSUME PipeAssumption, NEW entry \in Entry, NEW final \in BOOLEAN, ~entry.finished,
         entry.code = None <=> entry.owner = None,
         entry.info = Forgotten \/ (final /\ entry.code # None)
  PROVE  /\ Release(entry, final).entry \in Entry /\ Sound(Release(entry, final).entry)
         /\ Release(entry, final).out \in Outs \ {<<>>}
         /\ \/ /\ Release(entry, final).entry = Finished(NewEntry)
               /\ Release(entry, final).out[1] # None /\ final /\ entry.code # None
            \/ /\ Release(entry, final).entry = entry /\ Release(entry, final).out = <<None>>
               /\ ~final \/ entry.code = None
<1>1. CASE final /\ entry.code # None
  <2>1. /\ Release(entry, final).entry = Finished(NewEntry)
        /\ Release(entry, final).out = <<entry.code>>
    BY <1>1 DEF Release, Finished
  <2>2. entry.code \in ExitCode
    BY DEF Entry
  <2>3. <<entry.code>> \in Outs \ {<<>>} /\ <<entry.code>>[1] = entry.code
    BY <2>2 DEF Outs
  <2> QED
    BY <1>1, <2>1, <2>3, EntryFacts
<1>2. CASE ~(final /\ entry.code # None)
  <2>1. Release(entry, final).entry = entry /\ Release(entry, final).out = <<None>>
    BY <1>2 DEF Release
  <2>2. Sound(entry)
    BY <1>2, EntryFacts DEF Sound, Forgotten
  <2> QED
    BY <1>2, <2>1, <2>2 DEF Outs, ExitCode
<1> QED
  BY <1>1, <1>2

\* The info stays while something holds the pipe; when nothing does the pipe is released.
LEMMA SettledFacts ==
  ASSUME PipeAssumption, NEW entry \in Entry, Sound(entry), ~entry.finished, NEW info \in Info,
         NEW final \in BOOLEAN
  PROVE  LET r == Settled(entry, info, final) IN
         /\ Tidy(r, entry)
         /\ IF info.known /\ Held(info)
            THEN /\ r.out = <<>> /\ ~r.entry.finished /\ r.entry.info = info
            ELSE /\ r.out # <<>> /\ r.entry.info = Forgotten
                 /\ r.entry.finished <=> r.out[1] # None
<1> DEFINE r == Settled(entry, info, final)
<1>1. CASE info.known /\ Held(info)
  <2>1. r.out = <<>> /\ r.entry = [entry EXCEPT !.info = info]
    BY <1>1 DEF Settled, Quiet
  <2>2. r.entry \in Entry /\ r.entry.info = info /\ ~r.entry.finished
    BY <2>1 DEF Entry
  <2>3. r.entry.code = entry.code /\ r.entry.owner = entry.owner
    BY <2>1 DEF Entry
  <2>4. Sound(r.entry)
    BY <1>1, <2>2, <2>3 DEF Sound
  <2>5. r.out \in Outs
    BY <2>1 DEF Outs
  <2> QED
    BY <1>1, <2>1, <2>2, <2>4, <2>5 DEF Tidy
<1>2. CASE ~(info.known /\ Held(info))
  <2> DEFINE e == [entry EXCEPT !.info = Forgotten]
  <2>1. r = Release(e, final)
    BY <1>2 DEF Settled
  <2>2. /\ e \in Entry /\ ~e.finished /\ e.info = Forgotten /\ ~e.info.known
        /\ e.code = entry.code /\ e.owner = entry.owner
    BY EntryFacts DEF Entry, Forgotten
  <2>3. e.code = None <=> e.owner = None
    BY <2>2 DEF Sound
  <2> HIDE DEF e
  <2>4. /\ r.entry \in Entry /\ Sound(r.entry) /\ r.out \in Outs \ {<<>>}
        /\ \/ r.entry = Finished(NewEntry) /\ r.out[1] # None
           \/ r.entry = e /\ r.out = <<None>>
    BY <2>1, <2>2, <2>3, ReleaseFacts
  <2> QED
    BY <1>2, <2>2, <2>4, EntryFacts DEF Tidy
<1> QED
  BY <1>1, <1>2

\* That info: the instance no longer handles the message, and the change has been made.
LEMMA UpdatedInfoFacts ==
  ASSUME NEW info \in Info, NEW change \in Change, NEW i \in Instances
  PROVE  LET next == [Blocked(info, change, i[1]) EXCEPT !.processing = @ \ {i}] IN
         /\ next \in Info /\ next.known = info.known
         /\ next.processing = info.processing \ {i}
         /\ next.blocked <=> change = "block" \/ (info.blocked /\ change # "unblock")
<1> DEFINE b == Blocked(info, change, i[1])
<1>0. i[1] \in Plugins
  BY DEF Instances
<1>1. /\ b \in Info /\ b.known = info.known /\ b.processing = info.processing
      /\ b.blocked <=> change = "block" \/ (info.blocked /\ change # "unblock")
  <2>1. CASE change = "block"
    <3>1. b = [info EXCEPT !.blocked = TRUE, !.by = i[1]]
      BY <2>1 DEF Blocked
    <3> QED
      BY <1>0, <2>1, <3>1 DEF Info
  <2>2. CASE change = "unblock"
    <3>1. b = [info EXCEPT !.blocked = FALSE, !.by = None]
      BY <2>2 DEF Blocked
    <3> QED
      BY <2>2, <3>1 DEF Info
  <2>3. CASE change \notin {"block", "unblock"}
    <3>1. b = info
      BY <2>3 DEF Blocked
    <3> QED
      BY <2>3, <3>1
  <2> QED
    BY <2>1, <2>2, <2>3
<1> HIDE DEF b
<1>2. /\ [b EXCEPT !.processing = @ \ {i}] \in Info
      /\ [b EXCEPT !.processing = @ \ {i}].known = b.known
      /\ [b EXCEPT !.processing = @ \ {i}].blocked = b.blocked
      /\ [b EXCEPT !.processing = @ \ {i}].processing = b.processing \ {i}
  BY <1>1 DEF Info
<1> QED
  BY <1>1, <1>2 DEF b

\* What a change makes of the entry of its pipe.
LEMMA UpdatedFacts ==
  ASSUME PipeAssumption, NEW entry \in Entry, Sound(entry), NEW change \in Change,
         NEW i \in Instances
  PROVE  LET r == Updated(entry, change, i)
             rest == entry.info.processing \ {i}
             blocked == change = "block" \/ (entry.info.blocked /\ change # "unblock")
         IN
         /\ Tidy(r, entry)
         /\ ~entry.finished /\ r.out = <<>> =>
              /\ ~r.entry.finished /\ r.entry.info.known /\ entry.info.known
              /\ r.entry.info.processing = rest /\ (r.entry.info.blocked <=> blocked)
         /\ r.out # <<>> =>
              /\ ~r.entry.info.known /\ r.entry.info = Forgotten
              /\ r.entry.finished <=> r.out[1] # None
              /\ ~r.entry.finished /\ entry.info.known => rest = {} /\ ~blocked
<1> DEFINE r == Updated(entry, change, i)
           rest == entry.info.processing \ {i}
           blocked == change = "block" \/ (entry.info.blocked /\ change # "unblock")
<1>1. CASE entry.finished
  <2>1. r.entry = entry /\ r.out = <<>>
    BY <1>1 DEF Updated, Quiet
  <2> QED
    BY <1>1, <2>1 DEF Tidy, Outs
<1>2. CASE ~entry.finished /\ change = "crashed" /\ entry.code # None
  <2>1. r = Release(entry, TRUE)
    BY <1>2 DEF Updated
  <2>2. entry.code = None <=> entry.owner = None
    BY DEF Sound
  <2>3. /\ r.entry = Finished(NewEntry) /\ r.out \in Outs \ {<<>>} /\ r.out[1] # None
        /\ r.entry \in Entry /\ Sound(r.entry)
    BY <1>2, <2>1, <2>2, ReleaseFacts
  <2> QED
    BY <1>2, <2>3, EntryFacts DEF Tidy
<1>3. CASE ~entry.finished /\ ~(change = "crashed" /\ entry.code # None)
  <2> DEFINE next == [Blocked(entry.info, change, i[1]) EXCEPT !.processing = @ \ {i}]
  <2>1. r = Settled(entry, next, IsFinal(change))
    BY <1>3 DEF Updated
  <2>2. entry.info \in Info
    BY DEF Entry
  <2>3. /\ next \in Info /\ next.known = entry.info.known /\ next.processing = rest
        /\ next.blocked <=> blocked
    BY <2>2, UpdatedInfoFacts
  <2> HIDE DEF next, r
  <2>4. IsFinal(change) \in BOOLEAN
    BY DEF IsFinal
  <2>5. /\ Tidy(r, entry)
        /\ IF next.known /\ Held(next)
           THEN r.out = <<>> /\ ~r.entry.finished /\ r.entry.info = next
           ELSE /\ r.out # <<>> /\ r.entry.info = Forgotten
                /\ r.entry.finished <=> r.out[1] # None
    BY <1>3, <2>1, <2>3, <2>4, SettledFacts
  <2>6. ~Forgotten.known
    BY DEF Forgotten
  <2>7. ~Held(next) => rest = {} /\ ~blocked
    BY <2>3 DEF Held
  <2> QED
    BY <1>3, <2>3, <2>5, <2>6, <2>7 DEF r
<1> QED
  BY <1>1, <1>2, <1>3

\* Unloading a plugin, or a client's instances, leaves what is new or finished alone.
LEMMA UnloadedFacts ==
  ASSUME PipeAssumption, NEW entry \in Entry, Sound(entry)
  PROVE  /\ \A p : /\ Tidy(Unloaded(entry, p), entry)
                   /\ entry = NewEntry => Unloaded(entry, p) = Quiet(entry)
         /\ \A c : /\ Tidy(ClientUnloaded(entry, c), entry)
                   /\ entry = NewEntry => ClientUnloaded(entry, c) = Quiet(entry)
<1>1. Tidy(Quiet(entry), entry)
  BY DEF Tidy, Quiet, Outs
<1>2. entry = NewEntry \/ entry.finished => entry.code = None /\ ~entry.info.known
  BY EntryFacts DEF Sound
<1>3. /\ entry.code = None /\ ~entry.info.known => \A p : Unloaded(entry, p) = Quiet(entry)
      /\ ~entry.info.known => \A c : ClientUnloaded(entry, c) = Quiet(entry)
  BY DEF Unloaded, ClientUnloaded
<1>4. entry.info \in Info
  BY DEF Entry
<1>5. ASSUME ~entry.finished, NEW info \in Info, NEW final \in BOOLEAN
      PROVE  Tidy(Settled(entry, info, final), entry)
  BY <1>5, SettledFacts
<1>6. ASSUME NEW p
      PROVE  Tidy(Unloaded(entry, p), entry)
  <2>1. CASE entry.finished
    BY <1>1, <1>2, <1>3, <2>1
  <2>2. CASE ~entry.finished /\ entry.code # None /\ entry.owner = p
    <3> DEFINE r == Release(entry, TRUE)
    <3>1. Unloaded(entry, p) = r
      BY <2>2 DEF Unloaded
    <3>2. entry.code = None <=> entry.owner = None
      BY DEF Sound
    <3>3. /\ r.entry = Finished(NewEntry) /\ r.out \in Outs \ {<<>>} /\ r.out[1] # None
          /\ r.entry \in Entry /\ Sound(r.entry)
      BY <2>2, <3>2, ReleaseFacts
    <3> QED
      BY <2>2, <3>1, <3>3, EntryFacts DEF Tidy
  <2>3. CASE ~entry.finished /\ ~(entry.code # None /\ entry.owner = p) /\ entry.info.known
    <3>1. WithoutPlugin(entry.info, p) \in Info
      BY <1>4 DEF WithoutPlugin, Info
    <3>2. Unloaded(entry, p) = Settled(entry, WithoutPlugin(entry.info, p), FALSE)
      BY <2>3 DEF Unloaded
    <3> QED
      BY <1>5, <2>3, <3>1, <3>2
  <2>4. CASE ~entry.finished /\ ~(entry.code # None /\ entry.owner = p) /\ ~entry.info.known
    BY <1>1, <2>4 DEF Unloaded
  <2> QED
    BY <2>1, <2>2, <2>3, <2>4
<1>7. ASSUME NEW c
      PROVE  Tidy(ClientUnloaded(entry, c), entry)
  <2> DEFINE info == [entry.info EXCEPT !.processing = {i \in @ : i[2] # c}]
  <2>1. info \in Info
    BY <1>4 DEF Info
  <2>2. CASE entry.info.known
    <3>1. ClientUnloaded(entry, c) = Settled(entry, info, FALSE)
      BY <2>2 DEF ClientUnloaded
    <3>2. ~entry.finished
      BY <1>2, <2>2
    <3> QED
      BY <1>5, <2>1, <3>1, <3>2
  <2>3. CASE ~entry.info.known
    BY <1>1, <1>3, <2>3
  <2> QED
    BY <2>2, <2>3
<1> QED
  BY <1>2, <1>3, <1>6, <1>7

\* Marking the instances that get a message: the pipe becomes known, and they hold it.
LEMMA MarkedFacts ==
  ASSUME PlainInv, NEW entry \in Entry, Sound(entry), ~entry.finished
  PROVE  /\ Marked(entry) \in Entry /\ ~Marked(entry).finished /\ Marked(entry).info.known
         /\ Marked(entry).info.processing = entry.info.processing \cup running
         /\ Marked(entry).info.blocked = entry.info.blocked
         /\ running # {} => Sound(Marked(entry))
<1> DEFINE e == Marked(entry)
           info == [entry.info EXCEPT !.known = TRUE, !.processing = @ \cup running]
<1>1. entry.info \in Info /\ running \subseteq Instances
  BY DEF Entry, PlainInv
<1>2. /\ info \in Info /\ info.known /\ info.processing = entry.info.processing \cup running
      /\ info.blocked = entry.info.blocked
  BY <1>1 DEF Info
<1>3. e = [entry EXCEPT !.info = info]
  BY DEF Marked, Entry, Info
<1> HIDE DEF info
<1>4. /\ e \in Entry /\ e.info = info /\ e.code = entry.code /\ e.owner = entry.owner
      /\ e.finished = entry.finished
  BY <1>2, <1>3 DEF Entry
<1>5. running # {} => Held(info)
  BY <1>2 DEF Held
<1>6. running # {} => Sound(e)
  <2> HIDE DEF e
  <2> QED
    BY <1>2, <1>4, <1>5 DEF Sound
<1> QED
  BY <1>2, <1>4, <1>6

\* The kinds of messages for the plugin thread.
LEMMA KindFacts ==
  ASSUME NEW m \in ToPlugins
  PROVE  /\ m.kind = "message" => m \in PipeMessages /\ m.pipe \in Pipes
         /\ m.kind = "code" => m \in CodeMessages /\ m.pipe \in Pipes /\ m.code \in Codes
                               /\ m.by \in Plugins
         /\ m.kind = "changes" => /\ m \in ChangeMessages /\ m.from \in Instances
                                  /\ DOMAIN m.of \subseteq Pipes
                                  /\ \A q \in DOMAIN m.of : m.of[q] \in Change
         /\ m.kind = "unload" => m \in Removals /\ m.plugin \in Plugins
         /\ m.kind = "remove" => m \in Removals /\ m.client \in Clients
         /\ m.kind \in {"message", "code", "changes", "unload", "remove"}
         /\ m.kind \in {"message", "code", "changes"} => m \notin Removals
<1>1. m.kind = "changes" => m \in ChangeMessages
  BY DEF ToPlugins, ChangeMessages, CodeMessages, PipeMessages, Removals
<1>2. m.kind = "changes" => /\ m.from \in Instances /\ DOMAIN m.of \subseteq Pipes
                            /\ \A q \in DOMAIN m.of : m.of[q] \in Change
  BY <1>1 DEF ChangeMessages
<1> QED
  BY <1>1, <1>2 DEF ToPlugins, ChangeMessages, CodeMessages, PipeMessages, Removals

\* The releases an operation on some pipes sends: one for each pipe that it releases.
Sends(new, result) ==
  /\ new \in Seq(Releases)
  /\ \A n \in DOMAIN new :
       /\ new[n].pipe \in DOMAIN result /\ result[new[n].pipe].out # <<>>
       /\ new[n] = Released(new[n].pipe, result[new[n].pipe].out[1])
  /\ \A q \in DOMAIN result : result[q].out # <<>> =>
       \E n \in DOMAIN new : new[n] = Released(q, result[q].out[1])
  /\ \A k, n \in DOMAIN new : new[k].pipe = new[n].pipe => k = n

\* What applying an operation of PendingPipes does.
LEMMA AppliedFacts ==
  ASSUME PipeAssumption, PendingInv, NEW result, DOMAIN result \subseteq Pipes,
         \A q \in DOMAIN result : Tidy(result[q], pending[q]), Apply(result)
  PROVE  /\ PendingInv'
         /\ \A q \in Pipes :
              pending'[q] = IF q \in DOMAIN result THEN result[q].entry ELSE pending[q]
         /\ \E new : main' = main \o new /\ Sends(new, result)
<1> DEFINE released == {q \in DOMAIN result : result[q].out # <<>>}
           order == SetToSeq(released)
           new == [k \in DOMAIN order |-> Released(order[k], result[order[k]].out[1])]
<1>1. /\ pending' = [q \in Pipes |-> IF q \in DOMAIN result THEN result[q].entry ELSE pending[q]]
      /\ main' = main \o new
  BY DEF Apply
<1>2. PendingInv'
  <2>1. \A q \in DOMAIN result : result[q].entry \in Entry /\ Sound(result[q].entry)
    BY DEF Tidy
  <2>2. \A q \in Pipes : pending'[q] \in Entry /\ Sound(pending'[q])
    BY <1>1, <2>1 DEF PendingInv
  <2> QED
    BY <1>1, <2>2 DEF PendingInv
<1>3. IsFiniteSet(released)
  BY FS_Subset DEF PipeAssumption
<1>4. /\ order \in Seq(released)
      /\ \A x \in released : \E n \in DOMAIN order : order[n] = x
      /\ \A m, n \in DOMAIN order : order[m] = order[n] => m = n
  BY <1>3, ListFacts
<1>5. Len(order) \in Nat /\ DOMAIN order = 1 .. Len(order)
  BY <1>4
<1>6. \A n \in DOMAIN order : order[n] \in released
  BY <1>4
<1> HIDE DEF order
<1>7. ASSUME NEW q \in released
      PROVE  /\ result[q].out[1] \in ExitCode /\ Released(q, result[q].out[1]) \in Releases
             /\ Released(q, result[q].out[1]).pipe = q
  <2>1. result[q].out \in Outs \ {<<>>} /\ q \in Pipes
    BY DEF Tidy
  <2>2. result[q].out[1] \in ExitCode
    BY <2>1 DEF Outs
  <2> QED
    BY <2>1, <2>2 DEF Released, Releases
<1>8. \A n \in DOMAIN order : new[n] \in Releases /\ new[n].pipe = order[n]
  BY <1>6, <1>7
<1>9. new \in Seq(Releases) /\ DOMAIN new = DOMAIN order
  <2> DEFINE D == 1 .. Len(order)
  <2>1. new \in [1 .. Len(order) -> Releases]
    BY <1>5, <1>8
  <2> HIDE DEF new
  <2> QED
    BY <1>5, <2>1
<1>10. Sends(new, result)
  BY <1>4, <1>6, <1>8, <1>9 DEF Sends
<1> QED
  BY <1>1, <1>2, <1>10

\* What the plugin thread does with the pipes: it sends releases of pipes that it had not
\* finished, and finishes those whose release ends them.
PipesStep ==
  /\ PendingInv'
  /\ \A q \in Pipes : pending[q].finished => pending'[q].finished
  /\ \A q \in Pipes \ seen : pending'[q] = NewEntry
  /\ \E new \in Seq(Releases) :
       /\ main' = main \o new
       /\ \A n \in DOMAIN new :
            /\ new[n].pipe \in seen /\ ~pending[new[n].pipe].finished
            /\ new[n].code # None => pending'[new[n].pipe].finished

\* That is so of every operation of PendingPipes.
LEMMA AppliedStep ==
  ASSUME PipeAssumption, TypeInv, SeenInv, NEW result, DOMAIN result \subseteq Pipes,
         \A q \in DOMAIN result : Tidy(result[q], pending[q]),
         \A q \in DOMAIN result \ seen : result[q] = Quiet(NewEntry), Apply(result)
  PROVE  PipesStep
<1>1. /\ PendingInv'
      /\ \A q \in Pipes : pending'[q] = IF q \in DOMAIN result THEN result[q].entry ELSE pending[q]
      /\ \E new : main' = main \o new /\ Sends(new, result)
  BY AppliedFacts DEF TypeInv
<1>2. \A q \in Pipes : pending[q].finished => pending'[q].finished
  BY <1>1 DEF Tidy
<1>3. \A q \in Pipes \ seen : pending'[q] = NewEntry
  BY <1>1 DEF Quiet, SeenInv
<1>4. PICK new : main' = main \o new /\ Sends(new, result)
  BY <1>1
<1>5. ASSUME NEW n \in DOMAIN new
      PROVE  /\ new[n].pipe \in seen /\ ~pending[new[n].pipe].finished
             /\ new[n].code # None => pending'[new[n].pipe].finished
  <2> DEFINE q == new[n].pipe
  <2>1. /\ q \in DOMAIN result /\ result[q].out # <<>>
        /\ new[n] = Released(q, result[q].out[1])
    BY <1>4, <1>5 DEF Sends
  <2>2. q \in seen
    BY <2>1 DEF Quiet
  <2>3. ~pending[q].finished
    BY <2>1 DEF Tidy
  <2>4. new[n].code = result[q].out[1]
    BY <2>1 DEF Released
  <2> QED
    BY <1>1, <2>1, <2>2, <2>3, <2>4 DEF Tidy
<1> QED
  BY <1>1, <1>2, <1>3, <1>4, <1>5 DEF PipesStep, Sends

\* So it is when an operation sends nothing.
LEMMA SilentStep ==
  ASSUME TypeInv, UNCHANGED main, PendingInv',
         \A q \in Pipes : pending'[q] = pending[q] \/ (q \in seen /\ ~pending[q].finished),
         SeenInv
  PROVE  PipesStep
<1>1. main' = main \o <<>> /\ <<>> \in Seq(Releases)
  BY DEF TypeInv, QueuesInv
<1>2. \E new \in Seq(Releases) : main' = main \o new /\ \A n \in DOMAIN new : FALSE
  <2>1. \A n \in DOMAIN <<>> : FALSE
    OBVIOUS
  <2> QED
    BY <1>1, <2>1, Zenon
<1>3. /\ \A q \in Pipes : pending[q].finished => pending'[q].finished
      /\ \A q \in Pipes \ seen : pending'[q] = NewEntry
  BY DEF SeenInv
<1> QED
  BY <1>2, <1>3 DEF PipesStep

\* What the first message for the plugin thread is.
LEMMA HeadFacts ==
  ASSUME TypeInv, SeenInv, inbox # <<>>
  PROVE  /\ Head(inbox) \in ToPlugins /\ Head(inbox) = inbox[1] /\ 1 \in DOMAIN inbox
         /\ \A q \in Pipes : Mentions(Head(inbox), q) => q \in seen
<1>1. Head(inbox) \in ToPlugins /\ Head(inbox) = inbox[1] /\ 1 \in DOMAIN inbox
  BY TailFacts DEF TypeInv, QueuesInv
<1> QED
  BY <1>1 DEF SeenInv

\* Changes of an instance.
LEMMA ChangesStep ==
  ASSUME PipeAssumption, TypeInv, SeenInv, NEW m \in ChangeMessages,
         DOMAIN m.of \subseteq seen, OnChanges(m)
  PROVE  PipesStep
<1> DEFINE result == [q \in DOMAIN m.of |-> Updated(pending[q], m.of[q], m.from)]
<1>1. Apply(result)
  BY DEF OnChanges
<1>2. /\ m.from \in Instances /\ DOMAIN m.of \subseteq Pipes
      /\ \A q \in DOMAIN m.of : m.of[q] \in Change
  BY DEF ChangeMessages
<1>3. \A q \in DOMAIN m.of : Tidy(Updated(pending[q], m.of[q], m.from), pending[q])
  BY <1>2, UpdatedFacts DEF TypeInv, PendingInv
<1>4. \A q \in DOMAIN result : Tidy(result[q], pending[q])
  BY <1>3
<1>5. DOMAIN result \subseteq Pipes /\ DOMAIN result \ seen = {}
  BY <1>2
<1> HIDE DEF result
<1> QED
  BY <1>1, <1>4, <1>5, AppliedStep

\* A plugin is unloaded.
LEMMA UnloadStep ==
  ASSUME PipeAssumption, TypeInv, SeenInv, NEW m, OnUnload(m)
  PROVE  PipesStep
<1> DEFINE result == [q \in Pipes |-> Unloaded(pending[q], m.plugin)]
<1>1. Apply(result)
  BY DEF OnUnload
<1>2. ASSUME NEW q \in Pipes
      PROVE  /\ Tidy(Unloaded(pending[q], m.plugin), pending[q])
             /\ pending[q] = NewEntry => Unloaded(pending[q], m.plugin) = Quiet(NewEntry)
  <2>1. pending[q] \in Entry /\ Sound(pending[q])
    BY DEF TypeInv, PendingInv
  <2> QED
    BY <2>1, UnloadedFacts
<1>3. /\ \A q \in DOMAIN result : Tidy(result[q], pending[q])
      /\ \A q \in DOMAIN result \ seen : result[q] = Quiet(NewEntry)
  BY <1>2 DEF SeenInv
<1>4. DOMAIN result \subseteq Pipes
  OBVIOUS
<1> HIDE DEF result
<1> QED
  BY <1>1, <1>3, <1>4, AppliedStep

\* A client leaves.
LEMMA RemoveClientStep ==
  ASSUME PipeAssumption, TypeInv, SeenInv, NEW m, OnRemoveClient(m)
  PROVE  PipesStep
<1> DEFINE result == [q \in Pipes |-> ClientUnloaded(pending[q], m.client)]
<1>1. Apply(result)
  BY DEF OnRemoveClient
<1>2. ASSUME NEW q \in Pipes
      PROVE  /\ Tidy(ClientUnloaded(pending[q], m.client), pending[q])
             /\ pending[q] = NewEntry => ClientUnloaded(pending[q], m.client) = Quiet(NewEntry)
  <2>1. pending[q] \in Entry /\ Sound(pending[q])
    BY DEF TypeInv, PendingInv
  <2> QED
    BY <2>1, UnloadedFacts
<1>3. /\ \A q \in DOMAIN result : Tidy(result[q], pending[q])
      /\ \A q \in DOMAIN result \ seen : result[q] = Quiet(NewEntry)
  BY <1>2 DEF SeenInv
<1>4. DOMAIN result \subseteq Pipes
  OBVIOUS
<1> HIDE DEF result
<1> QED
  BY <1>1, <1>3, <1>4, AppliedStep

\* An exit code is set.
LEMMA SetCodeStep ==
  ASSUME PipeAssumption, TypeInv, SeenInv, NEW m \in CodeMessages, m.pipe \in seen, OnSetCode(m)
  PROVE  PipesStep
<1> DEFINE e == [pending[m.pipe] EXCEPT !.code = m.code, !.owner = m.by]
<1>1. UNCHANGED main /\ m.pipe \in Pipes /\ m.code \in Codes /\ m.by \in Plugins
  BY DEF OnSetCode, CodeMessages
<1>2. CASE pending[m.pipe].finished
  <2>1. pending' = pending
    BY <1>2 DEF OnSetCode
  <2>2. PendingInv'
    BY <2>1 DEF TypeInv, PendingInv
  <2> QED
    BY <1>1, <2>1, <2>2, SilentStep
<1>3. CASE ~pending[m.pipe].finished
  <2>1. pending' = [pending EXCEPT ![m.pipe] = e]
    BY <1>3 DEF OnSetCode
  <2>2. pending[m.pipe] \in Entry /\ Sound(pending[m.pipe])
    BY <1>1 DEF TypeInv, PendingInv
  <2>3. /\ e \in Entry /\ e.info = pending[m.pipe].info /\ ~e.finished
        /\ e.code # None /\ e.owner # None
    BY <1>1, <1>3, <2>2 DEF Entry, ExitCode, PipeAssumption
  <2>4. Sound(e)
    <3> HIDE DEF e
    <3> QED
      BY <2>2, <2>3 DEF Sound
  <2> HIDE DEF e
  <2>5. PendingInv'
    BY <1>1, <2>1, <2>3, <2>4 DEF TypeInv, PendingInv
  <2>6. \A q \in Pipes : pending'[q] = pending[q] \/ (q \in seen /\ ~pending[q].finished)
    BY <1>3, <2>1 DEF TypeInv, PendingInv
  <2> QED
    BY <1>1, <2>5, <2>6, SilentStep
<1> QED
  BY <1>2, <1>3

\* A message comes.
LEMMA MessageStep ==
  ASSUME PipeAssumption, TypeInv, SeenInv, NEW m \in PipeMessages, m.pipe \in seen, OnMessage(m)
  PROVE  PipesStep
<1> DEFINE q == m.pipe
           e == pending[q]
<1>1. q \in Pipes /\ q \in seen /\ e \in Entry /\ Sound(e)
  BY DEF PipeMessages, TypeInv, PendingInv
<1>2. CASE e.finished
  <2>1. UNCHANGED <<pending, main>>
    BY <1>2 DEF OnMessage
  <2>2. PendingInv'
    BY <2>1 DEF TypeInv, PendingInv
  <2> QED
    BY <2>1, <2>2, SilentStep
<1>3. CASE ~e.finished /\ running # {}
  <2>1. pending' = [pending EXCEPT ![q] = Marked(e)] /\ UNCHANGED main
    BY <1>3 DEF OnMessage
  <2>2. Marked(e) \in Entry /\ Sound(Marked(e))
    BY <1>1, <1>3, MarkedFacts DEF TypeInv
  <2>3. PendingInv'
    BY <1>1, <2>1, <2>2 DEF TypeInv, PendingInv
  <2>4. \A r \in Pipes : pending'[r] = pending[r] \/ (r \in seen /\ ~pending[r].finished)
    BY <1>1, <1>3, <2>1 DEF TypeInv, PendingInv
  <2> QED
    BY <2>1, <2>3, <2>4, SilentStep
<1>4. CASE ~e.finished /\ running = {}
  <2> DEFINE result == [r \in (IF ReleasesAtOnce(q) THEN {q} ELSE {}) |->
                         [entry |-> pending[r], out |-> <<None>>]]
  <2>1. Apply(result)
    BY <1>4 DEF OnMessage
  <2>2. DOMAIN result \subseteq {q}
    OBVIOUS
  <2>3. Tidy([entry |-> e, out |-> <<None>>], e)
    BY <1>1, <1>4 DEF Tidy, Outs, ExitCode
  <2>4. \A r \in DOMAIN result : Tidy(result[r], pending[r])
    BY <2>3
  <2> HIDE DEF result
  <2> QED
    BY <1>1, <2>1, <2>2, <2>4, AppliedStep
<1> QED
  BY <1>2, <1>3, <1>4

\* So it is whatever the plugin thread handles.
LEMMA PluginStep ==
  ASSUME PipeAssumption, TypeInv, SeenInv, PluginThread
  PROVE  PipesStep
<1> DEFINE m == Head(inbox)
<1>1. m \in ToPlugins /\ \A q \in Pipes : Mentions(m, q) => q \in seen
  BY HeadFacts DEF PluginThread
<1>2. CASE m.kind = "message"
  <2>1. OnMessage(m) /\ m \in PipeMessages /\ m.pipe \in seen
    BY <1>1, <1>2, KindFacts DEF PluginThread, Mentions
  <2> QED
    BY <2>1, MessageStep
<1>3. CASE m.kind = "code"
  <2>1. OnSetCode(m) /\ m \in CodeMessages /\ m.pipe \in seen
    BY <1>1, <1>3, KindFacts DEF PluginThread, Mentions
  <2> QED
    BY <2>1, SetCodeStep
<1>4. CASE m.kind = "changes"
  <2>1. OnChanges(m)
    BY <1>4 DEF PluginThread
  <2>2. m \in ChangeMessages /\ DOMAIN m.of \subseteq seen
    BY <1>1, <1>4, KindFacts DEF Mentions
  <2> QED
    BY <2>1, <2>2, ChangesStep
<1>5. CASE m.kind = "unload"
  BY <1>5, UnloadStep DEF PluginThread
<1>6. CASE m.kind = "remove"
  BY <1>6, RemoveClientStep DEF PluginThread
<1> QED
  BY <1>1, <1>2, <1>3, <1>4, <1>5, <1>6, KindFacts

\* The calls that a message for the plugin thread brings to plugin p, one for each running
\* instance: the calls of a pipe that is not finished, or the last ones of the plugin.
NewCalls(m, p) ==
  {s \in Seq(Calls) :
     /\ \A n \in DOMAIN s :
          /\ s[n].on \in running /\ s[n].on[1] = p
          /\ \/ s[n].pipe = None /\ m.kind = "unload"
             \/ m.kind = "message" /\ s[n].pipe = m.pipe /\ ~pending[m.pipe].finished
     /\ \A k, n \in DOMAIN s : s[k].on = s[n].on => k = n}

\* They are listed in the order of the instances.
LEMMA CallListFacts ==
  ASSUME PlainInv, NEW m, NEW p \in Plugins, NEW order \in Seq(RunningOf(p)),
         \A k, n \in DOMAIN order : order[k] = order[n] => k = n,
         NEW q \in Pipes \cup {None}, NEW x \in Nat,
         \/ q = None /\ m.kind = "unload"
         \/ m.kind = "message" /\ q = m.pipe /\ ~pending[q].finished
  PROVE  [k \in DOMAIN order |-> [pipe |-> q, n |-> x, on |-> order[k]]] \in NewCalls(m, p)
<1> DEFINE s == [k \in DOMAIN order |-> [pipe |-> q, n |-> x, on |-> order[k]]]
<1>1. DOMAIN order = 1 .. Len(order) /\ Len(order) \in Nat
      /\ \A n \in DOMAIN order : order[n] \in RunningOf(p)
  OBVIOUS
<1>2. ASSUME NEW n \in DOMAIN order
      PROVE  /\ s[n] \in Calls /\ s[n].pipe = q /\ s[n].on = order[n]
             /\ s[n].on \in running /\ s[n].on[1] = p
  <2>1. order[n] \in running /\ order[n][1] = p
    BY <1>1 DEF RunningOf
  <2>2. s[n] = [pipe |-> q, n |-> x, on |-> order[n]]
    OBVIOUS
  <2>3. order[n] \in Instances
    BY <2>1 DEF PlainInv
  <2> HIDE DEF s
  <2> QED
    BY <2>1, <2>2, <2>3 DEF Calls
<1>3. s \in Seq(Calls) /\ DOMAIN s = DOMAIN order
  <2>1. s \in [1 .. Len(order) -> Calls]
    BY <1>1, <1>2
  <2> HIDE DEF s
  <2> QED
    BY <1>1, <2>1
<1> HIDE DEF s
<1> QED
  BY <1>2, <1>3 DEF NewCalls, s

\* The running instances of a plugin are finitely many.
LEMMA RunningFacts ==
  ASSUME PipeAssumption, PlainInv, NEW p
  PROVE  IsFiniteSet(RunningOf(p))
BY FS_Subset DEF PipeAssumption, PlainInv, RunningOf

\* What the plugin thread does with the calls.
LEMMA JobsStep ==
  ASSUME PipeAssumption, TypeInv, SeenInv, PluginThread
  PROVE  /\ jobs' \in [Plugins -> Seq(Calls)]
         /\ \A p \in Plugins : \E new \in NewCalls(Head(inbox), p) : jobs'[p] = jobs[p] \o new
<1> DEFINE m == Head(inbox)
<1>1. m \in ToPlugins
  BY HeadFacts DEF PluginThread
<1>2. \A p \in Plugins : <<>> \in NewCalls(m, p) /\ jobs[p] = jobs[p] \o <<>>
  BY DEF NewCalls, TypeInv, QueuesInv
<1>3. jobs \in [Plugins -> Seq(Calls)] /\ PlainInv
  BY DEF TypeInv, QueuesInv
<1> HIDE DEF m
<1>4. CASE UNCHANGED jobs
  BY <1>2, <1>3, <1>4 DEF m
<1>5. CASE m.kind = "message" /\ ~pending[m.pipe].finished
  <2>1. m \in PipeMessages
    BY <1>1, <1>5, KindFacts
  <2>2. m.pipe \in Pipes /\ m.n \in Nat
    BY <2>1 DEF PipeMessages
  <2>3. OnMessage(m)
    BY <1>5 DEF PluginThread, m
  <2>4. PICK order \in Orders :
          jobs' = [p \in Plugins |-> jobs[p] \o
            [k \in DOMAIN order[p] |-> [pipe |-> m.pipe, n |-> m.n, on |-> order[p][k]]]]
    BY <1>5, <2>3 DEF OnMessage
  <2> DEFINE new(p) == [k \in DOMAIN order[p] |-> [pipe |-> m.pipe, n |-> m.n, on |-> order[p][k]]]
  <2>5. ASSUME NEW p \in Plugins
        PROVE  new(p) \in NewCalls(m, p)
    <3>1. order[p] \in SetToSeqs(RunningOf(p))
      BY DEF Orders
    <3> DEFINE o == order[p]
    <3>2. o \in Seq(RunningOf(p)) /\ \A k, n \in DOMAIN o : o[k] = o[n] => k = n
      BY <3>1, RunningFacts, OrderFacts, <1>3
    <3> HIDE DEF o
    <3>3. [k \in DOMAIN o |-> [pipe |-> m.pipe, n |-> m.n, on |-> o[k]]] \in NewCalls(m, p)
      BY <1>3, <1>5, <2>2, <3>2, CallListFacts
    <3> QED
      BY <3>3 DEF o
  <2>6. \A p \in Plugins : jobs'[p] = jobs[p] \o new(p) /\ new(p) \in NewCalls(m, p)
    BY <2>4, <2>5
  <2>7. \A p \in Plugins : jobs[p] \o new(p) \in Seq(Calls)
    <3> SUFFICES ASSUME NEW p \in Plugins
                 PROVE  jobs[p] \o new(p) \in Seq(Calls)
      OBVIOUS
    <3> DEFINE s == new(p)
    <3>1. s \in Seq(Calls) /\ jobs[p] \in Seq(Calls)
      BY <1>3, <2>5 DEF NewCalls
    <3> HIDE DEF new
    <3> QED
      BY <3>1, ConcatFacts
  <2>8. jobs' = [p \in Plugins |-> jobs[p] \o new(p)]
    BY <2>4
  <2> HIDE DEF new
  <2> QED
    BY <2>6, <2>7, <2>8 DEF m
<1>6. CASE m.kind = "unload"
  <2> DEFINE closing == SetToSeq(RunningOf(m.plugin))
             new == [k \in DOMAIN closing |-> [pipe |-> None, n |-> 0, on |-> closing[k]]]
  <2>1. OnUnload(m)
    BY <1>6 DEF PluginThread, m
  <2>2. jobs' = [jobs EXCEPT ![m.plugin] = @ \o new]
    BY <2>1 DEF OnUnload
  <2>3. m.plugin \in Plugins
    BY <1>1, <1>6, KindFacts
  <2>4. closing \in Seq(RunningOf(m.plugin)) /\ \A k, n \in DOMAIN closing : closing[k] = closing[n] => k = n
    BY <1>3, RunningFacts, ListFacts
  <2>5. new \in NewCalls(m, m.plugin)
    <3>1. ASSUME NEW p \in Plugins, NEW order \in Seq(RunningOf(p)),
                 \A k, n \in DOMAIN order : order[k] = order[n] => k = n
          PROVE  [k \in DOMAIN order |-> [pipe |-> None, n |-> 0, on |-> order[k]]]
                   \in NewCalls(m, p)
      BY <1>3, <1>6, <3>1, CallListFacts
    <3> HIDE DEF closing
    <3> QED
      BY <2>3, <2>4, <3>1
  <2> HIDE DEF new
  <2>6. jobs[m.plugin] \o new \in Seq(Calls)
    BY <1>3, <2>3, <2>5, ConcatFacts DEF NewCalls
  <2> QED
    BY <1>2, <1>3, <2>2, <2>3, <2>5, <2>6 DEF m
<1>7. m.kind = "message" /\ pending[m.pipe].finished => UNCHANGED jobs
  BY DEF PluginThread, OnMessage, m
<1>8. m.kind \in {"code", "changes", "remove"} => UNCHANGED jobs
  BY DEF PluginThread, OnSetCode, OnChanges, OnRemoveClient, m
<1> QED
  BY <1>1, <1>4, <1>5, <1>6, <1>7, <1>8, KindFacts

-----------------------------------------------------------------------------
(* A plugin's calls *)

\* What a call of instance i tells the plugin thread: the changes m of the pipe it handles
\* and of those the plugin asked for, and the exit code it set. A call may ask of q.
MayAsk(q, ask) == ask.block \/ ask.unblock \/ ask.code # None => q \in seen

Reports(i, q, current, ask, m) ==
  /\ m \in ChangeMessages /\ m.from = i
  /\ DOMAIN m.of \subseteq current \cup to_block[i] \cup to_unblock[i] \cup {q}
  /\ DOMAIN m.of \subseteq seen
  /\ i \notin setting.blockers => Harmless(m)
  /\ \E coded \in Seq(ToPlugins) :
       /\ \/ coded = inbox
          \/ \E c \in CodeMessages : c.pipe = q /\ ask.code # None /\ coded = Append(inbox, c)
       /\ \/ inbox' = Append(coded, m) /\ UNCHANGED screen
          \/ inbox' = coded /\ i[1] \in setting.panes /\ screen' = Append(screen, m)
          \/ inbox' = coded /\ UNCHANGED screen /\ current = {}

\* What is drained: each pipe once, a pipe that was not asked for as it is.
Drains(m, i, current, blocks, unblocks) ==
  /\ m \in ChangeMessages /\ m.kind = "changes" /\ m.from = i
  /\ DOMAIN m.of = current \cup blocks \cup unblocks
  /\ \A q \in unblocks : m.of[q] = "unblock"
  /\ \A q \in blocks \ unblocks : m.of[q] = "block"
  /\ \A q \in current \ (blocks \cup unblocks) : m.of[q] = "no change"

\* The message of a call that returned is of that kind.
LEMMA DrainedFacts ==
  ASSUME NEW i \in Instances, NEW current \in SUBSET Pipes, NEW blocks \in SUBSET Pipes,
         NEW unblocks \in SUBSET Pipes, NEW m, m = Changes(i, Drained(i, current, blocks, unblocks))
  PROVE  Drains(m, i, current, blocks, unblocks)
<1> DEFINE of == Drained(i, current, blocks, unblocks)
           S == current \cup blocks \cup unblocks
<1>1. of = [q \in S |-> CASE q \in unblocks -> "unblock"
                          [] q \in blocks \ unblocks -> "block"
                          [] OTHER -> "no change"]
  BY DEF Drained
<1>2. /\ \A q \in unblocks : of[q] = "unblock"
      /\ \A q \in blocks \ unblocks : of[q] = "block"
      /\ \A q \in current \ (blocks \cup unblocks) : of[q] = "no change"
  BY <1>1
<1>3. of \in [S -> Change] /\ S \in SUBSET Pipes
  BY <1>1, <1>2 DEF Change
<1>8. m = Changes(i, of)
  OBVIOUS
<1> HIDE DEF of, S
<1>4. of \in UNION {[T -> Change] : T \in SUBSET Pipes}
  BY <1>3
<1>5. Changes(i, of) = [kind |-> "changes", from |-> i, of |-> of]
  BY DEF Changes
<1>6. DOMAIN of = S
  BY <1>3
<1>7. m \in ChangeMessages /\ m.kind = "changes" /\ m.from = i /\ m.of = of
  BY <1>4, <1>5, <1>8 DEF ChangeMessages
<1> QED
  BY <1>2, <1>6, <1>7 DEF Drains, S

\* Changes of pipes whose handler failed.
LEMMA CrashedFacts ==
  ASSUME NEW i \in Instances, NEW current \in SUBSET Pipes
  PROVE  LET m == Changes(i, [r \in current |-> "crashed"]) IN
         /\ m \in ChangeMessages /\ m.kind = "changes" /\ m.from = i /\ Harmless(m)
         /\ DOMAIN m.of = current /\ \A q \in DOMAIN m.of : m.of[q] = "crashed"
<1> DEFINE of == [r \in current |-> "crashed"]
<1>1. of \in [current -> Change] /\ DOMAIN of = current /\ \A q \in current : of[q] = "crashed"
  BY DEF Change
<1> HIDE DEF of
<1>2. of \in UNION {[T -> Change] : T \in SUBSET Pipes}
  BY <1>1
<1>3. Changes(i, of) = [kind |-> "changes", from |-> i, of |-> of]
  BY DEF Changes
<1>4. LET m == Changes(i, of) IN
      m \in ChangeMessages /\ m.kind = "changes" /\ m.from = i /\ m.of = of
  BY <1>2, <1>3 DEF ChangeMessages
<1>5. Harmless(Changes(i, of))
  BY <1>1, <1>4 DEF Harmless
<1> QED
  BY <1>1, <1>4, <1>5 DEF of

\* A call reports like that, and keeps what is asked in order.
LEMMA CallFacts ==
  ASSUME PipeAssumption, TypeInv, SeenInv, CallInv, NEW i \in Instances, NEW q \in Pipes,
         NEW current \in SUBSET Pipes, current \subseteq seen, NEW ask \in Asks, MayAsk(q, ask),
         Call(i, q, current, ask)
  PROVE  /\ \E m : Reports(i, q, current, ask, m)
         /\ to_block' \in [Instances -> SUBSET seen] /\ to_unblock' \in [Instances -> SUBSET seen]
         /\ holding' \in [Instances -> SUBSET seen]
         /\ \A j \in Instances :
              /\ j \notin setting.blockers \cap setting.crashers =>
                   to_block'[j] = {} /\ to_unblock'[j] = {}
              /\ j \notin setting.blockers => holding'[j] = {}
<1> DEFINE blocks == to_block[i] \cup (IF ask.block THEN {q} ELSE {})
           unblocks == to_unblock[i] \cup (IF ask.unblock THEN {q} ELSE {})
           code == [kind |-> "code", pipe |-> q, code |-> ask.code, by |-> i[1]]
           coded == IF ask.code = None THEN inbox ELSE Append(inbox, code)
           m1 == Changes(i, Drained(i, current, blocks, unblocks))
           m2 == Changes(i, [r \in current |-> "crashed"])
           held == CASE ask.unblock -> holding[i] \ {q}
                     [] ask.block /\ ~ask.unblock -> holding[i] \cup {q}
                     [] OTHER -> holding[i]
<1>1. /\ ask.block \/ ask.unblock => i \in setting.blockers
      /\ holding' = [holding EXCEPT ![i] = held]
      /\ \/ /\ to_block' = [to_block EXCEPT ![i] = {}]
            /\ to_unblock' = [to_unblock EXCEPT ![i] = {}]
            /\ \/ inbox' = Append(coded, m1) /\ UNCHANGED screen
               \/ i[1] \in setting.panes /\ inbox' = coded /\ screen' = Append(screen, m1)
         \/ /\ i \in setting.crashers
            /\ to_block' = [to_block EXCEPT ![i] = blocks]
            /\ to_unblock' = [to_unblock EXCEPT ![i] = unblocks]
            /\ inbox' = IF current = {} THEN coded ELSE Append(coded, m2)
            /\ UNCHANGED screen
  BY DEF Call
<1>2. /\ to_block \in [Instances -> SUBSET seen] /\ to_unblock \in [Instances -> SUBSET seen]
      /\ holding \in [Instances -> SUBSET seen] /\ seen \subseteq Pipes
      /\ ask.block \in BOOLEAN /\ ask.unblock \in BOOLEAN /\ ask.code \in ExitCode
  BY DEF TypeInv, PlainInv, SeenInv, Asks, ExitCode
<1>3. /\ blocks \subseteq seen /\ unblocks \subseteq seen /\ held \subseteq seen
      /\ blocks \subseteq to_block[i] \cup {q} /\ unblocks \subseteq to_unblock[i] \cup {q}
  BY <1>2 DEF MayAsk
<1>4. i \notin setting.blockers => blocks = {} /\ unblocks = {} /\ held = {}
  BY <1>1 DEF CallInv
<1>5. /\ coded \in Seq(ToPlugins)
      /\ \/ coded = inbox
         \/ \E c \in CodeMessages : c.pipe = q /\ ask.code # None /\ coded = Append(inbox, c)
  <2>0. inbox \in Seq(ToPlugins)
    BY DEF TypeInv, QueuesInv
  <2>1. CASE ask.code = None
    BY <2>0, <2>1
  <2>2. CASE ask.code # None
    <3>1. code \in CodeMessages /\ code.pipe = q
      BY <1>2, <2>2 DEF CodeMessages, ExitCode, Instances
    <3>2. code \in ToPlugins
      BY <3>1 DEF ToPlugins
    <3> HIDE DEF code
    <3>3. Append(inbox, code) \in Seq(ToPlugins)
      BY <2>0, <3>2, AppendFacts
    <3> QED
      BY <2>2, <3>1, <3>3
  <2> QED
    BY <2>1, <2>2
<1> HIDE DEF blocks, unblocks, coded, held
<1>6. /\ m1 \in ChangeMessages /\ m1.from = i
      /\ DOMAIN m1.of \subseteq current \cup to_block[i] \cup to_unblock[i] \cup {q}
      /\ DOMAIN m1.of \subseteq seen /\ (i \notin setting.blockers => Harmless(m1))
  <2>1. blocks \in SUBSET Pipes /\ unblocks \in SUBSET Pipes
    BY <1>2, <1>3
  <2>2. /\ m1 \in ChangeMessages /\ m1.kind = "changes" /\ m1.from = i
        /\ DOMAIN m1.of = current \cup blocks \cup unblocks
        /\ \A r \in unblocks : m1.of[r] = "unblock"
        /\ \A r \in blocks \ unblocks : m1.of[r] = "block"
        /\ \A r \in current \ (blocks \cup unblocks) : m1.of[r] = "no change"
    <3>1. m1 = Changes(i, Drained(i, current, blocks, unblocks))
      OBVIOUS
    <3> HIDE DEF m1
    <3>2. Drains(m1, i, current, blocks, unblocks)
      BY <2>1, <3>1, DrainedFacts
    <3> QED
      BY <3>2 DEF Drains
  <2> HIDE DEF m1
  <2>3. i \notin setting.blockers => Harmless(m1)
    BY <1>4, <2>2 DEF Harmless
  <2> QED
    BY <1>2, <1>3, <2>2, <2>3
<1>7. /\ m2 \in ChangeMessages /\ m2.from = i /\ DOMAIN m2.of = current /\ Harmless(m2)
  BY CrashedFacts
<1> HIDE DEF m1, m2
<1>8. \E m : Reports(i, q, current, ask, m)
  <2>1. CASE inbox' = Append(coded, m1) /\ UNCHANGED screen
    BY <1>5, <1>6, <2>1 DEF Reports
  <2>2. CASE i[1] \in setting.panes /\ inbox' = coded /\ screen' = Append(screen, m1)
    BY <1>5, <1>6, <2>2 DEF Reports
  <2>3. CASE inbox' = coded /\ current = {} /\ UNCHANGED screen
    BY <1>5, <1>6, <2>3 DEF Reports
  <2>4. CASE inbox' = Append(coded, m2) /\ UNCHANGED screen
    BY <1>5, <1>7, <2>4 DEF Reports
  <2> QED
    BY <1>1, <2>1, <2>2, <2>3, <2>4
<1>9. /\ to_block' \in [Instances -> SUBSET seen] /\ to_unblock' \in [Instances -> SUBSET seen]
      /\ holding' \in [Instances -> SUBSET seen]
  BY <1>1, <1>2, <1>3
<1>10. ASSUME NEW j \in Instances
       PROVE  /\ j \notin setting.blockers \cap setting.crashers =>
                   to_block'[j] = {} /\ to_unblock'[j] = {}
              /\ j \notin setting.blockers => holding'[j] = {}
  BY <1>1, <1>2, <1>4 DEF CallInv
<1> QED
  BY <1>8, <1>9, <1>10

\* What there is then in the queues.
LEMMA ReportFacts ==
  ASSUME TypeInv, NEW i \in Instances, NEW q \in Pipes, NEW current, NEW ask, NEW m,
         Reports(i, q, current, ask, m)
  PROVE  /\ inbox' \in Seq(ToPlugins) /\ screen' \in Seq(ChangeMessages)
         /\ m \in ChangeMessages /\ m.from = i /\ DOMAIN m.of \subseteq seen
         /\ i \notin setting.blockers => Harmless(m)
         /\ \A n \in DOMAIN inbox' :
              \/ n \in DOMAIN inbox /\ inbox'[n] = inbox[n]
              \/ inbox'[n] = m
              \/ inbox'[n] \in CodeMessages /\ inbox'[n].pipe = q /\ ask.code # None
         /\ \A n \in DOMAIN screen' :
              \/ n \in DOMAIN screen /\ screen'[n] = screen[n]
              \/ screen'[n] = m /\ i[1] \in setting.panes
<1>1. inbox \in Seq(ToPlugins) /\ screen \in Seq(ChangeMessages)
  BY DEF TypeInv, QueuesInv
<1>2. m \in ChangeMessages /\ m \in ToPlugins
  BY DEF Reports, ToPlugins
<1>3. PICK coded \in Seq(ToPlugins) :
        /\ \/ coded = inbox
           \/ \E c \in CodeMessages : c.pipe = q /\ ask.code # None /\ coded = Append(inbox, c)
        /\ \/ inbox' = Append(coded, m) /\ UNCHANGED screen
           \/ inbox' = coded /\ i[1] \in setting.panes /\ screen' = Append(screen, m)
           \/ inbox' = coded /\ UNCHANGED screen /\ current = {}
  BY DEF Reports
<1>4. \A n \in DOMAIN coded :
        \/ n \in DOMAIN inbox /\ coded[n] = inbox[n]
        \/ coded[n] \in CodeMessages /\ coded[n].pipe = q /\ ask.code # None
  <2>1. CASE coded = inbox
    BY <2>1
  <2>2. CASE coded # inbox
    <3>1. PICK c \in CodeMessages : c.pipe = q /\ ask.code # None /\ coded = Append(inbox, c)
      BY <1>3, <2>2
    <3>2. c \in ToPlugins
      BY DEF ToPlugins
    <3> QED
      BY <1>1, <3>1, <3>2, AppendFacts
  <2> QED
    BY <2>1, <2>2
<1>5. /\ Append(coded, m) \in Seq(ToPlugins)
      /\ \A n \in DOMAIN Append(coded, m) :
           \/ n \in DOMAIN coded /\ Append(coded, m)[n] = coded[n]
           \/ Append(coded, m)[n] = m
  BY <1>2, AppendFacts
<1>6. /\ Append(screen, m) \in Seq(ChangeMessages)
      /\ \A n \in DOMAIN Append(screen, m) :
           \/ n \in DOMAIN screen /\ Append(screen, m)[n] = screen[n]
           \/ Append(screen, m)[n] = m
  BY <1>1, <1>2, AppendFacts
<1>7. /\ inbox' = coded \/ inbox' = Append(coded, m)
      /\ screen' = screen \/ (screen' = Append(screen, m) /\ i[1] \in setting.panes)
  BY <1>3
<1>8. inbox' \in Seq(ToPlugins) /\ screen' \in Seq(ChangeMessages)
  BY <1>1, <1>5, <1>6, <1>7
<1>9. \A n \in DOMAIN inbox' :
        \/ n \in DOMAIN inbox /\ inbox'[n] = inbox[n]
        \/ inbox'[n] = m
        \/ inbox'[n] \in CodeMessages /\ inbox'[n].pipe = q /\ ask.code # None
  BY <1>4, <1>5, <1>7
<1>10. \A n \in DOMAIN screen' :
         \/ n \in DOMAIN screen /\ screen'[n] = screen[n]
         \/ screen'[n] = m /\ i[1] \in setting.panes
  BY <1>6, <1>7
<1> QED
  BY <1>8, <1>9, <1>10 DEF Reports

-----------------------------------------------------------------------------
(* Types *)

\* What a turn of a client's loop does: it sends its next message, ends the connection, or
\* neither.
Turned(q, client) ==
  /\ cli' \in [Pipes -> Client] /\ socket' \in [Pipes -> Seq(Nat)]
  /\ \A r \in Pipes \ {q} : cli'[r] = cli[r] /\ socket'[r] = socket[r]
  /\ cli'[q].exit = client.exit /\ cli'[q].read = client.read /\ cli'[q].sent <= client.read
  /\ IF client.exit = None /\ MaySend(client)
     THEN \E n \in Sent : /\ cli'[q].waiting /\ ~client.waiting
                          /\ socket'[q] = Append(socket[q], n)
     ELSE /\ cli'[q] = client
          /\ socket'[q] = IF client.exit = None THEN socket[q] ELSE Append(socket[q], 0)

\* So it is if what the client is then is in order.
LEMMA TurnFacts ==
  ASSUME TypeInv, NEW q \in Pipes, NEW client \in Client, client.sent <= client.read,
         Turn(q, client)
  PROVE  Turned(q, client)
<1>1. cli \in [Pipes -> Client] /\ socket \in [Pipes -> Seq(Nat)]
  BY DEF TypeInv, ClientInv, QueuesInv
<1>2. CASE client.exit = None /\ MaySend(client)
  <2> DEFINE c == [client EXCEPT !.sent = @ + 1, !.waiting = TRUE]
             n == client.sent + 1
  <2>1. /\ client.sent \in Nat /\ client.read \in Nat
        /\ ~client.waiting /\ client.read - client.sent > 0
    BY <1>2 DEF Client, MaySend, Queue
  <2>2. cli' = [cli EXCEPT ![q] = c] /\ socket' = [socket EXCEPT ![q] = Append(socket[q], n)]
    BY <1>2 DEF Turn
  <2>3. /\ c \in Client /\ c.waiting /\ c.exit = client.exit /\ c.read = client.read
        /\ c.sent <= client.read
    <3>1. c = [client EXCEPT !.sent = n, !.waiting = TRUE]
      OBVIOUS
    <3>2. n \in Nat /\ n <= client.read
      BY <2>1
    <3> HIDE DEF c, n
    <3> QED
      BY <2>1, <3>1, <3>2 DEF Client
  <2>4. n \in Sent /\ n \in Nat
    BY <2>1 DEF Sent
  <2> HIDE DEF c, n
  <2>5. Append(socket[q], n) \in Seq(Nat)
    BY <1>1, <2>4, AppendFacts
  <2>6. /\ cli' \in [Pipes -> Client] /\ socket' \in [Pipes -> Seq(Nat)]
        /\ \A r \in Pipes \ {q} : cli'[r] = cli[r] /\ socket'[r] = socket[r]
        /\ cli'[q] = c /\ socket'[q] = Append(socket[q], n)
    BY <1>1, <2>2, <2>3, <2>5
  <2> QED
    BY <1>2, <2>1, <2>3, <2>4, <2>6 DEF Turned
<1>3. CASE ~(client.exit = None /\ MaySend(client))
  <2>1. /\ cli' = [cli EXCEPT ![q] = client]
        /\ socket' = [socket EXCEPT ![q] = IF client.exit = None THEN @ ELSE Append(@, 0)]
    BY <1>3 DEF Turn
  <2>2. Append(socket[q], 0) \in Seq(Nat)
    BY <1>1, AppendFacts
  <2> QED
    BY <1>1, <1>3, <2>1, <2>2 DEF Turned
<1> QED
  BY <1>2, <1>3

\* A client reads its input.
LEMMA ReadFacts ==
  ASSUME PipeAssumption, TypeInv, NEW q \in Pipes, NEW last \in BOOLEAN, ReadInput(q, last)
  PROVE  \E c \in Client : /\ Turned(q, c) /\ c.exit = None /\ cli[q].exit = None
                           /\ c.waiting = cli[q].waiting /\ c.read <= setting.messages
<1> DEFINE c == [cli[q] EXCEPT !.read = @ + 1, !.ended = last]
<1>1. /\ cli[q] \in Client /\ cli[q].sent <= cli[q].read /\ cli[q].read <= setting.messages
      /\ setting \in Settings
  BY DEF TypeInv, ClientInv, PlainInv
<1>2. cli[q].sent \in Nat /\ cli[q].read \in Nat /\ setting.messages \in Nat
  BY <1>1 DEF Client, PipeAssumption, Setting
<1>3. cli[q].exit = None /\ cli[q].read < setting.messages /\ Turn(q, c)
  BY DEF ReadInput
<1>4. /\ c \in Client /\ c.exit = None /\ c.waiting = cli[q].waiting /\ c.sent = cli[q].sent
      /\ c.read = cli[q].read + 1
  <2> DEFINE n == cli[q].read + 1
             client == cli[q]
  <2>1. c = [client EXCEPT !.read = n, !.ended = last]
    OBVIOUS
  <2>2. n \in Nat /\ client \in Client /\ client.exit = None
    BY <1>1, <1>2, <1>3
  <2> HIDE DEF c, n, client
  <2>3. /\ c \in Client /\ c.exit = client.exit /\ c.waiting = client.waiting
        /\ c.sent = client.sent /\ c.read = n
    BY <2>1, <2>2 DEF Client
  <2> QED
    BY <2>2, <2>3 DEF n, client
<1>5. c.sent <= c.read /\ c.read <= setting.messages
  BY <1>1, <1>2, <1>3, <1>4
<1> HIDE DEF c
<1> QED
  BY <1>3, <1>4, <1>5, TurnFacts

\* A client is interrupted.
LEMMA InterruptFacts ==
  ASSUME PipeAssumption, TypeInv, NEW q \in Pipes, Interrupt(q)
  PROVE  \E c \in Client : /\ Turned(q, c) /\ c.exit = "killed" /\ cli[q].exit = None
                           /\ c.waiting = cli[q].waiting /\ c.read <= setting.messages
<1> DEFINE c == [cli[q] EXCEPT !.exit = "killed"]
<1>1. cli[q] \in Client /\ cli[q].sent <= cli[q].read /\ cli[q].read <= setting.messages
  BY DEF TypeInv, ClientInv
<1>2. cli[q].exit = None /\ Turn(q, c)
  BY DEF Interrupt
<1>3. /\ c \in Client /\ c.exit = "killed" /\ c.waiting = cli[q].waiting
      /\ c.sent = cli[q].sent /\ c.read = cli[q].read
  BY <1>1 DEF Client
<1> HIDE DEF c
<1> QED
  BY <1>1, <1>2, <1>3, TurnFacts

\* A client gets a release: of another pipe, or one that it waits for, or its last.
LEMMA ReceiveFacts ==
  ASSUME PipeAssumption, TypeInv, NEW q \in Pipes, ReceiveRelease(q)
  PROVE  /\ link[q] # <<>> /\ link' = [link EXCEPT ![q] = Tail(@)]
         /\ Head(link[q]) \in Releases /\ Tail(link[q]) \in Seq(Releases)
         /\ \/ UNCHANGED <<cli, socket>> /\ (cli[q].exit # None \/ Head(link[q]).pipe # q)
            \/ \E c \in Client :
                 /\ Turned(q, c) /\ cli[q].exit = None /\ Head(link[q]).pipe = q
                 /\ c.read <= setting.messages
                 /\ IF Head(link[q]).code # None
                    THEN c.exit = Head(link[q]).code /\ c.waiting = cli[q].waiting
                    ELSE c.exit \in {None, "done"} /\ ~c.waiting
<1> DEFINE release == Head(link[q])
           c1 == [cli[q] EXCEPT !.exit = release.code]
           c2 == [cli[q] EXCEPT !.waiting = FALSE, !.exit = "done"]
           c3 == [cli[q] EXCEPT !.waiting = FALSE]
<1>1. cli[q] \in Client /\ cli[q].sent <= cli[q].read /\ cli[q].read <= setting.messages
  BY DEF TypeInv, ClientInv
<1>2. /\ link[q] # <<>> /\ link' = [link EXCEPT ![q] = Tail(@)]
      /\ link[q] \in Seq(Releases)
  BY DEF ReceiveRelease, TypeInv, QueuesInv
<1>3. release \in Releases /\ Tail(link[q]) \in Seq(Releases)
  BY <1>2, TailFacts
<1>4. \/ (cli[q].exit # None \/ release.pipe # q) /\ UNCHANGED <<cli, socket>>
      \/ /\ cli[q].exit = None /\ release.pipe = q
         /\ \/ release.code # None /\ Turn(q, c1)
            \/ release.code = None /\ (Turn(q, c2) \/ Turn(q, c3))
  BY DEF ReceiveRelease
<1>5. /\ release.code \in ExitCode
      /\ c1 \in Client /\ c1.exit = release.code /\ c1.waiting = cli[q].waiting
      /\ c1.sent = cli[q].sent /\ c1.read = cli[q].read
  BY <1>1, <1>3 DEF Releases, ExitCode, Client
<1>6. /\ c2 \in Client /\ c2.exit = "done" /\ ~c2.waiting
      /\ c2.sent = cli[q].sent /\ c2.read = cli[q].read
      /\ c3 \in Client /\ c3.exit = cli[q].exit /\ ~c3.waiting
      /\ c3.sent = cli[q].sent /\ c3.read = cli[q].read
  BY <1>1 DEF Client
<1> HIDE DEF release, c1, c2, c3
<1>7. CASE cli[q].exit = None /\ release.pipe = q /\ release.code # None /\ Turn(q, c1)
  <2>1. Turned(q, c1)
    BY <1>1, <1>5, <1>7, TurnFacts
  <2> QED
    BY <1>1, <1>2, <1>3, <1>5, <1>7, <2>1 DEF release
<1>8. CASE cli[q].exit = None /\ release.pipe = q /\ release.code = None /\ Turn(q, c2)
  <2>1. Turned(q, c2)
    BY <1>1, <1>6, <1>8, TurnFacts
  <2> QED
    BY <1>1, <1>2, <1>3, <1>6, <1>8, <2>1 DEF release
<1>9. CASE cli[q].exit = None /\ release.pipe = q /\ release.code = None /\ Turn(q, c3)
  <2>1. Turned(q, c3)
    BY <1>1, <1>6, <1>9, TurnFacts
  <2> QED
    BY <1>1, <1>2, <1>3, <1>6, <1>9, <2>1 DEF release
<1> QED
  BY <1>2, <1>3, <1>4, <1>7, <1>8, <1>9 DEF release

\* A turn keeps the types of the clients.
LEMMA TurnedType ==
  ASSUME TypeInv, NEW q \in Pipes, NEW c \in Client, Turned(q, c), c.read <= setting.messages,
         UNCHANGED setting
  PROVE  ClientInv' /\ socket' \in [Pipes -> Seq(Nat)]
<1>1. cli' \in [Pipes -> Client] /\ socket' \in [Pipes -> Seq(Nat)]
  BY DEF Turned
<1>2. ASSUME NEW r \in Pipes
      PROVE  cli'[r].sent <= cli'[r].read /\ cli'[r].read <= setting.messages
  BY DEF Turned, TypeInv, ClientInv
<1> QED
  BY <1>1, <1>2 DEF ClientInv

\* The clients' steps keep all types.
LEMMA ClientTypes ==
  ASSUME PipeAssumption, TypeInv, NEW q \in Pipes,
         (\E last \in BOOLEAN : ReadInput(q, last)) \/ Interrupt(q) \/ ReceiveRelease(q)
  PROVE  TypeInv'
<1>1. CASE (\E last \in BOOLEAN : ReadInput(q, last)) \/ Interrupt(q)
  <2>1. \E c \in Client : Turned(q, c) /\ c.read <= setting.messages
    BY <1>1, ReadFacts, InterruptFacts
  <2>2. UNCHANGED <<setting, callVars, seen, inbox, jobs, screen, main, session, link, pending,
                    running, removals>>
    BY <1>1 DEF ReadInput, Interrupt
  <2>3. ClientInv' /\ socket' \in [Pipes -> Seq(Nat)]
    BY <2>1, <2>2, TurnedType
  <2> QED
    BY <2>2, <2>3 DEF TypeInv, QueuesInv, PlainInv, PendingInv, callVars
<1>2. CASE ReceiveRelease(q)
  <2>1. UNCHANGED <<setting, callVars, seen, inbox, jobs, screen, main, session, pending,
                    running, removals>>
    BY <1>2 DEF ReceiveRelease
  <2>2. \/ UNCHANGED <<cli, socket>>
        \/ \E c \in Client : Turned(q, c) /\ c.read <= setting.messages
    BY <1>2, ReceiveFacts
  <2>3. ClientInv' /\ socket' \in [Pipes -> Seq(Nat)]
    <3>1. CASE UNCHANGED <<cli, socket>>
      BY <2>1, <3>1 DEF TypeInv, ClientInv, QueuesInv
    <3>2. CASE \E c \in Client : Turned(q, c) /\ c.read <= setting.messages
      BY <2>1, <3>2, TurnedType
    <3> QED
      BY <2>2, <3>1, <3>2
  <2>4. link' \in [Pipes -> Seq(Releases)]
    <3>1. link' = [link EXCEPT ![q] = Tail(@)] /\ Tail(link[q]) \in Seq(Releases)
      BY <1>2, ReceiveFacts
    <3>2. link \in [Pipes -> Seq(Releases)]
      BY DEF TypeInv, QueuesInv
    <3> QED
      BY <3>1, <3>2
  <2> QED
    BY <2>1, <2>3, <2>4 DEF TypeInv, QueuesInv, PlainInv, PendingInv, callVars
<1> QED
  BY <1>1, <1>2

\* What the router's steps do.
LEMMA RouterFacts ==
  ASSUME TypeInv, NEW q \in Pipes
  PROVE  /\ RouteAssociate(q) =>
              /\ Plain("associate", q) \in ToMain /\ main' = Append(main, Plain("associate", q))
              /\ main' \in Seq(ToMain)
         /\ RouteExit(q) =>
              /\ Plain("remove", q) \in ToMain /\ main' = Append(main, Plain("remove", q))
              /\ main' \in Seq(ToMain) /\ socket' \in [Pipes -> Seq(Nat)]
         /\ RouteMessage(q) =>
              \E m \in PipeMessages :
                /\ m.pipe = q /\ inbox' = Append(inbox, m) /\ inbox' \in Seq(ToPlugins)
                /\ m \in ToPlugins /\ m.n = Head(socket[q]) /\ m.n \in Sent
                /\ socket' \in [Pipes -> Seq(Nat)]
<1>1. main \in Seq(ToMain) /\ inbox \in Seq(ToPlugins) /\ socket \in [Pipes -> Seq(Nat)]
  BY DEF TypeInv, QueuesInv
<1>2. Plain("associate", q) \in ToMain /\ Plain("remove", q) \in ToMain
  BY DEF Plain, ToMain
<1>3. /\ Append(main, Plain("associate", q)) \in Seq(ToMain)
      /\ Append(main, Plain("remove", q)) \in Seq(ToMain)
  BY <1>1, <1>2, AppendFacts
<1>4. socket[q] # <<>> => Head(socket[q]) \in Nat /\ Tail(socket[q]) \in Seq(Nat)
  BY <1>1, TailFacts
<1>5. socket[q] # <<>> => [socket EXCEPT ![q] = Tail(@)] \in [Pipes -> Seq(Nat)]
  BY <1>1, <1>4
<1>6. ASSUME RouteMessage(q)
      PROVE  \E m \in PipeMessages :
                /\ m.pipe = q /\ inbox' = Append(inbox, m) /\ inbox' \in Seq(ToPlugins)
                /\ m \in ToPlugins /\ m.n = Head(socket[q]) /\ m.n \in Sent
                /\ socket' \in [Pipes -> Seq(Nat)]
  <2> DEFINE m == [kind |-> "message", pipe |-> q, n |-> Head(socket[q])]
  <2>1. /\ socket[q] # <<>> /\ Head(socket[q]) # 0 /\ inbox' = Append(inbox, m)
        /\ socket' = [socket EXCEPT ![q] = Tail(@)]
    BY <1>6 DEF RouteMessage
  <2>2. m \in PipeMessages /\ m.pipe = q /\ m.n = Head(socket[q]) /\ m.n \in Sent
    BY <1>4, <2>1 DEF PipeMessages, Sent
  <2> HIDE DEF m
  <2>3. m \in ToPlugins
    BY <2>2 DEF ToPlugins
  <2>4. Append(inbox, m) \in Seq(ToPlugins)
    BY <1>1, <2>3, AppendFacts
  <2> QED
    BY <1>5, <2>1, <2>2, <2>3, <2>4
<1> QED
  BY <1>2, <1>3, <1>5, <1>6 DEF RouteAssociate, RouteExit

\* The router's steps keep all types.
LEMMA RouterTypes ==
  ASSUME TypeInv, NEW q \in Pipes, RouteAssociate(q) \/ RouteMessage(q) \/ RouteExit(q)
  PROVE  TypeInv'
<1>1. CASE RouteAssociate(q)
  <2>1. main' \in Seq(ToMain)
    BY <1>1, RouterFacts
  <2>2. seen' \subseteq Pipes
    BY <1>1 DEF RouteAssociate, TypeInv, PlainInv
  <2> QED
    BY <1>1, <2>1, <2>2 DEF RouteAssociate, TypeInv, ClientInv, QueuesInv, PlainInv, PendingInv,
                            clientVars, callVars
<1>2. CASE RouteMessage(q)
  <2>1. inbox' \in Seq(ToPlugins) /\ socket' \in [Pipes -> Seq(Nat)]
    BY <1>2, RouterFacts
  <2> QED
    BY <1>2, <2>1 DEF RouteMessage, TypeInv, ClientInv, QueuesInv, PlainInv, PendingInv,
                      clientVars, callVars
<1>3. CASE RouteExit(q)
  <2>1. main' \in Seq(ToMain) /\ socket' \in [Pipes -> Seq(Nat)]
    BY <1>3, RouterFacts
  <2> QED
    BY <1>3, <2>1 DEF RouteExit, TypeInv, ClientInv, QueuesInv, PlainInv, PendingInv,
                      clientVars, callVars
<1> QED
  BY <1>1, <1>2, <1>3

\* The kinds of messages for the main loop.
LEMMA MainKindFacts ==
  ASSUME NEW m \in ToMain
  PROVE  /\ m.kind \in {"associate", "remove", "release"} /\ m.pipe \in Pipes
         /\ m.kind = "release" => m \in Releases /\ m.code \in ExitCode
         /\ m.kind # "release" => m = Plain(m.kind, m.pipe)
BY DEF ToMain, Releases, Plain

\* What the main loop does with the first one.
LEMMA MainLoopFacts ==
  ASSUME TypeInv, MainLoop
  PROVE  /\ main # <<>> /\ main' = Tail(main) /\ main' \in Seq(ToMain) /\ Head(main) \in ToMain
         /\ Head(main) = main[1] /\ 1 \in DOMAIN main
         /\ link' \in [Pipes -> Seq(Releases)]
         /\ \A r \in Pipes :
              \/ link'[r] = link[r]
              \/ /\ Head(main).kind = "release" /\ r \in Recipients(Head(main).pipe)
                 /\ link'[r] = Append(link[r], Head(main))
         /\ Head(main).kind = "release" =>
              \A r \in Recipients(Head(main).pipe) : r \in Pipes => link'[r] = Append(link[r], Head(main))
         /\ session' \in [Pipes -> {"new", "associated", "gone"}]
         /\ \A r \in Pipes :
              session'[r] = IF Head(main).pipe = r /\ Head(main).kind = "associate" THEN "associated"
                            ELSE IF Head(main).pipe = r /\ Head(main).kind = "remove" THEN "gone"
                            ELSE session[r]
<1> DEFINE m == Head(main)
<1>1. main \in Seq(ToMain) /\ main # <<>> /\ main' = Tail(main)
  BY DEF MainLoop, TypeInv, QueuesInv
<1>2. main' \in Seq(ToMain) /\ m \in ToMain /\ m = main[1] /\ 1 \in DOMAIN main
  BY <1>1, TailFacts
<1>3. /\ m.kind \in {"associate", "remove", "release"} /\ m.pipe \in Pipes
      /\ m.kind = "release" => m \in Releases
  BY <1>2, MainKindFacts
<1>4. /\ link \in [Pipes -> Seq(Releases)]
      /\ session \in [Pipes -> {"new", "associated", "gone"}]
  BY DEF TypeInv, QueuesInv, PlainInv
<1>5. /\ m.kind = "associate" => session' = [session EXCEPT ![m.pipe] = "associated"] /\ link' = link
      /\ m.kind = "remove" => session' = [session EXCEPT ![m.pipe] = "gone"] /\ link' = link
      /\ m.kind = "release" =>
           /\ session' = session
           /\ link' = [r \in Pipes |->
                         IF r \in Recipients(m.pipe) THEN Append(link[r], m) ELSE link[r]]
  BY DEF MainLoop
<1> HIDE DEF m
<1>6. m.kind = "release" => \A r \in Pipes : Append(link[r], m) \in Seq(Releases)
  BY <1>3, <1>4, AppendFacts
<1>7. /\ link' \in [Pipes -> Seq(Releases)]
      /\ \A r \in Pipes :
           \/ link'[r] = link[r]
           \/ m.kind = "release" /\ r \in Recipients(m.pipe) /\ link'[r] = Append(link[r], m)
      /\ m.kind = "release" => \A r \in Recipients(m.pipe) : r \in Pipes => link'[r] = Append(link[r], m)
  BY <1>3, <1>4, <1>5, <1>6
<1>8. /\ session' \in [Pipes -> {"new", "associated", "gone"}]
      /\ \A r \in Pipes :
           session'[r] = IF m.pipe = r /\ m.kind = "associate" THEN "associated"
                         ELSE IF m.pipe = r /\ m.kind = "remove" THEN "gone" ELSE session[r]
  BY <1>3, <1>4, <1>5
<1> QED
  BY <1>1, <1>2, <1>7, <1>8 DEF m

\* The steps of the main loop, the screen thread and the plugin thread keep all types.
LEMMA ThreadTypes ==
  ASSUME PipeAssumption, TypeInv, SeenInv, MainLoop \/ ScreenThread \/ PluginThread
  PROVE  TypeInv'
<1>1. CASE MainLoop
  <2>1. /\ main' \in Seq(ToMain) /\ link' \in [Pipes -> Seq(Releases)]
        /\ session' \in [Pipes -> {"new", "associated", "gone"}]
    BY <1>1, MainLoopFacts
  <2> QED
    BY <1>1, <2>1 DEF MainLoop, TypeInv, ClientInv, QueuesInv, PlainInv, PendingInv,
                      clientVars, callVars
<1>2. CASE ScreenThread
  <2>1. /\ screen \in Seq(ChangeMessages) /\ inbox \in Seq(ToPlugins) /\ screen # <<>>
        /\ screen' = Tail(screen) /\ inbox' = Append(inbox, Head(screen))
    BY <1>2 DEF ScreenThread, TypeInv, QueuesInv
  <2>2. Tail(screen) \in Seq(ChangeMessages) /\ Head(screen) \in ChangeMessages
    BY <2>1, TailFacts
  <2>3. Head(screen) \in ToPlugins
    BY <2>2 DEF ToPlugins
  <2>4. Append(inbox, Head(screen)) \in Seq(ToPlugins)
    BY <2>1, <2>3, AppendFacts
  <2> QED
    BY <1>2, <2>1, <2>2, <2>4 DEF ScreenThread, TypeInv, ClientInv, QueuesInv, PlainInv,
                                  PendingInv, clientVars, callVars
<1>3. CASE PluginThread
  <2>1. UNCHANGED <<setting, clientVars, callVars, socket, seen, screen, session, link, removals>>
    BY <1>3 DEF PluginThread
  <2>2. PipesStep
    BY <1>3, PluginStep
  <2>3. PendingInv'
    BY <2>2 DEF PipesStep
  <2>4. main' \in Seq(ToMain)
    <3>1. PICK new \in Seq(Releases) : main' = main \o new
      BY <2>2 DEF PipesStep
    <3>2. main \in Seq(ToMain) /\ Releases \subseteq ToMain
      BY DEF TypeInv, QueuesInv, ToMain
    <3>3. new \in Seq(ToMain)
      BY <3>2
    <3> QED
      BY <3>1, <3>2, <3>3, ConcatFacts
  <2>5. inbox' \in Seq(ToPlugins)
    BY <1>3, TailFacts DEF PluginThread, TypeInv, QueuesInv
  <2>6. /\ jobs' \in [Plugins -> Seq(Calls)]
        /\ \A p \in Plugins : \A n \in DOMAIN jobs'[p] : jobs'[p][n].on[1] = p
    <3>1. /\ jobs' \in [Plugins -> Seq(Calls)]
          /\ \A p \in Plugins : \E new \in NewCalls(Head(inbox), p) : jobs'[p] = jobs[p] \o new
      BY <1>3, JobsStep
    <3>2. ASSUME NEW p \in Plugins, NEW n \in DOMAIN jobs'[p]
          PROVE  jobs'[p][n].on[1] = p
      <4>1. PICK new \in NewCalls(Head(inbox), p) : jobs'[p] = jobs[p] \o new
        BY <3>1
      <4>2. /\ new \in Seq(Calls) /\ jobs[p] \in Seq(Calls)
            /\ \A k \in DOMAIN new : new[k].on[1] = p
            /\ \A k \in DOMAIN jobs[p] : jobs[p][k].on[1] = p
        BY DEF NewCalls, TypeInv, QueuesInv
      <4>3. \/ n \in DOMAIN jobs[p] /\ jobs'[p][n] = jobs[p][n]
            \/ n - Len(jobs[p]) \in DOMAIN new /\ jobs'[p][n] = new[n - Len(jobs[p])]
        BY <3>2, <4>1, <4>2, ConcatFacts
      <4> QED
        BY <4>2, <4>3
    <3> QED
      BY <3>1, <3>2
  <2>7. running' \subseteq Instances
    BY <1>3 DEF PluginThread, TypeInv, PlainInv
  <2>8. PlainInv'
    BY <2>1, <2>7 DEF TypeInv, PlainInv, callVars
  <2>9. QueuesInv'
    BY <2>1, <2>4, <2>5, <2>6 DEF TypeInv, QueuesInv
  <2> QED
    BY <2>1, <2>3, <2>8, <2>9 DEF TypeInv, ClientInv, clientVars
<1> QED
  BY <1>1, <1>2, <1>3

\* The calls that are made: for the pipe of a queued call, or of none.
Calling(i, q, current, ask) ==
  /\ i \in Instances /\ q \in Pipes /\ current \in SUBSET Pipes /\ ask \in Asks
  /\ current \subseteq seen /\ MayAsk(q, ask) /\ Call(i, q, current, ask)

\* Running the first call of a plugin.
LEMMA JobFacts ==
  ASSUME PipeAssumption, TypeInv, SeenInv, NEW p \in Plugins, RunJob(p)
  PROVE  /\ jobs[p] # <<>> /\ jobs' = [jobs EXCEPT ![p] = Tail(@)]
         /\ jobs[p] \in Seq(Calls) /\ Tail(jobs[p]) \in Seq(Calls)
         /\ Head(jobs[p]) \in Calls /\ Head(jobs[p]).on[1] = p
         /\ \E q \in Pipes, current \in SUBSET Pipes, ask \in Asks :
              /\ Calling(Head(jobs[p]).on, q, current, ask)
              /\ IF Head(jobs[p]).pipe = None
                 THEN current = {} /\ ~ask.block
                 ELSE q = Head(jobs[p]).pipe /\ current = {q}
<1> DEFINE job == Head(jobs[p])
<1>1. /\ jobs[p] # <<>> /\ jobs' = [jobs EXCEPT ![p] = Tail(@)]
      /\ jobs[p] \in Seq(Calls)
  BY DEF RunJob, TypeInv, QueuesInv
<1>2. Tail(jobs[p]) \in Seq(Calls) /\ job \in Calls /\ job = jobs[p][1] /\ 1 \in DOMAIN jobs[p]
  BY <1>1, TailFacts
<1>3. job.on[1] = p
  BY <1>2 DEF TypeInv, QueuesInv
<1>4. job.on \in Instances /\ job.pipe \in seen \cup {None} /\ job.pipe \in Pipes \cup {None}
  BY <1>2 DEF SeenInv, Calls
<1>5. IF job.pipe = None THEN Close(job.on)
      ELSE \E ask \in Asks : Call(job.on, job.pipe, {job.pipe}, ask)
  BY DEF RunJob
<1> HIDE DEF job
<1>6. CASE job.pipe = None
  <2>1. PICK q \in Pipes, ask \in Asks :
          /\ ~ask.block /\ (ask.unblock \/ ask.code # None => q \in holding[job.on])
          /\ Call(job.on, q, {}, ask)
    BY <1>5, <1>6 DEF Close
  <2>2. MayAsk(q, ask)
    BY <1>4, <2>1 DEF MayAsk, SeenInv
  <2>3. Calling(job.on, q, {}, ask)
    BY <1>4, <2>1, <2>2 DEF Calling
  <2> QED
    BY <1>1, <1>2, <1>3, <1>6, <2>1, <2>3 DEF job
<1>7. CASE job.pipe # None
  <2>1. PICK ask \in Asks : Call(job.on, job.pipe, {job.pipe}, ask)
    BY <1>5, <1>7
  <2>2. job.pipe \in seen /\ job.pipe \in Pipes
    BY <1>4, <1>7
  <2>3. Calling(job.on, job.pipe, {job.pipe}, ask)
    BY <1>4, <2>1, <2>2 DEF Calling, MayAsk
  <2> QED
    BY <1>1, <1>2, <1>3, <1>7, <2>2, <2>3 DEF job
<1> QED
  BY <1>6, <1>7

\* Unblocking a pipe later.
LEMMA LaterFacts ==
  ASSUME SeenInv, NEW i \in Instances, NEW q \in Pipes, NEW code \in Codes \cup {None},
         UnblockLater(i, q, code)
  PROVE  /\ Calling(i, q, {}, [block |-> FALSE, unblock |-> TRUE, code |-> code])
         /\ UNCHANGED jobs /\ q \in holding[i]
<1>1. [block |-> FALSE, unblock |-> TRUE, code |-> code] \in Asks
  BY DEF Asks
<1>2. q \in seen
  BY DEF UnblockLater, SeenInv
<1> QED
  BY <1>1, <1>2 DEF UnblockLater, Calling, MayAsk

\* A call leaves the rest alone, and reports.
LEMMA CallingFacts ==
  ASSUME PipeAssumption, TypeInv, SeenInv, CallInv, NEW i, NEW q, NEW current, NEW ask,
         Calling(i, q, current, ask)
  PROVE  /\ UNCHANGED <<setting, clientVars, socket, seen, main, session, link, pending, running,
                        removals>>
         /\ \E m : Reports(i, q, current, ask, m)
         /\ to_block' \in [Instances -> SUBSET seen] /\ to_unblock' \in [Instances -> SUBSET seen]
         /\ holding' \in [Instances -> SUBSET seen]
         /\ \A j \in Instances :
              /\ j \notin setting.blockers \cap setting.crashers =>
                   to_block'[j] = {} /\ to_unblock'[j] = {}
              /\ j \notin setting.blockers => holding'[j] = {}
<1>1. UNCHANGED <<setting, clientVars, socket, seen, main, session, link, pending, running,
                        removals>>
  BY DEF Calling, Call
<1> QED
  BY <1>1, CallFacts DEF Calling

\* The calls keep all types.
LEMMA CallTypes ==
  ASSUME PipeAssumption, TypeInv, SeenInv, CallInv, NEW i, NEW q, NEW current, NEW ask,
         Calling(i, q, current, ask), jobs' \in [Plugins -> Seq(Calls)],
         \A p \in Plugins : \A n \in DOMAIN jobs'[p] : jobs'[p][n].on[1] = p
  PROVE  TypeInv'
<1>1. UNCHANGED <<setting, clientVars, socket, seen, main, session, link, pending, running, removals>>
  BY CallingFacts
<1>2. PICK m : Reports(i, q, current, ask, m)
  BY CallingFacts
<1>3. inbox' \in Seq(ToPlugins) /\ screen' \in Seq(ChangeMessages)
  BY <1>2, ReportFacts DEF Calling
<1>4. /\ to_block' \in [Instances -> SUBSET seen] /\ to_unblock' \in [Instances -> SUBSET seen]
      /\ holding' \in [Instances -> SUBSET seen]
  BY CallingFacts
<1>5. QueuesInv'
  BY <1>1, <1>3 DEF TypeInv, QueuesInv
<1>6. PlainInv'
  BY <1>1, <1>4 DEF TypeInv, PlainInv
<1> QED
  BY <1>1, <1>5, <1>6 DEF TypeInv, ClientInv, PendingInv, clientVars

\* Running a call leaves the other calls in their queues.
LEMMA TakenJobs ==
  ASSUME PipeAssumption, TypeInv, SeenInv, NEW p \in Plugins, RunJob(p)
  PROVE  /\ jobs' \in [Plugins -> Seq(Calls)]
         /\ \A r \in Plugins \ {p} : jobs'[r] = jobs[r]
         /\ jobs'[p] = Tail(jobs[p])
         /\ \A r \in Plugins : \A n \in DOMAIN jobs'[r] :
              \E k \in DOMAIN jobs[r] : jobs'[r][n] = jobs[r][k]
<1>1. /\ jobs[p] # <<>> /\ jobs' = [jobs EXCEPT ![p] = Tail(@)]
      /\ jobs[p] \in Seq(Calls) /\ Tail(jobs[p]) \in Seq(Calls)
  BY JobFacts
<1>2. jobs \in [Plugins -> Seq(Calls)]
  BY DEF TypeInv, QueuesInv
<1>3. /\ jobs' \in [Plugins -> Seq(Calls)] /\ jobs'[p] = Tail(jobs[p])
      /\ \A r \in Plugins \ {p} : jobs'[r] = jobs[r]
  BY <1>1, <1>2
<1>4. \A n \in DOMAIN Tail(jobs[p]) : n + 1 \in DOMAIN jobs[p] /\ Tail(jobs[p])[n] = jobs[p][n + 1]
  BY <1>1, TailFacts
<1> QED
  BY <1>3, <1>4

\* A request to remove something is one of the removals.
LEMMA RemovalFacts ==
  ASSUME TypeInv, (\E p \in Plugins : UnloadPlugin(p)) \/ (\E c \in Clients : RemoveClient(c))
  PROVE  /\ UNCHANGED <<setting, clientVars, callVars, socket, seen, jobs, screen, main, session,
                        link, pending, running>>
         /\ removals' = removals + 1
         /\ \E m \in Removals : /\ inbox' = Append(inbox, m) /\ m \in ToPlugins
                                /\ inbox' \in Seq(ToPlugins)
                                /\ \A q : ~Mentions(m, q)
                                /\ m.kind \in {"unload", "remove"}
<1>1. PICK m \in Removals : RequestRemoval(m)
  <2>1. \A p \in Plugins : [kind |-> "unload", plugin |-> p] \in Removals
    BY DEF Removals
  <2>2. \A c \in Clients : [kind |-> "remove", client |-> c] \in Removals
    BY DEF Removals
  <2> QED
    BY <2>1, <2>2 DEF UnloadPlugin, RemoveClient
<1>2. m \in ToPlugins /\ m.kind \in {"unload", "remove"}
  BY DEF ToPlugins, Removals
<1>3. Append(inbox, m) \in Seq(ToPlugins)
  BY <1>2, AppendFacts DEF TypeInv, QueuesInv
<1>4. \A q : ~Mentions(m, q)
  BY <1>2 DEF Mentions
<1> QED
  BY <1>1, <1>2, <1>3, <1>4 DEF RequestRemoval

\* Every step keeps all types.
LEMMA NextType ==
  ASSUME PipeAssumption, TypeInv, SeenInv, CallInv, Next
  PROVE  TypeInv'
<1>1. CASE \E p \in Plugins : RunJob(p)
  <2>1. PICK p \in Plugins : RunJob(p)
    BY <1>1
  <2>2. /\ jobs' \in [Plugins -> Seq(Calls)]
        /\ \A r \in Plugins : \A n \in DOMAIN jobs'[r] :
             \E k \in DOMAIN jobs[r] : jobs'[r][n] = jobs[r][k]
    BY <2>1, TakenJobs
  <2>3. \A r \in Plugins : \A n \in DOMAIN jobs'[r] : jobs'[r][n].on[1] = r
    BY <2>2 DEF TypeInv, QueuesInv
  <2>4. \E i, q, current, ask : Calling(i, q, current, ask)
    BY <2>1, JobFacts
  <2> QED
    BY <2>2, <2>3, <2>4, CallTypes
<1>2. CASE \E i \in Instances, q \in Pipes, code \in Codes \cup {None} : UnblockLater(i, q, code)
  <2>1. UNCHANGED jobs /\ \E i, q, current, ask : Calling(i, q, current, ask)
    BY <1>2, LaterFacts
  <2> QED
    BY <2>1, CallTypes DEF TypeInv, QueuesInv
<1>3. CASE (\E p \in Plugins : UnloadPlugin(p)) \/ (\E c \in Clients : RemoveClient(c))
  <2>1. /\ UNCHANGED <<setting, clientVars, callVars, socket, seen, jobs, screen, main, session,
                       link, pending, running>>
        /\ removals' = removals + 1 /\ inbox' \in Seq(ToPlugins)
    BY <1>3, RemovalFacts
  <2>2. removals' \in Nat
    BY <2>1 DEF TypeInv, PlainInv
  <2> QED
    BY <2>1, <2>2 DEF TypeInv, ClientInv, QueuesInv, PlainInv, PendingInv, clientVars, callVars
<1> QED
  BY <1>1, <1>2, <1>3, ClientTypes, RouterTypes, ThreadTypes DEF Next

-----------------------------------------------------------------------------
(* Pipes that have been seen *)

\* The router's steps.
LEMMA RouterSeen ==
  ASSUME TypeInv, SeenInv, NEW q \in Pipes, RouteAssociate(q) \/ RouteMessage(q) \/ RouteExit(q)
  PROVE  SeenInv'
<1>0. main \in Seq(ToMain) /\ inbox \in Seq(ToPlugins)
  BY DEF TypeInv, QueuesInv
<1>1. CASE RouteAssociate(q)
  <2>1. /\ seen' = seen \cup {q}
        /\ UNCHANGED <<callVars, inbox, jobs, screen, pending>>
        /\ main' = Append(main, Plain("associate", q)) /\ Plain("associate", q) \in ToMain
    BY <1>1, RouterFacts DEF RouteAssociate
  <2>2. \A n \in DOMAIN main' : main'[n].kind = "release" => main'[n].pipe \in seen'
    <3>1. Plain("associate", q).kind # "release"
      BY DEF Plain
    <3>2. \A n \in DOMAIN main' :
            \/ n \in DOMAIN main /\ main'[n] = main[n]
            \/ main'[n] = Plain("associate", q)
      BY <1>0, <2>1, AppendFacts
    <3> QED
      BY <2>1, <3>1, <3>2 DEF SeenInv
  <2>3. /\ \A n \in DOMAIN inbox : \A r \in Pipes : Mentions(inbox[n], r) => r \in seen'
        /\ \A n \in DOMAIN screen : \A r \in Pipes : Mentions(screen[n], r) => r \in seen'
        /\ \A p \in Plugins : \A n \in DOMAIN jobs[p] : jobs[p][n].pipe \in seen' \cup {None}
        /\ \A i \in Instances : to_block[i] \cup to_unblock[i] \cup holding[i] \subseteq seen'
        /\ \A r \in Pipes \ seen' : pending[r] = NewEntry
    BY <2>1 DEF SeenInv
  <2> QED
    BY <2>1, <2>2, <2>3 DEF SeenInv, callVars
<1>2. CASE RouteMessage(q)
  <2>1. UNCHANGED <<callVars, seen, jobs, screen, main, pending>> /\ q \in seen
    BY <1>2 DEF RouteMessage, MayForward
  <2>2. PICK m \in PipeMessages : m.pipe = q /\ m \in ToPlugins /\ inbox' = Append(inbox, m)
    BY <1>2, RouterFacts
  <2>3. \A r \in Pipes : Mentions(m, r) => r \in seen
    BY <2>1, <2>2 DEF Mentions, PipeMessages
  <2>4. \A n \in DOMAIN inbox' : (n \in DOMAIN inbox /\ inbox'[n] = inbox[n]) \/ inbox'[n] = m
    BY <1>0, <2>2, AppendFacts
  <2>5. \A n \in DOMAIN inbox' : \A r \in Pipes : Mentions(inbox'[n], r) => r \in seen
    BY <2>3, <2>4 DEF SeenInv
  <2> QED
    BY <2>1, <2>5 DEF SeenInv, callVars
<1>3. CASE RouteExit(q)
  <2>1. /\ UNCHANGED <<callVars, seen, inbox, jobs, screen, pending>>
        /\ main' = Append(main, Plain("remove", q)) /\ Plain("remove", q) \in ToMain
    BY <1>3, RouterFacts DEF RouteExit
  <2>2. \A n \in DOMAIN main' : main'[n].kind = "release" => main'[n].pipe \in seen
    <3>1. Plain("remove", q).kind # "release"
      BY DEF Plain
    <3>2. \A n \in DOMAIN main' :
            \/ n \in DOMAIN main /\ main'[n] = main[n]
            \/ main'[n] = Plain("remove", q)
      BY <1>0, <2>1, AppendFacts
    <3> QED
      BY <3>1, <3>2 DEF SeenInv
  <2> QED
    BY <2>1, <2>2 DEF SeenInv, callVars
<1> QED
  BY <1>1, <1>2, <1>3

\* The threads' steps.
LEMMA ThreadSeen ==
  ASSUME PipeAssumption, TypeInv, SeenInv, MainLoop \/ ScreenThread \/ PluginThread
  PROVE  SeenInv'
<1>0. main \in Seq(ToMain) /\ inbox \in Seq(ToPlugins) /\ screen \in Seq(ChangeMessages)
  BY DEF TypeInv, QueuesInv
<1>1. CASE MainLoop
  <2>1. UNCHANGED <<callVars, seen, inbox, jobs, screen, pending>>
    BY <1>1 DEF MainLoop
  <2>2. main # <<>> /\ main' = Tail(main)
    BY <1>1 DEF MainLoop
  <2>3. \A n \in DOMAIN main' : n + 1 \in DOMAIN main /\ main'[n] = main[n + 1]
    BY <1>0, <2>2, TailFacts
  <2> QED
    BY <2>1, <2>3 DEF SeenInv, callVars
<1>2. CASE ScreenThread
  <2>1. /\ UNCHANGED <<callVars, seen, jobs, main, pending>>
        /\ screen # <<>> /\ screen' = Tail(screen) /\ inbox' = Append(inbox, Head(screen))
    BY <1>2 DEF ScreenThread
  <2>2. /\ \A n \in DOMAIN screen' : n + 1 \in DOMAIN screen /\ screen'[n] = screen[n + 1]
        /\ Head(screen) = screen[1] /\ 1 \in DOMAIN screen /\ Head(screen) \in ChangeMessages
    BY <1>0, <2>1, TailFacts
  <2>3. Head(screen) \in ToPlugins
    BY <2>2 DEF ToPlugins
  <2>4. \A n \in DOMAIN inbox' :
          (n \in DOMAIN inbox /\ inbox'[n] = inbox[n]) \/ inbox'[n] = screen[1]
    BY <1>0, <2>1, <2>2, <2>3, AppendFacts
  <2>5. /\ \A n \in DOMAIN inbox' : \A r \in Pipes : Mentions(inbox'[n], r) => r \in seen
        /\ \A n \in DOMAIN screen' : \A r \in Pipes : Mentions(screen'[n], r) => r \in seen
    BY <2>2, <2>4 DEF SeenInv
  <2> QED
    BY <2>1, <2>5 DEF SeenInv, callVars
<1>3. CASE PluginThread
  <2>1. /\ UNCHANGED <<callVars, seen, screen>>
        /\ inbox # <<>> /\ inbox' = Tail(inbox)
    BY <1>3 DEF PluginThread
  <2>2. PipesStep
    BY <1>3, PluginStep
  <2>3. \A n \in DOMAIN inbox' : n + 1 \in DOMAIN inbox /\ inbox'[n] = inbox[n + 1]
    BY <1>0, <2>1, TailFacts
  <2>4. \A r \in Pipes \ seen : pending'[r] = NewEntry
    BY <2>2 DEF PipesStep
  <2>5. \A n \in DOMAIN main' : main'[n].kind = "release" => main'[n].pipe \in seen
    <3>1. PICK new \in Seq(Releases) :
            main' = main \o new /\ \A n \in DOMAIN new : new[n].pipe \in seen
      BY <2>2 DEF PipesStep
    <3>2. new \in Seq(ToMain)
      BY DEF ToMain
    <3>3. \A n \in DOMAIN main' :
            \/ n \in DOMAIN main /\ main'[n] = main[n]
            \/ n - Len(main) \in DOMAIN new /\ main'[n] = new[n - Len(main)]
      BY <1>0, <3>1, <3>2, ConcatFacts
    <3> QED
      BY <3>1, <3>3 DEF SeenInv
  <2>6. \A p \in Plugins : \A n \in DOMAIN jobs'[p] : jobs'[p][n].pipe \in seen \cup {None}
    <3> SUFFICES ASSUME NEW p \in Plugins, NEW n \in DOMAIN jobs'[p]
                 PROVE  jobs'[p][n].pipe \in seen \cup {None}
      OBVIOUS
    <3>1. PICK new \in NewCalls(Head(inbox), p) : jobs'[p] = jobs[p] \o new
      BY <1>3, JobsStep
    <3>2. new \in Seq(Calls) /\ jobs[p] \in Seq(Calls)
      BY DEF NewCalls, TypeInv, QueuesInv
    <3>3. \/ n \in DOMAIN jobs[p] /\ jobs'[p][n] = jobs[p][n]
          \/ n - Len(jobs[p]) \in DOMAIN new /\ jobs'[p][n] = new[n - Len(jobs[p])]
      BY <3>1, <3>2, ConcatFacts
    <3>4. Head(inbox) \in ToPlugins /\ \A q \in Pipes : Mentions(Head(inbox), q) => q \in seen
      BY <2>1, HeadFacts
    <3>5. Head(inbox).kind = "message" => Head(inbox).pipe \in seen
      BY <3>4, KindFacts DEF Mentions
    <3>6. \A k \in DOMAIN new : new[k].pipe \in seen \cup {None}
      BY <3>5 DEF NewCalls
    <3> QED
      BY <3>3, <3>6 DEF SeenInv
  <2> QED
    BY <2>1, <2>3, <2>4, <2>5, <2>6 DEF SeenInv, callVars
<1> QED
  BY <1>1, <1>2, <1>3

\* The calls.
LEMMA CallSeen ==
  ASSUME PipeAssumption, TypeInv, SeenInv, CallInv, NEW i, NEW q, NEW current, NEW ask,
         Calling(i, q, current, ask),
         \A p \in Plugins : \A n \in DOMAIN jobs'[p] : jobs'[p][n].pipe \in seen \cup {None}
  PROVE  SeenInv'
<1>1. UNCHANGED <<seen, main, pending>>
  BY CallingFacts
<1>2. PICK m : Reports(i, q, current, ask, m)
  BY CallingFacts
<1>3. /\ m \in ChangeMessages /\ DOMAIN m.of \subseteq seen
      /\ \A n \in DOMAIN inbox' :
              \/ n \in DOMAIN inbox /\ inbox'[n] = inbox[n]
              \/ inbox'[n] = m
              \/ inbox'[n] \in CodeMessages /\ inbox'[n].pipe = q /\ ask.code # None
      /\ \A n \in DOMAIN screen' :
              \/ n \in DOMAIN screen /\ screen'[n] = screen[n]
              \/ screen'[n] = m /\ i[1] \in setting.panes
  BY <1>2, ReportFacts DEF Calling
<1>4. /\ to_block' \in [Instances -> SUBSET seen] /\ to_unblock' \in [Instances -> SUBSET seen]
      /\ holding' \in [Instances -> SUBSET seen]
  BY CallingFacts
<1>5. \A r \in Pipes : Mentions(m, r) => r \in seen
  BY <1>3 DEF Mentions, ChangeMessages
<1>6. ask.code # None => q \in seen
  BY DEF Calling, MayAsk
<1>7. \A c \in CodeMessages : \A r \in Pipes : Mentions(c, r) => r = c.pipe
  BY DEF Mentions, CodeMessages
<1>8. /\ \A n \in DOMAIN inbox' : \A r \in Pipes : Mentions(inbox'[n], r) => r \in seen
      /\ \A n \in DOMAIN screen' : \A r \in Pipes : Mentions(screen'[n], r) => r \in seen
  BY <1>3, <1>5, <1>6, <1>7 DEF SeenInv
<1>9. \A j \in Instances : to_block'[j] \cup to_unblock'[j] \cup holding'[j] \subseteq seen
  BY <1>4
<1> QED
  BY <1>1, <1>8, <1>9 DEF SeenInv

\* Every step.
LEMMA NextSeen ==
  ASSUME PipeAssumption, TypeInv, SeenInv, CallInv, Next
  PROVE  SeenInv'
<1>1. CASE \E p \in Plugins : RunJob(p)
  <2>1. PICK p \in Plugins : RunJob(p)
    BY <1>1
  <2>2. \A r \in Plugins : \A n \in DOMAIN jobs'[r] :
             \E k \in DOMAIN jobs[r] : jobs'[r][n] = jobs[r][k]
    BY <2>1, TakenJobs
  <2>3. \A r \in Plugins : \A n \in DOMAIN jobs'[r] : jobs'[r][n].pipe \in seen \cup {None}
    BY <2>2 DEF SeenInv
  <2>4. \E i, q, current, ask : Calling(i, q, current, ask)
    BY <2>1, JobFacts
  <2> QED
    BY <2>3, <2>4, CallSeen
<1>2. CASE \E i \in Instances, q \in Pipes, code \in Codes \cup {None} : UnblockLater(i, q, code)
  <2>1. UNCHANGED jobs /\ \E i, q, current, ask : Calling(i, q, current, ask)
    BY <1>2, LaterFacts
  <2>2. \A r \in Plugins : \A n \in DOMAIN jobs'[r] : jobs'[r][n].pipe \in seen \cup {None}
    BY <2>1 DEF SeenInv
  <2> QED
    BY <2>1, <2>2, CallSeen
<1>3. CASE (\E p \in Plugins : UnloadPlugin(p)) \/ (\E c \in Clients : RemoveClient(c))
  <2>1. UNCHANGED <<callVars, seen, jobs, screen, main, pending>>
    BY <1>3, RemovalFacts
  <2>2. PICK m \in Removals : /\ inbox' = Append(inbox, m) /\ m \in ToPlugins
                              /\ \A r : ~Mentions(m, r)
    BY <1>3, RemovalFacts
  <2>3. \A n \in DOMAIN inbox' : (n \in DOMAIN inbox /\ inbox'[n] = inbox[n]) \/ inbox'[n] = m
    BY <2>2, AppendFacts DEF TypeInv, QueuesInv
  <2>4. \A n \in DOMAIN inbox' : \A r \in Pipes : Mentions(inbox'[n], r) => r \in seen
    BY <2>2, <2>3 DEF SeenInv
  <2> QED
    BY <2>1, <2>4 DEF SeenInv, callVars
<1>4. CASE \E q \in Pipes : \/ \E last \in BOOLEAN : ReadInput(q, last)
                            \/ ReceiveRelease(q) \/ Interrupt(q)
  <2>1. UNCHANGED <<callVars, seen, inbox, jobs, screen, main, pending>>
    BY <1>4 DEF ReadInput, ReceiveRelease, Interrupt
  <2> QED
    BY <2>1 DEF SeenInv, callVars
<1> QED
  BY <1>1, <1>2, <1>3, <1>4, RouterSeen, ThreadSeen DEF Next

-----------------------------------------------------------------------------
(* Associations, final releases, connections *)

\* An association that is on its way stays ahead of the releases.
LEMMA NextAssociation ==
  ASSUME PipeAssumption, TypeInv, SeenInv, CallInv, AssociationInv, Next
  PROVE  AssociationInv'
<1>0. main \in Seq(ToMain) /\ DOMAIN main = 1 .. Len(main) /\ Len(main) \in Nat
  BY DEF TypeInv, QueuesInv
<1>1. CASE UNCHANGED <<seen, session, main>>
  BY <1>1 DEF AssociationInv
<1>2. CASE \E q \in Pipes : RouteAssociate(q) \/ RouteExit(q)
  <2>1. PICK q \in Pipes : RouteAssociate(q) \/ RouteExit(q)
    BY <1>2
  <2>2. UNCHANGED session
    BY <2>1 DEF RouteAssociate, RouteExit
  <2>3. PICK m \in ToMain :
          /\ main' = Append(main, m) /\ m.kind # "release"
          /\ seen' = seen \/ (seen' = seen \cup {q} /\ q \notin seen /\ m = Plain("associate", q))
    <3>1. Plain("associate", q).kind # "release" /\ Plain("remove", q).kind # "release"
      BY DEF Plain
    <3> QED
      BY <2>1, <3>1, RouterFacts DEF RouteAssociate, RouteExit
  <2>4. /\ main'[Len(main) + 1] = m /\ Len(main) + 1 \in DOMAIN main'
        /\ \A n \in DOMAIN main : n \in DOMAIN main' /\ main'[n] = main[n]
        /\ \A n \in DOMAIN main' : n \in DOMAIN main \/ n = Len(main) + 1
    BY <1>0, <2>3, AppendFacts
  <2>5. ASSUME NEW r \in seen', session'[r] = "new"
        PROVE  \E k \in DOMAIN main' : /\ main'[k] = Plain("associate", r)
                                       /\ \A n \in DOMAIN main' : IsRelease(main'[n], r) => k < n
    <3>1. CASE r \in seen
      <4>1. PICK k \in DOMAIN main : /\ main[k] = Plain("associate", r)
                                     /\ \A n \in DOMAIN main : IsRelease(main[n], r) => k < n
        BY <2>2, <2>5, <3>1 DEF AssociationInv
      <4>2. \A n \in DOMAIN main' : IsRelease(main'[n], r) => n \in DOMAIN main /\ main'[n] = main[n]
        BY <2>3, <2>4 DEF IsRelease
      <4> QED
        BY <2>4, <4>1, <4>2
    <3>2. CASE r \notin seen
      <4>1. r = q /\ q \notin seen /\ m = Plain("associate", q)
        BY <2>3, <2>5, <3>2
      <4>2. \A n \in DOMAIN main' : ~IsRelease(main'[n], r)
        BY <2>3, <2>4, <4>1 DEF IsRelease, SeenInv
      <4> QED
        BY <2>4, <4>1, <4>2
    <3> QED
      BY <3>1, <3>2
  <2> QED
    BY <2>5 DEF AssociationInv
<1>3. CASE MainLoop
  <2>1. UNCHANGED seen
    BY <1>3 DEF MainLoop
  <2>2. /\ main # <<>> /\ main' = Tail(main) /\ Head(main) = main[1]
        /\ \A r \in Pipes :
              session'[r] = IF Head(main).pipe = r /\ Head(main).kind = "associate" THEN "associated"
                            ELSE IF Head(main).pipe = r /\ Head(main).kind = "remove" THEN "gone"
                            ELSE session[r]
    BY <1>3, MainLoopFacts
  <2>3. /\ \A n \in DOMAIN main' : n + 1 \in DOMAIN main /\ main'[n] = main[n + 1] /\ n \in Nat
        /\ \A n \in DOMAIN main : n = 1 \/ (n - 1 \in DOMAIN main' /\ main'[n - 1] = main[n])
    BY <1>0, <2>2, TailFacts
  <2>4. ASSUME NEW r \in seen, session'[r] = "new"
        PROVE  \E k \in DOMAIN main' : /\ main'[k] = Plain("associate", r)
                                       /\ \A n \in DOMAIN main' : IsRelease(main'[n], r) => k < n
    <3>1. r \in Pipes
      BY DEF TypeInv, PlainInv
    <3>2. session[r] = "new" /\ ~(Head(main).pipe = r /\ Head(main).kind = "associate")
      BY <2>2, <2>4, <3>1
    <3>3. PICK k \in DOMAIN main : /\ main[k] = Plain("associate", r)
                                   /\ \A n \in DOMAIN main : IsRelease(main[n], r) => k < n
      BY <3>2 DEF AssociationInv
    <3>4. k # 1
      BY <2>2, <3>2, <3>3 DEF Plain
    <3>5. k - 1 \in DOMAIN main' /\ main'[k - 1] = Plain("associate", r)
      BY <2>3, <3>3, <3>4
    <3>6. \A n \in DOMAIN main' : IsRelease(main'[n], r) => k - 1 < n
      BY <1>0, <2>3, <3>3
    <3> QED
      BY <3>5, <3>6
  <2> QED
    BY <2>1, <2>4 DEF AssociationInv
<1>4. CASE PluginThread
  <2>1. UNCHANGED <<seen, session>>
    BY <1>4 DEF PluginThread
  <2>2. PICK new \in Seq(Releases) : main' = main \o new
    BY <1>4, PluginStep DEF PipesStep
  <2>3. new \in Seq(ToMain)
    BY DEF ToMain
  <2>4. /\ \A n \in DOMAIN main : n \in DOMAIN main' /\ main'[n] = main[n]
        /\ \A n \in DOMAIN main' : n \in DOMAIN main \/ n > Len(main)
    BY <1>0, <2>2, <2>3, ConcatFacts
  <2>5. ASSUME NEW r \in seen, session[r] = "new"
        PROVE  \E k \in DOMAIN main' : /\ main'[k] = Plain("associate", r)
                                       /\ \A n \in DOMAIN main' : IsRelease(main'[n], r) => k < n
    <3>1. PICK k \in DOMAIN main : /\ main[k] = Plain("associate", r)
                                   /\ \A n \in DOMAIN main : IsRelease(main[n], r) => k < n
      BY <2>5 DEF AssociationInv
    <3>2. \A n \in DOMAIN main' : IsRelease(main'[n], r) => k < n
      <4> SUFFICES ASSUME NEW n \in DOMAIN main', IsRelease(main'[n], r)
                   PROVE  k < n
        OBVIOUS
      <4>1. CASE n \in DOMAIN main
        BY <2>4, <3>1, <4>1
      <4>2. CASE n > Len(main)
        <5>1. n \in Nat
          BY <1>0, <2>2, <2>3, ConcatFacts
        <5> QED
          BY <1>0, <4>2, <5>1
      <4> QED
        BY <2>4, <4>1, <4>2
    <3> QED
      BY <2>4, <3>1, <3>2
  <2> QED
    BY <2>1, <2>5 DEF AssociationInv
<1>5. CASE \E q \in Pipes : \/ \E last \in BOOLEAN : ReadInput(q, last)
                            \/ ReceiveRelease(q) \/ Interrupt(q) \/ RouteMessage(q)
  <2>1. UNCHANGED <<seen, session, main>>
    BY <1>5 DEF ReadInput, ReceiveRelease, Interrupt, RouteMessage
  <2> QED
    BY <1>1, <2>1
<1>6. CASE \/ \E p \in Plugins : RunJob(p)
           \/ \E i \in Instances, q \in Pipes, code \in Codes \cup {None} : UnblockLater(i, q, code)
  <2>1. \E i, q, current, ask : Calling(i, q, current, ask)
    BY <1>6, JobFacts, LaterFacts
  <2>2. UNCHANGED <<seen, session, main>>
    BY <2>1, CallingFacts
  <2> QED
    BY <1>1, <2>2
<1>7. CASE (\E p \in Plugins : UnloadPlugin(p)) \/ (\E c \in Clients : RemoveClient(c))
  <2>1. UNCHANGED <<seen, session, main>>
    BY <1>7, RemovalFacts
  <2> QED
    BY <1>1, <2>1
<1>8. CASE ScreenThread
  <2>1. UNCHANGED <<seen, session, main>>
    BY <1>8 DEF ScreenThread
  <2> QED
    BY <1>1, <2>1
<1> QED
  BY <1>2, <1>3, <1>4, <1>5, <1>6, <1>7, <1>8 DEF Next

\* Only the plugin thread sends a release that ends a pipe.
LEMMA FinalBefore ==
  ASSUME PipeAssumption, TypeInv, SeenInv, CallInv, Next, ~PluginThread, NEW q \in Pipes,
         FinalSent(q)'
  PROVE  FinalSent(q) /\ UNCHANGED pending
<1>0. /\ main \in Seq(ToMain) /\ link \in [Pipes -> Seq(Releases)] /\ cli \in [Pipes -> Client]
      /\ None \notin Codes /\ "killed" \notin Codes /\ "done" \notin Codes
  BY DEF TypeInv, QueuesInv, ClientInv, PipeAssumption
<1>1. \/ cli'[q].exit \in Codes
      \/ \E n \in DOMAIN main' : IsRelease(main'[n], q) /\ main'[n].code # None
      \/ \E n \in DOMAIN link'[q] : link'[q][n].pipe = q /\ link'[q][n].code # None
  BY DEF FinalSent
<1>2. CASE UNCHANGED <<cli, main, link, pending>>
  BY <1>1, <1>2 DEF FinalSent
<1>3. CASE \E r \in Pipes : (\E last \in BOOLEAN : ReadInput(r, last)) \/ Interrupt(r)
  <2>1. PICK r \in Pipes : (\E last \in BOOLEAN : ReadInput(r, last)) \/ Interrupt(r)
    BY <1>3
  <2>2. UNCHANGED <<main, link, pending>>
    BY <2>1 DEF ReadInput, Interrupt
  <2>3. \E c \in Client : Turned(r, c) /\ c.exit \in {None, "killed"}
    BY <2>1, ReadFacts, InterruptFacts
  <2>4. cli'[q] = cli[q] \/ cli'[q].exit \in {None, "killed"}
    BY <2>3 DEF Turned
  <2> QED
    BY <1>0, <1>1, <2>2, <2>4 DEF FinalSent
<1>4. CASE \E r \in Pipes : ReceiveRelease(r)
  <2>1. PICK r \in Pipes : ReceiveRelease(r)
    BY <1>4
  <2>2. UNCHANGED <<main, pending>>
    BY <2>1 DEF ReceiveRelease
  <2>3. /\ link[r] # <<>> /\ link' = [link EXCEPT ![r] = Tail(@)]
        /\ \/ UNCHANGED cli
           \/ \E c \in Client :
                /\ Turned(r, c) /\ Head(link[r]).pipe = r
                /\ \/ Head(link[r]).code # None /\ c.exit = Head(link[r]).code
                   \/ c.exit \in {None, "done"}
    BY <2>1, ReceiveFacts
  <2>4. /\ Head(link[r]) = link[r][1] /\ 1 \in DOMAIN link[r]
        /\ \A n \in DOMAIN Tail(link[r]) : n + 1 \in DOMAIN link[r] /\ Tail(link[r])[n] = link[r][n + 1]
    BY <1>0, <2>3, TailFacts
  <2>5. CASE cli'[q].exit \in Codes
    <3>1. \/ cli'[q] = cli[q]
          \/ q = r /\ Head(link[r]).pipe = r /\ Head(link[r]).code # None
          \/ cli'[q].exit \in {None, "done"}
      BY <2>3 DEF Turned
    <3>2. CASE cli'[q] = cli[q]
      BY <2>2, <2>5, <3>2 DEF FinalSent
    <3>3. CASE q = r /\ Head(link[r]).pipe = r /\ Head(link[r]).code # None
      BY <2>2, <2>4, <3>3 DEF FinalSent
    <3> QED
      BY <1>0, <2>5, <3>1, <3>2, <3>3
  <2>6. CASE \E n \in DOMAIN main' : IsRelease(main'[n], q) /\ main'[n].code # None
    BY <2>2, <2>6 DEF FinalSent
  <2>7. CASE \E n \in DOMAIN link'[q] : link'[q][n].pipe = q /\ link'[q][n].code # None
    <3>1. link'[q] = link[q] \/ (q = r /\ link'[q] = Tail(link[r]))
      BY <1>0, <2>3
    <3>2. PICK n \in DOMAIN link'[q] : link'[q][n].pipe = q /\ link'[q][n].code # None
      BY <2>7
    <3>3. CASE link'[q] = link[q]
      <4>1. n \in DOMAIN link[q] /\ link[q][n].pipe = q /\ link[q][n].code # None
        BY <3>2, <3>3
      <4>2. FinalSent(q)
        BY <4>1 DEF FinalSent
      <4> QED
        BY <2>2, <4>2
    <3>4. CASE q = r /\ link'[q] = Tail(link[r])
      <4>1. n + 1 \in DOMAIN link[q] /\ link'[q][n] = link[q][n + 1]
        BY <2>4, <3>2, <3>4
      <4> QED
        BY <2>2, <3>2, <4>1 DEF FinalSent
    <3> QED
      BY <2>2, <3>1, <3>3, <3>4
  <2> QED
    BY <1>1, <2>5, <2>6, <2>7
<1>5. CASE \E r \in Pipes : RouteAssociate(r) \/ RouteExit(r)
  <2>1. PICK r \in Pipes : RouteAssociate(r) \/ RouteExit(r)
    BY <1>5
  <2>2. UNCHANGED <<cli, link, pending>>
    BY <2>1 DEF RouteAssociate, RouteExit, clientVars
  <2>3. PICK m \in ToMain : main' = Append(main, m) /\ m.kind # "release"
    <3>1. Plain("associate", r).kind # "release" /\ Plain("remove", r).kind # "release"
      BY DEF Plain
    <3> QED
      BY <2>1, <3>1, RouterFacts
  <2>4. \A n \in DOMAIN main' : (n \in DOMAIN main /\ main'[n] = main[n]) \/ main'[n] = m
    BY <1>0, <2>3, AppendFacts
  <2>5. \A n \in DOMAIN main' : IsRelease(main'[n], q) => n \in DOMAIN main /\ main'[n] = main[n]
    BY <2>3, <2>4 DEF IsRelease
  <2> QED
    BY <1>1, <2>2, <2>5 DEF FinalSent
<1>6. CASE MainLoop
  <2>1. UNCHANGED <<cli, pending>>
    BY <1>6 DEF MainLoop, clientVars
  <2>2. /\ main # <<>> /\ main' = Tail(main) /\ Head(main) = main[1] /\ 1 \in DOMAIN main
        /\ Head(main) \in ToMain
        /\ \/ link'[q] = link[q]
           \/ Head(main).kind = "release" /\ link'[q] = Append(link[q], Head(main))
    BY <1>6, MainLoopFacts
  <2>3. \A n \in DOMAIN main' : n + 1 \in DOMAIN main /\ main'[n] = main[n + 1]
    BY <1>0, <2>2, TailFacts
  <2>4. CASE \E n \in DOMAIN main' : IsRelease(main'[n], q) /\ main'[n].code # None
    BY <2>1, <2>3, <2>4 DEF FinalSent
  <2>5. CASE \E n \in DOMAIN link'[q] : link'[q][n].pipe = q /\ link'[q][n].code # None
    <3>1. CASE link'[q] = link[q]
      BY <2>1, <2>5, <3>1 DEF FinalSent
    <3>2. CASE Head(main).kind = "release" /\ link'[q] = Append(link[q], Head(main))
      <4>1. Head(main) \in Releases
        BY <2>2, <3>2, MainKindFacts
      <4>2. \A n \in DOMAIN link'[q] :
              (n \in DOMAIN link[q] /\ link'[q][n] = link[q][n]) \/ link'[q][n] = main[1]
        BY <1>0, <2>2, <3>2, <4>1, AppendFacts
      <4>3. PICK n \in DOMAIN link'[q] : link'[q][n].pipe = q /\ link'[q][n].code # None
        BY <2>5
      <4>4. CASE n \in DOMAIN link[q] /\ link'[q][n] = link[q][n]
        BY <2>1, <4>3, <4>4 DEF FinalSent
      <4>5. CASE link'[q][n] = main[1]
        <5>1. IsRelease(main[1], q) /\ main[1].code # None
          BY <2>2, <3>2, <4>3, <4>5 DEF IsRelease
        <5> QED
          BY <2>1, <2>2, <5>1 DEF FinalSent
      <4> QED
        BY <4>2, <4>4, <4>5
    <3> QED
      BY <2>2, <3>1, <3>2
  <2> QED
    BY <1>1, <2>1, <2>4, <2>5 DEF FinalSent
<1>7. CASE \E r \in Pipes : RouteMessage(r)
  <2>1. UNCHANGED <<cli, main, link, pending>>
    BY <1>7 DEF RouteMessage, clientVars
  <2> QED
    BY <1>2, <2>1
<1>8. CASE \/ \E p \in Plugins : RunJob(p)
           \/ \E i \in Instances, r \in Pipes, code \in Codes \cup {None} : UnblockLater(i, r, code)
  <2>1. \E i, r, current, ask : Calling(i, r, current, ask)
    BY <1>8, JobFacts, LaterFacts
  <2>2. UNCHANGED <<cli, main, link, pending>>
    BY <2>1, CallingFacts DEF clientVars
  <2> QED
    BY <1>2, <2>2
<1>9. CASE (\E p \in Plugins : UnloadPlugin(p)) \/ (\E c \in Clients : RemoveClient(c))
  <2>1. UNCHANGED <<cli, main, link, pending>>
    BY <1>9, RemovalFacts DEF clientVars
  <2> QED
    BY <1>2, <2>1
<1>10. CASE ScreenThread
  <2>1. UNCHANGED <<cli, main, link, pending>>
    BY <1>10 DEF ScreenThread, clientVars
  <2> QED
    BY <1>2, <2>1
<1> QED
  BY <1>3, <1>4, <1>5, <1>6, <1>7, <1>8, <1>9, <1>10 DEF Next

\* What the plugin thread does with the releases on their way.
LEMMA PluginReleases ==
  ASSUME PipeAssumption, TypeInv, SeenInv, PluginThread, NEW q \in Pipes
  PROVE  /\ UNCHANGED <<cli, link>>
         /\ pending[q].finished => pending'[q].finished
         /\ \A n \in DOMAIN main' :
              \/ n \in DOMAIN main /\ main'[n] = main[n]
              \/ n \notin DOMAIN main /\ main'[n].pipe # q
              \/ /\ n \notin DOMAIN main /\ ~pending[q].finished
                 /\ main'[n].code # None => pending'[q].finished
<1>1. UNCHANGED <<cli, link>>
  BY DEF PluginThread, clientVars
<1>2. PipesStep
  BY PluginStep
<1>3. PICK new \in Seq(Releases) :
        /\ main' = main \o new
        /\ \A n \in DOMAIN new :
            /\ new[n].pipe \in seen /\ ~pending[new[n].pipe].finished
            /\ new[n].code # None => pending'[new[n].pipe].finished
  BY <1>2 DEF PipesStep
<1>4. new \in Seq(ToMain) /\ main \in Seq(ToMain)
  BY DEF TypeInv, QueuesInv, ToMain
<1>5. \A n \in DOMAIN main' :
            \/ n \in DOMAIN main /\ main'[n] = main[n]
            \/ n - Len(main) \in DOMAIN new /\ main'[n] = new[n - Len(main)] /\ n \notin DOMAIN main
  BY <1>3, <1>4, ConcatFacts
<1> QED
  BY <1>1, <1>2, <1>3, <1>5 DEF PipesStep

\* When the release that ends a pipe has been sent the pipe is finished.
LEMMA NextFinal ==
  ASSUME PipeAssumption, TypeInv, SeenInv, CallInv, FinalInv, Next
  PROVE  FinalInv'
<1> SUFFICES ASSUME NEW q \in Pipes, FinalSent(q)'
             PROVE  pending'[q].finished
  BY DEF FinalInv
<1>1. CASE ~PluginThread
  BY <1>1, FinalBefore DEF FinalInv
<1>2. CASE PluginThread
  <2>1. FinalSent(q) => pending'[q].finished
    BY <1>2, PluginReleases DEF FinalInv
  <2>2. \/ cli'[q].exit \in Codes
        \/ \E n \in DOMAIN main' : IsRelease(main'[n], q) /\ main'[n].code # None
        \/ \E n \in DOMAIN link'[q] : link'[q][n].pipe = q /\ link'[q][n].code # None
    BY DEF FinalSent
  <2>3. UNCHANGED <<cli, link>>
    BY <1>2, PluginReleases
  <2>4. ASSUME NEW n \in DOMAIN main', IsRelease(main'[n], q), main'[n].code # None
        PROVE  pending'[q].finished
    <3>1. CASE n \in DOMAIN main /\ main'[n] = main[n]
      BY <2>1, <2>4, <3>1 DEF FinalSent
    <3> QED
      BY <1>2, <2>4, <3>1, PluginReleases DEF IsRelease
  <2> QED
    BY <2>1, <2>2, <2>3, <2>4 DEF FinalSent
<1> QED
  BY <1>1, <1>2

\* What the calls leave for later, and what they report.
LEMMA NextCall ==
  ASSUME PipeAssumption, TypeInv, SeenInv, CallInv, Next
  PROVE  CallInv'
<1>0. inbox \in Seq(ToPlugins) /\ screen \in Seq(ChangeMessages)
  BY DEF TypeInv, QueuesInv
<1>1. CASE \/ \E p \in Plugins : RunJob(p)
           \/ \E i \in Instances, q \in Pipes, code \in Codes \cup {None} : UnblockLater(i, q, code)
  <2>1. PICK i, q, current, ask : Calling(i, q, current, ask)
    BY <1>1, JobFacts, LaterFacts
  <2>2. UNCHANGED setting
    BY <2>1, CallingFacts
  <2>3. PICK m : Reports(i, q, current, ask, m)
    BY <2>1, CallingFacts
  <2>4. /\ m \in ChangeMessages /\ m.from = i
        /\ i \notin setting.blockers => Harmless(m)
        /\ \A n \in DOMAIN inbox' :
                \/ n \in DOMAIN inbox /\ inbox'[n] = inbox[n]
                \/ inbox'[n] = m
                \/ inbox'[n] \in CodeMessages
        /\ \A n \in DOMAIN screen' :
                \/ n \in DOMAIN screen /\ screen'[n] = screen[n]
                \/ screen'[n] = m
    BY <2>1, <2>3, ReportFacts DEF Calling
  <2>5. \A c \in CodeMessages : c.kind # "changes"
    BY DEF CodeMessages
  <2>6. /\ \A n \in DOMAIN inbox' :
             inbox'[n].kind = "changes" /\ inbox'[n].from \notin setting.blockers => Harmless(inbox'[n])
        /\ \A n \in DOMAIN screen' :
             screen'[n].from \notin setting.blockers => Harmless(screen'[n])
    BY <2>4, <2>5 DEF CallInv
  <2>7. \A j \in Instances :
              /\ j \notin setting.blockers \cap setting.crashers =>
                   to_block'[j] = {} /\ to_unblock'[j] = {}
              /\ j \notin setting.blockers => holding'[j] = {}
    BY <2>1, CallingFacts
  <2> QED
    BY <2>2, <2>6, <2>7 DEF CallInv
<1>2. CASE /\ UNCHANGED <<setting, callVars, screen>>
           /\ \/ UNCHANGED inbox
              \/ inbox # <<>> /\ inbox' = Tail(inbox)
              \/ \E m \in ToPlugins : m.kind # "changes" /\ inbox' = Append(inbox, m)
  <2>1. \A n \in DOMAIN inbox' :
          (\E k \in DOMAIN inbox : inbox'[n] = inbox[k]) \/ inbox'[n].kind # "changes"
    <3>1. CASE UNCHANGED inbox
      BY <3>1
    <3>2. CASE inbox # <<>> /\ inbox' = Tail(inbox)
      <4>1. \A n \in DOMAIN inbox' : n + 1 \in DOMAIN inbox /\ inbox'[n] = inbox[n + 1]
        BY <1>0, <3>2, TailFacts
      <4> QED
        BY <4>1
    <3>3. CASE \E m \in ToPlugins : m.kind # "changes" /\ inbox' = Append(inbox, m)
      BY <1>0, <3>3, AppendFacts
    <3> QED
      BY <1>2, <3>1, <3>2, <3>3
  <2> QED
    BY <1>2, <2>1 DEF CallInv, callVars
<1>3. CASE ScreenThread
  <2>1. /\ UNCHANGED <<setting, callVars>>
        /\ screen # <<>> /\ screen' = Tail(screen) /\ inbox' = Append(inbox, Head(screen))
    BY <1>3 DEF ScreenThread
  <2>2. /\ \A n \in DOMAIN screen' : n + 1 \in DOMAIN screen /\ screen'[n] = screen[n + 1]
        /\ Head(screen) = screen[1] /\ 1 \in DOMAIN screen /\ Head(screen) \in ChangeMessages
    BY <1>0, <2>1, TailFacts
  <2>3. Head(screen) \in ToPlugins
    BY <2>2 DEF ToPlugins
  <2>4. \A n \in DOMAIN inbox' :
          (n \in DOMAIN inbox /\ inbox'[n] = inbox[n]) \/ inbox'[n] = screen[1]
    BY <1>0, <2>1, <2>2, <2>3, AppendFacts
  <2> QED
    BY <2>1, <2>2, <2>4 DEF CallInv, callVars
<1>4. CASE \E q \in Pipes : \/ \E last \in BOOLEAN : ReadInput(q, last)
                            \/ ReceiveRelease(q) \/ Interrupt(q) \/ RouteAssociate(q) \/ RouteExit(q)
  <2>1. UNCHANGED <<setting, callVars, screen, inbox>>
    BY <1>4 DEF ReadInput, ReceiveRelease, Interrupt, RouteAssociate, RouteExit
  <2> QED
    BY <1>2, <2>1
<1>5. CASE \E q \in Pipes : RouteMessage(q)
  <2>1. UNCHANGED <<setting, callVars, screen>>
    BY <1>5 DEF RouteMessage
  <2>2. \E m \in PipeMessages : m \in ToPlugins /\ inbox' = Append(inbox, m)
    BY <1>5, RouterFacts
  <2>3. \A m \in PipeMessages : m.kind # "changes"
    BY DEF PipeMessages
  <2> QED
    BY <1>2, <2>1, <2>2, <2>3
<1>6. CASE MainLoop
  <2>1. UNCHANGED <<setting, callVars, screen, inbox>>
    BY <1>6 DEF MainLoop
  <2> QED
    BY <1>2, <2>1
<1>7. CASE PluginThread
  BY <1>2, <1>7 DEF PluginThread
<1>8. CASE (\E p \in Plugins : UnloadPlugin(p)) \/ (\E c \in Clients : RemoveClient(c))
  <2>1. UNCHANGED <<setting, callVars, screen>>
    BY <1>8, RemovalFacts
  <2>2. \E m \in ToPlugins : m.kind \in {"unload", "remove"} /\ inbox' = Append(inbox, m)
    BY <1>8, RemovalFacts
  <2>3. \E m \in ToPlugins : m.kind # "changes" /\ inbox' = Append(inbox, m)
    BY <2>2
  <2> QED
    BY <1>2, <2>1, <2>3
<1> QED
  BY <1>1, <1>3, <1>4, <1>5, <1>6, <1>7, <1>8 DEF Next

\* As long as nothing is removed or rendered.
LEMMA NextQuiet ==
  ASSUME PipeAssumption, TypeInv, SeenInv, CallInv, QuietInv, Next
  PROVE  QuietInv'
<1>0. /\ inbox \in Seq(ToPlugins) /\ screen \in Seq(ChangeMessages) /\ removals \in Nat
      /\ jobs \in [Plugins -> Seq(Calls)]
  BY DEF TypeInv, QueuesInv, PlainInv
<1>1. CASE UNCHANGED <<setting, screen, inbox, jobs, removals>>
  BY <1>1 DEF QuietInv
<1>2. CASE \E q \in Pipes : \/ \E last \in BOOLEAN : ReadInput(q, last)
                            \/ ReceiveRelease(q) \/ Interrupt(q) \/ RouteAssociate(q) \/ RouteExit(q)
  <2>1. UNCHANGED <<setting, screen, inbox, jobs, removals>>
    BY <1>2 DEF ReadInput, ReceiveRelease, Interrupt, RouteAssociate, RouteExit
  <2> QED
    BY <1>1, <2>1
<1>3. CASE MainLoop
  <2>1. UNCHANGED <<setting, screen, inbox, jobs, removals>>
    BY <1>3 DEF MainLoop
  <2> QED
    BY <1>1, <2>1
<1>4. CASE \E q \in Pipes : RouteMessage(q)
  <2>1. UNCHANGED <<setting, screen, jobs, removals>>
    BY <1>4 DEF RouteMessage
  <2>2. PICK m \in PipeMessages : m \in ToPlugins /\ inbox' = Append(inbox, m)
    BY <1>4, RouterFacts
  <2>3. m \notin Removals
    BY DEF PipeMessages, Removals
  <2>4. \A n \in DOMAIN inbox' : (n \in DOMAIN inbox /\ inbox'[n] = inbox[n]) \/ inbox'[n] = m
    BY <1>0, <2>2, AppendFacts
  <2> QED
    BY <2>1, <2>3, <2>4 DEF QuietInv
<1>5. CASE PluginThread
  <2>1. /\ UNCHANGED <<setting, screen, removals>>
        /\ inbox # <<>> /\ inbox' = Tail(inbox)
    BY <1>5 DEF PluginThread
  <2>2. /\ \A n \in DOMAIN inbox' : n + 1 \in DOMAIN inbox /\ inbox'[n] = inbox[n + 1]
        /\ Head(inbox) = inbox[1] /\ 1 \in DOMAIN inbox /\ Head(inbox) \in ToPlugins
    BY <1>0, <2>1, TailFacts
  <2>3. ASSUME removals = 0, NEW p \in Plugins, NEW n \in DOMAIN jobs'[p]
        PROVE  jobs'[p][n].pipe # None
    <3>1. PICK new \in NewCalls(Head(inbox), p) : jobs'[p] = jobs[p] \o new
      BY <1>5, JobsStep
    <3>2. new \in Seq(Calls) /\ jobs[p] \in Seq(Calls)
      BY <1>0 DEF NewCalls
    <3>3. \/ n \in DOMAIN jobs[p] /\ jobs'[p][n] = jobs[p][n]
          \/ n - Len(jobs[p]) \in DOMAIN new /\ jobs'[p][n] = new[n - Len(jobs[p])]
      BY <2>3, <3>1, <3>2, ConcatFacts
    <3>4. Head(inbox) \notin Removals
      BY <2>2, <2>3 DEF QuietInv
    <3>5. Head(inbox).kind # "unload"
      BY <2>2, <3>4, KindFacts
    <3>6. Head(inbox).kind = "message" => Head(inbox).pipe \in Pipes
      BY <2>2, KindFacts
    <3>7. \A k \in DOMAIN new : new[k].pipe # None
      BY <3>5, <3>6 DEF NewCalls, PipeAssumption
    <3> QED
      BY <2>3, <3>3, <3>7 DEF QuietInv
  <2> QED
    BY <2>1, <2>2, <2>3 DEF QuietInv
<1>6. CASE ScreenThread
  <2>1. /\ UNCHANGED <<setting, jobs, removals>>
        /\ screen # <<>> /\ screen' = Tail(screen) /\ inbox' = Append(inbox, Head(screen))
    BY <1>6 DEF ScreenThread
  <2>2. Head(screen) \in ChangeMessages
    BY <1>0, <2>1, TailFacts
  <2>3. Head(screen) \in ToPlugins /\ Head(screen) \notin Removals
    BY <2>2 DEF ToPlugins, ChangeMessages, Removals
  <2>4. \A n \in DOMAIN inbox' :
          (n \in DOMAIN inbox /\ inbox'[n] = inbox[n]) \/ inbox'[n] = Head(screen)
    BY <1>0, <2>1, <2>3, AppendFacts
  <2> QED
    BY <2>1, <2>3, <2>4 DEF QuietInv
<1>7. CASE (\E p \in Plugins : UnloadPlugin(p)) \/ (\E c \in Clients : RemoveClient(c))
  <2>1. UNCHANGED <<setting, screen>> /\ removals' = removals + 1
    BY <1>7, RemovalFacts
  <2> QED
    BY <1>0, <2>1 DEF QuietInv
<1>8. ASSUME NEW i, NEW q, NEW current, NEW ask, Calling(i, q, current, ask),
             \A p \in Plugins : \A n \in DOMAIN jobs'[p] :
               \E k \in DOMAIN jobs[p] : jobs'[p][n] = jobs[p][k]
      PROVE  QuietInv'
  <2>1. UNCHANGED <<setting, removals>>
    BY <1>8, CallingFacts
  <2>2. PICK m : Reports(i, q, current, ask, m)
    BY <1>8, CallingFacts
  <2>3. /\ m \in ChangeMessages /\ screen' \in Seq(ChangeMessages)
        /\ \A n \in DOMAIN inbox' :
                \/ n \in DOMAIN inbox /\ inbox'[n] = inbox[n]
                \/ inbox'[n] = m
                \/ inbox'[n] \in CodeMessages
    BY <1>8, <2>2, ReportFacts DEF Calling
  <2>4. \A x \in ChangeMessages \cup CodeMessages : x \notin Removals
    BY DEF ChangeMessages, CodeMessages, Removals
  <2>5. setting.panes = {} => UNCHANGED screen
    BY <2>2 DEF Reports
  <2> QED
    BY <1>8, <2>1, <2>3, <2>4, <2>5 DEF QuietInv
<1>9. CASE \E p \in Plugins : RunJob(p)
  <2>1. PICK p \in Plugins : RunJob(p)
    BY <1>9
  <2>2. \E i, q, current, ask : Calling(i, q, current, ask)
    BY <2>1, JobFacts
  <2> QED
    BY <1>8, <2>1, <2>2, TakenJobs
<1>10. CASE \E i \in Instances, q \in Pipes, code \in Codes \cup {None} : UnblockLater(i, q, code)
  <2>1. UNCHANGED jobs /\ \E i, q, current, ask : Calling(i, q, current, ask)
    BY <1>10, LaterFacts
  <2> QED
    BY <1>8, <2>1
<1> QED
  BY <1>2, <1>3, <1>4, <1>5, <1>6, <1>7, <1>9, <1>10 DEF Next

\* A client that has not left is connected.
LEMMA NextConnected ==
  ASSUME PipeAssumption, TypeInv, SeenInv, CallInv, ConnectedInv, Next
  PROVE  ConnectedInv'
<1> SUFFICES ASSUME NEW q \in Pipes, cli'[q].exit = None
             PROVE  /\ \A n \in DOMAIN socket'[q] : socket'[q][n] # 0
                    /\ \A n \in DOMAIN main' : main'[n] # Plain("remove", q)
                    /\ session'[q] # "gone"
  BY DEF ConnectedInv
<1>0. main \in Seq(ToMain) /\ socket \in [Pipes -> Seq(Nat)]
  BY DEF TypeInv, QueuesInv
<1>1. CASE UNCHANGED <<cli, socket, main, session>>
  BY <1>1 DEF ConnectedInv
<1>2. CASE \E r \in Pipes : \/ \E last \in BOOLEAN : ReadInput(r, last)
                            \/ ReceiveRelease(r) \/ Interrupt(r)
  <2>1. PICK r \in Pipes : \/ \E last \in BOOLEAN : ReadInput(r, last)
                           \/ ReceiveRelease(r) \/ Interrupt(r)
    BY <1>2
  <2>2. UNCHANGED <<main, session>>
    BY <2>1 DEF ReadInput, ReceiveRelease, Interrupt
  <2>3. \/ UNCHANGED <<cli, socket>>
        \/ \E c \in Client : Turned(r, c) /\ cli[r].exit = None
    BY <2>1, ReadFacts, InterruptFacts, ReceiveFacts
  <2>4. CASE \E c \in Client : Turned(r, c) /\ cli[r].exit = None
    <3>1. PICK c \in Client : Turned(r, c) /\ cli[r].exit = None
      BY <2>4
    <3>2. cli[q].exit = None
      BY <3>1 DEF Turned
    <3>3. socket'[q] = socket[q] \/ \E n \in Sent : socket'[q] = Append(socket[q], n)
      BY <3>1 DEF Turned
    <3>4. \A n \in DOMAIN socket'[q] : socket'[q][n] # 0
      <4>1. CASE socket'[q] = socket[q]
        BY <3>2, <4>1 DEF ConnectedInv
      <4>2. CASE \E n \in Sent : socket'[q] = Append(socket[q], n)
        <5>1. PICK x \in Sent : socket'[q] = Append(socket[q], x)
          BY <4>2
        <5>2. x \in Nat /\ x # 0
          BY DEF Sent
        <5>3. \A n \in DOMAIN socket'[q] :
                (n \in DOMAIN socket[q] /\ socket'[q][n] = socket[q][n]) \/ socket'[q][n] = x
          BY <1>0, <5>1, <5>2, AppendFacts
        <5> QED
          BY <3>2, <5>2, <5>3 DEF ConnectedInv
      <4> QED
        BY <3>3, <4>1, <4>2
    <3> QED
      BY <2>2, <3>2, <3>4 DEF ConnectedInv
  <2> QED
    BY <1>1, <2>2, <2>3, <2>4
<1>3. CASE \E r \in Pipes : RouteAssociate(r)
  <2>1. PICK r \in Pipes : RouteAssociate(r)
    BY <1>3
  <2>2. UNCHANGED <<cli, socket, session>>
    BY <2>1 DEF RouteAssociate, clientVars
  <2>3. main' = Append(main, Plain("associate", r)) /\ Plain("associate", r) \in ToMain
    BY <2>1, RouterFacts
  <2>4. \A n \in DOMAIN main' :
          (n \in DOMAIN main /\ main'[n] = main[n]) \/ main'[n] = Plain("associate", r)
    BY <1>0, <2>3, AppendFacts
  <2>5. Plain("associate", r) # Plain("remove", q)
    BY DEF Plain
  <2> QED
    BY <2>2, <2>4, <2>5 DEF ConnectedInv
<1>4. CASE \E r \in Pipes : RouteMessage(r) \/ RouteExit(r)
  <2>1. PICK r \in Pipes : RouteMessage(r) \/ RouteExit(r)
    BY <1>4
  <2>2. UNCHANGED <<cli, session>> /\ socket[r] # <<>> /\ socket' = [socket EXCEPT ![r] = Tail(@)]
    BY <2>1 DEF RouteMessage, RouteExit, clientVars
  <2>3. /\ Head(socket[r]) = socket[r][1] /\ 1 \in DOMAIN socket[r]
        /\ \A n \in DOMAIN Tail(socket[r]) :
             n + 1 \in DOMAIN socket[r] /\ Tail(socket[r])[n] = socket[r][n + 1]
    BY <1>0, <2>2, TailFacts
  <2>4. socket'[q] = socket[q] \/ (q = r /\ socket'[q] = Tail(socket[q]))
    BY <1>0, <2>2
  <2>5. \A n \in DOMAIN socket'[q] : socket'[q][n] # 0
    BY <2>2, <2>3, <2>4 DEF ConnectedInv
  <2>6. CASE RouteMessage(r)
    BY <2>2, <2>5, <2>6 DEF RouteMessage, ConnectedInv
  <2>7. CASE RouteExit(r)
    <3>1. main' = Append(main, Plain("remove", r)) /\ Plain("remove", r) \in ToMain
      BY <2>7, RouterFacts
    <3>2. \A n \in DOMAIN main' :
            (n \in DOMAIN main /\ main'[n] = main[n]) \/ main'[n] = Plain("remove", r)
      BY <1>0, <3>1, AppendFacts
    <3>3. r # q
      BY <2>2, <2>3, <2>7 DEF RouteExit, ConnectedInv
    <3>4. Plain("remove", r) # Plain("remove", q)
      BY <3>3 DEF Plain
    <3> QED
      BY <2>2, <2>5, <3>2, <3>4 DEF ConnectedInv
  <2> QED
    BY <2>1, <2>6, <2>7
<1>5. CASE MainLoop
  <2>1. UNCHANGED <<cli, socket>>
    BY <1>5 DEF MainLoop, clientVars
  <2>2. /\ main # <<>> /\ main' = Tail(main) /\ Head(main) = main[1] /\ 1 \in DOMAIN main
        /\ Head(main) \in ToMain
        /\ session'[q] = IF Head(main).pipe = q /\ Head(main).kind = "associate" THEN "associated"
                         ELSE IF Head(main).pipe = q /\ Head(main).kind = "remove" THEN "gone"
                         ELSE session[q]
    BY <1>5, MainLoopFacts
  <2>3. \A n \in DOMAIN main' : n + 1 \in DOMAIN main /\ main'[n] = main[n + 1]
    BY <1>0, <2>2, TailFacts
  <2>4. ~(Head(main).pipe = q /\ Head(main).kind = "remove")
    BY <2>1, <2>2, MainKindFacts DEF ConnectedInv
  <2> QED
    BY <2>1, <2>2, <2>3, <2>4 DEF ConnectedInv
<1>6. CASE PluginThread
  <2>1. UNCHANGED <<cli, socket, session>>
    BY <1>6 DEF PluginThread, clientVars
  <2>2. PICK new \in Seq(Releases) : main' = main \o new
    BY <1>6, PluginStep DEF PipesStep
  <2>3. new \in Seq(ToMain) /\ \A n \in DOMAIN new : new[n].kind = "release"
    <3>1. \A n \in DOMAIN new : new[n] \in Releases
      OBVIOUS
    <3>2. \A m \in Releases : m \in ToMain /\ m.kind = "release"
      BY DEF ToMain, Releases
    <3> QED
      BY <3>1, <3>2
  <2>4. \A n \in DOMAIN main' :
            \/ n \in DOMAIN main /\ main'[n] = main[n]
            \/ n - Len(main) \in DOMAIN new /\ main'[n] = new[n - Len(main)]
    BY <1>0, <2>2, <2>3, ConcatFacts
  <2>5. Plain("remove", q).kind # "release"
    BY DEF Plain
  <2> QED
    BY <2>1, <2>3, <2>4, <2>5 DEF ConnectedInv
<1>7. CASE \/ \E p \in Plugins : RunJob(p)
           \/ \E i \in Instances, r \in Pipes, code \in Codes \cup {None} : UnblockLater(i, r, code)
  <2>1. \E i, r, current, ask : Calling(i, r, current, ask)
    <3>1. CASE \E p \in Plugins : RunJob(p)
      BY <3>1, JobFacts
    <3>2. CASE \E i \in Instances, r \in Pipes, code \in Codes \cup {None} : UnblockLater(i, r, code)
      BY <3>2, LaterFacts
    <3> QED
      BY <1>7, <3>1, <3>2
  <2>2. UNCHANGED <<cli, socket, main, session>>
    BY <2>1, CallingFacts DEF clientVars
  <2> QED
    BY <1>1, <2>2
<1>8. CASE (\E p \in Plugins : UnloadPlugin(p)) \/ (\E c \in Clients : RemoveClient(c))
  <2>1. UNCHANGED <<cli, socket, main, session>>
    BY <1>8, RemovalFacts DEF clientVars
  <2> QED
    BY <1>1, <2>1
<1>9. CASE ScreenThread
  <2>1. UNCHANGED <<cli, socket, main, session>>
    BY <1>9 DEF ScreenThread, clientVars
  <2> QED
    BY <1>1, <2>1
<1> QED
  BY <1>2, <1>3, <1>4, <1>5, <1>6, <1>7, <1>8, <1>9 DEF Next

-----------------------------------------------------------------------------
(* One message at a time *)

\* A queue keeps what it has of a kind.
QueueKept(s, t, T) == (Has(t, T) <=> Has(s, T)) /\ (Once(s, T) => Once(t, T))

\* What keeps of a queue what it has of a kind: adding or taking something of another kind.
LEMMA KeptFacts ==
  ASSUME NEW S, NEW s \in Seq(S)
  PROVE  /\ \A T : QueueKept(s, s, T)
         /\ \A m \in S : \A T : m \notin T => QueueKept(s, Append(s, m), T)
         /\ s # <<>> => \A T : Head(s) \notin T => QueueKept(s, Tail(s), T)
         /\ \A t \in Seq(S) : \A T : ~Has(t, T) => QueueKept(s, s \o t, T)
<1>1. \A T : QueueKept(s, s, T)
  BY DEF QueueKept
<1>2. ASSUME NEW m \in S, NEW T, m \notin T
      PROVE  QueueKept(s, Append(s, m), T)
  BY <1>2, AppendHas DEF QueueKept
<1>3. ASSUME s # <<>>, NEW T, Head(s) \notin T
      PROVE  QueueKept(s, Tail(s), T)
  BY <1>3, TailHas DEF QueueKept
<1>4. ASSUME NEW t \in Seq(S), NEW T, ~Has(t, T)
      PROVE  QueueKept(s, s \o t, T)
  <2>1. Once(t, T)
    BY <1>4 DEF Has, Once
  <2> QED
    BY <1>4, <2>1, ConcatHas DEF QueueKept
<1> QED
  BY <1>1, <1>2, <1>3, <1>4

\* The changes of an instance stay in turn when one more is put behind them, and when the
\* first is taken.
LEMMA InTurnFacts ==
  ASSUME NEW s \in Seq(ToPlugins), NEW q, NEW i, InTurn(s, q, i)
  PROVE  /\ \A m \in ToPlugins :
              (m \in ChangesOf(q, i) =>
                 m \in UnblocksOf(q, i) /\ ~Has(s, ChangesOf(q, i) \ BlocksOf(q, i)))
              => InTurn(Append(s, m), q, i)
         /\ s # <<>> =>
              /\ InTurn(Tail(s), q, i)
              /\ Head(s) \in ChangesOf(q, i) =>
                   /\ Has(Tail(s), ChangesOf(q, i)) => Head(s) \in BlocksOf(q, i)
                   /\ ~Has(Tail(s), ChangesOf(q, i) \ UnblocksOf(q, i))
<1> DEFINE C == ChangesOf(q, i)
           B == BlocksOf(q, i)
           U == UnblocksOf(q, i)
<1>0. \A m, n \in DOMAIN s : m < n /\ s[m] \in C /\ s[n] \in C => s[m] \in B /\ s[n] \in U
  BY DEF InTurn
<1>1. ASSUME NEW m \in ToPlugins, m \in C => m \in U /\ ~Has(s, C \ B)
      PROVE  InTurn(Append(s, m), q, i)
  <2> DEFINE t == Append(s, m)
  <2>1. /\ t[Len(s) + 1] = m /\ Len(s) \in Nat /\ DOMAIN s = 1 .. Len(s)
        /\ DOMAIN t = 1 .. Len(s) + 1
        /\ \A n \in DOMAIN s : t[n] = s[n]
    BY AppendFacts
  <2> HIDE DEF t, C, B, U
  <2>2. m \in C => m \in U /\ \A n \in DOMAIN s : s[n] \in C => s[n] \in B
    BY <1>1 DEF Has
  <2>3. ASSUME NEW k \in DOMAIN t, NEW n \in DOMAIN t, k < n, t[k] \in C, t[n] \in C
        PROVE  t[k] \in B /\ t[n] \in U
    <3>1. k \in DOMAIN s /\ t[k] = s[k]
      BY <2>1, <2>3
    <3>2. CASE n \in DOMAIN s
      BY <1>0, <2>1, <2>3, <3>1, <3>2
    <3>3. CASE n \notin DOMAIN s
      <4>1. t[n] = m
        BY <2>1, <3>3
      <4> QED
        BY <2>2, <2>3, <3>1, <4>1
    <3> QED
      BY <3>2, <3>3
  <2> QED
    BY <2>3 DEF InTurn, t, C, B, U
<1>2. ASSUME s # <<>>
      PROVE  /\ InTurn(Tail(s), q, i)
             /\ Head(s) \in C => (Has(Tail(s), C) => Head(s) \in B) /\ ~Has(Tail(s), C \ U)
  <2> DEFINE t == Tail(s)
  <2>1. /\ Head(s) = s[1] /\ 1 \in DOMAIN s
        /\ \A n \in DOMAIN t : n + 1 \in DOMAIN s /\ t[n] = s[n + 1] /\ n \in Nat \ {0}
    BY <1>2, TailFacts
  <2> HIDE DEF t, C, B, U
  <2>2. \A k, n \in DOMAIN t : k < n /\ t[k] \in C /\ t[n] \in C => t[k] \in B /\ t[n] \in U
    BY <1>0, <2>1
  <2>3. \A n \in DOMAIN t : s[1] \in C /\ t[n] \in C => s[1] \in B /\ t[n] \in U
    BY <1>0, <2>1
  <2>4. InTurn(t, q, i)
    BY <2>2 DEF InTurn, C, B, U
  <2>5. Head(s) \in C => (Has(t, C) => Head(s) \in B) /\ ~Has(t, C \ U)
    BY <2>1, <2>3 DEF Has
  <2> QED
    BY <2>4, <2>5 DEF t
<1> QED
  BY <1>1, <1>2

\* The changes of an instance for a pipe that are under way stay as they are.
ChangesKept(q, i) ==
  /\ InTurn(inbox', q, i)
  /\ Has(inbox', ChangesOf(q, i)) <=> Has(inbox, ChangesOf(q, i))
  /\ Has(inbox', BlocksOf(q, i)) <=> Has(inbox, BlocksOf(q, i))
  /\ Has(inbox', UnblocksOf(q, i)) <=> Has(inbox, UnblocksOf(q, i))
  /\ Has(inbox', ChangesOf(q, i) \ UnblocksOf(q, i)) <=> Has(inbox, ChangesOf(q, i) \ UnblocksOf(q, i))

\* What leaves the changes of an instance as they are: any other message added or taken.
LEMMA ChangesKeptFacts ==
  ASSUME inbox \in Seq(ToPlugins), NEW q, NEW i, InTurn(inbox, q, i)
  PROVE  /\ UNCHANGED inbox => ChangesKept(q, i)
         /\ \A m \in ToPlugins : m \notin ChangesOf(q, i) /\ inbox' = Append(inbox, m) => ChangesKept(q, i)
         /\ inbox # <<>> /\ inbox' = Tail(inbox) /\ Head(inbox) \notin ChangesOf(q, i) => ChangesKept(q, i)
<1>0. BlocksOf(q, i) \subseteq ChangesOf(q, i) /\ UnblocksOf(q, i) \subseteq ChangesOf(q, i)
  BY DEF BlocksOf, UnblocksOf
<1>1. UNCHANGED inbox => ChangesKept(q, i)
  BY DEF ChangesKept
<1>2. ASSUME NEW m \in ToPlugins, m \notin ChangesOf(q, i), inbox' = Append(inbox, m)
      PROVE  ChangesKept(q, i)
  <2>1. InTurn(inbox', q, i)
    BY <1>2, InTurnFacts
  <2>2. \A T : Has(inbox', T) <=> Has(inbox, T) \/ m \in T
    BY <1>2, AppendHas
  <2> QED
    BY <1>0, <1>2, <2>1, <2>2 DEF ChangesKept
<1>3. ASSUME inbox # <<>>, inbox' = Tail(inbox), Head(inbox) \notin ChangesOf(q, i)
      PROVE  ChangesKept(q, i)
  <2>1. InTurn(inbox', q, i)
    BY <1>3, InTurnFacts
  <2>2. \A T : Head(inbox) \notin T => (Has(inbox', T) <=> Has(inbox, T))
    BY <1>3, TailHas
  <2> QED
    BY <1>0, <1>3, <2>1, <2>2 DEF ChangesKept
<1> QED
  BY <1>1, <1>2, <1>3

\* Nothing of a pipe moves.
Unmoved(q) ==
  /\ QueueKept(socket[q], socket'[q], Sent)
  /\ QueueKept(inbox, inbox', MessagesOf(q))
  /\ \A T \in {ReleasesOf(q), FinalOf(q), ReleasesOf(q) \ FinalOf(q)} :
       QueueKept(main, main', T) /\ QueueKept(link[q], link'[q], T)
  /\ pending'[q].info = pending[q].info /\ pending'[q].finished = pending[q].finished
  /\ cli'[q].waiting = cli[q].waiting /\ (cli'[q].exit = None => cli[q].exit = None)

\* A pipe of which nothing moves stays in its turn.
LEMMA UnmovedTurn ==
  ASSUME NEW q \in Pipes, TurnInv(q), FinishedInv(q), Unmoved(q)
  PROVE  TurnInv(q)' /\ FinishedInv(q)'
<1>1. /\ QueueKept(socket[q], socket'[q], Sent)
      /\ QueueKept(inbox, inbox', MessagesOf(q))
      /\ QueueKept(main, main', ReleasesOf(q)) /\ QueueKept(link[q], link'[q], ReleasesOf(q))
      /\ QueueKept(main, main', FinalOf(q)) /\ QueueKept(link[q], link'[q], FinalOf(q))
      /\ QueueKept(main, main', ReleasesOf(q) \ FinalOf(q))
      /\ QueueKept(link[q], link'[q], ReleasesOf(q) \ FinalOf(q))
      /\ pending'[q].info = pending[q].info /\ pending'[q].finished = pending[q].finished
      /\ cli'[q].waiting = cli[q].waiting /\ (cli'[q].exit = None => cli[q].exit = None)
  BY DEF Unmoved
<1>2. Known(q)' <=> Known(q)
  BY <1>1 DEF Known
<1>3. FinishedInv(q)'
  BY <1>1 DEF QueueKept, FinishedInv
<1>4. TurnInv(q)'
  BY <1>1, <1>2 DEF QueueKept, TurnInv, InPlace, OnePlace
<1> QED
  BY <1>3, <1>4

\* Nothing of an instance's share moves.
ShareUnmoved(q, i) ==
  /\ pending'[q].info = pending[q].info
  /\ QueueKept(jobs[i[1]], jobs'[i[1]], CallsFor(q, i))
  /\ ChangesKept(q, i)
  /\ q \in holding'[i] <=> q \in holding[i]

\* An instance of whose share nothing moves has the same share.
LEMMA UnmovedShare ==
  ASSUME NEW q \in Pipes, NEW i \in Instances, ShareInv(q, i), ShareUnmoved(q, i)
  PROVE  ShareInv(q, i)'
BY DEF ShareInv, ShareUnmoved, ChangesKept, QueueKept

\* A pipe of which nothing moves goes on.
LEMMA UnmovedTurning ==
  ASSUME NEW q \in Pipes, Turning(q), Unmoved(q),
         ~pending[q].finished => \A i \in Instances : ShareUnmoved(q, i)
  PROVE  Turning(q)'
<1>1. pending'[q].finished = pending[q].finished
  BY DEF Unmoved
<1>2. TurnInv(q)' /\ FinishedInv(q)'
  BY UnmovedTurn DEF Turning
<1>3. ~pending[q].finished => \A i \in Instances : ShareInv(q, i)'
  BY UnmovedShare DEF Turning
<1> QED
  BY <1>1, <1>2, <1>3 DEF Turning

\* Nothing of the shares moves when calls, changes and entries stay.
LEMMA SharesStay ==
  ASSUME NEW q \in Pipes, NEW i \in Instances, TypeInv, InTurn(inbox, q, i),
         UNCHANGED <<inbox, jobs, holding, pending>>
  PROVE  ShareUnmoved(q, i)
<1>1. ChangesKept(q, i)
  BY ChangesKeptFacts DEF TypeInv, QueuesInv
<1>2. QueueKept(jobs[i[1]], jobs[i[1]], CallsFor(q, i))
  BY DEF QueueKept
<1> QED
  BY <1>1, <1>2 DEF ShareUnmoved

\* The clients' steps.
LEMMA ClientTurning ==
  ASSUME PipeAssumption, TypeInv, FinalInv, NEW r \in Pipes,
         (\E last \in BOOLEAN : ReadInput(r, last)) \/ Interrupt(r) \/ ReceiveRelease(r),
         NEW q \in Pipes, Turning(q)
  PROVE  Turning(q)'
<1>0. /\ socket \in [Pipes -> Seq(Nat)] /\ link \in [Pipes -> Seq(Releases)]
      /\ inbox \in Seq(ToPlugins) /\ main \in Seq(ToMain) /\ 0 \notin Sent
  BY DEF TypeInv, QueuesInv, Sent
<1>1. UNCHANGED <<inbox, jobs, holding, pending, main>>
  BY DEF ReadInput, Interrupt, ReceiveRelease, callVars
<1>2. ~pending[q].finished => \A i \in Instances : ShareUnmoved(q, i)
  BY <1>1, SharesStay DEF Turning, ShareInv
<1>3. ~pending'[q].finished => \A i \in Instances : ShareInv(q, i)'
  BY <1>1, <1>2, UnmovedShare DEF Turning
<1>4. /\ QueueKept(inbox, inbox', MessagesOf(q))
      /\ \A T : QueueKept(main, main', T)
      /\ \A T : QueueKept(link[q], link[q], T)
      /\ \A T : QueueKept(socket[q], socket[q], T)
  BY <1>1 DEF QueueKept
<1>9. /\ QueueKept(socket[q], Append(socket[q], 0), Sent)
      /\ \A n \in Sent : Once(socket[q], Sent) /\ ~Has(socket[q], Sent) =>
           Once(Append(socket[q], n), Sent) /\ Has(Append(socket[q], n), Sent)
  <2>1. socket[q] \in Seq(Nat) /\ 0 \in Nat
    BY <1>0
  <2>2. QueueKept(socket[q], Append(socket[q], 0), Sent)
    BY <1>0, <2>1, KeptFacts
  <2>3. ASSUME NEW n \in Sent, Once(socket[q], Sent), ~Has(socket[q], Sent)
        PROVE  Once(Append(socket[q], n), Sent) /\ Has(Append(socket[q], n), Sent)
    <3>1. n \in Nat
      BY DEF Sent
    <3> QED
      BY <2>1, <2>3, <3>1, AppendHas
  <2> QED
    BY <2>2, <2>3
<1>5. CASE link'[q] = link[q] /\ socket'[q] = socket[q] /\ cli'[q] = cli[q]
  <2>1. Unmoved(q)
    BY <1>1, <1>4, <1>5 DEF Unmoved
  <2> QED
    BY <1>2, <2>1, UnmovedTurning
<1>6. ASSUME NEW c \in Client, Turned(q, c), UNCHANGED link, c.waiting = cli[q].waiting,
             cli[q].exit = None
      PROVE  Turning(q)'
  <2>1. CASE c.exit = None /\ MaySend(c)
    <3>1. PICK n \in Sent : cli'[q].waiting /\ ~c.waiting /\ socket'[q] = Append(socket[q], n)
      BY <1>6, <2>1 DEF Turned
    <3>3. /\ ~cli[q].waiting /\ Once(socket[q], Sent)
          /\ ~Has(socket[q], Sent) /\ ~Has(inbox, MessagesOf(q)) /\ ~Known(q)
          /\ ~Has(main, ReleasesOf(q)) /\ ~Has(link[q], ReleasesOf(q))
          /\ ~pending[q].finished
      BY <1>6, <3>1 DEF Turning, TurnInv, InPlace, FinishedInv
    <3>4. Once(socket'[q], Sent) /\ Has(socket'[q], Sent)
      BY <1>9, <3>1, <3>3
    <3>5. TurnInv(q)'
      BY <1>1, <1>6, <3>1, <3>3, <3>4 DEF Turning, TurnInv, InPlace, OnePlace, Known
    <3>6. FinishedInv(q)'
      BY <1>1, <3>3 DEF FinishedInv
    <3> QED
      BY <1>3, <3>5, <3>6 DEF Turning
  <2>2. CASE ~(c.exit = None /\ MaySend(c))
    <3>1. cli'[q] = c /\ (socket'[q] = socket[q] \/ socket'[q] = Append(socket[q], 0))
      BY <1>6, <2>2 DEF Turned
    <3>2. QueueKept(socket[q], socket'[q], Sent)
      BY <1>4, <1>9, <3>1
    <3>3. Unmoved(q)
      BY <1>1, <1>4, <1>6, <3>1, <3>2 DEF Unmoved
    <3> QED
      BY <1>2, <3>3, UnmovedTurning
  <2> QED
    BY <2>1, <2>2
<1>7. CASE (\E last \in BOOLEAN : ReadInput(r, last)) \/ Interrupt(r)
  <2>1. UNCHANGED link
    BY <1>7 DEF ReadInput, Interrupt
  <2>2. PICK c \in Client : Turned(r, c) /\ c.waiting = cli[r].waiting /\ cli[r].exit = None
    BY <1>7, ReadFacts, InterruptFacts
  <2>3. CASE q = r
    BY <1>6, <2>1, <2>2, <2>3
  <2>4. CASE q # r
    BY <1>5, <2>1, <2>2, <2>4 DEF Turned
  <2> QED
    BY <2>3, <2>4
<1>8. CASE ReceiveRelease(r)
  <2>1. /\ link[r] # <<>> /\ link' = [link EXCEPT ![r] = Tail(@)]
        /\ Head(link[r]) \in Releases
        /\ \/ UNCHANGED <<cli, socket>> /\ (cli[r].exit # None \/ Head(link[r]).pipe # r)
           \/ \E c \in Client :
                /\ Turned(r, c) /\ cli[r].exit = None /\ Head(link[r]).pipe = r
                /\ IF Head(link[r]).code # None
                   THEN c.exit = Head(link[r]).code /\ c.waiting = cli[r].waiting
                   ELSE c.exit \in {None, "done"} /\ ~c.waiting
    BY <1>8, ReceiveFacts
  <2>2. CASE q # r
    <3>1. link'[q] = link[q] /\ socket'[q] = socket[q] /\ cli'[q] = cli[q]
      BY <1>0, <2>1, <2>2 DEF Turned
    <3> QED
      BY <1>5, <3>1
  <2>3. CASE q = r
    <3> DEFINE m == Head(link[q])
    <3>1. link'[q] = Tail(link[q]) /\ link[q] # <<>> /\ m \in Releases
      BY <1>0, <2>1, <2>3
    <3>2. m \in ToMain /\ (m.pipe = q => m \in ReleasesOf(q)) /\ (m.pipe # q => m \notin ReleasesOf(q))
          /\ (m.pipe = q /\ m.code # None => m \in FinalOf(q))
          /\ (m.pipe = q /\ m.code = None => m \in ReleasesOf(q) \ FinalOf(q))
      BY <3>1 DEF ToMain, Releases, ReleasesOf, FinalOf, IsRelease
    <3>3. \A T : /\ Has(link'[q], T) => Has(link[q], T)
                 /\ m \notin T => QueueKept(link[q], link'[q], T)
                 /\ m \in T => Has(link[q], T)
                 /\ Once(link[q], T) => Once(link'[q], T)
                 /\ Once(link[q], T) /\ m \in T => ~Has(link'[q], T)
      BY <1>0, <3>1, TailHas, KeptFacts
    <3>4. FinalOf(q) \subseteq ReleasesOf(q)
      BY DEF FinalOf
    <3> HIDE DEF m
    <3>5. CASE UNCHANGED <<cli, socket>> /\ m.pipe # q
      <4>1. Unmoved(q)
        BY <1>1, <1>4, <3>2, <3>3, <3>4, <3>5 DEF Unmoved
      <4> QED
        BY <1>2, <4>1, UnmovedTurning
    <3>6. CASE UNCHANGED <<cli, socket>> /\ cli[q].exit # None
      <4>1. TurnInv(q)'
        BY <1>1, <3>3, <3>6 DEF Turning, TurnInv, InPlace, OnePlace, Known
      <4>2. FinishedInv(q)'
        BY <1>1, <3>3, <3>6 DEF Turning, FinishedInv
      <4> QED
        BY <1>3, <4>1, <4>2 DEF Turning
    <3>7. ASSUME NEW c \in Client, Turned(q, c), cli[q].exit = None, m.pipe = q,
                 IF m.code # None THEN c.exit = m.code /\ c.waiting = cli[q].waiting
                 ELSE c.exit \in {None, "done"} /\ ~c.waiting
          PROVE  Turning(q)'
      <4>1. /\ Has(link[q], ReleasesOf(q)) /\ ~Has(link'[q], ReleasesOf(q))
            /\ Once(link'[q], ReleasesOf(q)) /\ cli[q].waiting
            /\ ~Has(socket[q], Sent) /\ ~Has(inbox, MessagesOf(q)) /\ ~Known(q)
            /\ ~Has(main, ReleasesOf(q)) /\ Once(socket[q], Sent)
        BY <3>2, <3>3, <3>7 DEF Turning, TurnInv, InPlace, OnePlace
      <4>2. CASE m.code # None
        <5>1. c.exit # None /\ c.waiting
          BY <3>7, <4>1, <4>2
        <5>2. cli'[q] = c /\ socket'[q] = Append(socket[q], 0)
          BY <3>7, <5>1 DEF Turned
        <5>3. QueueKept(socket[q], socket'[q], Sent)
          BY <1>9, <5>2
        <5>4. TurnInv(q)'
          BY <1>1, <4>1, <5>1, <5>2, <5>3
             DEF Turning, TurnInv, InPlace, OnePlace, Known, QueueKept
        <5>5. FinishedInv(q)'
          BY <1>1, <3>3, <5>1, <5>2 DEF Turning, FinishedInv
        <5> QED
          BY <1>3, <5>4, <5>5 DEF Turning
      <4>3. CASE m.code = None
        <5>1. ~pending[q].finished
          BY <3>2, <3>3, <3>7, <4>3 DEF Turning, FinishedInv
        <5>2. FinishedInv(q)'
          BY <1>1, <5>1 DEF FinishedInv
        <5>3. ~c.waiting
          BY <3>7, <4>3
        <5>4. CASE c.exit = None /\ MaySend(c)
          <6>1. PICK n \in Sent : cli'[q].waiting /\ socket'[q] = Append(socket[q], n)
            BY <3>7, <5>4 DEF Turned
          <6>3. Once(socket'[q], Sent) /\ Has(socket'[q], Sent)
            BY <1>9, <4>1, <6>1
          <6>4. TurnInv(q)'
            BY <1>1, <4>1, <6>1, <6>3 DEF Turning, TurnInv, InPlace, OnePlace, Known
          <6> QED
            BY <1>3, <5>2, <6>4 DEF Turning
        <5>5. CASE ~(c.exit = None /\ MaySend(c))
          <6>1. cli'[q] = c /\ (socket'[q] = socket[q] \/ socket'[q] = Append(socket[q], 0))
            BY <3>7, <5>5 DEF Turned
          <6>2. QueueKept(socket[q], socket'[q], Sent)
            BY <1>4, <1>9, <6>1
          <6>3. TurnInv(q)'
            BY <1>1, <4>1, <5>3, <6>1, <6>2
               DEF Turning, TurnInv, InPlace, OnePlace, Known, QueueKept
          <6> QED
            BY <1>3, <5>2, <6>3 DEF Turning
        <5> QED
          BY <5>4, <5>5
      <4> QED
        BY <4>2, <4>3
    <3> QED
      BY <2>1, <2>3, <3>5, <3>6, <3>7 DEF m
  <2> QED
    BY <2>2, <2>3
<1> QED
  BY <1>7, <1>8

\* The router's steps.
LEMMA RouterTurning ==
  ASSUME TypeInv, NEW r \in Pipes, RouteAssociate(r) \/ RouteMessage(r) \/ RouteExit(r),
         NEW q \in Pipes, Turning(q)
  PROVE  Turning(q)'
<1>0. /\ socket \in [Pipes -> Seq(Nat)] /\ socket[q] \in Seq(Nat)
      /\ inbox \in Seq(ToPlugins) /\ main \in Seq(ToMain) /\ 0 \notin Sent
  BY DEF TypeInv, QueuesInv, Sent
<1>1. UNCHANGED <<cli, jobs, holding, pending, link>>
  BY DEF RouteAssociate, RouteMessage, RouteExit, callVars, clientVars
<1>2. /\ \A T : QueueKept(inbox, inbox, T)
      /\ \A T : QueueKept(main, main, T)
      /\ \A T : QueueKept(link[q], link'[q], T)
      /\ \A T : QueueKept(socket[q], socket[q], T)
      /\ \A i : QueueKept(jobs[i[1]], jobs'[i[1]], CallsFor(q, i))
  BY <1>1 DEF QueueKept
<1>3. ASSUME ~pending[q].finished, NEW i \in Instances,
             inbox' = inbox \/ \E m \in ToPlugins : m \notin ChangesOf(q, i) /\ inbox' = Append(inbox, m)
      PROVE  ShareUnmoved(q, i)
  <2>1. InTurn(inbox, q, i)
    BY <1>3 DEF Turning, ShareInv
  <2>2. ChangesKept(q, i)
    BY <1>0, <1>3, <2>1, ChangesKeptFacts
  <2> QED
    BY <1>1, <1>2, <2>2 DEF ShareUnmoved
<1>4. ASSUME NEW m \in ToMain, m.kind # "release", main' = Append(main, m)
      PROVE  \A T \in {ReleasesOf(q), FinalOf(q), ReleasesOf(q) \ FinalOf(q)} : QueueKept(main, main', T)
  <2>1. m \notin ReleasesOf(q) /\ m \notin FinalOf(q)
    BY <1>4 DEF ReleasesOf, FinalOf, IsRelease
  <2> QED
    BY <1>0, <1>4, <2>1, KeptFacts
<1>5. CASE RouteAssociate(r)
  <2>1. UNCHANGED <<socket, inbox>>
    BY <1>5 DEF RouteAssociate
  <2>2. Plain("associate", r) \in ToMain /\ main' = Append(main, Plain("associate", r))
        /\ Plain("associate", r).kind # "release"
    BY <1>5, RouterFacts DEF Plain
  <2>3. Unmoved(q)
    BY <1>1, <1>2, <1>4, <2>1, <2>2 DEF Unmoved
  <2> QED
    BY <1>3, <2>1, <2>3, UnmovedTurning
<1>6. CASE RouteExit(r)
  <2>1. /\ UNCHANGED inbox /\ socket[r] # <<>> /\ Head(socket[r]) = 0
        /\ socket' = [socket EXCEPT ![r] = Tail(@)]
    BY <1>6 DEF RouteExit
  <2>2. Plain("remove", r) \in ToMain /\ main' = Append(main, Plain("remove", r))
        /\ Plain("remove", r).kind # "release"
    BY <1>6, RouterFacts DEF Plain
  <2>3. QueueKept(socket[q], socket'[q], Sent)
    <3>1. socket'[q] = socket[q] \/ (q = r /\ socket'[q] = Tail(socket[q]))
      BY <1>0, <2>1
    <3>2. q = r => QueueKept(socket[q], Tail(socket[q]), Sent)
      BY <1>0, <2>1, KeptFacts
    <3> QED
      BY <1>2, <3>1, <3>2
  <2>4. Unmoved(q)
    BY <1>1, <1>2, <1>4, <2>1, <2>2, <2>3 DEF Unmoved
  <2> QED
    BY <1>3, <2>1, <2>4, UnmovedTurning
<1>7. CASE RouteMessage(r)
  <2>1. UNCHANGED main /\ socket[r] # <<>> /\ socket' = [socket EXCEPT ![r] = Tail(@)]
    BY <1>7 DEF RouteMessage
  <2>2. PICK m \in PipeMessages :
          m.pipe = r /\ inbox' = Append(inbox, m) /\ m \in ToPlugins /\ Head(socket[r]) \in Sent
    BY <1>7, RouterFacts
  <2>3. \A i : m \notin ChangesOf(q, i)
    BY DEF ChangesOf, PipeMessages
  <2>4. m \in MessagesOf(q) <=> q = r
    BY <2>2 DEF MessagesOf, IsMessage, PipeMessages
  <2>5. ~pending[q].finished => \A i \in Instances : ShareUnmoved(q, i)
    BY <1>3, <2>2, <2>3
  <2>6. CASE q # r
    <3>1. socket'[q] = socket[q]
      BY <1>0, <2>1, <2>6
    <3>2. QueueKept(inbox, inbox', MessagesOf(q))
      BY <1>0, <2>2, <2>4, <2>6, KeptFacts
    <3>3. Unmoved(q)
      BY <1>1, <1>2, <2>1, <3>1, <3>2 DEF Unmoved
    <3> QED
      BY <2>5, <3>3, UnmovedTurning
  <2>7. CASE q = r
    <3>1. socket'[q] = Tail(socket[q])
      BY <1>0, <2>1, <2>7
    <3>2. /\ Has(socket[q], Sent) /\ (Once(socket[q], Sent) => ~Has(socket'[q], Sent))
          /\ Once(socket[q], Sent) => Once(socket'[q], Sent)
      BY <1>0, <2>1, <2>2, <2>7, <3>1, TailHas
    <3>3. /\ ~Has(socket'[q], Sent) /\ Once(socket'[q], Sent) /\ cli[q].waiting
          /\ ~Has(inbox, MessagesOf(q)) /\ ~Known(q) /\ Once(inbox, MessagesOf(q))
          /\ ~Has(main, ReleasesOf(q)) /\ ~Has(link[q], ReleasesOf(q))
      BY <3>2 DEF Turning, TurnInv, InPlace, OnePlace
    <3>4. Has(inbox', MessagesOf(q)) /\ Once(inbox', MessagesOf(q))
      BY <1>0, <2>2, <2>4, <2>7, <3>3, AppendHas
    <3>5. TurnInv(q)'
      BY <1>1, <2>1, <3>3, <3>4 DEF Turning, TurnInv, InPlace, OnePlace, Known
    <3>6. FinishedInv(q)'
      BY <1>1, <2>1 DEF Turning, FinishedInv
    <3>7. ~pending'[q].finished => \A i \in Instances : ShareInv(q, i)'
      BY <1>1, <2>5, UnmovedShare DEF Turning
    <3> QED
      BY <3>5, <3>6, <3>7 DEF Turning
  <2> QED
    BY <2>6, <2>7
<1> QED
  BY <1>5, <1>6, <1>7

\* The main loop's steps.
LEMMA MainTurning ==
  ASSUME TypeInv, ConnectedInv, MainLoop, NEW q \in Pipes, Turning(q)
  PROVE  Turning(q)'
<1> DEFINE m == Head(main)
<1>0. /\ link \in [Pipes -> Seq(Releases)] /\ link[q] \in Seq(Releases)
      /\ inbox \in Seq(ToPlugins) /\ main \in Seq(ToMain)
  BY DEF TypeInv, QueuesInv
<1>1. UNCHANGED <<cli, socket, inbox, jobs, holding, pending>>
  BY DEF MainLoop, callVars, clientVars
<1>2. /\ main # <<>> /\ main' = Tail(main) /\ m \in ToMain
      /\ \/ link'[q] = link[q]
         \/ m.kind = "release" /\ link'[q] = Append(link[q], m)
      /\ m.kind = "release" /\ q \in Recipients(m.pipe) => link'[q] = Append(link[q], m)
  BY MainLoopFacts
<1>3. m.kind = "release" => m \in Releases
  BY <1>2, MainKindFacts
<1>4. /\ m \in ReleasesOf(q) <=> m.kind = "release" /\ m.pipe = q
      /\ m \in FinalOf(q) => m \in ReleasesOf(q)
  BY <1>2 DEF ReleasesOf, FinalOf, IsRelease
<1> HIDE DEF m
<1>5. ~pending[q].finished => \A i \in Instances : ShareUnmoved(q, i)
  BY <1>1, SharesStay DEF Turning, ShareInv
<1>6. \A T : /\ Has(main', T) => Has(main, T)
             /\ m \notin T => QueueKept(main, main', T)
             /\ m \in T => Has(main, T)
             /\ Once(main, T) => Once(main', T)
             /\ Once(main, T) /\ m \in T => ~Has(main', T)
  BY <1>0, <1>2, TailHas, KeptFacts DEF m
<1>7. /\ \A T : QueueKept(link[q], link[q], T) /\ QueueKept(socket[q], socket'[q], T)
                /\ QueueKept(inbox, inbox', T)
      /\ m.kind = "release" => \A T : m \notin T => QueueKept(link[q], Append(link[q], m), T)
  BY <1>0, <1>1, <1>3, KeptFacts DEF QueueKept
<1>8. CASE m \notin ReleasesOf(q)
  <2>1. \A T \in {ReleasesOf(q), FinalOf(q), ReleasesOf(q) \ FinalOf(q)} :
          QueueKept(main, main', T) /\ QueueKept(link[q], link'[q], T)
    BY <1>2, <1>4, <1>6, <1>7, <1>8
  <2>2. Unmoved(q)
    BY <1>1, <1>7, <2>1 DEF Unmoved
  <2> QED
    BY <1>5, <2>2, UnmovedTurning
<1>9. CASE m \in ReleasesOf(q)
  <2>1. /\ Has(main, ReleasesOf(q)) /\ ~Has(main', ReleasesOf(q)) /\ Once(main', ReleasesOf(q))
        /\ cli[q].waiting /\ ~Has(socket[q], Sent) /\ ~Has(inbox, MessagesOf(q)) /\ ~Known(q)
        /\ ~Has(link[q], ReleasesOf(q)) /\ Once(link[q], ReleasesOf(q))
        /\ Once(socket[q], Sent) /\ Once(inbox, MessagesOf(q))
    BY <1>6, <1>9 DEF Turning, TurnInv, InPlace, OnePlace
  <2>2. m.kind = "release" /\ m.pipe = q
    BY <1>4, <1>9
  <2>3. CASE link'[q] = Append(link[q], m)
    <3>1. /\ \A T : Has(link'[q], T) <=> Has(link[q], T) \/ m \in T
          /\ Once(link'[q], ReleasesOf(q))
      BY <1>0, <1>3, <2>1, <2>2, <2>3, AppendHas
    <3>2. TurnInv(q)'
      BY <1>1, <1>9, <2>1, <3>1 DEF TurnInv, InPlace, OnePlace, Known
    <3>3. FinishedInv(q)'
      <4> SUFFICES ASSUME pending[q].finished
                   PROVE  /\ cli[q].exit = None => Has(main', FinalOf(q)) \/ Has(link'[q], FinalOf(q))
                          /\ ~Has(main', ReleasesOf(q) \ FinalOf(q))
                          /\ ~Has(link'[q], ReleasesOf(q) \ FinalOf(q))
        BY <1>1, <2>1 DEF FinishedInv
      <4>1. ~Has(main, ReleasesOf(q) \ FinalOf(q)) /\ ~Has(link[q], ReleasesOf(q) \ FinalOf(q))
        BY DEF Turning, FinishedInv
      <4>2. m \in FinalOf(q)
        BY <1>6, <1>9, <4>1
      <4> QED
        BY <1>6, <3>1, <4>1, <4>2
    <3> QED
      BY <1>1, <1>5, <3>2, <3>3, UnmovedShare DEF Turning
  <2>4. CASE link'[q] = link[q] /\ q \notin Recipients(q)
    <3>1. session[q] = "gone"
      BY <2>4 DEF Recipients
    <3>2. cli[q].exit # None
      BY <3>1 DEF ConnectedInv
    <3>3. TurnInv(q)'
      BY <1>1, <2>1, <2>4, <3>2 DEF TurnInv, InPlace, OnePlace, Known
    <3>4. FinishedInv(q)'
      BY <1>1, <1>6, <2>1, <2>4, <3>2 DEF Turning, FinishedInv
    <3> QED
      BY <1>1, <1>5, <3>3, <3>4, UnmovedShare DEF Turning
  <2> QED
    BY <1>2, <2>2, <2>3, <2>4
<1> QED
  BY <1>8, <1>9

\* What is put into the plugin thread's queue by a call that tells it m, when nothing is
\* rendered and nothing is left from earlier calls.
Tells(i, r, ask, m) ==
  /\ m \in ChangeMessages /\ m.from = i /\ DOMAIN m.of = {r}
  /\ m.of[r] = "unblock" <=> ask.unblock
  /\ m.of[r] = "block" <=> ask.block /\ ~ask.unblock
  /\ \E coded \in Seq(ToPlugins) :
       /\ coded = inbox \/ \E c \in CodeMessages : coded = Append(inbox, c)
       /\ inbox' = Append(coded, m)

\* What a call reports, and what its instance then holds, if nothing is left from earlier calls.
LEMMA ExactCall ==
  ASSUME PipeAssumption, TypeInv, SeenInv, CallInv, Undisturbed, NEW i, NEW r, NEW current, NEW ask,
         Calling(i, r, current, ask), current = {r} \/ (current = {} /\ ask.unblock)
  PROVE  /\ \E m : Tells(i, r, ask, m)
         /\ ask.block \/ ask.unblock => i \in setting.blockers
         /\ \A j \in Instances, q \in Pipes :
              (j # i \/ q # r) => (q \in holding'[j] <=> q \in holding[j])
         /\ r \in holding'[i] <=> ~ask.unblock /\ (ask.block \/ r \in holding[i])
<1> DEFINE blocks == IF ask.block THEN {r} ELSE {}
           unblocks == IF ask.unblock THEN {r} ELSE {}
           code == [kind |-> "code", pipe |-> r, code |-> ask.code, by |-> i[1]]
           coded == IF ask.code = None THEN inbox ELSE Append(inbox, code)
           m1 == Changes(i, Drained(i, current, blocks, unblocks))
           m2 == Changes(i, [q \in current |-> "crashed"])
           held == CASE ask.unblock -> holding[i] \ {r}
                     [] ask.block /\ ~ask.unblock -> holding[i] \cup {r}
                     [] OTHER -> holding[i]
<1>1. /\ i \in Instances /\ r \in Pipes /\ current \in SUBSET Pipes /\ ask \in Asks
      /\ Call(i, r, current, ask)
  BY DEF Calling
<1>2. to_block[i] = {} /\ to_unblock[i] = {}
  BY <1>1 DEF Undisturbed, CallInv
<1>3. i[1] \notin setting.panes
  BY DEF Undisturbed
<1>4. to_block[i] \cup (IF ask.block THEN {r} ELSE {}) = blocks
      /\ to_unblock[i] \cup (IF ask.unblock THEN {r} ELSE {}) = unblocks
  BY <1>2
<1>5. /\ ask.block \/ ask.unblock => i \in setting.blockers
      /\ holding' = [holding EXCEPT ![i] = held]
      /\ \/ inbox' = Append(coded, m1)
         \/ i \in setting.crashers /\ inbox' = IF current = {} THEN coded ELSE Append(coded, m2)
  BY <1>1, <1>3, <1>4 DEF Call
<1>6. /\ ask.block \in BOOLEAN /\ ask.unblock \in BOOLEAN /\ ask.code \in ExitCode
      /\ inbox \in Seq(ToPlugins) /\ holding \in [Instances -> SUBSET Pipes]
  BY <1>1 DEF Asks, ExitCode, TypeInv, QueuesInv, PlainInv
<1>7. coded \in Seq(ToPlugins) /\ (coded = inbox \/ \E c \in CodeMessages : coded = Append(inbox, c))
  <2>1. CASE ask.code = None
    BY <1>6, <2>1
  <2>2. CASE ask.code # None
    <3>1. code \in CodeMessages
      BY <1>1, <1>6, <2>2 DEF CodeMessages, ExitCode, Instances
    <3>2. code \in ToPlugins
      BY <3>1 DEF ToPlugins
    <3> HIDE DEF code
    <3>3. Append(inbox, code) \in Seq(ToPlugins)
      BY <1>6, <3>2, AppendFacts
    <3> QED
      BY <2>2, <3>1, <3>3
  <2> QED
    BY <2>1, <2>2
<1>8. /\ \A j \in Instances, q \in Pipes :
           (j # i \/ q # r) => (q \in holding'[j] <=> q \in holding[j])
      /\ r \in holding'[i] <=> ~ask.unblock /\ (ask.block \/ r \in holding[i])
  BY <1>1, <1>5, <1>6
<1>9. Drains(m1, i, current, blocks, unblocks)
  <2>1. m1 = Changes(i, Drained(i, current, blocks, unblocks))
    OBVIOUS
  <2>2. blocks \in SUBSET Pipes /\ unblocks \in SUBSET Pipes
    BY <1>1
  <2> HIDE DEF m1, blocks, unblocks
  <2> QED
    BY <1>1, <2>1, <2>2, DrainedFacts
<1>10. /\ m2 \in ChangeMessages /\ m2.from = i /\ DOMAIN m2.of = current
       /\ \A q \in DOMAIN m2.of : m2.of[q] = "crashed"
  BY <1>1, CrashedFacts
<1> HIDE DEF coded, m1, m2, held
<1>11. \E m : Tells(i, r, ask, m)
  <2>1. CASE inbox' = Append(coded, m1)
    <3>1. /\ m1 \in ChangeMessages /\ m1.from = i
          /\ DOMAIN m1.of = current \cup blocks \cup unblocks
          /\ \A q \in unblocks : m1.of[q] = "unblock"
          /\ \A q \in blocks \ unblocks : m1.of[q] = "block"
          /\ \A q \in current \ (blocks \cup unblocks) : m1.of[q] = "no change"
      BY <1>9 DEF Drains
    <3>2. DOMAIN m1.of = {r}
      BY <3>1
    <3>3. /\ ask.unblock => m1.of[r] = "unblock"
          /\ ask.block /\ ~ask.unblock => m1.of[r] = "block"
          /\ ~ask.block /\ ~ask.unblock => m1.of[r] = "no change"
      BY <3>1
    <3>4. /\ m1.of[r] = "unblock" <=> ask.unblock
          /\ m1.of[r] = "block" <=> ask.block /\ ~ask.unblock
      BY <3>3
    <3>5. Tells(i, r, ask, m1)
      BY <1>7, <2>1, <3>1, <3>2, <3>4 DEF Tells
    <3> QED
      BY <3>5
  <2>2. CASE i \in setting.crashers /\ inbox' = IF current = {} THEN coded ELSE Append(coded, m2)
    <3>1. ~ask.block /\ ~ask.unblock
      BY <1>5, <2>2 DEF Undisturbed
    <3>2. current = {r} /\ current # {}
      BY <3>1
    <3>3. DOMAIN m2.of = {r} /\ m2.of[r] = "crashed"
      BY <1>10, <3>2
    <3>4. /\ m2.of[r] = "unblock" <=> ask.unblock
          /\ m2.of[r] = "block" <=> ask.block /\ ~ask.unblock
      BY <3>1, <3>3
    <3>5. Tells(i, r, ask, m2)
      BY <1>7, <1>10, <2>2, <3>2, <3>3, <3>4 DEF Tells
    <3> QED
      BY <3>5
  <2> QED
    BY <1>5, <2>1, <2>2
<1> QED
  BY <1>5, <1>8, <1>11

\* The queue of the plugin thread then.
LEMMA TellFacts ==
  ASSUME TypeInv, NEW i, NEW r, NEW ask, NEW m, Tells(i, r, ask, m)
  PROVE  /\ \A q : QueueKept(inbox, inbox', MessagesOf(q))
         /\ \A q, j : InTurn(inbox, q, j) /\ m \notin ChangesOf(q, j) => ChangesKept(q, j)
         /\ \A q, j : \A T \in SUBSET ChangesOf(q, j) : Has(inbox', T) <=> Has(inbox, T) \/ m \in T
         /\ \A q, j : /\ InTurn(inbox, q, j)
                      /\ \/ m \in UnblocksOf(q, j) /\ ~Has(inbox, ChangesOf(q, j) \ BlocksOf(q, j))
                         \/ ~Has(inbox, ChangesOf(q, j))
                      => InTurn(inbox', q, j)
<1>1. inbox \in Seq(ToPlugins) /\ m \in ChangeMessages /\ m \in ToPlugins
  BY DEF TypeInv, QueuesInv, Tells, ToPlugins
<1>2. PICK coded \in Seq(ToPlugins) :
        /\ coded = inbox \/ \E c \in CodeMessages : coded = Append(inbox, c)
        /\ inbox' = Append(coded, m)
  BY DEF Tells
<1>3. /\ \A q : m \notin MessagesOf(q)
      /\ \A c \in CodeMessages : \A q : c \notin MessagesOf(q) /\ \A j : c \notin ChangesOf(q, j)
  BY <1>1 DEF MessagesOf, IsMessage, ChangesOf, ChangeMessages, CodeMessages
<1>4. \A T : T \cap CodeMessages = {} => QueueKept(inbox, coded, T)
  <2>1. CASE coded = inbox
    BY <2>1 DEF QueueKept
  <2>2. CASE coded # inbox
    <3>1. PICK c \in CodeMessages : coded = Append(inbox, c)
      BY <1>2, <2>2
    <3>2. c \in ToPlugins
      BY DEF ToPlugins
    <3> QED
      BY <1>1, <3>1, <3>2, KeptFacts
  <2> QED
    BY <2>1, <2>2
<1>5. \A T : Has(inbox', T) <=> Has(coded, T) \/ m \in T
  BY <1>1, <1>2, AppendHas
<1>6. \A q : QueueKept(inbox, inbox', MessagesOf(q))
  <2>1. \A q : QueueKept(coded, inbox', MessagesOf(q))
    BY <1>1, <1>2, <1>3, KeptFacts
  <2>2. \A q : MessagesOf(q) \cap CodeMessages = {}
    BY <1>3
  <2>3. \A q : QueueKept(inbox, coded, MessagesOf(q))
    BY <1>4, <2>2
  <2> QED
    BY <2>1, <2>3 DEF QueueKept
<1>7. ASSUME NEW q, NEW j, NEW T \in SUBSET ChangesOf(q, j)
      PROVE  Has(inbox', T) <=> Has(inbox, T) \/ m \in T
  <2>1. T \cap CodeMessages = {}
    BY <1>3
  <2> QED
    BY <1>4, <1>5, <2>1 DEF QueueKept
<1>8. \A q, j : InTurn(inbox, q, j) => InTurn(coded, q, j)
  <2>1. CASE coded = inbox
    BY <2>1
  <2>2. CASE coded # inbox
    <3>1. PICK c \in CodeMessages : coded = Append(inbox, c)
      BY <1>2, <2>2
    <3>2. c \in ToPlugins
      BY DEF ToPlugins
    <3> QED
      BY <1>1, <1>3, <3>1, <3>2, InTurnFacts
  <2> QED
    BY <2>1, <2>2
<1>9. ASSUME NEW q, NEW j, InTurn(inbox, q, j),
             m \in ChangesOf(q, j) =>
               m \in UnblocksOf(q, j) /\ ~Has(inbox, ChangesOf(q, j) \ BlocksOf(q, j))
      PROVE  InTurn(inbox', q, j)
  <2>1. InTurn(coded, q, j)
    BY <1>8, <1>9
  <2>2. (ChangesOf(q, j) \ BlocksOf(q, j)) \cap CodeMessages = {}
    BY <1>3
  <2>3. Has(coded, ChangesOf(q, j) \ BlocksOf(q, j)) => Has(inbox, ChangesOf(q, j) \ BlocksOf(q, j))
    BY <1>4, <2>2 DEF QueueKept
  <2> QED
    BY <1>1, <1>2, <1>9, <2>1, <2>3, InTurnFacts
<1>10. ASSUME NEW q, NEW j, InTurn(inbox, q, j), ~Has(inbox, ChangesOf(q, j))
       PROVE  InTurn(inbox', q, j)
  <2>1. ChangesOf(q, j) \cap CodeMessages = {}
    BY <1>3
  <2>2. ~Has(coded, ChangesOf(q, j))
    BY <1>4, <1>10, <2>1 DEF QueueKept
  <2>3. /\ Len(coded) \in Nat /\ DOMAIN coded = 1 .. Len(coded)
        /\ DOMAIN inbox' = 1 .. Len(coded) + 1
        /\ \A n \in DOMAIN coded : inbox'[n] = coded[n]
    BY <1>1, <1>2, AppendFacts
  <2>4. \A n \in DOMAIN coded : inbox'[n] \notin ChangesOf(q, j)
    BY <2>2, <2>3 DEF Has
  <2>5. \A k, n \in DOMAIN inbox' : k < n => inbox'[k] \notin ChangesOf(q, j)
    BY <2>3, <2>4
  <2> QED
    BY <2>5 DEF InTurn
<1>11. ASSUME NEW q, NEW j, InTurn(inbox, q, j), m \notin ChangesOf(q, j)
       PROVE  ChangesKept(q, j)
  <2>1. InTurn(inbox', q, j)
    BY <1>9, <1>11
  <2>2. BlocksOf(q, j) \subseteq ChangesOf(q, j) /\ UnblocksOf(q, j) \subseteq ChangesOf(q, j)
    BY DEF BlocksOf, UnblocksOf
  <2>3. \A T \in SUBSET ChangesOf(q, j) : Has(inbox', T) <=> Has(inbox, T)
    BY <1>7, <1>11
  <2> QED
    BY <2>1, <2>2, <2>3 DEF ChangesKept
<1> QED
  BY <1>6, <1>7, <1>9, <1>10, <1>11

\* Only its pipe and its instance are concerned by it.
LEMMA ToldFacts ==
  ASSUME TypeInv, NEW i, NEW r, NEW ask, NEW m, Tells(i, r, ask, m)
  PROVE  /\ \A q, j : m \in ChangesOf(q, j) <=> q = r /\ j = i
         /\ m \in UnblocksOf(r, i) <=> ask.unblock
         /\ m \in BlocksOf(r, i) <=> ask.block /\ ~ask.unblock
<1>1. /\ m \in ChangeMessages /\ m.from = i /\ DOMAIN m.of = {r}
      /\ m.of[r] = "unblock" <=> ask.unblock
      /\ m.of[r] = "block" <=> ask.block /\ ~ask.unblock
  BY DEF Tells
<1>2. m \in ToPlugins /\ m.kind = "changes"
  BY <1>1 DEF ToPlugins, ChangeMessages
<1>3. \A q, j : m \in ChangesOf(q, j) <=> q = r /\ j = i
  BY <1>1, <1>2 DEF ChangesOf
<1> QED
  BY <1>1, <1>3 DEF UnblocksOf, BlocksOf

\* The share of the instance after the call that handles a message.
LEMMA JobShare ==
  ASSUME TypeInv, NEW i \in Instances, NEW r \in Pipes, NEW ask, NEW m, Tells(i, r, ask, m),
         ask.block \in BOOLEAN, ask.unblock \in BOOLEAN,
         UNCHANGED pending, ShareInv(r, i), jobs[i[1]] \in Seq(Calls), jobs[i[1]] # <<>>,
         jobs'[i[1]] = Tail(jobs[i[1]]), Head(jobs[i[1]]) \in CallsFor(r, i),
         r \in holding'[i] => ~ask.unblock /\ (ask.block \/ r \in holding[i])
  PROVE  ShareInv(r, i)'
<1> DEFINE s == jobs[i[1]]
           C == CallsFor(r, i)
<1>1. /\ Once(s, C) /\ InTurn(inbox, r, i)
      /\ Has(s, C) => /\ i \in pending[r].info.processing /\ ~Has(inbox, ChangesOf(r, i))
                      /\ r \notin holding[i]
  BY DEF ShareInv
<1>2. Has(s, C) /\ Once(jobs'[i[1]], C) /\ ~Has(jobs'[i[1]], C)
  <2>1. s \in Seq(Calls) /\ s # <<>> /\ jobs'[i[1]] = Tail(s) /\ Head(s) \in C
    OBVIOUS
  <2> HIDE DEF s, C
  <2> QED
    BY <1>1, <2>1, TailHas
<1>3. /\ i \in pending'[r].info.processing /\ ~Has(inbox, ChangesOf(r, i))
      /\ r \notin holding[i]
  BY <1>1, <1>2
<1>4. InTurn(inbox', r, i)
  BY <1>1, <1>3, TellFacts
<1>5. r \in holding'[i] => ~Has(inbox', UnblocksOf(r, i)) /\ Has(inbox', BlocksOf(r, i))
  <2>1. UnblocksOf(r, i) \in SUBSET ChangesOf(r, i) /\ BlocksOf(r, i) \in SUBSET ChangesOf(r, i)
    BY DEF UnblocksOf, BlocksOf
  <2>2. /\ Has(inbox', UnblocksOf(r, i)) <=> Has(inbox, UnblocksOf(r, i)) \/ m \in UnblocksOf(r, i)
        /\ Has(inbox', BlocksOf(r, i)) <=> Has(inbox, BlocksOf(r, i)) \/ m \in BlocksOf(r, i)
    BY <2>1, TellFacts
  <2>3. ~Has(inbox, UnblocksOf(r, i))
    BY <1>3, <2>1 DEF Has
  <2> QED
    BY <1>3, <2>2, <2>3, ToldFacts
<1> QED
  BY <1>2, <1>3, <1>4, <1>5 DEF ShareInv

\* Its share after it has unblocked the pipe later.
LEMMA LaterShare ==
  ASSUME TypeInv, NEW i \in Instances, NEW r \in Pipes, NEW ask, NEW m, Tells(i, r, ask, m),
         ask.unblock, UNCHANGED <<pending, jobs>>, ShareInv(r, i), r \in holding[i],
         r \notin holding'[i]
  PROVE  ShareInv(r, i)'
<1> DEFINE C == ChangesOf(r, i)
           B == BlocksOf(r, i)
           U == UnblocksOf(r, i)
           handles == i \in pending[r].info.processing
           blocked == pending[r].info.blocked
<1>1. /\ Once(jobs[i[1]], CallsFor(r, i)) /\ ~Has(jobs[i[1]], CallsFor(r, i))
      /\ InTurn(inbox, r, i) /\ ~Has(inbox, U)
      /\ handles => Has(inbox, B)
      /\ ~handles => blocked
      /\ Has(inbox, C) /\ ~handles => ~Has(inbox, C \ U)
  BY DEF ShareInv
<1>2. B \subseteq C /\ U \subseteq C
  BY DEF BlocksOf, UnblocksOf
<1>3. ~Has(inbox, C \ B)
  <2> SUFFICES ASSUME NEW n \in DOMAIN inbox, inbox[n] \in C \ B
               PROVE  FALSE
    BY DEF Has
  <2>1. Has(inbox, C) /\ inbox[n] \notin U
    BY <1>1 DEF Has
  <2>2. handles
    BY <1>1, <1>2, <2>1 DEF Has
  <2>3. PICK k \in DOMAIN inbox : inbox[k] \in B
    BY <1>1, <2>2 DEF Has
  <2>4. k \in Nat /\ n \in Nat /\ k # n
    <3>1. inbox \in Seq(ToPlugins)
      BY DEF TypeInv, QueuesInv
    <3> QED
      BY <2>3, <3>1
  <2>5. k < n \/ n < k
    BY <2>4
  <2> QED
    BY <1>1, <1>2, <2>1, <2>3, <2>5 DEF InTurn
<1>4. m \in U /\ m \in C
  BY <1>2, ToldFacts
<1>5. InTurn(inbox', r, i)
  BY <1>1, <1>3, <1>4, TellFacts
<1>6. Has(inbox', C \ U) <=> Has(inbox, C \ U)
  <2>1. C \ U \in SUBSET C
    OBVIOUS
  <2> QED
    BY <1>4, <2>1, TellFacts
<1>7. Has(inbox, C \ U) => Has(inbox, C)
  BY DEF Has
<1> QED
  BY <1>1, <1>5, <1>6, <1>7 DEF ShareInv

\* Whatever else is under way stays as it is.
LEMMA ToldTurning ==
  ASSUME PipeAssumption, TypeInv, SeenInv, CallInv, Undisturbed, NEW i, NEW r, NEW current,
         NEW ask, Calling(i, r, current, ask), current = {r} \/ (current = {} /\ ask.unblock),
         NEW q \in Pipes, Turning(q),
         \A j \in Instances : (q # r \/ j # i) =>
           QueueKept(jobs[j[1]], jobs'[j[1]], CallsFor(q, j)),
         q = r /\ ~pending[q].finished => ShareInv(r, i)'
  PROVE  Turning(q)'
<1>1. UNCHANGED <<setting, clientVars, socket, seen, main, session, link, pending, running,
                  removals>>
  BY CallingFacts
<1>2. PICK m : Tells(i, r, ask, m)
  BY ExactCall
<1>3. Unmoved(q)
  <2>1. UNCHANGED <<cli, socket, main, link, pending>>
    BY <1>1 DEF clientVars
  <2>2. QueueKept(inbox, inbox', MessagesOf(q))
    BY <1>2, TellFacts
  <2>3. /\ QueueKept(socket[q], socket'[q], Sent)
        /\ \A T \in {ReleasesOf(q), FinalOf(q), ReleasesOf(q) \ FinalOf(q)} :
             QueueKept(main, main', T) /\ QueueKept(link[q], link'[q], T)
    BY <2>1 DEF QueueKept
  <2> QED
    BY <2>1, <2>2, <2>3 DEF Unmoved
<1>4. TurnInv(q)' /\ FinishedInv(q)' /\ pending' = pending
  BY <1>1, <1>3, UnmovedTurn DEF Turning
<1>5. ASSUME ~pending[q].finished, NEW j \in Instances
      PROVE  ShareInv(q, j)'
  <2>1. CASE q = r /\ j = i
    BY <1>5, <2>1
  <2>2. CASE q # r \/ j # i
    <3>1. ShareInv(q, j) /\ InTurn(inbox, q, j)
      BY <1>5 DEF Turning, ShareInv
    <3>2. ChangesKept(q, j)
      BY <1>2, <2>2, <3>1, ToldFacts, TellFacts
    <3>3. q \in holding'[j] <=> q \in holding[j]
      BY <2>2, ExactCall
    <3>4. ShareUnmoved(q, j)
      BY <1>4, <2>2, <3>2, <3>3 DEF ShareUnmoved
    <3> QED
      BY <3>1, <3>4, UnmovedShare
  <2> QED
    BY <2>1, <2>2
<1> QED
  BY <1>4, <1>5 DEF Turning

\* The plugins' calls.
LEMMA CallTurning ==
  ASSUME PipeAssumption, TypeInv, SeenInv, CallInv, QuietInv, Undisturbed, NEW q \in Pipes,
         \A t \in Pipes : Turning(t),
         \/ \E p \in Plugins : RunJob(p)
         \/ \E i \in Instances, r \in Pipes, code \in Codes \cup {None} : UnblockLater(i, r, code)
  PROVE  Turning(q)'
<1>1. ASSUME NEW p \in Plugins, RunJob(p)
      PROVE  Turning(q)'
  <2> DEFINE job == Head(jobs[p])
  <2>1. /\ jobs[p] # <<>> /\ jobs[p] \in Seq(Calls) /\ job \in Calls /\ job.on[1] = p
        /\ job = jobs[p][1] /\ 1 \in DOMAIN jobs[p]
    BY <1>1, JobFacts, TailFacts
  <2>2. job.pipe # None
    BY <2>1 DEF QuietInv, Undisturbed
  <2>3. PICK i, r : i = job.on /\ r = job.pipe
    OBVIOUS
  <2>4. \E ask \in Asks : Calling(i, r, {r}, ask)
    <3>1. PICK x \in Pipes, current \in SUBSET Pipes, ask \in Asks :
            Calling(job.on, x, current, ask) /\ x = job.pipe /\ current = {x}
      BY <1>1, <2>2, JobFacts
    <3>2. Calling(i, r, {r}, ask)
      BY <2>3, <3>1
    <3> QED
      BY <3>2
  <2>10. PICK ask \in Asks : Calling(i, r, {r}, ask)
    BY <2>4
  <2>11. i \in Instances /\ i[1] = p /\ r \in Pipes
    BY <2>1, <2>2, <2>3, <2>10 DEF Calls
  <2>5. job \in CallsFor(r, i) /\ \A t, j : job \in CallsFor(t, j) => t = r /\ j = i
    BY <2>1, <2>3 DEF CallsFor
  <2>6. jobs'[p] = Tail(jobs[p]) /\ \A o \in Plugins \ {p} : jobs'[o] = jobs[o]
    BY <1>1, TakenJobs
  <2> HIDE DEF job
  <2>7. ASSUME NEW j \in Instances, q # r \/ j # i
        PROVE  QueueKept(jobs[j[1]], jobs'[j[1]], CallsFor(q, j))
    <3>1. j[1] \in Plugins /\ job \notin CallsFor(q, j)
      BY <2>5, <2>7 DEF Instances
    <3>2. CASE j[1] = p
      BY <2>1, <2>6, <3>1, <3>2, KeptFacts DEF job
    <3>3. CASE j[1] # p
      BY <2>6, <3>1, <3>3 DEF QueueKept
    <3> QED
      BY <3>2, <3>3
  <2>8. ASSUME q = r, ~pending[q].finished
        PROVE  ShareInv(r, i)'
    <3>1. PICK m : Tells(i, r, ask, m)
      BY <2>10, ExactCall
    <3>2. r \in holding'[i] <=> ~ask.unblock /\ (ask.block \/ r \in holding[i])
      BY <2>10, ExactCall
    <3>3. ask.block \in BOOLEAN /\ ask.unblock \in BOOLEAN
      BY DEF Asks
    <3>4. ShareInv(r, i)
      BY <2>8, <2>11 DEF Turning
    <3>5. UNCHANGED pending
      BY <2>10, CallingFacts
    <3>6. /\ jobs[i[1]] \in Seq(Calls) /\ jobs[i[1]] # <<>> /\ jobs'[i[1]] = Tail(jobs[i[1]])
          /\ Head(jobs[i[1]]) \in CallsFor(r, i)
      BY <2>1, <2>5, <2>6, <2>11 DEF job
    <3> QED
      BY <2>11, <3>1, <3>2, <3>3, <3>4, <3>5, <3>6, JobShare
  <2> QED
    BY <2>7, <2>8, <2>10, <2>11, ToldTurning
<1>2. ASSUME NEW i \in Instances, NEW r \in Pipes, NEW code \in Codes \cup {None},
             UnblockLater(i, r, code)
      PROVE  Turning(q)'
  <2> DEFINE ask == [block |-> FALSE, unblock |-> TRUE, code |-> code]
  <2>1. Calling(i, r, {}, ask) /\ UNCHANGED jobs /\ r \in holding[i]
    BY <1>2, LaterFacts
  <2>2. ask.unblock
    OBVIOUS
  <2> HIDE DEF ask
  <2>3. \A j \in Instances : QueueKept(jobs[j[1]], jobs'[j[1]], CallsFor(q, j))
    BY <2>1 DEF QueueKept
  <2>4. ASSUME q = r, ~pending[q].finished
        PROVE  ShareInv(r, i)'
    <3>1. PICK m : Tells(i, r, ask, m)
      BY <2>1, <2>2, ExactCall
    <3>2. r \notin holding'[i]
      BY <2>1, <2>2, ExactCall
    <3>3. ShareInv(r, i)
      BY <2>4 DEF Turning
    <3>4. UNCHANGED pending
      BY <2>1, CallingFacts
    <3> QED
      BY <2>1, <2>2, <3>1, <3>2, <3>3, <3>4, LaterShare
  <2> QED
    BY <2>1, <2>2, <2>3, <2>4, ToldTurning
<1> QED
  BY <1>1, <1>2

\* What is sent of a pipe: nothing, or one release.
LEMMA SendsFacts ==
  ASSUME PipeAssumption, NEW result, NEW new, Sends(new, result), NEW q \in Pipes
  PROVE  /\ (q \in DOMAIN result => result[q].out = <<>>) => \A T \in SUBSET ReleasesOf(q) : ~Has(new, T)
         /\ q \in DOMAIN result /\ result[q].out # <<>> =>
              /\ Has(new, ReleasesOf(q)) /\ Once(new, ReleasesOf(q))
              /\ result[q].out[1] # None =>
                   Has(new, FinalOf(q)) /\ ~Has(new, ReleasesOf(q) \ FinalOf(q))
<1>1. /\ new \in Seq(Releases)
      /\ \A n \in DOMAIN new : new[n] \in Releases /\ new[n] \in ToMain
      /\ \A n \in DOMAIN new :
           /\ new[n].pipe \in DOMAIN result /\ result[new[n].pipe].out # <<>>
           /\ new[n] = Released(new[n].pipe, result[new[n].pipe].out[1])
      /\ \A r \in DOMAIN result : result[r].out # <<>> =>
           \E n \in DOMAIN new : new[n] = Released(r, result[r].out[1])
      /\ \A k, n \in DOMAIN new : new[k].pipe = new[n].pipe => k = n
  BY DEF Sends, ToMain
<1>2. \A r, c : Released(r, c).kind = "release" /\ Released(r, c).pipe = r /\ Released(r, c).code = c
  BY DEF Released
<1>3. \A n \in DOMAIN new : new[n] \in ReleasesOf(q) <=> new[n].pipe = q
  BY <1>1 DEF ReleasesOf, IsRelease, Releases
<1>4. ASSUME q \in DOMAIN result => result[q].out = <<>>, NEW T \in SUBSET ReleasesOf(q)
      PROVE  ~Has(new, T)
  BY <1>1, <1>3, <1>4 DEF Has
<1>5. ASSUME q \in DOMAIN result, result[q].out # <<>>
      PROVE  /\ Has(new, ReleasesOf(q)) /\ Once(new, ReleasesOf(q))
             /\ result[q].out[1] # None =>
                  Has(new, FinalOf(q)) /\ ~Has(new, ReleasesOf(q) \ FinalOf(q))
  <2>1. PICK k \in DOMAIN new : new[k] = Released(q, result[q].out[1])
    BY <1>1, <1>5
  <2>2. new[k].pipe = q /\ new[k].code = result[q].out[1]
    BY <1>2, <2>1
  <2>3. Has(new, ReleasesOf(q)) /\ Once(new, ReleasesOf(q))
    BY <1>1, <1>3, <2>2 DEF Has, Once
  <2>4. ASSUME result[q].out[1] # None
        PROVE  Has(new, FinalOf(q)) /\ ~Has(new, ReleasesOf(q) \ FinalOf(q))
    <3>1. new[k] \in FinalOf(q)
      BY <1>3, <2>2, <2>4 DEF FinalOf
    <3>2. \A n \in DOMAIN new : new[n] \in ReleasesOf(q) => n = k
      BY <1>1, <1>3, <2>2
    <3> QED
      BY <3>1, <3>2 DEF Has
  <2> QED
    BY <2>3, <2>4
<1> QED
  BY <1>4, <1>5

\* The releases of a pipe then in the queue of the main loop.
LEMMA SentFacts ==
  ASSUME PipeAssumption, TypeInv, NEW result, NEW new, Sends(new, result), main' = main \o new,
         NEW q \in Pipes
  PROVE  /\ (q \in DOMAIN result => result[q].out = <<>>) =>
              \A T \in SUBSET ReleasesOf(q) : QueueKept(main, main', T)
         /\ q \in DOMAIN result /\ result[q].out # <<>> /\ ~Has(main, ReleasesOf(q)) =>
              /\ Has(main', ReleasesOf(q)) /\ Once(main', ReleasesOf(q))
              /\ result[q].out[1] # None =>
                   Has(main', FinalOf(q)) /\ ~Has(main', ReleasesOf(q) \ FinalOf(q))
<1>1. main \in Seq(ToMain) /\ new \in Seq(ToMain)
  <2>1. new \in Seq(Releases) /\ Releases \subseteq ToMain
    BY DEF Sends, ToMain
  <2> QED
    BY <2>1 DEF TypeInv, QueuesInv
<1>2. ASSUME q \in DOMAIN result => result[q].out = <<>>, NEW T \in SUBSET ReleasesOf(q)
      PROVE  QueueKept(main, main', T)
  BY <1>1, <1>2, SendsFacts, KeptFacts
<1>3. ASSUME q \in DOMAIN result, result[q].out # <<>>, ~Has(main, ReleasesOf(q))
      PROVE  /\ Has(main', ReleasesOf(q)) /\ Once(main', ReleasesOf(q))
             /\ result[q].out[1] # None =>
                  Has(main', FinalOf(q)) /\ ~Has(main', ReleasesOf(q) \ FinalOf(q))
  <2>1. /\ Has(new, ReleasesOf(q)) /\ Once(new, ReleasesOf(q))
        /\ result[q].out[1] # None =>
             Has(new, FinalOf(q)) /\ ~Has(new, ReleasesOf(q) \ FinalOf(q))
    BY <1>3, SendsFacts
  <2>2. Once(main, ReleasesOf(q)) /\ ~Has(main, ReleasesOf(q) \ FinalOf(q))
    BY <1>3 DEF Has, Once
  <2>3. \A T : /\ Has(main', T) <=> Has(main, T) \/ Has(new, T)
               /\ Once(main, T) /\ Once(new, T) /\ ~(Has(main, T) /\ Has(new, T)) => Once(main', T)
    BY <1>1, ConcatHas
  <2> QED
    BY <1>3, <2>1, <2>2, <2>3
<1> QED
  BY <1>2, <1>3

\* The plugin thread leaves the rest alone.
LEMMA ThreadFacts ==
  ASSUME PipeAssumption, TypeInv, SeenInv, PluginThread, NEW q \in Pipes
  PROVE  /\ inbox # <<>> /\ inbox' = Tail(inbox) /\ Head(inbox) \in ToPlugins
         /\ inbox \in Seq(ToPlugins)
         /\ UNCHANGED <<cli, socket, link, holding>>
         /\ Head(inbox) \notin MessagesOf(q) => QueueKept(inbox, inbox', MessagesOf(q))
         /\ \A i : InTurn(inbox, q, i) /\ Head(inbox) \notin ChangesOf(q, i) => ChangesKept(q, i)
         /\ Head(inbox) \in MessagesOf(q) <=> Head(inbox).kind = "message" /\ Head(inbox).pipe = q
         /\ \A i : Head(inbox) \in ChangesOf(q, i) <=>
              /\ Head(inbox).kind = "changes" /\ Head(inbox).from = i /\ q \in DOMAIN Head(inbox).of
<1>1. /\ inbox # <<>> /\ inbox' = Tail(inbox) /\ UNCHANGED <<cli, socket, link, holding>>
      /\ inbox \in Seq(ToPlugins)
  BY DEF PluginThread, clientVars, callVars, TypeInv, QueuesInv
<1>2. Head(inbox) \in ToPlugins
  BY <1>1, HeadFacts
<1>3. Head(inbox) \notin MessagesOf(q) => QueueKept(inbox, inbox', MessagesOf(q))
  BY <1>1, KeptFacts
<1>4. \A i : InTurn(inbox, q, i) /\ Head(inbox) \notin ChangesOf(q, i) => ChangesKept(q, i)
  BY <1>1, ChangesKeptFacts
<1> QED
  BY <1>1, <1>2, <1>3, <1>4 DEF MessagesOf, ChangesOf, IsMessage

\* A pipe that the message is not about goes on.
LEMMA OtherTurning ==
  ASSUME PipeAssumption, TypeInv, SeenInv, PluginThread, NEW q \in Pipes, Turning(q),
         Head(inbox) \notin MessagesOf(q),
         pending'[q].info = pending[q].info, pending'[q].finished = pending[q].finished,
         \A T \in SUBSET ReleasesOf(q) : QueueKept(main, main', T),
         ~pending[q].finished => \A i \in Instances :
           /\ Head(inbox) \notin ChangesOf(q, i)
           /\ QueueKept(jobs[i[1]], jobs'[i[1]], CallsFor(q, i))
  PROVE  Turning(q)'
<1>1. UNCHANGED <<cli, socket, link, holding>> /\ QueueKept(inbox, inbox', MessagesOf(q))
  BY ThreadFacts
<1>2. Unmoved(q)
  <2>1. \A T : QueueKept(link[q], link'[q], T) /\ QueueKept(socket[q], socket'[q], T)
    BY <1>1 DEF QueueKept
  <2>2. \A T \in {ReleasesOf(q), FinalOf(q), ReleasesOf(q) \ FinalOf(q)} : QueueKept(main, main', T)
    BY DEF FinalOf
  <2> QED
    BY <1>1, <2>1, <2>2 DEF Unmoved
<1>3. ASSUME ~pending[q].finished, NEW i \in Instances
      PROVE  ShareUnmoved(q, i)
  <2>1. InTurn(inbox, q, i)
    BY <1>3 DEF Turning, ShareInv
  <2>2. ChangesKept(q, i)
    BY <1>3, <2>1, ThreadFacts
  <2> QED
    BY <1>1, <1>3, <2>2 DEF ShareUnmoved
<1> QED
  BY <1>2, <1>3, UnmovedTurning

\* What the calls that a message brings to a plugin are.
LEMMA NewCallFacts ==
  ASSUME PipeAssumption, TypeInv, NEW m, NEW p \in Plugins, NEW new \in NewCalls(m, p),
         jobs'[p] = jobs[p] \o new, NEW q \in Pipes, NEW i
  PROVE  /\ ~(m.kind = "message" /\ m.pipe = q /\ i \in running) =>
              QueueKept(jobs[p], jobs'[p], CallsFor(q, i))
         /\ ~Has(jobs[p], CallsFor(q, i)) =>
              /\ Once(jobs'[p], CallsFor(q, i))
              /\ Has(jobs'[p], CallsFor(q, i)) => i \in running
<1> DEFINE T == CallsFor(q, i)
<1>1. /\ new \in Seq(Calls)
      /\ \A n \in DOMAIN new :
           /\ new[n].on \in running /\ new[n].on[1] = p
           /\ \/ new[n].pipe = None /\ m.kind = "unload"
              \/ m.kind = "message" /\ new[n].pipe = m.pipe /\ ~pending[m.pipe].finished
      /\ \A k, n \in DOMAIN new : new[k].on = new[n].on => k = n
  BY DEF NewCalls
<1>2. ASSUME Has(new, T)
      PROVE  m.kind = "message" /\ m.pipe = q /\ i \in running
  <2>1. PICK n \in DOMAIN new : new[n] \in T
    BY <1>2 DEF Has
  <2>2. new[n].pipe = q /\ new[n].on = i /\ q # None
    BY <2>1 DEF CallsFor, PipeAssumption
  <2> QED
    BY <1>1, <2>2
<1>3. Once(new, T)
  BY <1>1 DEF Once, CallsFor
<1>4. jobs[p] \in Seq(Calls)
  BY DEF TypeInv, QueuesInv
<1>5. /\ ~Has(new, T) => QueueKept(jobs[p], jobs[p] \o new, T)
      /\ Has(jobs[p] \o new, T) <=> Has(jobs[p], T) \/ Has(new, T)
      /\ Once(jobs[p], T) /\ Once(new, T) /\ ~(Has(jobs[p], T) /\ Has(new, T)) =>
           Once(jobs[p] \o new, T)
  BY <1>1, <1>4, KeptFacts, ConcatHas
<1>6. ~Has(jobs[p], T) => Once(jobs[p], T)
  BY DEF Has, Once
<1> QED
  BY <1>2, <1>3, <1>5, <1>6

\* A message that a finished pipe still has is dropped.
LEMMA DroppedTurning ==
  ASSUME PipeAssumption, TypeInv, SeenInv, PluginThread, NEW q \in Pipes, Turning(q),
         Head(inbox) \in MessagesOf(q), pending[q].finished
  PROVE  Turning(q)'
<1>1. /\ inbox # <<>> /\ inbox' = Tail(inbox) /\ inbox \in Seq(ToPlugins)
      /\ UNCHANGED <<cli, socket, link, holding>>
      /\ Head(inbox).kind = "message" /\ Head(inbox).pipe = q
  BY ThreadFacts
<1>2. UNCHANGED <<pending, main, jobs>>
  <2>1. OnMessage(Head(inbox))
    BY <1>1 DEF PluginThread
  <2> QED
    BY <1>1, <2>1 DEF OnMessage
<1>3. Has(inbox, MessagesOf(q)) /\ Once(inbox, MessagesOf(q)) /\ ~Has(inbox', MessagesOf(q))
      /\ Once(inbox', MessagesOf(q))
  <2>1. Once(inbox, MessagesOf(q))
    BY DEF Turning, TurnInv
  <2> QED
    BY <1>1, <2>1, TailHas
<1>4. /\ ~Has(socket[q], Sent) /\ ~Known(q) /\ ~Has(main, ReleasesOf(q))
      /\ ~Has(link[q], ReleasesOf(q)) /\ cli[q].waiting
  BY <1>3 DEF Turning, TurnInv, InPlace, OnePlace
<1>5. cli[q].exit # None
  <2>1. FinalOf(q) \subseteq ReleasesOf(q)
    BY DEF FinalOf
  <2>2. ~Has(main, FinalOf(q)) /\ ~Has(link[q], FinalOf(q))
    BY <1>4, <2>1 DEF Has
  <2> QED
    BY <2>2 DEF Turning, FinishedInv
<1>6. TurnInv(q)'
  BY <1>1, <1>2, <1>3, <1>4, <1>5 DEF Turning, TurnInv, InPlace, OnePlace, Known
<1>7. FinishedInv(q)'
  BY <1>1, <1>2 DEF Turning, FinishedInv
<1> QED
  BY <1>2, <1>6, <1>7 DEF Turning

\* A message goes to the instances that run: they hold the pipe from now on. If there are
\* none the pipe is released at once.
LEMMA GivenTurning ==
  ASSUME PipeAssumption, TypeInv, SeenInv, PluginThread, NEW q \in Pipes, Turning(q),
         Head(inbox) \in MessagesOf(q), ~pending[q].finished
  PROVE  Turning(q)'
<1> DEFINE m == Head(inbox)
           e == pending[q]
<1>1. /\ inbox # <<>> /\ inbox' = Tail(inbox) /\ inbox \in Seq(ToPlugins) /\ m \in ToPlugins
      /\ UNCHANGED <<cli, socket, link, holding>>
      /\ m.kind = "message" /\ m.pipe = q
  BY ThreadFacts
<1>2. OnMessage(m)
  BY <1>1 DEF PluginThread
<1> HIDE DEF m
<1>3. Has(inbox, MessagesOf(q)) /\ ~Has(inbox', MessagesOf(q)) /\ Once(inbox', MessagesOf(q))
  <2>1. Once(inbox, MessagesOf(q))
    BY DEF Turning, TurnInv
  <2> QED
    BY <1>1, <2>1, TailHas
<1>4. /\ ~Has(socket[q], Sent) /\ ~Known(q) /\ ~Has(main, ReleasesOf(q))
      /\ ~Has(link[q], ReleasesOf(q)) /\ cli[q].waiting
      /\ Once(socket[q], Sent) /\ Once(link[q], ReleasesOf(q)) /\ Once(main, ReleasesOf(q))
  BY <1>3 DEF Turning, TurnInv, InPlace, OnePlace
<1>5. e \in Entry /\ Sound(e) /\ e.info.processing = {} /\ ~e.info.blocked
  <2>1. e \in Entry /\ Sound(e)
    BY DEF TypeInv, PendingInv
  <2>2. e.info = Forgotten
    BY <1>4, <2>1 DEF Sound, Known
  <2> QED
    BY <2>1, <2>2 DEF Forgotten
<1>6. \A i \in Instances : /\ ~Has(jobs[i[1]], CallsFor(q, i)) /\ InTurn(inbox, q, i)
                           /\ ~Has(inbox, ChangesOf(q, i)) /\ q \notin holding[i]
  BY <1>5 DEF Turning, ShareInv
<1>7. ASSUME NEW i \in Instances
      PROVE  /\ InTurn(inbox', q, i) /\ ~Has(inbox', ChangesOf(q, i)) /\ q \notin holding'[i]
             /\ Once(jobs'[i[1]], CallsFor(q, i))
             /\ Has(jobs'[i[1]], CallsFor(q, i)) => i \in running
  <2>1. InTurn(inbox', q, i)
    BY <1>1, <1>6, InTurnFacts
  <2>2. ~Has(inbox', ChangesOf(q, i))
    BY <1>1, <1>6, TailHas
  <2>3. i[1] \in Plugins
    BY DEF Instances
  <2>4. PICK new \in NewCalls(m, i[1]) : jobs'[i[1]] = jobs[i[1]] \o new
    BY <2>3, JobsStep DEF m
  <2>5. /\ Once(jobs'[i[1]], CallsFor(q, i))
        /\ Has(jobs'[i[1]], CallsFor(q, i)) => i \in running
    BY <1>6, <2>3, <2>4, NewCallFacts
  <2> QED
    BY <1>1, <1>6, <2>1, <2>2, <2>5
<1>8. CASE running # {}
  <2>1. pending' = [pending EXCEPT ![q] = Marked(e)] /\ UNCHANGED main
    BY <1>1, <1>2, <1>8 DEF OnMessage
  <2>2. pending'[q] = Marked(e)
    BY <2>1 DEF TypeInv, PendingInv
  <2>3. Marked(e).info.known /\ ~Marked(e).finished /\ Marked(e).info.processing = running
    <3>1. PlainInv /\ ~e.finished
      BY DEF TypeInv
    <3> HIDE DEF e
    <3>2. /\ Marked(e).info.known /\ ~Marked(e).finished
          /\ Marked(e).info.processing = e.info.processing \cup running
      BY <1>5, <3>1, MarkedFacts
    <3> QED
      BY <1>5, <3>2
  <2>4. TurnInv(q)'
    BY <1>1, <1>3, <1>4, <2>1, <2>2, <2>3 DEF TurnInv, InPlace, OnePlace, Known
  <2>5. \A i \in Instances : ShareInv(q, i)'
    BY <1>7, <2>2, <2>3 DEF ShareInv, Has, UnblocksOf
  <2> QED
    BY <2>2, <2>3, <2>4, <2>5 DEF Turning, FinishedInv
<1>9. CASE running = {}
  <2> DEFINE result == [r \in (IF ReleasesAtOnce(q) THEN {q} ELSE {}) |->
                         [entry |-> pending[r], out |-> <<None>>]]
  <2>1. Apply(result)
    BY <1>1, <1>2, <1>9 DEF OnMessage
  <2>2. ReleasesAtOnce(q)
    BY <1>4, <1>9 DEF ReleasesAtOnce, Known
  <2>3. DOMAIN result = {q} /\ result[q].entry = e /\ result[q].out = <<None>>
    BY <2>2
  <2>4. Tidy(result[q], e)
    BY <1>5, <2>3 DEF Tidy, Outs, ExitCode
  <2> HIDE DEF result
  <2>5. /\ pending'[q] = e
        /\ \E new : main' = main \o new /\ Sends(new, result)
    BY <2>1, <2>3, <2>4, AppliedFacts DEF TypeInv
  <2>9. result[q].out # <<>> /\ q \in DOMAIN result
    BY <2>3
  <2>6. Has(main', ReleasesOf(q)) /\ Once(main', ReleasesOf(q))
    BY <1>4, <2>5, <2>9, SentFacts
  <2>7. TurnInv(q)'
    BY <1>1, <1>3, <1>4, <2>5, <2>6 DEF TurnInv, InPlace, OnePlace, Known
  <2>8. \A i \in Instances : ShareInv(q, i)'
    BY <1>7, <1>9, <2>5 DEF ShareInv, Has, UnblocksOf
  <2> QED
    BY <2>5, <2>7, <2>8 DEF Turning, FinishedInv
<1> QED
  BY <1>8, <1>9

\* A message for another pipe.
LEMMA ElsewhereTurning ==
  ASSUME PipeAssumption, TypeInv, SeenInv, PluginThread, NEW q \in Pipes, Turning(q),
         Head(inbox).kind = "message", Head(inbox) \notin MessagesOf(q)
  PROVE  Turning(q)'
<1> DEFINE m == Head(inbox)
           r == m.pipe
<1>1. m \in ToPlugins /\ r # q /\ OnMessage(m) /\ \A i : m \notin ChangesOf(q, i)
  BY ThreadFacts DEF PluginThread
<1>2. r \in Pipes
  BY <1>1, KindFacts
<1>3. m.kind = "message" /\ m \notin MessagesOf(q)
  OBVIOUS
<1> HIDE DEF m
<1>4. ASSUME NEW i \in Instances
      PROVE  QueueKept(jobs[i[1]], jobs'[i[1]], CallsFor(q, i))
  <2>1. i[1] \in Plugins
    BY DEF Instances
  <2>2. PICK new \in NewCalls(m, i[1]) : jobs'[i[1]] = jobs[i[1]] \o new
    BY <2>1, JobsStep DEF m
  <2>3. ~(m.kind = "message" /\ m.pipe = q /\ i \in running)
    BY <1>1
  <2> QED
    BY <2>1, <2>2, <2>3, NewCallFacts
<1>5. pending'[q] = pending[q] /\ \A T \in SUBSET ReleasesOf(q) : QueueKept(main, main', T)
  <2>1. CASE pending[r].finished \/ running # {}
    <3>1. UNCHANGED main /\ (pending' = pending \/ pending' = [pending EXCEPT ![r] = Marked(@)])
      BY <1>1, <2>1 DEF OnMessage
    <3> QED
      BY <1>1, <3>1 DEF QueueKept, TypeInv, PendingInv
  <2>2. CASE ~pending[r].finished /\ running = {}
    <3> DEFINE result == [t \in (IF ReleasesAtOnce(r) THEN {r} ELSE {}) |->
                           [entry |-> pending[t], out |-> <<None>>]]
    <3>1. Apply(result)
      BY <1>1, <2>2 DEF OnMessage
    <3>2. DOMAIN result \subseteq {r}
      OBVIOUS
    <3>3. \A t \in DOMAIN result : Tidy(result[t], pending[t])
      <4>1. Tidy([entry |-> pending[r], out |-> <<None>>], pending[r])
        BY <1>2, <2>2 DEF Tidy, Outs, ExitCode, TypeInv, PendingInv
      <4> QED
        BY <4>1
    <3> HIDE DEF result
    <3>4. /\ pending'[q] = pending[q]
          /\ \E new : main' = main \o new /\ Sends(new, result)
      BY <1>1, <1>2, <3>1, <3>2, <3>3, AppliedFacts DEF TypeInv
    <3> QED
      BY <1>1, <3>2, <3>4, SentFacts
  <2> QED
    BY <2>1, <2>2
<1> QED
  BY <1>1, <1>3, <1>4, <1>5, OtherTurning DEF m

\* An exit code that is set moves nothing.
LEMMA CodeTurning ==
  ASSUME PipeAssumption, TypeInv, SeenInv, PluginThread, NEW q \in Pipes, Turning(q),
         Head(inbox).kind = "code"
  PROVE  Turning(q)'
<1> DEFINE m == Head(inbox)
<1>1. OnSetCode(m) /\ m \in ToPlugins /\ m \notin MessagesOf(q) /\ \A i : m \notin ChangesOf(q, i)
  BY ThreadFacts DEF PluginThread
<1>2. UNCHANGED <<main, jobs>>
  BY <1>1 DEF OnSetCode
<1>3. pending'[q].info = pending[q].info /\ pending'[q].finished = pending[q].finished
  <2>1. CASE pending' = pending
    BY <2>1
  <2>2. CASE pending' = [pending EXCEPT ![m.pipe].code = m.code, ![m.pipe].owner = m.by]
    <3>1. pending[q] \in Entry /\ pending \in [Pipes -> Entry]
      BY DEF TypeInv, PendingInv
    <3>2. pending'[q] = pending[q] \/ pending'[q] = [pending[q] EXCEPT !.code = m.code, !.owner = m.by]
      BY <2>2, <3>1
    <3> QED
      BY <3>1, <3>2 DEF Entry
  <2> QED
    BY <1>1, <2>1, <2>2 DEF OnSetCode
<1>4. /\ \A T : QueueKept(main, main', T)
      /\ \A i \in Instances : QueueKept(jobs[i[1]], jobs'[i[1]], CallsFor(q, i))
  BY <1>2 DEF QueueKept
<1> QED
  BY <1>1, <1>3, <1>4, OtherTurning

\* Only the one that blocks has anything but a call to report.
LEMMA BlockerFacts ==
  ASSUME CallInv, NEW q, NEW i \in Instances
  PROVE  /\ Has(inbox, UnblocksOf(q, i)) => i \in setting.blockers
         /\ Has(inbox, BlocksOf(q, i)) => i \in setting.blockers
         /\ q \in holding[i] => i \in setting.blockers
<1>1. ASSUME NEW n \in DOMAIN inbox, inbox[n] \in UnblocksOf(q, i) \/ inbox[n] \in BlocksOf(q, i)
      PROVE  i \in setting.blockers
  <2>1. /\ inbox[n].kind = "changes" /\ inbox[n].from = i /\ q \in DOMAIN inbox[n].of
        /\ inbox[n].of[q] \in {"block", "unblock"}
    BY <1>1 DEF UnblocksOf, BlocksOf, ChangesOf
  <2>2. ~Harmless(inbox[n])
    BY <2>1 DEF Harmless
  <2> QED
    BY <2>1, <2>2 DEF CallInv
<1>2. q \in holding[i] => i \in setting.blockers
  BY DEF CallInv
<1> QED
  BY <1>1, <1>2 DEF Has

\* The share of an instance after the plugin thread has heard of a change of one, the other
\* or itself: who is not the one heard of cannot both block and see the block undone.
LEMMA HeardShare ==
  ASSUME TypeInv, CallInv, Undisturbed, NEW q \in Pipes, NEW j \in Instances, NEW m \in ToPlugins,
         inbox # <<>>, m = Head(inbox), m \in ChangesOf(q, j), inbox' = Tail(inbox),
         UNCHANGED <<jobs, holding>>, NEW i \in Instances, ShareInv(q, i),
         pending'[q].info.processing = pending[q].info.processing \ {j},
         pending'[q].info.blocked <=>
           m.of[q] = "block" \/ (pending[q].info.blocked /\ m.of[q] # "unblock")
  PROVE  ShareInv(q, i)'
<1> DEFINE C == ChangesOf(q, i)
           B == BlocksOf(q, i)
           U == UnblocksOf(q, i)
           handles == i \in pending[q].info.processing
           blocked == pending[q].info.blocked
<1>1. /\ Once(jobs[i[1]], CallsFor(q, i)) /\ InTurn(inbox, q, i)
      /\ Has(jobs[i[1]], CallsFor(q, i)) => handles /\ ~Has(inbox, C) /\ q \notin holding[i]
      /\ Has(inbox, C) /\ ~handles => blocked /\ ~Has(inbox, C \ U)
      /\ q \in holding[i] => ~Has(inbox, U) /\ IF handles THEN Has(inbox, B) ELSE blocked
  BY DEF ShareInv
<1>2. B \subseteq C /\ U \subseteq C /\ inbox \in Seq(ToPlugins)
  BY DEF BlocksOf, UnblocksOf, TypeInv, QueuesInv
<1>3. m \in UnblocksOf(q, j) <=> m.of[q] = "unblock"
  BY DEF UnblocksOf
<1>4. m \in BlocksOf(q, j) <=> m.of[q] = "block"
  BY DEF BlocksOf
<1>5. Has(inbox, ChangesOf(q, j)) /\ (m.of[q] = "unblock" => Has(inbox, UnblocksOf(q, j)))
  BY <1>2, <1>3, TailHas
<1>6. /\ InTurn(inbox', q, i)
      /\ m \in C => (Has(inbox', C) => m \in B) /\ ~Has(inbox', C \ U)
  BY <1>1, <1>2, InTurnFacts
<1>7. CASE i = j
  <2>1. /\ i \notin pending'[q].info.processing /\ ~Has(jobs'[i[1]], CallsFor(q, i))
        /\ Once(jobs'[i[1]], CallsFor(q, i))
    BY <1>1, <1>5, <1>7
  <2>2. Has(inbox', C) => pending'[q].info.blocked /\ ~Has(inbox', C \ U)
    BY <1>4, <1>6, <1>7
  <2>3. ASSUME q \in holding[i]
        PROVE  ~Has(inbox', U) /\ pending'[q].info.blocked
    <3>1. ~Has(inbox, U) /\ ~Has(inbox', U) /\ m.of[q] # "unblock"
      BY <1>1, <1>2, <1>5, <1>7, <2>3, TailHas
    <3>2. CASE handles
      <4>1. Has(inbox, B)
        BY <1>1, <2>3, <3>2
      <4>2. m \notin B => Has(inbox', B)
        BY <1>2, <4>1, TailHas
      <4>3. Has(inbox', B) => Has(inbox', C)
        BY <1>2 DEF Has
      <4>4. m \in B
        BY <1>6, <1>7, <4>2, <4>3
      <4> QED
        BY <1>4, <1>7, <3>1, <4>4
    <3>3. CASE ~handles
      BY <1>1, <2>3, <3>1, <3>3
    <3> QED
      BY <3>2, <3>3
  <2> QED
    BY <1>6, <2>1, <2>2, <2>3 DEF ShareInv
<1>8. CASE i # j
  <2>1. m \notin C
    BY <1>8 DEF ChangesOf
  <2>2. ChangesKept(q, i)
    BY <1>1, <1>2, <2>1, ChangesKeptFacts
  <2>3. i \in pending'[q].info.processing <=> handles
    BY <1>8
  <2>4. i \in setting.blockers => m.of[q] # "unblock"
    BY <1>5, <1>8, BlockerFacts DEF Undisturbed
  <2>5. Has(inbox, C) /\ ~handles => i \in setting.blockers
    <3>1. Has(inbox, C) /\ ~Has(inbox, C \ U) => Has(inbox, U)
      BY DEF Has
    <3> QED
      BY <1>1, <3>1, BlockerFacts
  <2>6. q \in holding[i] => i \in setting.blockers
    BY BlockerFacts
  <2> QED
    BY <1>1, <2>2, <2>3, <2>4, <2>5, <2>6 DEF ShareInv, ChangesKept
<1> QED
  BY <1>7, <1>8

\* Changes of an instance: a pipe that nothing holds any longer is released, once.
LEMMA ChangesTurning ==
  ASSUME PipeAssumption, TypeInv, SeenInv, CallInv, Undisturbed, PluginThread, NEW q \in Pipes,
         Turning(q), Head(inbox).kind = "changes"
  PROVE  Turning(q)'
<1> DEFINE m == Head(inbox)
           e == pending[q]
           j == m.from
           result == [t \in DOMAIN m.of |-> Updated(pending[t], m.of[t], j)]
<1>1. /\ inbox # <<>> /\ inbox' = Tail(inbox) /\ m \in ToPlugins /\ inbox \in Seq(ToPlugins)
      /\ UNCHANGED <<cli, socket, link, holding>>
      /\ m \notin MessagesOf(q)
      /\ \A i : m \in ChangesOf(q, i) <=> j = i /\ q \in DOMAIN m.of
  BY ThreadFacts
<1>2. OnChanges(m)
  BY DEF PluginThread
<1>3. Apply(result) /\ UNCHANGED jobs
  BY <1>2 DEF OnChanges
<1>4. /\ j \in Instances /\ DOMAIN m.of \subseteq Pipes
      /\ \A t \in DOMAIN m.of : m.of[t] \in Change
  BY <1>1, KindFacts
<1>5. DOMAIN result = DOMAIN m.of /\ (q \in DOMAIN m.of => result[q] = Updated(e, m.of[q], j))
  OBVIOUS
<1>6. \A t \in DOMAIN result : Tidy(result[t], pending[t])
  <2>1. \A t \in DOMAIN m.of : Tidy(Updated(pending[t], m.of[t], j), pending[t])
    BY <1>4, UpdatedFacts DEF TypeInv, PendingInv
  <2> QED
    BY <2>1
<1>7. e \in Entry /\ Sound(e) /\ PendingInv
  BY DEF TypeInv, PendingInv
<1> HIDE DEF result
<1>8. pending'[q] = IF q \in DOMAIN result THEN result[q].entry ELSE e
  BY <1>3, <1>4, <1>5, <1>6, <1>7, AppliedFacts
<1>9. PICK new : main' = main \o new /\ Sends(new, result)
  BY <1>3, <1>4, <1>5, <1>6, <1>7, AppliedFacts
<1> HIDE DEF m, j
<1>10. \A i \in Instances : QueueKept(jobs[i[1]], jobs'[i[1]], CallsFor(q, i))
  BY <1>3 DEF QueueKept
<1>11. CASE q \notin DOMAIN m.of
  <2>1. pending'[q] = e /\ \A i : m \notin ChangesOf(q, i)
    BY <1>1, <1>5, <1>8, <1>11
  <2>2. \A T \in SUBSET ReleasesOf(q) : QueueKept(main, main', T)
    BY <1>5, <1>9, <1>11, SentFacts
  <2> QED
    BY <1>1, <1>10, <2>1, <2>2, OtherTurning DEF m
<1>12. CASE q \in DOMAIN m.of /\ e.finished
  <2>1. result[q].entry = e /\ result[q].out = <<>>
    BY <1>5, <1>6, <1>12 DEF Tidy
  <2>2. pending'[q] = e
    BY <1>5, <1>8, <1>12, <2>1
  <2>3. \A T \in SUBSET ReleasesOf(q) : QueueKept(main, main', T)
    BY <1>9, <2>1, SentFacts
  <2> QED
    BY <1>1, <1>12, <2>2, <2>3, OtherTurning DEF m
<1>13. CASE q \in DOMAIN m.of /\ ~e.finished
  <2> DEFINE change == m.of[q]
             rest == e.info.processing \ {j}
             blocked == change = "block" \/ (e.info.blocked /\ change # "unblock")
  <2>1. m \in ChangesOf(q, j) /\ Has(inbox, ChangesOf(q, j))
    BY <1>1, <1>13, TailHas DEF m
  <2>2. j \in e.info.processing \/ e.info.blocked
    BY <1>4, <1>13, <2>1 DEF Turning, ShareInv
  <2>3. Known(q) /\ e.info.known
    BY <1>7, <2>2 DEF Known, Sound, Forgotten
  <2>4. /\ ~Has(socket[q], Sent) /\ ~Has(inbox, MessagesOf(q)) /\ ~Has(main, ReleasesOf(q))
        /\ ~Has(link[q], ReleasesOf(q)) /\ cli[q].waiting
        /\ Once(socket[q], Sent) /\ Once(inbox, MessagesOf(q)) /\ Once(main, ReleasesOf(q))
        /\ Once(link[q], ReleasesOf(q))
    BY <2>3 DEF Turning, TurnInv, InPlace, OnePlace
  <2>5. ~Has(inbox', MessagesOf(q)) /\ Once(inbox', MessagesOf(q))
    BY <1>1, <2>4, TailHas DEF m
  <2>6. pending'[q] = result[q].entry /\ change \in Change
    BY <1>4, <1>5, <1>8, <1>13
  <2>7. /\ Tidy(result[q], e)
        /\ result[q].out = <<>> =>
             /\ ~result[q].entry.finished /\ result[q].entry.info.known
             /\ result[q].entry.info.processing = rest
             /\ result[q].entry.info.blocked <=> blocked
        /\ result[q].out # <<>> =>
             /\ ~result[q].entry.info.known /\ result[q].entry.info = Forgotten
             /\ result[q].entry.finished <=> result[q].out[1] # None
             /\ ~result[q].entry.finished => rest = {} /\ ~blocked
    <3>1. result[q] = Updated(e, change, j)
      BY <1>5, <1>13
    <3> HIDE DEF change, e, result
    <3> QED
      BY <1>4, <1>7, <1>13, <2>3, <2>6, <3>1, UpdatedFacts DEF e
  <2>8. ~pending'[q].finished =>
          /\ pending'[q].info.processing = rest
          /\ pending'[q].info.blocked <=> blocked
    BY <2>6, <2>7 DEF Forgotten
  <2>9. ~pending'[q].finished => \A i \in Instances : ShareInv(q, i)'
    <3> SUFFICES ASSUME ~pending'[q].finished, NEW i \in Instances
                 PROVE  ShareInv(q, i)'
      OBVIOUS
    <3>1. ShareInv(q, i)
      BY <1>13 DEF Turning
    <3>2. PICK from, head : from = j /\ head = m
      OBVIOUS
    <3>3. /\ from \in Instances /\ head \in ToPlugins /\ head = Head(inbox)
          /\ head \in ChangesOf(q, from)
          /\ pending'[q].info.processing = pending[q].info.processing \ {from}
          /\ pending'[q].info.blocked <=>
               head.of[q] = "block" \/ (pending[q].info.blocked /\ head.of[q] # "unblock")
      BY <1>1, <1>4, <2>1, <2>8, <3>2 DEF m
    <3> QED
      BY <1>1, <1>3, <3>1, <3>3, HeardShare
  <2>10. CASE result[q].out = <<>>
    <3>1. QueueKept(main, main', ReleasesOf(q))
      BY <1>9, <2>10, SentFacts
    <3>2. TurnInv(q)'
      BY <1>1, <2>3, <2>4, <2>5, <2>6, <2>7, <2>10, <3>1 DEF TurnInv, InPlace, OnePlace, Known, QueueKept
    <3> QED
      BY <2>6, <2>7, <2>9, <2>10, <3>2 DEF Turning, FinishedInv
  <2>11. CASE result[q].out # <<>>
    <3>1. /\ Has(main', ReleasesOf(q)) /\ Once(main', ReleasesOf(q))
          /\ result[q].out[1] # None =>
               Has(main', FinalOf(q)) /\ ~Has(main', ReleasesOf(q) \ FinalOf(q))
      BY <1>5, <1>9, <1>13, <2>4, <2>11, SentFacts
    <3>2. TurnInv(q)'
      BY <1>1, <2>4, <2>5, <2>6, <2>7, <2>11, <3>1 DEF TurnInv, InPlace, OnePlace, Known
    <3>3. ~Has(link[q], ReleasesOf(q) \ FinalOf(q))
      BY <2>4 DEF Has
    <3>4. FinishedInv(q)'
      BY <1>1, <2>4, <2>6, <2>7, <2>11, <3>1, <3>3 DEF FinishedInv
    <3> QED
      BY <2>9, <3>2, <3>4 DEF Turning
  <2> QED
    BY <2>10, <2>11
<1> QED
  BY <1>11, <1>12, <1>13

\* The plugin thread's steps.
LEMMA PluginTurning ==
  ASSUME PipeAssumption, TypeInv, SeenInv, CallInv, QuietInv, Undisturbed, PluginThread,
         NEW q \in Pipes, Turning(q)
  PROVE  Turning(q)'
<1> DEFINE m == Head(inbox)
<1>1. m \in ToPlugins /\ m = inbox[1] /\ 1 \in DOMAIN inbox
  BY HeadFacts DEF PluginThread
<1>2. m \notin Removals
  BY <1>1 DEF QuietInv, Undisturbed
<1>3. m.kind \in {"message", "code", "changes"}
  <2>1. m.kind \in {"message", "code", "changes", "unload", "remove"}
    BY <1>1, KindFacts
  <2>2. m.kind = "unload" => m \in Removals
    BY <1>1, KindFacts
  <2>3. m.kind = "remove" => m \in Removals
    BY <1>1, KindFacts
  <2> QED
    BY <1>2, <2>1, <2>2, <2>3
<1>4. CASE m.kind = "message"
  BY <1>4, DroppedTurning, GivenTurning, ElsewhereTurning
<1>5. CASE m.kind = "code"
  BY <1>5, CodeTurning
<1>6. CASE m.kind = "changes"
  BY <1>6, ChangesTurning
<1> QED
  BY <1>3, <1>4, <1>5, <1>6

\* One message at a time, and every instance its share, whatever happens.
LEMMA NextUndisturbed ==
  ASSUME PipeAssumption, TypeInv, SeenInv, FinalInv, CallInv, QuietInv, ConnectedInv,
         UndisturbedInv, Next
  PROVE  UndisturbedInv'
<1> SUFFICES ASSUME Undisturbed', NEW q \in Pipes
             PROVE  Turning(q)'
  BY DEF UndisturbedInv
<1>1. CASE (\E p \in Plugins : UnloadPlugin(p)) \/ (\E c \in Clients : RemoveClient(c))
  <2>1. removals' = removals + 1 /\ removals \in Nat
    BY <1>1, RemovalFacts DEF TypeInv, PlainInv
  <2> QED
    BY <2>1 DEF Undisturbed
<1>2. ASSUME ~((\E p \in Plugins : UnloadPlugin(p)) \/ (\E c \in Clients : RemoveClient(c)))
      PROVE  UNCHANGED <<setting, removals>>
  <2>1. CASE \E p \in Plugins : RunJob(p)
    BY <2>1, JobFacts, CallingFacts
  <2>2. CASE \E i \in Instances, r \in Pipes, code \in Codes \cup {None} : UnblockLater(i, r, code)
    BY <2>2, LaterFacts, CallingFacts
  <2> QED
    BY <1>2, <2>1, <2>2 DEF Next, ReadInput, ReceiveRelease, Interrupt, RouteAssociate,
      RouteMessage, RouteExit, MainLoop, PluginThread, ScreenThread
<1>3. ASSUME UNCHANGED <<setting, removals>>
      PROVE  Undisturbed /\ (\A r \in Pipes : Turning(r)) /\ ~ScreenThread
  <2>1. Undisturbed
    BY <1>3 DEF Undisturbed
  <2>2. ~ScreenThread
    BY <2>1 DEF Undisturbed, QuietInv, ScreenThread
  <2> QED
    BY <2>1, <2>2 DEF UndisturbedInv
<1>4. CASE UNCHANGED <<setting, removals>>
  <2>1. Undisturbed /\ (\A r \in Pipes : Turning(r)) /\ ~ScreenThread
    BY <1>3, <1>4
  <2>2. CASE \E r \in Pipes : \/ \E last \in BOOLEAN : ReadInput(r, last)
                              \/ ReceiveRelease(r) \/ Interrupt(r)
    BY <2>1, <2>2, ClientTurning
  <2>3. CASE \E r \in Pipes : RouteAssociate(r) \/ RouteMessage(r) \/ RouteExit(r)
    BY <2>1, <2>3, RouterTurning
  <2>4. CASE MainLoop
    BY <2>1, <2>4, MainTurning
  <2>5. CASE PluginThread
    BY <2>1, <2>5, PluginTurning
  <2>6. CASE \/ \E p \in Plugins : RunJob(p)
             \/ \E i \in Instances, r \in Pipes, code \in Codes \cup {None} : UnblockLater(i, r, code)
    BY <2>1, <2>6, CallTurning
  <2> QED
    BY <1>1, <2>1, <2>2, <2>3, <2>4, <2>5, <2>6 DEF Next
<1> QED
  BY <1>1, <1>2, <1>4

-----------------------------------------------------------------------------
(* The theorems *)

\* Nothing is anywhere at first.
LEMMA InitInv ==
  ASSUME PipeAssumption, Init
  PROVE  IInv
<1>1. /\ setting \in Settings /\ setting \in Setting
      /\ setting.pipes \subseteq Pipes /\ setting.instances \subseteq Instances
      /\ setting.messages \in Nat
  BY DEF Init, PipeAssumption, Setting
<1>2. /\ cli = [q \in Pipes |-> [read |-> 0, sent |-> 0, ended |-> FALSE, waiting |-> FALSE,
                                 exit |-> IF q \in setting.pipes THEN None ELSE "done"]]
      /\ socket = [q \in Pipes |-> <<>>] /\ link = [q \in Pipes |-> <<>>]
      /\ jobs = [p \in Plugins |-> <<>>]
      /\ inbox = <<>> /\ screen = <<>> /\ main = <<>> /\ seen = {}
      /\ session = [q \in Pipes |-> IF q \in setting.pipes THEN "new" ELSE "gone"]
      /\ pending = [q \in Pipes |-> NewEntry] /\ running = setting.instances
      /\ to_block = [i \in Instances |-> {}] /\ to_unblock = [i \in Instances |-> {}]
      /\ holding = [i \in Instances |-> {}] /\ removals = 0
  BY DEF Init
<1>3. ClientInv
  <2>1. \A q \in Pipes : /\ cli[q] \in Client /\ cli[q].read = 0 /\ cli[q].sent = 0
    BY <1>2 DEF Client
  <2> QED
    BY <1>1, <1>2, <2>1 DEF ClientInv
<1>4. QueuesInv
  BY <1>2 DEF QueuesInv
<1>5. PlainInv
  BY <1>1, <1>2 DEF PlainInv
<1>6. PendingInv
  BY <1>2, EntryFacts DEF PendingInv
<1>7. SeenInv
  BY <1>2 DEF SeenInv
<1>8. AssociationInv
  BY <1>2 DEF AssociationInv
<1>9. FinalInv
  <2>1. \A q \in Pipes : cli[q].exit \notin Codes
    BY <1>2 DEF PipeAssumption
  <2> QED
    BY <1>2, <2>1 DEF FinalInv, FinalSent
<1>10. CallInv
  BY <1>2 DEF CallInv
<1>11. QuietInv
  BY <1>2 DEF QuietInv
<1>12. ConnectedInv
  <2>1. \A q \in Pipes : cli[q].exit = None => session[q] # "gone"
    BY <1>2 DEF PipeAssumption
  <2> QED
    BY <1>2, <2>1 DEF ConnectedInv
<1>13. ASSUME NEW q \in Pipes
       PROVE  Turning(q)
  <2>1. \A T : ~Has(<<>>, T) /\ Once(<<>>, T)
    BY DEF Has, Once
  <2>2. /\ ~Known(q) /\ ~pending[q].finished /\ ~cli[q].waiting
    BY <1>2, EntryFacts DEF Known
  <2>3. TurnInv(q)
    BY <1>2, <2>1, <2>2 DEF TurnInv, InPlace, OnePlace
  <2>4. \A i \in Instances : ShareInv(q, i)
    <3>1. \A i \in Instances : i[1] \in Plugins
      BY DEF Instances
    <3>2. \A i : InTurn(inbox, q, i)
      BY <1>2 DEF InTurn
    <3> QED
      BY <1>2, <2>1, <3>1, <3>2 DEF ShareInv
  <2> QED
    BY <2>2, <2>3, <2>4 DEF Turning, FinishedInv
<1> QED
  BY <1>3, <1>4, <1>5, <1>6, <1>7, <1>8, <1>9, <1>10, <1>11, <1>12, <1>13
     DEF IInv, TypeInv, UndisturbedInv

\* Every step keeps all of it.
LEMMA NextInv ==
  ASSUME PipeAssumption, IInv, [Next]_vars
  PROVE  IInv'
<1>0. /\ TypeInv /\ SeenInv /\ AssociationInv /\ FinalInv /\ CallInv /\ QuietInv /\ ConnectedInv
      /\ UndisturbedInv
  BY DEF IInv
<1>1. CASE Next
  <2>1. TypeInv' /\ SeenInv' /\ CallInv'
    BY <1>0, <1>1, NextType, NextSeen, NextCall
  <2>2. AssociationInv' /\ FinalInv' /\ QuietInv' /\ ConnectedInv'
    BY <1>0, <1>1, NextAssociation, NextFinal, NextQuiet, NextConnected
  <2>3. UndisturbedInv'
    BY <1>0, <1>1, NextUndisturbed
  <2> QED
    BY <2>1, <2>2, <2>3 DEF IInv
<1>2. CASE UNCHANGED vars
  <2>0. UNCHANGED vars
    BY <1>2
  <2> USE DEF vars, clientVars, callVars
  <2>1. TypeInv'
    BY <1>0, <2>0 DEF TypeInv, ClientInv, QueuesInv, PlainInv, PendingInv
  <2>2. SeenInv' /\ AssociationInv' /\ CallInv' /\ QuietInv' /\ ConnectedInv'
    BY <1>0, <2>0 DEF SeenInv, AssociationInv, CallInv, QuietInv, ConnectedInv
  <2>3. FinalInv'
    BY <1>0, <2>0 DEF FinalInv, FinalSent
  <2>4. UndisturbedInv'
    <3>1. \A q \in Pipes : Turning(q) => Turning(q)'
      BY <2>0 DEF Turning, TurnInv, FinishedInv, ShareInv, Known
    <3>2. Undisturbed' => Undisturbed
      BY <2>0 DEF Undisturbed
    <3> QED
      BY <1>0, <3>1, <3>2 DEF UndisturbedInv
  <2> QED
    BY <2>1, <2>2, <2>3, <2>4 DEF IInv
<1> QED
  BY <1>1, <1>2

\* So it holds always.
THEOREM PipesInvariant == Spec => []IInv
<1>1. Init => IInv
  BY PipeAssumption, InitInv
<1>2. IInv /\ [Next]_vars => IInv'
  BY PipeAssumption, NextInv
<1> QED
  BY <1>1, <1>2, PTL DEF Spec

\* Every client sends what it has read and no more; what the plugin thread knows of a pipe
\* is held by a call or a block; an exit code has the plugin that set it.
THEOREM PipeTypes == Spec => []TypeOK
<1>1. IInv => TypeOK
  <2> SUFFICES ASSUME IInv
               PROVE  TypeOK
    OBVIOUS
  <2>1. ClientInv /\ PlainInv /\ PendingInv
    BY DEF IInv, TypeInv
  <2>2. ASSUME NEW q \in Pipes
        PROVE  /\ cli[q].sent \in 0 .. cli[q].read /\ cli[q].read \in 0 .. setting.messages
               /\ cli[q].exit \in {None, "done", "killed"} \cup Codes
    <3>1. /\ cli[q] \in Client /\ cli[q].sent <= cli[q].read
          /\ cli[q].read <= setting.messages
      BY <2>1 DEF ClientInv
    <3>2. setting.messages \in Nat
      BY <2>1, PipeAssumption DEF PlainInv, PipeAssumption, Setting
    <3>3. cli[q].sent \in Nat /\ cli[q].read \in Nat
      BY <3>1 DEF Client
    <3> QED
      BY <3>1, <3>2, <3>3, PipeAssumption DEF Client
  <2>3. ASSUME NEW q \in Pipes
        PROVE  /\ pending[q].info.processing \subseteq Instances
               /\ pending[q].info.known =>
                    pending[q].info.processing # {} \/ pending[q].info.blocked
               /\ (pending[q].code = None) <=> (pending[q].owner = None)
    <3>1. pending[q] \in Entry /\ Sound(pending[q])
      BY <2>1 DEF PendingInv
    <3>2. pending[q].info \in Info
      BY <3>1 DEF Entry
    <3> QED
      BY <3>1, <3>2 DEF Info, Sound, Held
  <2> QED
    BY <2>1, <2>2, <2>3 DEF TypeOK, PlainInv
<1> QED
  BY <1>1, PipesInvariant, PTL

\* The messages of a kind in a queue, each with its place: none, or one.
LEMMA SingleFacts ==
  ASSUME NEW x, NEW s, NEW T
  PROVE  /\ ~Has(s, T) => {<<x, k>> : k \in {n \in DOMAIN s : s[n] \in T}} = {}
         /\ Has(s, T) /\ Once(s, T) =>
              \E t : {<<x, k>> : k \in {n \in DOMAIN s : s[n] \in T}} = {t}
<1>1. ASSUME Has(s, T), Once(s, T)
      PROVE  \E t : {<<x, k>> : k \in {n \in DOMAIN s : s[n] \in T}} = {t}
  <2>1. PICK k \in DOMAIN s : s[k] \in T
    BY <1>1 DEF Has
  <2>2. {n \in DOMAIN s : s[n] \in T} = {k}
    BY <1>1, <2>1 DEF Once
  <2>3. {<<x, n>> : n \in {k}} = {<<x, k>>}
    OBVIOUS
  <2> QED
    BY <2>2, <2>3
<1> QED
  BY <1>1 DEF Has

\* Where a client has something under way, by the places it can be in.
LEMMA UnderWayFacts ==
  ASSUME TypeInv, NEW q \in Pipes
  PROVE  LET at(x, s, T) == {<<x, k>> : k \in {n \in DOMAIN s : s[n] \in T}} IN
         /\ Unseen(q) = at("socket", socket[q], Sent) \cup at("inbox", inbox, MessagesOf(q))
         /\ OnTheWay(q) = at("main", main, ReleasesOf(q)) \cup at("link", link[q], ReleasesOf(q))
<1>1. /\ socket[q] \in Seq(Nat) /\ inbox \in Seq(ToPlugins) /\ main \in Seq(ToMain)
      /\ link[q] \in Seq(Releases)
  BY DEF TypeInv, QueuesInv
<1>2. {n \in DOMAIN socket[q] : socket[q][n] # 0} = {n \in DOMAIN socket[q] : socket[q][n] \in Sent}
  BY <1>1 DEF Sent
<1>3. {n \in DOMAIN inbox : IsMessage(inbox[n], q)} = {n \in DOMAIN inbox : inbox[n] \in MessagesOf(q)}
  BY <1>1 DEF MessagesOf
<1>4. {n \in DOMAIN main : IsRelease(main[n], q)} = {n \in DOMAIN main : main[n] \in ReleasesOf(q)}
  BY <1>1 DEF ReleasesOf
<1>5. {n \in DOMAIN link[q] : link[q][n].pipe = q} = {n \in DOMAIN link[q] : link[q][n] \in ReleasesOf(q)}
  <2>1. \A n \in DOMAIN link[q] : link[q][n] \in Releases
    BY <1>1
  <2>2. \A m \in Releases : m \in ReleasesOf(q) <=> m.pipe = q
    BY DEF ReleasesOf, IsRelease, Releases, ToMain
  <2> QED
    BY <2>1, <2>2
<1> QED
  BY <1>2, <1>3, <1>4, <1>5 DEF Unseen, OnTheWay

\* A client waits for one thing, or for nothing.
LEMMA OneAtATime ==
  ASSUME IInv
  PROVE  OneMessageAtATime
<1> SUFFICES ASSUME NEW q \in Pipes, Undisturbed, cli[q].exit = None
             PROVE  IF cli[q].waiting THEN \E t \in UnderWay(q) : UnderWay(q) = {t}
                    ELSE UnderWay(q) = {}
  BY DEF OneMessageAtATime
<1> DEFINE at(x, s, T) == {<<x, k>> : k \in {n \in DOMAIN s : s[n] \in T}}
           S == at("socket", socket[q], Sent)
           I == at("inbox", inbox, MessagesOf(q))
           M == at("main", main, ReleasesOf(q))
           L == at("link", link[q], ReleasesOf(q))
           K == IF Known(q) THEN {<<"plugins", 0>>} ELSE {}
<1>1. TurnInv(q) /\ TypeInv
  BY DEF IInv, UndisturbedInv, Turning
<1>2. UnderWay(q) = S \cup I \cup M \cup L \cup K
  BY <1>1, UnderWayFacts DEF UnderWay
<1>3. /\ IF Has(socket[q], Sent) THEN \E t : S = {t} ELSE S = {}
      /\ IF Has(inbox, MessagesOf(q)) THEN \E t : I = {t} ELSE I = {}
      /\ IF Has(main, ReleasesOf(q)) THEN \E t : M = {t} ELSE M = {}
      /\ IF Has(link[q], ReleasesOf(q)) THEN \E t : L = {t} ELSE L = {}
      /\ IF Known(q) THEN \E t : K = {t} ELSE K = {}
  <2>1. /\ Once(socket[q], Sent) /\ Once(inbox, MessagesOf(q))
        /\ Once(main, ReleasesOf(q)) /\ Once(link[q], ReleasesOf(q))
    BY <1>1 DEF TurnInv
  <2>0. ASSUME NEW x, NEW s, NEW T, Once(s, T)
        PROVE  IF Has(s, T) THEN \E t : at(x, s, T) = {t} ELSE at(x, s, T) = {}
    BY <2>0, SingleFacts
  <2> HIDE DEF at
  <2>2. IF Has(socket[q], Sent) THEN \E t : S = {t} ELSE S = {}
    BY <2>0, <2>1
  <2>3. IF Has(inbox, MessagesOf(q)) THEN \E t : I = {t} ELSE I = {}
    BY <2>0, <2>1
  <2>4. IF Has(main, ReleasesOf(q)) THEN \E t : M = {t} ELSE M = {}
    BY <2>0, <2>1
  <2>5. IF Has(link[q], ReleasesOf(q)) THEN \E t : L = {t} ELSE L = {}
    BY <2>0, <2>1
  <2>6. IF Known(q) THEN \E t : K = {t} ELSE K = {}
    OBVIOUS
  <2> HIDE DEF S, I, M, L, K
  <2> QED
    BY <2>2, <2>3, <2>4, <2>5, <2>6
<1>4. InPlace(Has(socket[q], Sent), Has(inbox, MessagesOf(q)), Known(q),
              Has(main, ReleasesOf(q)), Has(link[q], ReleasesOf(q)), cli[q])
  BY <1>1 DEF TurnInv
<1> HIDE DEF S, I, M, L, K
<1>5. CASE cli[q].waiting
  <2>1. \E t : S \cup I \cup M \cup L \cup K = {t}
    BY <1>3, <1>4, <1>5 DEF InPlace, OnePlace
  <2>2. PICK t : UnderWay(q) = {t}
    BY <1>2, <2>1
  <2> QED
    BY <1>5, <2>2
<1>6. CASE ~cli[q].waiting
  BY <1>2, <1>3, <1>4, <1>6 DEF InPlace, OnePlace
<1> QED
  BY <1>5, <1>6

\* A release comes when no call for its pipe is left.
LEMMA NotTooEarly ==
  ASSUME IInv
  PROVE  ReleasedWhenHandled
<1> SUFFICES ASSUME NEW q \in Pipes, Undisturbed, ~FinalSent(q),
                    OnTheWay(q) # {} \/ ~cli[q].waiting
             PROVE  CallsOf(q) = {}
  BY DEF ReleasedWhenHandled
<1>1. TypeInv /\ TurnInv(q) /\ FinishedInv(q)
      /\ (~pending[q].finished => \A i \in Instances : ShareInv(q, i))
  BY DEF IInv, UndisturbedInv, Turning
<1>2. OnTheWay(q) # {} => Has(main, ReleasesOf(q)) \/ Has(link[q], ReleasesOf(q))
  BY <1>1, UnderWayFacts, SingleFacts
<1>3. ~Known(q)
  BY <1>1, <1>2 DEF TurnInv, InPlace, OnePlace
<1>4. ~pending[q].finished
  <2> SUFFICES ASSUME pending[q].finished
               PROVE  FALSE
    OBVIOUS
  <2>1. /\ ~Has(main, ReleasesOf(q) \ FinalOf(q)) /\ ~Has(link[q], ReleasesOf(q) \ FinalOf(q))
        /\ Has(main, ReleasesOf(q)) \/ Has(link[q], ReleasesOf(q))
    BY <1>1, <1>2 DEF FinishedInv
  <2>2. Has(main, FinalOf(q)) \/ Has(link[q], FinalOf(q))
    BY <2>1 DEF Has
  <2> QED
    BY <2>2 DEF Has, FinalOf, ReleasesOf, IsRelease, FinalSent
<1>5. pending[q].info.processing = {}
  <2>1. Sound(pending[q])
    BY <1>1 DEF TypeInv, PendingInv
  <2>2. pending[q].info = Forgotten
    BY <1>3, <2>1 DEF Sound, Known
  <2> QED
    BY <2>2 DEF Forgotten
<1>6. ASSUME NEW p \in Plugins, NEW k \in DOMAIN jobs[p], jobs[p][k].pipe = q
      PROVE  FALSE
  <2> DEFINE i == jobs[p][k].on
  <2>1. jobs[p] \in Seq(Calls) /\ i[1] = p
    BY <1>1 DEF TypeInv, QueuesInv
  <2>2. jobs[p][k] \in Calls
    BY <2>1
  <2>3. i \in Instances /\ jobs[p][k] \in CallsFor(q, i)
    BY <1>6, <2>2 DEF Calls, CallsFor
  <2>4. Has(jobs[i[1]], CallsFor(q, i))
    BY <2>1, <2>3 DEF Has
  <2>5. ShareInv(q, i)
    BY <1>1, <1>4, <2>3
  <2> HIDE DEF i
  <2> QED
    BY <1>5, <2>4, <2>5 DEF ShareInv
<1>7. \A p \in Plugins : {k \in DOMAIN jobs[p] : jobs[p][k].pipe = q} = {}
  BY <1>6
<1> QED
  BY <1>7 DEF CallsOf

\* One release for each message, when all have handled it, to the client that sent it: no
\* release finds its pipe without its client; and as long as nothing is rendered or removed
\* and one instance blocks, a client that waits waits for one thing, and it is released when
\* no call for its message is left.
THEOREM ReleasesInTurn == Spec => []ReleasedInTurn
<1>1. IInv => RoutedToItsClient
  <2> SUFFICES ASSUME IInv, main # <<>>, Head(main).kind = "release"
               PROVE  session[Head(main).pipe] # "new"
    BY DEF RoutedToItsClient
  <2>1. TypeInv /\ SeenInv /\ AssociationInv
    BY DEF IInv
  <2>2. /\ Head(main) = main[1] /\ 1 \in DOMAIN main /\ main \in Seq(ToMain)
        /\ DOMAIN main = 1 .. Len(main) /\ Len(main) \in Nat
    BY <2>1, TailFacts DEF TypeInv, QueuesInv
  <2>3. main[1].pipe \in seen /\ IsRelease(main[1], main[1].pipe)
    BY <2>1, <2>2 DEF SeenInv, IsRelease
  <2>4. \A k \in DOMAIN main : ~(k < 1)
    BY <2>2
  <2> QED
    BY <2>1, <2>2, <2>3, <2>4 DEF AssociationInv
<1>2. IInv => ReleasedInTurn
  BY <1>1, OneAtATime, NotTooEarly DEF ReleasedInTurn
<1> QED
  BY <1>2, PipesInvariant, PTL

\* A step sends no release of a pipe after the one that ends it.
LEMMA NoneAfterFinal ==
  ASSUME IInv, [Next]_vars, NEW q \in Pipes, FinalSent(q), NEW n \in DOMAIN main' \ DOMAIN main
  PROVE  ~IsRelease(main'[n], q)
<1>0. TypeInv /\ SeenInv /\ CallInv /\ pending[q].finished
  BY DEF IInv, FinalInv
<1>1. main \in Seq(ToMain)
  BY <1>0 DEF TypeInv, QueuesInv
<1>2. CASE PluginThread
  BY <1>0, <1>2, PipeAssumption, PluginReleases DEF IsRelease
<1>3. CASE \E r \in Pipes : RouteAssociate(r) \/ RouteMessage(r) \/ RouteExit(r)
  <2>1. main' = main \/ \E m \in ToMain : main' = Append(main, m) /\ m.kind # "release"
    <3>1. \A r : Plain("associate", r).kind # "release" /\ Plain("remove", r).kind # "release"
      BY DEF Plain
    <3> QED
      BY <1>0, <1>3, <3>1, RouterFacts DEF RouteMessage
  <2>2. PICK m \in ToMain : main' = Append(main, m) /\ m.kind # "release"
    BY <2>1
  <2>3. n = Len(main) + 1 /\ main'[n] = m
    BY <1>1, <2>2, AppendFacts
  <2> QED
    BY <2>2, <2>3 DEF IsRelease
<1>4. CASE MainLoop
  <2>1. main # <<>> /\ main' = Tail(main)
    BY <1>4 DEF MainLoop
  <2>2. n \in DOMAIN main
    <3>1. Len(main) \in Nat /\ DOMAIN main = 1 .. Len(main) /\ DOMAIN main' = 1 .. Len(main) - 1
      BY <1>1, <2>1, TailFacts
    <3> QED
      BY <3>1
  <2> QED
    BY <2>2
<1>5. CASE UNCHANGED main
  BY <1>5
<1>6. CASE \E p \in Plugins : RunJob(p)
  BY <1>0, <1>5, <1>6, PipeAssumption, JobFacts, CallingFacts
<1>7. CASE \E i \in Instances, r \in Pipes, code \in Codes \cup {None} : UnblockLater(i, r, code)
  BY <1>0, <1>5, <1>7, PipeAssumption, LaterFacts, CallingFacts
<1>8. CASE (\E p \in Plugins : UnloadPlugin(p)) \/ (\E c \in Clients : RemoveClient(c))
  BY <1>0, <1>5, <1>8, RemovalFacts
<1> QED
  BY <1>2, <1>3, <1>4, <1>5, <1>6, <1>7, <1>8
     DEF Next, vars, ReadInput, ReceiveRelease, Interrupt, ScreenThread

\* Once the release that ends a pipe is sent no other release of it is, however late the
\* changes of its plugins arrive - whatever is rendered, removed or fails.
THEOREM FinalReleaseIsLast == Spec => NothingAfterFinal
<1>1. IInv /\ [Next]_vars =>
        [\A q \in Pipes : FinalSent(q) =>
           \A n \in DOMAIN main' \ DOMAIN main : ~IsRelease(main'[n], q)]_vars
  BY NoneAfterFinal
<1> QED
  BY <1>1, PipesInvariant, PTL DEF Spec, NothingAfterFinal
=============================================================================
