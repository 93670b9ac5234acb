------------------------ MODULE PluginLoadingProofs ------------------------
(***************************************************************************)
(* What holds of loading plugins for every number of plugins, clients,     *)
(* events and failures: every client has every plugin, and every instance  *)
(* gets its events once and in order.                                      *)
(*                                                                         *)
(* The second rests on a plugin whose loads have not overlapped being in   *)
(* one phase at a time: its load is downloaded, or waits for its thread,   *)
(* or has been answered for - and as long as one of these holds, its       *)
(* events are cached.                                                      *)
(***************************************************************************)
EXTENDS PluginLoading, FiniteSetTheorems, SequenceTheorems, TLAPS

Loads == {"load", "reload", "join"}
LoadJobs == [op : Loads, client : Clients, since : Nat]
EventJobs == [op : {"events"}, client : Clients, gen : Nat, events : Seq(Nat)]
Jobs == LoadJobs \cup EventJobs
Instance == [gen : Nat, since : Nat, got : Seq(Nat)]
Message == [op : {"cache", "apply", "answered"}, plugin : Plugins]

\* Nothing is from the future: neither a load nor an instance, nor an event.
Past(s) == \A k \in DOMAIN s : s[k] \in 1 .. sent
PastLoad(j) == j \in LoadJobs /\ j.since <= sent
PastJob(j) ==
  PastLoad(j) \/ (j \in EventJobs /\ j.gen \in 1 .. born /\ Past(j.events))

SetsInv ==
  /\ connected \subseteq Clients /\ gone \subseteq Clients
  /\ meta \subseteq Plugins /\ reloads \subseteq Plugins
  /\ toUnload \subseteq unloaded
  /\ born \in Nat /\ sent \in Nat
InstancesInv ==
  /\ DOMAIN instances \subseteq Plugins \X Clients
  /\ \A i \in DOMAIN instances :
       /\ instances[i] \in Instance
       /\ instances[i].gen \in 1 .. born /\ instances[i].since <= sent /\ Past(instances[i].got)
CacheInv ==
  /\ DOMAIN caching \subseteq Plugins
  /\ \A p \in DOMAIN caching : caching[p] \in Seq(Nat) /\ Past(caching[p])
  /\ loading \subseteq DOMAIN caching /\ waiting \subseteq DOMAIN caching
DownloadsInv ==
  /\ DOMAIN downloading \subseteq Remote
  /\ \A p \in DOMAIN downloading : PastLoad(downloading[p]) /\ downloading[p].op = "load"
JobsInv ==
  /\ jobs \in [Plugins -> Seq(Jobs)]
  /\ \A p \in Plugins : \A n \in DOMAIN jobs[p] : PastJob(jobs[p][n])
InboxInv == inbox \in Seq(Message)

TypeInv == SetsInv /\ InstancesInv /\ CacheInv /\ DownloadsInv /\ JobsInv /\ InboxInv

\* Who joins a plugin, joins one that runs, or one that was unloaded since.
JoinInv ==
  \A p \in Plugins : \A n \in DOMAIN jobs[p] : jobs[p][n].op = "join" => p \in meta \cup unloaded

LoadsIn(q) == {n \in DOMAIN q : q[n].op \in Loads}

\* What the plugin thread has still to hear of a load, or the user to answer: the request
\* for permissions first, then that it has loaded, then the answer, each once.
NotesIn(q, p) == {k \in DOMAIN q : q[k].plugin = p}
Ordered(q, p) ==
  \A k, m \in NotesIn(q, p) :
    /\ q[k].op = q[m].op => k = m
    /\ (q[k].op = "cache" /\ q[m].op = "apply") => k < m
    /\ q[k].op = "answered" => m <= k
Fitting(q, p, W) ==
  \A k \in NotesIn(q, p) :
    /\ q[k].op = "cache" => p \notin W
    /\ q[k].op = "answered" => p \in W
InTurn(q, p, W) == Ordered(q, p) /\ Fitting(q, p, W)
NotesInv(p) == InTurn(inbox, p, waiting)

\* One phase at a time, and the events are cached in each.
PhaseInv(p) ==
  /\ p \in DOMAIN downloading =>
       p \in DOMAIN caching /\ LoadsIn(jobs[p]) = {} /\ NotesIn(inbox, p) = {} /\ p \notin waiting
  /\ LoadsIn(jobs[p]) # {} =>
       p \in DOMAIN caching /\ NotesIn(inbox, p) = {} /\ p \notin waiting
  /\ \A m, n \in LoadsIn(jobs[p]) : m = n
  /\ NotesIn(inbox, p) # {} => p \in DOMAIN caching
  /\ NotesInv(p)

\* The events since a load was requested are all cached, until it has loaded.
SinceInv(p) ==
  /\ p \in DOMAIN downloading =>
       \A e \in downloading[p].since + 1 .. sent : e \in Range(Cached(p))
  /\ \A n \in LoadsIn(jobs[p]) :
       \A e \in jobs[p][n].since + 1 .. sent : e \in Range(Cached(p))

ApartInv == \A p \in Plugins \ overlapped : PhaseInv(p) /\ SinceInv(p)

OrderInv == OrderKept /\ \A p \in DOMAIN caching : Rising(caching[p])
WholeInv == \A p \in Plugins \ overlapped : Complete(p)

IInv == TypeInv /\ JoinInv /\ EveryClientServed /\ ApartInv /\ OrderInv /\ WholeInv
-----------------------------------------------------------------------------
(* Sequences and queues *)

\* What appending a sequence does.
LEMMA ConcatFacts ==
  ASSUME NEW S, NEW q \in Seq(S), NEW t \in Seq(S)
  PROVE  /\ q \o t \in Seq(S)
         /\ Len(q \o t) = Len(q) + Len(t) /\ DOMAIN (q \o t) = 1 .. Len(q) + Len(t)
         /\ Len(q) \in Nat /\ Len(t) \in Nat
         /\ DOMAIN q = 1 .. Len(q) /\ DOMAIN t = 1 .. Len(t)
         /\ \A n \in DOMAIN q : (q \o t)[n] = q[n]
         /\ \A n \in DOMAIN t : (q \o t)[Len(q) + n] = t[n]
         /\ \A n \in DOMAIN (q \o t) :
              n \in DOMAIN q \/ \E m \in DOMAIN t : n = Len(q) + m
<1>1. /\ q \o t \in Seq(S)
      /\ Len(q \o t) = Len(q) + Len(t) /\ DOMAIN (q \o t) = 1 .. Len(q) + Len(t)
      /\ Len(q) \in Nat /\ Len(t) \in Nat
      /\ DOMAIN q = 1 .. Len(q) /\ DOMAIN t = 1 .. Len(t)
      /\ \A n \in DOMAIN q : (q \o t)[n] = q[n]
      /\ \A n \in DOMAIN t : (q \o t)[Len(q) + n] = t[n]
  OBVIOUS
<1>2. ASSUME NEW n \in DOMAIN (q \o t), n \notin DOMAIN q
      PROVE  n - Len(q) \in DOMAIN t /\ n = Len(q) + (n - Len(q))
  BY <1>1, <1>2
<1> QED
  BY <1>1, <1>2

\* Appending a short sequence to a short one.
LEMMA ShortFacts ==
  ASSUME NEW x, NEW y, NEW s \in {<<>>, <<x>>}, NEW t \in {<<>>, <<y>>}
  PROVE  s \o t \in {<<>>, <<x>>, <<y>>, <<x, y>>}
<1>1. CASE s = <<>> /\ t = <<>>
  BY <1>1
<1>2. CASE s = <<x>> /\ t = <<>>
  BY <1>2
<1>3. CASE s = <<>> /\ t = <<y>>
  BY <1>3
<1>4. CASE s = <<x>> /\ t = <<y>>
  <2> DEFINE S == {x, y}
  <2>1. s \in Seq(S) /\ t \in Seq(S) /\ <<x, y>> \in Seq(S)
    BY <1>4
  <2>2. s \o t \in Seq(S) /\ Len(s \o t) = 2 /\ (s \o t)[1] = x /\ (s \o t)[2] = y
    BY <1>4, <2>1
  <2>3. \A i \in 1 .. Len(s \o t) : (s \o t)[i] = <<x, y>>[i]
    BY <2>2
  <2>4. s \o t = <<x, y>>
    BY <2>1, <2>2, <2>3, SeqEqual
  <2> QED
    BY <2>4
<1> QED
  BY <1>1, <1>2, <1>3, <1>4

\* What taking the first element does.
LEMMA TailFacts ==
  ASSUME NEW S, NEW q \in Seq(S), q # <<>>
  PROVE  /\ Tail(q) \in Seq(S) /\ Head(q) = q[1] /\ 1 \in DOMAIN q
         /\ Len(q) \in Nat /\ DOMAIN q = 1 .. Len(q)
         /\ DOMAIN Tail(q) = 1 .. Len(q) - 1
         /\ \A n \in DOMAIN Tail(q) : n + 1 \in DOMAIN q /\ Tail(q)[n] = q[n + 1]
         /\ \A n \in DOMAIN q : n = 1 \/ (n - 1 \in DOMAIN Tail(q) /\ Tail(q)[n - 1] = q[n])
  OBVIOUS

\* SetToSeq lists the members of a finite set, each once.
LEMMA ListFacts ==
  ASSUME NEW S, IsFiniteSet(S)
  PROVE  /\ SetToSeq(S) \in Seq(S)
         /\ \A x \in S : \E n \in DOMAIN SetToSeq(S) : SetToSeq(S)[n] = x
         /\ \A m, n \in DOMAIN SetToSeq(S) : SetToSeq(S)[m] = SetToSeq(S)[n] => m = n
<1> DEFINE D == 1 .. Cardinality(S)
           s == SetToSeq(S)
<1>1. Cardinality(S) \in Nat /\ ExistsBijection(D, S)
  BY FS_CardinalityType
<1>2. PICK f \in Bijection(D, S) : TRUE
  BY <1>1 DEF ExistsBijection
<1>3. f \in [D -> S] /\ IsInjective(f)
  BY <1>2 DEF Bijection, Injection, IsInjective
<1>4. s \in [D -> S] /\ IsInjective(s)
  BY <1>3 DEF SetToSeq
<1>5. s \in Injection(D, S)
  BY <1>4 DEF Injection, IsInjective
<1>6. Cardinality(D) = Cardinality(S)
  BY <1>1, FS_Interval
<1>7. s \in Surjection(D, S)
  <2> HIDE DEF D, s
  <2> QED
    BY <1>5, <1>6, FS_Injection
<1>8. s \in Seq(S) /\ DOMAIN s = D
  BY <1>1, <1>4
<1> QED
  BY <1>4, <1>7, <1>8 DEF Surjection, IsInjective

\* The jobs for one instance in a queue, what they bring, and in which order.
Mine(q, c, g) == {n \in DOMAIN q : q[n].op = "events" /\ q[n].client = c /\ q[n].gen = g}
Has(got, q, c, g, cached, e) ==
  e \in Range(got) \/ e \in Range(cached) \/ \E n \in Mine(q, c, g) : e \in Range(q[n].events)
Kept(got, q, c, g, cached) ==
  /\ Rising(got) /\ Rising(cached) /\ AllBefore(got, cached)
  /\ \A n \in Mine(q, c, g) :
       Rising(q[n].events) /\ AllBefore(got, q[n].events) /\ AllBefore(q[n].events, cached)
  /\ \A m, n \in Mine(q, c, g) : m < n => AllBefore(q[m].events, q[n].events)

\* Order and completeness in these terms.
LEMMA InTheseTerms ==
  /\ OrderKept <=> \A i \in DOMAIN instances :
       Kept(instances[i].got, jobs[i[1]], i[2], instances[i].gen, Cached(i[1]))
  /\ \A p : Complete(p) <=> \A i \in InstancesOf(p, instances) :
       \A e \in instances[i].since + 1 .. sent :
         Has(instances[i].got, jobs[i[1]], i[2], instances[i].gen, Cached(i[1]), e)
<1>1. \A i : Own(i) = Mine(jobs[i[1]], i[2], instances[i].gen)
  BY DEF Own, Mine
<1>2. OrderKept <=> \A i \in DOMAIN instances :
        Kept(instances[i].got, jobs[i[1]], i[2], instances[i].gen, Cached(i[1]))
  BY <1>1, Zenon DEF OrderKept, Kept
<1>3. \A i, e : e \in Events(i) <=>
        Has(instances[i].got, jobs[i[1]], i[2], instances[i].gen, Cached(i[1]), e)
  BY <1>1, Zenon DEF Events, Has
<1> QED
  BY <1>2, <1>3 DEF Complete

\* The same of the next state.
LEMMA InTheseTermsNext ==
  /\ OrderKept' <=> \A i \in DOMAIN instances' :
       Kept(instances'[i].got, jobs'[i[1]], i[2], instances'[i].gen, Cached(i[1])')
  /\ \A p : Complete(p)' <=> \A i \in InstancesOf(p, instances') :
       \A e \in instances'[i].since + 1 .. sent' :
         Has(instances'[i].got, jobs'[i[1]], i[2], instances'[i].gen, Cached(i[1])', e)
<1>1. \A i : Own(i)' = Mine(jobs'[i[1]], i[2], instances'[i].gen)
  BY DEF Own, Mine
<1>2. OrderKept' <=> \A i \in DOMAIN instances' :
        Kept(instances'[i].got, jobs'[i[1]], i[2], instances'[i].gen, Cached(i[1])')
  BY <1>1, Zenon DEF OrderKept, Kept
<1>3. \A i, e : e \in Events(i)' <=>
        Has(instances'[i].got, jobs'[i[1]], i[2], instances'[i].gen, Cached(i[1])', e)
  BY <1>1, Zenon DEF Events, Has
<1> QED
  BY <1>2, <1>3 DEF Complete

\* Jobs for others do not matter, nor does an empty cache that begins.
LEMMA OthersAppended ==
  ASSUME NEW q \in Seq(Jobs), NEW t \in Seq(Jobs), NEW c, NEW g, NEW got, NEW cached, NEW later,
         Mine(t, c, g) = {}, later = cached \/ later = <<>>
  PROVE  /\ Kept(got, q, c, g, cached) => Kept(got, q \o t, c, g, later)
         /\ \A e : Has(got, q, c, g, cached, e) /\ (later = cached \/ cached = <<>>)
              => Has(got, q \o t, c, g, later, e)
<1>1. \A n \in DOMAIN (q \o t) : n \in DOMAIN q \/ \E m \in DOMAIN t : n = Len(q) + m
  BY ConcatFacts
<1>2. \A n \in DOMAIN q : n \in DOMAIN (q \o t) /\ (q \o t)[n] = q[n]
  BY ConcatFacts
<1>3. \A n \in DOMAIN t : (q \o t)[Len(q) + n] = t[n]
  BY ConcatFacts
<1>4. Mine(q \o t, c, g) = Mine(q, c, g) /\ \A n \in Mine(q, c, g) : (q \o t)[n] = q[n]
  BY <1>1, <1>2, <1>3 DEF Mine
<1>5. Rising(<<>>) /\ (\A s : AllBefore(s, <<>>)) /\ Range(<<>>) = {}
  BY DEF Rising, AllBefore, Range
<1> QED
  BY <1>4, <1>5 DEF Kept, Has

\* A job with what was cached, or with an event that is not, and then nothing is cached.
LEMMA OneAppended ==
  ASSUME NEW q \in Seq(Jobs), NEW t \in Seq(Jobs), NEW c, NEW g, NEW got, NEW cached,
         NEW k \in Mine(t, c, g), \A n \in Mine(t, c, g) : n = k,
         Kept(got, q, c, g, cached),
         Rising(t[k].events), AllBefore(got, t[k].events),
         \A n \in Mine(q, c, g) : AllBefore(q[n].events, t[k].events)
  PROVE  /\ Kept(got, q \o t, c, g, <<>>)
         /\ \A e : \/ Has(got, q, c, g, cached, e) /\ Range(cached) \subseteq Range(t[k].events)
                   \/ e \in Range(t[k].events)
              => Has(got, q \o t, c, g, <<>>, e)
<1> DEFINE l == Len(q) + k
           r == q \o t
           all == Mine(r, c, g)
           old == Mine(q, c, g)
<1>1. \A n \in DOMAIN r : n \in DOMAIN q \/ \E m \in DOMAIN t : n = Len(q) + m
  BY ConcatFacts
<1>2. \A n \in DOMAIN q : n \in DOMAIN r /\ r[n] = q[n]
  BY ConcatFacts
<1>3. \A n \in DOMAIN t : Len(q) + n \in DOMAIN r /\ r[Len(q) + n] = t[n]
  BY ConcatFacts
<1>4. k \in DOMAIN t
  BY DEF Mine
<1>5. r[l] = t[k]
  BY <1>3, <1>4
<1>6. all = old \cup {l}
  BY <1>1, <1>2, <1>3, <1>4 DEF Mine
<1>7. \A n \in old : r[n] = q[n] /\ n < l
  BY <1>2, <1>4, ConcatFacts DEF Mine
<1> HIDE DEF l, r, all, old
<1>8. Rising(<<>>) /\ (\A s : AllBefore(s, <<>>)) /\ Range(<<>>) = {}
  BY DEF Rising, AllBefore, Range
<1>12. l \in Int
  BY <1>4, ConcatFacts DEF l
<1>13. ~(l < l) /\ \A n \in old : n \in Int /\ ~(l < n)
  BY <1>7, <1>12, ConcatFacts DEF old, Mine
<1>9. Rising(got) /\ \A n \in all : Rising(r[n].events) /\ AllBefore(got, r[n].events)
  BY <1>5, <1>6, <1>7 DEF Kept, old
<1>10. \A m, n \in all : m < n => AllBefore(r[m].events, r[n].events)
  BY <1>5, <1>6, <1>7, <1>13 DEF Kept, old
<1>11. Kept(got, r, c, g, <<>>)
  BY <1>8, <1>9, <1>10 DEF Kept, all
<1>14. \A e : Has(got, q, c, g, cached, e) /\ Range(cached) \subseteq Range(t[k].events)
         => Has(got, r, c, g, <<>>, e)
  BY <1>5, <1>6, <1>7, Zenon DEF Has, all, old
<1>15. \A e : e \in Range(t[k].events) => Has(got, r, c, g, <<>>, e)
  BY <1>5, <1>6 DEF Has, all
<1> QED
  BY <1>11, <1>14, <1>15 DEF r

\* An event later than all is cached.
LEMMA OneCached ==
  ASSUME NEW q \in Seq(Jobs), NEW c, NEW g, NEW got, NEW cached \in Seq(Nat), NEW e \in Nat,
         Kept(got, q, c, g, cached),
         \A n \in DOMAIN cached : cached[n] < e,
         \A n \in DOMAIN got : got[n] < e,
         \A n \in DOMAIN q : q[n].op = "events" =>
           \A k \in DOMAIN q[n].events : q[n].events[k] < e
  PROVE  /\ Kept(got, q, c, g, Append(cached, e))
         /\ \A d : Has(got, q, c, g, cached, d) \/ d = e
              => Has(got, q, c, g, Append(cached, e), d)
<1> DEFINE l == Append(cached, e)
<1>1. /\ DOMAIN l = 1 .. Len(cached) + 1 /\ DOMAIN cached = 1 .. Len(cached) /\ Len(cached) \in Nat
      /\ l[Len(cached) + 1] = e /\ \A n \in DOMAIN cached : l[n] = cached[n]
  OBVIOUS
<1> HIDE DEF l
<1>2. \A n \in DOMAIN l : n = Len(cached) + 1 \/ n \in DOMAIN cached
  BY <1>1
<1>3. \A s : AllBefore(s, cached) /\ (\A n \in DOMAIN s : s[n] < e) => AllBefore(s, l)
  BY <1>1, <1>2 DEF AllBefore
<1>4. Rising(l)
  <2> SUFFICES ASSUME NEW m \in DOMAIN l, NEW n \in DOMAIN l, m < n
               PROVE  l[m] < l[n]
    BY DEF Rising
  <2>1. m \in DOMAIN cached
    BY <1>1
  <2>2. CASE n \in DOMAIN cached
    BY <1>1, <2>1, <2>2 DEF Kept, Rising
  <2>3. CASE n = Len(cached) + 1
    BY <1>1, <2>1, <2>3
  <2> QED
    BY <1>2, <2>2, <2>3
<1>5. \A n \in Mine(q, c, g) : AllBefore(q[n].events, l)
  BY <1>3 DEF Kept, Mine
<1>6. Kept(got, q, c, g, l)
  BY <1>3, <1>4, <1>5 DEF Kept
<1>7. \A d : d \in Range(cached) \/ d = e => d \in Range(l)
  BY <1>1 DEF Range
<1> QED
  BY <1>6, <1>7 DEF l, Has

\* The first job of the queue is for another, or not about events.
LEMMA OtherTaken ==
  ASSUME NEW q \in Seq(Jobs), q # <<>>, NEW c, NEW g, NEW got, NEW cached,
         1 \notin Mine(q, c, g)
  PROVE  /\ Kept(got, q, c, g, cached) => Kept(got, Tail(q), c, g, cached)
         /\ \A e : Has(got, q, c, g, cached, e) => Has(got, Tail(q), c, g, cached, e)
<1> DEFINE r == Tail(q)
<1>1. /\ \A n \in DOMAIN r : n + 1 \in DOMAIN q /\ r[n] = q[n + 1] /\ n \in Nat
      /\ \A n \in DOMAIN q : n \in Nat /\ (n = 1 \/ (n - 1 \in DOMAIN r /\ r[n - 1] = q[n]))
  BY TailFacts
<1> HIDE DEF r
<1>2. \A n \in Mine(r, c, g) : n \in Nat /\ n + 1 \in Mine(q, c, g) /\ r[n] = q[n + 1]
  BY <1>1 DEF Mine
<1>3. \A n \in Mine(q, c, g) : n - 1 \in Mine(r, c, g) /\ r[n - 1] = q[n]
  BY <1>1 DEF Mine
<1>4. \A m, n \in Mine(r, c, g) : m < n => m + 1 < n + 1
  BY <1>2
<1>5. Kept(got, q, c, g, cached) => Kept(got, r, c, g, cached)
  BY <1>2, <1>4 DEF Kept
<1>6. \A e : Has(got, q, c, g, cached, e) => Has(got, r, c, g, cached, e)
  BY <1>3 DEF Has
<1> QED
  BY <1>5, <1>6 DEF r

\* The first job of the queue is done, and what it brings has been got.
LEMMA OwnTaken ==
  ASSUME NEW q \in Seq(Jobs), q # <<>>, NEW c, NEW g, NEW got \in Seq(Nat), NEW cached,
         1 \in Mine(q, c, g)
  PROVE  /\ Kept(got, q, c, g, cached) => Kept(got \o q[1].events, Tail(q), c, g, cached)
         /\ \A e : Has(got, q, c, g, cached, e)
              => Has(got \o q[1].events, Tail(q), c, g, cached, e)
<1> DEFINE r == Tail(q)
           ev == q[1].events
           more == got \o ev
<1>1. /\ \A n \in DOMAIN r : n + 1 \in DOMAIN q /\ r[n] = q[n + 1] /\ n \in Nat /\ n > 0
      /\ \A n \in DOMAIN q : n \in Nat /\ (n = 1 \/ (n - 1 \in DOMAIN r /\ r[n - 1] = q[n]))
  BY TailFacts
<1>2. ev \in Seq(Nat)
  BY TailFacts DEF Mine, Jobs, LoadJobs, EventJobs, Loads
<1>3. /\ \A n \in DOMAIN more : n \in DOMAIN got \/ \E m \in DOMAIN ev : n = Len(got) + m
      /\ DOMAIN got = 1 .. Len(got) /\ Len(got) \in Nat /\ DOMAIN ev = 1 .. Len(ev)
      /\ \A n \in DOMAIN got : n \in DOMAIN more /\ more[n] = got[n]
      /\ \A n \in DOMAIN ev : Len(got) + n \in DOMAIN more /\ more[Len(got) + n] = ev[n]
  <2> HIDE DEF ev, r
  <2> QED
    BY <1>2, ConcatFacts
<1> HIDE DEF r, ev, more
<1>4. \A n \in Mine(r, c, g) : n \in Nat /\ n > 0 /\ n + 1 \in Mine(q, c, g) /\ r[n] = q[n + 1]
  BY <1>1 DEF Mine
<1>5. \A n \in Mine(q, c, g) : n = 1 \/ (n - 1 \in Mine(r, c, g) /\ r[n - 1] = q[n])
  <2> SUFFICES ASSUME NEW n \in Mine(q, c, g), n # 1
               PROVE  n - 1 \in Mine(r, c, g) /\ r[n - 1] = q[n]
    OBVIOUS
  <2>1. n \in DOMAIN q
    BY DEF Mine
  <2>2. n - 1 \in DOMAIN r /\ r[n - 1] = q[n]
    BY <1>1, <2>1
  <2> QED
    BY <2>2 DEF Mine
<1>6. ASSUME Kept(got, q, c, g, cached)
      PROVE  Kept(more, r, c, g, cached)
  <2>1. Rising(more)
    <3> SUFFICES ASSUME NEW m \in DOMAIN more, NEW n \in DOMAIN more, m < n
                 PROVE  more[m] < more[n]
      BY DEF Rising
    <3>0. Rising(got) /\ Rising(ev) /\ AllBefore(got, ev)
      BY <1>6 DEF Kept, ev
    <3>1. CASE n \in DOMAIN got
      <4>1. m \in DOMAIN got
        BY <1>3, <3>1
      <4> QED
        BY <1>3, <3>0, <3>1, <4>1 DEF Rising
    <3>2. CASE \E k \in DOMAIN ev : n = Len(got) + k
      <4> PICK k \in DOMAIN ev : n = Len(got) + k
        BY <3>2
      <4>1. CASE m \in DOMAIN got
        BY <1>3, <3>0, <4>1 DEF AllBefore
      <4>2. CASE \E j \in DOMAIN ev : m = Len(got) + j
        <5> PICK j \in DOMAIN ev : m = Len(got) + j
          BY <4>2
        <5>1. j < k
          BY <1>3
        <5> QED
          BY <1>3, <3>0, <5>1 DEF Rising
      <4> QED
        BY <1>3, <4>1, <4>2
    <3> QED
      BY <1>3, <3>1, <3>2
  <2>2. \A s : AllBefore(got, s) /\ AllBefore(ev, s) => AllBefore(more, s)
    BY <1>3 DEF AllBefore
  <2>3. AllBefore(more, cached)
    BY <1>6, <2>2 DEF Kept, ev
  <2>4. \A n \in Mine(r, c, g) :
          Rising(r[n].events) /\ AllBefore(more, r[n].events) /\ AllBefore(r[n].events, cached)
    <3> SUFFICES ASSUME NEW n \in Mine(r, c, g)
                 PROVE  /\ Rising(r[n].events) /\ AllBefore(more, r[n].events)
                        /\ AllBefore(r[n].events, cached)
      OBVIOUS
    <3>1. n + 1 \in Mine(q, c, g) /\ r[n] = q[n + 1] /\ 1 < n + 1
      BY <1>4
    <3>2. AllBefore(ev, r[n].events) /\ AllBefore(got, r[n].events)
      BY <1>6, <3>1 DEF Kept, ev
    <3> QED
      BY <1>6, <2>2, <3>1, <3>2 DEF Kept
  <2>5. \A m, n \in Mine(r, c, g) : m < n => m + 1 < n + 1
    BY <1>4
  <2> QED
    BY <1>4, <1>6, <2>1, <2>3, <2>4, <2>5 DEF Kept
<1>7. \A e : e \in Range(got) \/ e \in Range(ev) => e \in Range(more)
  BY <1>3 DEF Range
<1>8. \A e : Has(got, q, c, g, cached, e) => Has(more, r, c, g, cached, e)
  BY <1>5, <1>7 DEF Has, ev
<1> QED
  BY <1>6, <1>8 DEF r, ev, more

\* t holds one job with these events for each instance of plugin p.
GivenTo(t, p, events) ==
  /\ \A n \in DOMAIN t : /\ t[n].op = "events" /\ t[n].events = events
                         /\ <<p, t[n].client>> \in DOMAIN instances
                         /\ t[n].gen = instances[<<p, t[n].client>>].gen
  /\ \A i \in InstancesOf(p, instances) : \E k \in Mine(t, i[2], instances[i].gen) :
       t[k].events = events /\ \A n \in Mine(t, i[2], instances[i].gen) : n = k

\* Given appends such jobs.
LEMMA GivenFacts ==
  ASSUME TypeInv, NEW p \in Plugins, NEW events \in Seq(Nat), NEW queue \in Seq(Jobs)
  PROVE  \E t \in Seq(Jobs) : Given(p, events, queue) = queue \o t /\ GivenTo(t, p, events)
<1> DEFINE C == {i[2] : i \in InstancesOf(p, instances)}
           cs == SetToSeq(C)
           t == [n \in DOMAIN cs |-> EventJob(cs[n], instances[<<p, cs[n]>>], events)]
<1>1. C \subseteq Clients /\ \A c : c \in C <=> <<p, c>> \in DOMAIN instances
  <2>1. \A i \in InstancesOf(p, instances) : i = <<p, i[2]>> /\ i[2] \in Clients /\ i \in DOMAIN instances
    BY DEF InstancesOf, TypeInv, InstancesInv
  <2>2. \A c : <<p, c>> \in DOMAIN instances => <<p, c>> \in InstancesOf(p, instances)
    BY DEF InstancesOf
  <2>3. C \subseteq Clients
    BY <2>1
  <2>4. ASSUME NEW c \in C PROVE <<p, c>> \in DOMAIN instances
    <3> PICK i \in InstancesOf(p, instances) : c = i[2]
      OBVIOUS
    <3> QED
      BY <2>1
  <2>5. ASSUME NEW c, <<p, c>> \in DOMAIN instances PROVE c \in C
    <3>1. <<p, c>> \in InstancesOf(p, instances) /\ <<p, c>>[2] = c
      BY <2>2, <2>5
    <3> QED
      BY <3>1
  <2> QED
    BY <2>3, <2>4, <2>5
<1>2. IsFiniteSet(C)
  BY <1>1, FS_Subset, LoadingAssumption
<1>3. /\ cs \in Seq(C)
      /\ \A x \in C : \E n \in DOMAIN cs : cs[n] = x
      /\ \A m, n \in DOMAIN cs : cs[m] = cs[n] => m = n
  <2> HIDE DEF C
  <2> QED
    BY <1>2, ListFacts
<1> HIDE DEF C, cs
<1>4. DOMAIN cs = 1 .. Len(cs) /\ Len(cs) \in Nat /\ \A n \in DOMAIN cs : cs[n] \in C
  BY <1>3
<1>5. ASSUME NEW n \in DOMAIN cs
      PROVE  /\ t[n] \in Jobs
             /\ t[n].op = "events" /\ t[n].events = events /\ t[n].client = cs[n]
             /\ <<p, cs[n]>> \in DOMAIN instances
             /\ t[n].gen = instances[<<p, cs[n]>>].gen
  <2>1. cs[n] \in Clients /\ <<p, cs[n]>> \in DOMAIN instances
    BY <1>1, <1>4
  <2>2. instances[<<p, cs[n]>>].gen \in Nat
    BY <2>1 DEF TypeInv, InstancesInv, Instance
  <2> QED
    BY <2>1, <2>2 DEF EventJob, Jobs, EventJobs
<1>6. DOMAIN t = DOMAIN cs
  OBVIOUS
<1>7. t \in Seq(Jobs)
  BY <1>4, <1>5
<1>8. Given(p, events, queue) = queue \o t
  BY DEF Given, C, cs
<1> HIDE DEF t
<1>9. ASSUME NEW i \in InstancesOf(p, instances)
      PROVE  \E k \in Mine(t, i[2], instances[i].gen) :
               t[k].events = events /\ \A n \in Mine(t, i[2], instances[i].gen) : n = k
  <2>1. i = <<p, i[2]>> /\ i[2] \in C
    BY DEF InstancesOf, TypeInv, InstancesInv, C
  <2>2. PICK k \in DOMAIN cs : cs[k] = i[2]
    BY <1>3, <2>1
  <2>3. k \in Mine(t, i[2], instances[i].gen)
    BY <1>5, <1>6, <2>1, <2>2 DEF Mine
  <2>4. \A n \in Mine(t, i[2], instances[i].gen) : n = k
    BY <1>3, <1>5, <1>6, <2>2 DEF Mine
  <2> QED
    BY <1>5, <2>2, <2>3, <2>4
<1>10. \A n \in DOMAIN t : /\ t[n].op = "events" /\ t[n].events = events
                          /\ <<p, t[n].client>> \in DOMAIN instances
                          /\ t[n].gen = instances[<<p, t[n].client>>].gen
  BY <1>5, <1>6
<1>11. GivenTo(t, p, events)
  BY <1>9, <1>10, Zenon DEF GivenTo
<1> QED
  BY <1>7, <1>8, <1>11

\* What happens to the queue and the cache of a plugin in a step of the plugin thread:
\* loads are asked for and the cache may begin anew; what is cached, or an event that is
\* not, is given to all; or the event is cached.
Grows(p) ==
  /\ \E t \in Seq(LoadJobs) :
       jobs'[p] = jobs[p] \o t /\ \A n \in DOMAIN t : PastLoad(t[n])
  /\ Cached(p)' = Cached(p) \/ Cached(p)' = <<>>
Gives(p, events) ==
  /\ \E t \in Seq(Jobs), u \in Seq(LoadJobs) :
       /\ jobs'[p] = (jobs[p] \o t) \o u /\ GivenTo(t, p, events)
       /\ \A n \in DOMAIN u : PastLoad(u[n])
  /\ Cached(p)' = <<>>
Caches(p) == jobs'[p] = jobs[p] /\ Cached(p)' = Append(Cached(p), sent + 1)

Keeps(p) == Gives(p, Cached(p)) \/ Caches(p) \/ Cached(p) = <<>> \/ Cached(p)' = Cached(p)

\* None of them brings an instance anything twice or out of order, and nothing is lost but
\* by a cache that begins anew.
LEMMA QueueStep ==
  ASSUME TypeInv, OrderInv,
         NEW i \in DOMAIN instances,
         \/ Grows(i[1])
         \/ Gives(i[1], Cached(i[1]))
         \/ Gives(i[1], <<sent + 1>>) /\ Cached(i[1]) = <<>>
         \/ Caches(i[1])
  PROVE  LET in == instances[i]
             had(e) == Has(in.got, jobs[i[1]], i[2], in.gen, Cached(i[1]), e)
             has(e) == Has(in.got, jobs'[i[1]], i[2], in.gen, Cached(i[1])', e)
         IN /\ Kept(in.got, jobs'[i[1]], i[2], in.gen, Cached(i[1])')
            /\ Keeps(i[1]) => \A e : had(e) => has(e)
            /\ Gives(i[1], <<sent + 1>>) \/ Caches(i[1]) => has(sent + 1)
<1> DEFINE p == i[1]
           in == instances[i]
           had(e) == Has(in.got, jobs[p], i[2], in.gen, Cached(p), e)
           has(e) == Has(in.got, jobs'[p], i[2], in.gen, Cached(p)', e)
           new == sent + 1
<1>1. /\ p \in Plugins /\ jobs[p] \in Seq(Jobs) /\ in.got \in Seq(Nat) /\ Cached(p) \in Seq(Nat)
      /\ sent \in Nat /\ i \in InstancesOf(p, instances)
  BY DEF TypeInv, SetsInv, InstancesInv, CacheInv, JobsInv, Instance, Cached, InstancesOf
<1>2. Kept(in.got, jobs[p], i[2], in.gen, Cached(p))
  BY InTheseTerms DEF OrderInv
<1>3. \A n \in DOMAIN Cached(p) : Cached(p)[n] < new
  BY <1>1 DEF TypeInv, CacheInv, Past, Cached
<1>4. \A n \in DOMAIN in.got : in.got[n] < new
  BY <1>1 DEF TypeInv, InstancesInv, Past
<1>5. \A n \in DOMAIN jobs[p] : jobs[p][n].op = "events" =>
        \A k \in DOMAIN jobs[p][n].events : jobs[p][n].events[k] < new
  <2>1. \A n \in DOMAIN jobs[p] : PastJob(jobs[p][n])
    BY <1>1 DEF TypeInv, JobsInv
  <2>2. \A j : PastJob(j) /\ j.op = "events" => Past(j.events)
    BY DEF PastJob, PastLoad, LoadJobs, Loads
  <2> QED
    BY <1>1, <2>1, <2>2 DEF Past
<1>6. ASSUME NEW u \in Seq(LoadJobs)
      PROVE  u \in Seq(Jobs) /\ \A c, g : Mine(u, c, g) = {}
  <2>1. u \in Seq(Jobs)
    BY DEF Jobs
  <2>2. \A n \in DOMAIN u : u[n] \in LoadJobs
    OBVIOUS
  <2>3. \A n \in DOMAIN u : u[n].op # "events"
    BY <2>2 DEF LoadJobs, Loads
  <2> QED
    BY <2>1, <2>3 DEF Mine
<1> HIDE DEF in, new
<1>7. ASSUME Grows(p)
      PROVE  /\ Kept(in.got, jobs'[p], i[2], in.gen, Cached(p)')
             /\ Cached(p) = <<>> \/ Cached(p)' = Cached(p) => \A e : had(e) => has(e)
  <2> PICK t \in Seq(LoadJobs) : jobs'[p] = jobs[p] \o t
    BY <1>7 DEF Grows
  <2>1. t \in Seq(Jobs) /\ Mine(t, i[2], in.gen) = {}
    BY <1>6
  <2>2. Cached(p)' = Cached(p) \/ Cached(p)' = <<>>
    BY <1>7 DEF Grows
  <2> QED
    BY <1>1, <1>2, <2>1, <2>2, OthersAppended
<1>8. ASSUME NEW ev \in Seq(Nat), Gives(p, ev), Rising(ev), AllBefore(in.got, ev),
             \A n \in Mine(jobs[p], i[2], in.gen) : AllBefore(jobs[p][n].events, ev)
      PROVE  /\ Kept(in.got, jobs'[p], i[2], in.gen, Cached(p)')
             /\ Range(Cached(p)) \subseteq Range(ev) => \A e : had(e) => has(e)
             /\ \A e \in Range(ev) : has(e)
  <2> PICK t \in Seq(Jobs), u \in Seq(LoadJobs) :
             jobs'[p] = (jobs[p] \o t) \o u /\ GivenTo(t, p, ev)
    BY <1>8 DEF Gives
  <2>1. Cached(p)' = <<>>
    BY <1>8 DEF Gives
  <2>2. PICK k \in Mine(t, i[2], in.gen) :
               t[k].events = ev /\ \A n \in Mine(t, i[2], in.gen) : n = k
    BY <1>1 DEF GivenTo, in
  <2>3. /\ Kept(in.got, jobs[p] \o t, i[2], in.gen, <<>>)
        /\ \A e : \/ had(e) /\ Range(Cached(p)) \subseteq Range(ev)
                  \/ e \in Range(ev)
             => Has(in.got, jobs[p] \o t, i[2], in.gen, <<>>, e)
    BY <1>1, <1>2, <1>8, <2>2, OneAppended
  <2>4. jobs[p] \o t \in Seq(Jobs) /\ u \in Seq(Jobs) /\ Mine(u, i[2], in.gen) = {}
    BY <1>1, <1>6, ConcatFacts
  <2>5. /\ Kept(in.got, (jobs[p] \o t) \o u, i[2], in.gen, <<>>)
        /\ \A e : Has(in.got, jobs[p] \o t, i[2], in.gen, <<>>, e)
             => Has(in.got, (jobs[p] \o t) \o u, i[2], in.gen, <<>>, e)
    BY <2>3, <2>4, OthersAppended
  <2> QED
    BY <2>1, <2>3, <2>5
<1>9. ASSUME Gives(p, Cached(p))
      PROVE  /\ Kept(in.got, jobs'[p], i[2], in.gen, Cached(p)')
             /\ \A e : had(e) => has(e)
  <2>1. /\ Rising(Cached(p)) /\ AllBefore(in.got, Cached(p))
        /\ \A n \in Mine(jobs[p], i[2], in.gen) : AllBefore(jobs[p][n].events, Cached(p))
    BY <1>2 DEF Kept
  <2> QED
    BY <1>1, <1>8, <1>9, <2>1
<1>10. ASSUME Gives(p, <<new>>)
       PROVE  /\ Kept(in.got, jobs'[p], i[2], in.gen, Cached(p)')
              /\ Cached(p) = <<>> => \A e : had(e) => has(e)
              /\ has(new)
  <2>1. <<new>> \in Seq(Nat) /\ DOMAIN <<new>> = {1} /\ <<new>>[1] = new /\ new \in Nat
    BY <1>1 DEF new
  <2>2. Rising(<<new>>)
    BY <2>1 DEF Rising
  <2>3. AllBefore(in.got, <<new>>)
    BY <1>4, <2>1 DEF AllBefore
  <2>4. \A n \in Mine(jobs[p], i[2], in.gen) : AllBefore(jobs[p][n].events, <<new>>)
    BY <1>5, <2>1 DEF AllBefore, Mine
  <2>5. Range(<<>>) = {} /\ new \in Range(<<new>>)
    BY <2>1 DEF Range
  <2> QED
    BY <1>8, <1>10, <2>1, <2>2, <2>3, <2>4, <2>5
<1>11. ASSUME Caches(p)
       PROVE  /\ Kept(in.got, jobs'[p], i[2], in.gen, Cached(p)')
              /\ \A e : had(e) => has(e)
              /\ has(new)
  <2>1. jobs'[p] = jobs[p] /\ Cached(p)' = Append(Cached(p), new) /\ new \in Nat
    BY <1>1, <1>11 DEF Caches, new
  <2> QED
    BY <1>1, <1>2, <1>3, <1>4, <1>5, <2>1, OneCached
<1> QED
  BY <1>7, <1>9, <1>10, <1>11 DEF in, new, Keeps
-----------------------------------------------------------------------------
(* Types, and nothing from the future *)

\* A queue to which a job was added.
LEMMA AppendFacts ==
  ASSUME NEW q \in Seq(Jobs), NEW j \in Jobs
  PROVE  /\ Append(q, j) \in Seq(Jobs) /\ <<j>> \in Seq(Jobs) /\ Append(q, j) = q \o <<j>>
         /\ DOMAIN Append(q, j) = DOMAIN q \cup {Len(q) + 1} /\ Len(q) + 1 \notin DOMAIN q
         /\ \A n \in DOMAIN q : Append(q, j)[n] = q[n]
         /\ Append(q, j)[Len(q) + 1] = j
  OBVIOUS

\* What a plugin's cache becomes when caching starts.
LEMMA StartCachingFacts ==
  ASSUME CacheInv, NEW P \in SUBSET Plugins, StartCaching(P), sent' = sent, waiting' = waiting
  PROVE  /\ CacheInv'
         /\ DOMAIN caching' = DOMAIN caching \cup P
         /\ \A p \in Plugins : Cached(p)' = IF p \in P THEN <<>> ELSE Cached(p)
         /\ overlapped' = overlapped \cup (P \cap DOMAIN caching)
<1>1. caching' = With(caching, P, <<>>)
  BY DEF StartCaching
<1>2. DOMAIN caching' = DOMAIN caching \cup P
  BY <1>1 DEF With
<1>3. \A p \in P : caching'[p] = <<>>
  BY <1>1 DEF With
<1>4. \A p \in DOMAIN caching \ P : caching'[p] = caching[p]
  BY <1>1 DEF With
<1>5. \A p \in DOMAIN caching' : caching'[p] \in Seq(Nat) /\ Past(caching[p])'
  <2>1. Past(<<>>)' /\ \A s : Past(s) => Past(s)'
    BY DEF Past
  <2>2. \A p \in DOMAIN caching : caching[p] \in Seq(Nat) /\ Past(caching[p])
    BY DEF CacheInv
  <2>3. \A p \in DOMAIN caching' : caching'[p] = <<>> \/ (p \in DOMAIN caching /\ caching'[p] = caching[p])
    BY <1>2, <1>3, <1>4
  <2>4. ASSUME NEW p \in DOMAIN caching'
        PROVE  caching'[p] \in Seq(Nat) /\ Past(caching[p])'
    <3>1. CASE caching'[p] = <<>>
      BY <2>1, <3>1 DEF Past
    <3>2. CASE p \in DOMAIN caching /\ caching'[p] = caching[p]
      BY <2>1, <2>2, <3>2 DEF Past
    <3> QED
      BY <2>3, <2>4, <3>1, <3>2
  <2> QED
    BY <2>4
<1>6. CacheInv'
  BY <1>2, <1>5 DEF CacheInv, StartCaching
<1>7. \A p \in Plugins : Cached(p)' = IF p \in P THEN <<>> ELSE Cached(p)
  BY <1>2, <1>3, <1>4 DEF Cached
<1> QED
  BY <1>2, <1>6, <1>7 DEF StartCaching

\* Queues to which jobs that are not from the future were added.
LEMMA MoreJobs ==
  ASSUME JobsInv, sent' = sent, born' = born, jobs' = [q \in Plugins |-> jobs'[q]],
         \A q \in Plugins : \E t \in Seq(Jobs) :
           jobs'[q] = jobs[q] \o t /\ \A n \in DOMAIN t : PastJob(t[n])
  PROVE  JobsInv'
<1>1. ASSUME NEW q \in Plugins
      PROVE  jobs'[q] \in Seq(Jobs) /\ \A n \in DOMAIN jobs'[q] : PastJob(jobs[q][n])'
  <2> PICK t \in Seq(Jobs) : jobs'[q] = jobs[q] \o t /\ \A n \in DOMAIN t : PastJob(t[n])
    OBVIOUS
  <2>1. jobs[q] \in Seq(Jobs) /\ \A n \in DOMAIN jobs[q] : PastJob(jobs[q][n])
    BY DEF JobsInv
  <2>2. \A n \in DOMAIN jobs'[q] : PastJob(jobs'[q][n])
    BY <2>1, ConcatFacts
  <2>3. \A j : PastJob(j) => PastJob(j)'
    BY DEF PastJob, PastLoad, Past
  <2> QED
    BY <2>1, <2>2, <2>3, ConcatFacts
<1>2. jobs' \in [Plugins -> Seq(Jobs)]
  BY <1>1
<1> QED
  BY <1>1, <1>2 DEF JobsInv

\* A queue without its first job.
LEMMA FewerJobs ==
  ASSUME JobsInv, sent' = sent, born' \in Nat, born \in Nat, born <= born', NEW p \in Plugins, jobs[p] # <<>>,
         jobs' = [jobs EXCEPT ![p] = Tail(@)]
  PROVE  JobsInv'
<1>1. \A j : PastJob(j) => PastJob(j)'
  BY DEF PastJob, PastLoad, Past
<1>2. jobs[p] \in Seq(Jobs) /\ \A n \in DOMAIN jobs[p] : PastJob(jobs[p][n])
  BY DEF JobsInv
<1>3. Tail(jobs[p]) \in Seq(Jobs) /\ \A n \in DOMAIN Tail(jobs[p]) : PastJob(Tail(jobs[p])[n])
  BY <1>2, TailFacts
<1> QED
  BY <1>1, <1>3 DEF JobsInv

\* A job to load that is asked for now.
LEMMA LoadJobFacts ==
  ASSUME SetsInv, NEW op \in Loads, NEW c \in Clients
  PROVE  /\ LoadJob(op, c) \in LoadJobs /\ LoadJob(op, c) \in Jobs
         /\ LoadJob(op, c).since = sent /\ LoadJob(op, c).op = op
         /\ PastLoad(LoadJob(op, c)) /\ PastJob(LoadJob(op, c))
  BY DEF SetsInv, LoadJob, LoadJobs, Jobs, PastLoad, PastJob

-----------------------------------------------------------------------------
(* Steps of the plugin thread *)

\* A step of the plugin thread makes no instance and changes none; its queues change as
\* QueueStep says, all of them when there is an event.
ThreadStep ==
  /\ DOMAIN instances' \subseteq DOMAIN instances
  /\ \A i \in DOMAIN instances' : instances'[i] = instances[i]
  /\ born' = born
  /\ DOMAIN jobs' = Plugins /\ jobs' = [p \in Plugins |-> jobs'[p]]
  /\ \/ sent' = sent /\ \A p \in Plugins : Grows(p) \/ Gives(p, Cached(p))
     \/ /\ sent' = sent + 1
        /\ \A p \in Plugins : (Gives(p, <<sent + 1>>) /\ Cached(p) = <<>>) \/ Caches(p)

\* Its jobs are not from the future.
LEMMA ThreadJobs ==
  ASSUME TypeInv, ThreadStep
  PROVE  JobsInv' /\ InstancesInv'
<1>1. sent \in Nat /\ born \in Nat /\ sent' \in Nat /\ sent <= sent' /\ born' = born
  BY DEF TypeInv, SetsInv, ThreadStep
<1>2. /\ \A s : Past(s) => Past(s)'
      /\ \A j : PastLoad(j) => PastJob(j)'
      /\ \A j : PastJob(j) => PastJob(j)'
  BY <1>1 DEF PastJob, PastLoad, Past, LoadJobs
<1> DEFINE G == {j \in Jobs : PastJob(j)'}
<1>8. \A q \in Seq(G), t \in Seq(G) : q \o t \in Seq(G)
  <2> HIDE DEF G
  <2> QED
    BY ConcatFacts
<1>9. ASSUME NEW q \in Seq(Jobs), \A n \in DOMAIN q : PastJob(q[n])'
      PROVE  q \in Seq(G)
  <2>1. \A n \in DOMAIN q : q[n] \in G
    BY <1>9
  <2> QED
    BY <2>1
<1>10. ASSUME NEW p, jobs'[p] \in Seq(G)
       PROVE  jobs'[p] \in Seq(Jobs) /\ \A n \in DOMAIN jobs'[p] : PastJob(jobs[p][n])'
  <2>1. PICK q \in Seq(G) : q = jobs'[p]
    BY <1>10
  <2>2. q \in Seq(Jobs) /\ \A n \in DOMAIN q : PastJob(q[n])'
    OBVIOUS
  <2> QED
    BY <2>1, <2>2
<1>3. InstancesInv'
  <2> SUFFICES ASSUME NEW i \in DOMAIN instances'
               PROVE  /\ i \in Plugins \X Clients
                      /\ instances'[i] \in Instance
                      /\ instances'[i].gen \in 1 .. born' /\ instances'[i].since <= sent'
                      /\ Past(instances[i].got)'
    BY DEF InstancesInv
  <2>1. i \in DOMAIN instances /\ instances'[i] = instances[i]
    BY DEF ThreadStep
  <2>2. /\ instances[i] \in Instance /\ i \in Plugins \X Clients
        /\ instances[i].gen \in 1 .. born /\ instances[i].since <= sent /\ Past(instances[i].got)
    BY <2>1 DEF TypeInv, InstancesInv
  <2>3. instances[i].since \in Nat
    BY <2>2 DEF Instance
  <2> QED
    BY <1>1, <1>2, <2>1, <2>2, <2>3 DEF Past
<1>4. ASSUME NEW p \in Plugins, NEW ev \in Seq(Nat), Past(ev)', Gives(p, ev)
      PROVE  jobs'[p] \in Seq(Jobs) /\ \A n \in DOMAIN jobs'[p] : PastJob(jobs[p][n])'
  <2> PICK t \in Seq(Jobs), u \in Seq(LoadJobs) :
        /\ jobs'[p] = (jobs[p] \o t) \o u /\ GivenTo(t, p, ev)
        /\ \A n \in DOMAIN u : PastLoad(u[n])
    BY <1>4 DEF Gives
  <2>1. PICK q \in Seq(Jobs) : q = jobs[p] /\ \A n \in DOMAIN q : PastJob(q[n])
    BY DEF TypeInv, JobsInv
  <2>2. \A n \in DOMAIN t : PastJob(t[n])'
    <3> SUFFICES ASSUME NEW n \in DOMAIN t PROVE PastJob(t[n])'
      OBVIOUS
    <3>1. /\ t[n].op = "events" /\ t[n].events = ev /\ <<p, t[n].client>> \in DOMAIN instances
          /\ t[n].gen = instances[<<p, t[n].client>>].gen
      BY DEF GivenTo
    <3>2. t[n] \in Jobs
      OBVIOUS
    <3>3. t[n] \in EventJobs
      BY <3>1, <3>2 DEF Jobs, LoadJobs, Loads
    <3>4. t[n].gen \in 1 .. born
      BY <3>1 DEF TypeInv, InstancesInv
    <3> QED
      BY <1>1, <1>4, <3>1, <3>3, <3>4 DEF PastJob, Past
  <2>3. u \in Seq(Jobs) /\ \A n \in DOMAIN u : PastJob(u[n])'
    BY <1>2 DEF Jobs
  <2>4. \A n \in DOMAIN q : PastJob(q[n])'
    BY <1>2, <2>1
  <2>5. q \in Seq(G) /\ t \in Seq(G) /\ u \in Seq(G)
    BY <1>9, <2>2, <2>3, <2>4
  <2>6. jobs'[p] \in Seq(G)
    <3> HIDE DEF G
    <3> QED
      BY <1>8, <2>1, <2>5
  <2> QED
    BY <1>10, <2>6
<1>5. ASSUME NEW p \in Plugins, Grows(p)
      PROVE  jobs'[p] \in Seq(Jobs) /\ \A n \in DOMAIN jobs'[p] : PastJob(jobs[p][n])'
  <2>1. PICK q \in Seq(Jobs) : q = jobs[p] /\ \A n \in DOMAIN q : PastJob(q[n])
    BY DEF TypeInv, JobsInv
  <2> PICK t \in Seq(LoadJobs) : jobs'[p] = jobs[p] \o t /\ \A n \in DOMAIN t : PastLoad(t[n])
    BY <1>5 DEF Grows
  <2>2. t \in Seq(Jobs) /\ \A n \in DOMAIN t : PastJob(t[n])'
    BY <1>2 DEF Jobs
  <2>3. \A n \in DOMAIN q : PastJob(q[n])'
    BY <1>2, <2>1
  <2>4. q \in Seq(G) /\ t \in Seq(G)
    BY <1>9, <2>2, <2>3
  <2>5. jobs'[p] \in Seq(G)
    <3> HIDE DEF G
    <3> QED
      BY <1>8, <2>1, <2>4
  <2> QED
    BY <1>10, <2>5
<1>6. ASSUME NEW p \in Plugins
      PROVE  jobs'[p] \in Seq(Jobs) /\ \A n \in DOMAIN jobs'[p] : PastJob(jobs[p][n])'
  <2>1. Cached(p) \in Seq(Nat) /\ Past(Cached(p))
    BY DEF TypeInv, CacheInv, Cached, Past
  <2>2. CASE Gives(p, Cached(p))
    <3>1. PICK ev \in Seq(Nat) : ev = Cached(p)
      BY <2>1
    <3>2. Past(ev)'
      BY <1>2, <2>1, <3>1
    <3> QED
      BY <1>4, <2>2, <3>1, <3>2
  <2>3. CASE Gives(p, <<sent + 1>>) /\ sent' = sent + 1
    <3>0. <<sent + 1>> \in Seq(Nat)
      BY <1>1
    <3>1. PICK ev \in Seq(Nat) : ev = <<sent + 1>>
      BY <3>0
    <3>2. Past(ev)'
      BY <1>1, <2>3, <3>1 DEF Past
    <3> QED
      BY <1>4, <2>3, <3>1, <3>2
  <2>4. CASE Caches(p)
    <3>1. PICK q \in Seq(Jobs) : q = jobs[p] /\ \A n \in DOMAIN q : PastJob(q[n])
      BY DEF TypeInv, JobsInv
    <3>2. jobs'[p] = q
      BY <2>4, <3>1 DEF Caches
    <3> QED
      BY <1>2, <3>1, <3>2
  <2> QED
    BY <1>5, <2>2, <2>3, <2>4 DEF ThreadStep
<1>7. jobs' \in [Plugins -> Seq(Jobs)]
  BY <1>6 DEF ThreadStep
<1> QED
  BY <1>3, <1>6, <1>7 DEF JobsInv

\* Its events stay in order, and whole where no cache with events begins anew.
LEMMA ThreadEvents ==
  ASSUME TypeInv, OrderInv, WholeInv, ThreadStep,
         DOMAIN caching' \subseteq Plugins,
         overlapped \subseteq overlapped',
         \A p \in Plugins \ overlapped' : Keeps(p)
  PROVE  OrderInv' /\ WholeInv'
<1>1. ASSUME NEW p \in Plugins
      PROVE  \/ Grows(p) /\ sent' = sent
             \/ Gives(p, Cached(p)) /\ sent' = sent
             \/ Gives(p, <<sent + 1>>) /\ Cached(p) = <<>> /\ sent' = sent + 1
             \/ Caches(p) /\ sent' = sent + 1
  BY DEF ThreadStep
<1>2. ASSUME NEW i \in DOMAIN instances'
      PROVE  /\ i \in DOMAIN instances /\ i[1] \in Plugins /\ instances'[i] = instances[i]
             /\ instances[i].since \in Nat
  BY DEF ThreadStep, TypeInv, InstancesInv, Instance
<1>3. ASSUME NEW i \in DOMAIN instances'
      PROVE  Kept(instances'[i].got, jobs'[i[1]], i[2], instances'[i].gen, Cached(i[1])')
  BY <1>1, <1>2, QueueStep
<1>4. OrderKept'
  BY <1>3, InTheseTermsNext
<1>5. ASSUME NEW p \in DOMAIN caching'
      PROVE  Rising(caching'[p])
  <2>1. p \in Plugins /\ caching'[p] = Cached(p)'
    BY DEF Cached
  <2>2. Cached(p) \in Seq(Nat) /\ sent \in Nat /\ \A n \in DOMAIN Cached(p) : Cached(p)[n] < sent + 1
    BY DEF TypeInv, SetsInv, CacheInv, Cached, Past
  <2>3. Rising(<<>>)
    BY DEF Rising
  <2>4. Rising(Cached(p))
    BY <2>3 DEF OrderInv, Cached
  <2>5. CASE Caches(p)
    <3>1. PICK s \in Seq(Nat) : s = Cached(p)
      BY <2>2
    <3>2. Cached(p)' = Append(s, sent + 1)
      BY <2>5, <3>1 DEF Caches
    <3>3. Rising(s) /\ \A n \in DOMAIN s : s[n] < sent + 1
      BY <2>2, <2>4, <3>1
    <3>4. Rising(Append(s, sent + 1))
      BY <2>2, <3>3 DEF Rising
    <3> QED
      BY <2>1, <3>2, <3>4
  <2>6. CASE Grows(p) \/ \E ev : Gives(p, ev)
    BY <2>1, <2>3, <2>4, <2>6 DEF Grows, Gives
  <2> QED
    BY <1>1, <2>1, <2>5, <2>6
<1>6. ASSUME NEW p \in Plugins \ overlapped'
      PROVE  Complete(p)'
  <2> SUFFICES ASSUME NEW i \in InstancesOf(p, instances'), NEW e \in instances'[i].since + 1 .. sent'
               PROVE  Has(instances'[i].got, jobs'[p], i[2], instances'[i].gen, Cached(p)', e)
    <3>1. \A i \in InstancesOf(p, instances') : i[1] = p
      BY DEF InstancesOf
    <3> QED
      BY <3>1, InTheseTermsNext
  <2>1. i \in DOMAIN instances' /\ i[1] = p /\ i \in InstancesOf(p, instances)
    BY <1>2 DEF InstancesOf
  <2>2. Complete(p)
    BY DEF WholeInv
  <2>3. \A d \in instances[i].since + 1 .. sent :
          Has(instances[i].got, jobs[p], i[2], instances[i].gen, Cached(p), d)
    BY <2>1, <2>2, InTheseTerms
  <2>4. /\ \A d : Has(instances[i].got, jobs[p], i[2], instances[i].gen, Cached(p), d)
               => Has(instances[i].got, jobs'[p], i[2], instances[i].gen, Cached(p)', d)
        /\ Gives(p, <<sent + 1>>) \/ Caches(p) =>
             Has(instances[i].got, jobs'[p], i[2], instances[i].gen, Cached(p)', sent + 1)
    BY <1>1, <1>2, <2>1, QueueStep
  <2>5. sent \in Nat /\ instances[i].since \in Nat /\ instances'[i] = instances[i]
    BY <1>2, <2>1 DEF TypeInv, SetsInv
  <2>6. CASE sent' = sent
    BY <2>3, <2>4, <2>5, <2>6
  <2>7. CASE sent' = sent + 1 /\ e = sent + 1
    BY <1>1, <2>4, <2>5, <2>7
  <2>8. CASE sent' = sent + 1 /\ e # sent + 1
    <3>1. e \in instances[i].since + 1 .. sent
      BY <2>5, <2>8
    <3> QED
      BY <2>3, <2>4, <2>5, <3>1
  <2> QED
    BY <1>1, <2>6, <2>7, <2>8
<1> QED
  BY <1>4, <1>5, <1>6 DEF OrderInv, WholeInv

-----------------------------------------------------------------------------
(* The phases of a plugin *)

OneLoad(q) == \A m, n \in LoadsIn(q) : m = n
LoadsSince(q, s, cached) ==
  \A n \in LoadsIn(q) : \A e \in q[n].since + 1 .. s : e \in Range(cached)

\* Jobs about events do not count.
LEMMA LoadsOfConcat ==
  ASSUME NEW q \in Seq(Jobs), NEW t \in Seq(Jobs), LoadsIn(t) = {}
  PROVE  /\ LoadsIn(q \o t) = LoadsIn(q)
         /\ \A s, cached : LoadsSince(q, s, cached) => LoadsSince(q \o t, s, cached)
<1>1. /\ \A n \in DOMAIN (q \o t) : n \in DOMAIN q \/ \E m \in DOMAIN t : n = Len(q) + m
      /\ \A n \in DOMAIN q : n \in DOMAIN (q \o t) /\ (q \o t)[n] = q[n]
      /\ \A n \in DOMAIN t : (q \o t)[Len(q) + n] = t[n]
  BY ConcatFacts
<1>2. LoadsIn(q \o t) = LoadsIn(q)
  BY <1>1 DEF LoadsIn
<1>3. \A n \in LoadsIn(q) : (q \o t)[n] = q[n]
  BY <1>1 DEF LoadsIn
<1> QED
  BY <1>2, <1>3 DEF LoadsSince

\* Nor does a first job that is taken, unless it is a load.
LEMMA LoadsOfTail ==
  ASSUME NEW q \in Seq(Jobs), q # <<>>, OneLoad(q)
  PROVE  /\ OneLoad(Tail(q))
         /\ LoadsIn(q) = {} => LoadsIn(Tail(q)) = {}
         /\ \A s, cached : LoadsSince(q, s, cached) => LoadsSince(Tail(q), s, cached)
         /\ 1 \in LoadsIn(q) => LoadsIn(Tail(q)) = {}
<1>1. \A n \in DOMAIN Tail(q) : n + 1 \in DOMAIN q /\ Tail(q)[n] = q[n + 1] /\ n \in Nat /\ n > 0
  BY TailFacts
<1>2. \A n \in LoadsIn(Tail(q)) :
        n + 1 \in LoadsIn(q) /\ Tail(q)[n] = q[n + 1] /\ n \in Nat /\ n > 0
  BY <1>1 DEF LoadsIn
<1>3. OneLoad(Tail(q))
  <2> SUFFICES ASSUME NEW m \in LoadsIn(Tail(q)), NEW n \in LoadsIn(Tail(q))
               PROVE  m = n
    BY DEF OneLoad
  <2>1. m + 1 = n + 1
    BY <1>2 DEF OneLoad
  <2> QED
    BY <1>2, <2>1
<1>4. 1 \in LoadsIn(q) => LoadsIn(Tail(q)) = {}
  <2> SUFFICES ASSUME 1 \in LoadsIn(q), NEW n \in LoadsIn(Tail(q))
               PROVE  FALSE
    OBVIOUS
  <2>1. n + 1 = 1
    BY <1>2 DEF OneLoad
  <2> QED
    BY <1>2, <2>1
<1>5. LoadsIn(q) = {} => LoadsIn(Tail(q)) = {}
  BY <1>2
<1>6. \A s, cached : LoadsSince(q, s, cached) => LoadsSince(Tail(q), s, cached)
  BY <1>2 DEF LoadsSince
<1> QED
  BY <1>3, <1>4, <1>5, <1>6

\* The only load of a queue, asked for now.
LEMMA LoadsOfAppend ==
  ASSUME NEW q \in Seq(Jobs), LoadsIn(q) = {}, NEW j \in LoadJobs, NEW s \in Nat, j.since = s
  PROVE  /\ OneLoad(Append(q, j)) /\ LoadsIn(Append(q, j)) # {}
         /\ \A cached : LoadsSince(Append(q, j), s, cached)
<1>1. j \in Jobs /\ j.op \in Loads
  BY DEF Jobs, LoadJobs
<1>2. /\ DOMAIN Append(q, j) = DOMAIN q \cup {Len(q) + 1}
      /\ \A n \in DOMAIN q : Append(q, j)[n] = q[n]
      /\ Append(q, j)[Len(q) + 1] = j
  BY <1>1, AppendFacts
<1>3. LoadsIn(Append(q, j)) = {Len(q) + 1}
  BY <1>1, <1>2 DEF LoadsIn
<1>4. s + 1 .. s = {}
  OBVIOUS
<1> QED
  BY <1>2, <1>3, <1>4 DEF OneLoad, LoadsSince

\* The phase in these terms.
LEMMA PhaseInTheseTerms ==
  ASSUME NEW p
  PROVE  /\ PhaseInv(p) => OneLoad(jobs[p])
         /\ SinceInv(p) => LoadsSince(jobs[p], sent, Cached(p))
         /\ LoadsSince(jobs'[p], sent', Cached(p)')
              /\ (p \in DOMAIN downloading' =>
                    \A e \in downloading'[p].since + 1 .. sent' : e \in Range(Cached(p)'))
              => SinceInv(p)'
  BY DEF PhaseInv, SinceInv, OneLoad, LoadsSince

\* Nothing of a plugin is on its way, when its events are not cached.
LEMMA NothingUnderWay ==
  ASSUME NEW p, PhaseInv(p), p \notin DOMAIN caching, CacheInv
  PROVE  /\ p \notin DOMAIN downloading /\ LoadsIn(jobs[p]) = {} /\ NotesIn(inbox, p) = {}
         /\ p \notin waiting
  BY DEF PhaseInv, CacheInv

\* What is the same of a plugin keeps its phase.
SameTables(p) ==
  /\ p \in DOMAIN downloading' => p \in DOMAIN downloading /\ downloading'[p] = downloading[p]
  /\ p \in waiting' <=> p \in waiting
  /\ p \in DOMAIN caching' <=> p \in DOMAIN caching
SamePhase(p) ==
  /\ SameTables(p)
  /\ inbox' = inbox
  /\ jobs'[p] = jobs[p]
  /\ Cached(p)' = Cached(p)
  /\ sent' = sent

LEMMA PhaseStays ==
  ASSUME NEW p, PhaseInv(p), SinceInv(p), SamePhase(p)
  PROVE  PhaseInv(p)' /\ SinceInv(p)'
  BY DEF PhaseInv, SinceInv, SamePhase, SameTables, NotesInv, InTurn, Ordered, Fitting, NotesIn, LoadsIn

\* A load begins.
LEMMA PhaseLoad ==
  ASSUME TypeInv, NEW p \in Plugins, PhaseInv(p), p \notin DOMAIN caching,
         NEW j \in LoadJobs, j.since = sent, sent' = sent,
         jobs'[p] = Append(jobs[p], j), p \in DOMAIN caching', inbox' = inbox,
         p \notin DOMAIN downloading', p \notin waiting'
  PROVE  PhaseInv(p)' /\ SinceInv(p)'
<1>1. LoadsIn(jobs[p]) = {} /\ NotesIn(inbox, p) = {}
  BY NothingUnderWay DEF TypeInv
<1>2. jobs[p] \in Seq(Jobs) /\ sent \in Nat
  BY DEF TypeInv, JobsInv, SetsInv
<1>3. OneLoad(jobs'[p]) /\ LoadsIn(jobs'[p]) # {} /\ LoadsSince(jobs'[p], sent', Cached(p)')
  BY <1>1, <1>2, LoadsOfAppend
<1>4. NotesIn(inbox, p)' = {}
  BY <1>1 DEF NotesIn
<1>5. SinceInv(p)'
  BY <1>3, PhaseInTheseTerms
<1> QED
  BY <1>3, <1>4, <1>5 DEF PhaseInv, NotesInv, InTurn, Ordered, Fitting, OneLoad

\* A note is taken: that of another plugin, or one that changes nothing.
LEMMA NoteTaken ==
  ASSUME NEW q \in Seq(Message), q # <<>>, NEW p, NEW W, NEW V, InTurn(q, p, W), p \in V <=> p \in W
  PROVE  /\ InTurn(Tail(q), p, V)
         /\ NotesIn(q, p) = {} => NotesIn(Tail(q), p) = {}
<1> PICK r : r = Tail(q)
  OBVIOUS
<1>1. \A k \in DOMAIN r : k + 1 \in DOMAIN q /\ r[k] = q[k + 1] /\ k \in Nat
  BY TailFacts
<1>2. \A k \in NotesIn(r, p) : k + 1 \in NotesIn(q, p) /\ r[k] = q[k + 1] /\ k \in Nat
  BY <1>1 DEF NotesIn
<1>3. ASSUME NEW k \in NotesIn(r, p), NEW m \in NotesIn(r, p)
      PROVE  /\ r[k].op = r[m].op => k = m
             /\ (r[k].op = "cache" /\ r[m].op = "apply") => k < m
             /\ r[k].op = "answered" => m <= k
  <2>1. PICK a \in NotesIn(q, p) : a = k + 1 /\ r[k] = q[a] /\ k \in Nat
    BY <1>2
  <2>2. PICK b \in NotesIn(q, p) : b = m + 1 /\ r[m] = q[b] /\ m \in Nat
    BY <1>2
  <2>3. /\ q[a].op = q[b].op => a = b
        /\ (q[a].op = "cache" /\ q[b].op = "apply") => a < b
        /\ q[a].op = "answered" => b <= a
    BY DEF InTurn, Ordered, Fitting
  <2>4. (a = b => k = m) /\ (a < b => k < m) /\ (b <= a => m <= k)
    BY ONLY <2>1, <2>2
  <2> QED
    BY <2>1, <2>2, <2>3, <2>4
<1>4. \A k \in NotesIn(r, p) :
        /\ r[k].op = "cache" => p \notin V
        /\ r[k].op = "answered" => p \in V
  BY <1>2 DEF InTurn, Ordered, Fitting
<1>5. InTurn(r, p, V)
  <2>1. Ordered(r, p)
    BY <1>3 DEF Ordered
  <2>2. Fitting(r, p, V)
    BY <1>4 DEF Fitting
  <2> QED
    BY <2>1, <2>2 DEF InTurn
<1> QED
  BY <1>2, <1>5

\* The request for permissions is taken: no other is there, and no answer yet.
LEMMA CacheTaken ==
  ASSUME NEW q \in Seq(Message), q # <<>>, NEW p, NEW W, NEW V, InTurn(q, p, W),
         Head(q) = [op |-> "cache", plugin |-> p]
  PROVE  InTurn(Tail(q), p, V)
<1> PICK r : r = Tail(q)
  OBVIOUS
<1>1. /\ \A k \in DOMAIN r : k + 1 \in DOMAIN q /\ r[k] = q[k + 1] /\ k \in Nat /\ k > 0
      /\ 1 \in DOMAIN q /\ q[1] = [op |-> "cache", plugin |-> p]
  BY TailFacts
<1>2. \A k \in NotesIn(r, p) : k + 1 \in NotesIn(q, p) /\ r[k] = q[k + 1] /\ k \in Nat /\ k > 0
  BY <1>1 DEF NotesIn
<1>4. 1 \in NotesIn(q, p) /\ q[1].op = "cache"
  BY <1>1 DEF NotesIn
<1>5. ASSUME NEW k \in NotesIn(r, p)
      PROVE  r[k].op # "cache" /\ r[k].op # "answered"
  <2>1. PICK a \in NotesIn(q, p) : a = k + 1 /\ r[k] = q[a] /\ k \in Nat /\ k > 0
    BY <1>2
  <2>2. a # 1
    BY <2>1
  <2>3. q[a].op = q[1].op => a = 1
    BY <1>4 DEF InTurn, Ordered, Fitting
  <2>4. p \notin W /\ (q[a].op = "answered" => p \in W)
    BY <1>4 DEF InTurn, Ordered, Fitting
  <2> QED
    BY <1>4, <2>1, <2>2, <2>3, <2>4
<1>6. ASSUME NEW k \in NotesIn(r, p), NEW m \in NotesIn(r, p), r[k].op = r[m].op
      PROVE  k = m
  <2>1. PICK a \in NotesIn(q, p) : a = k + 1 /\ r[k] = q[a] /\ k \in Nat
    BY <1>2
  <2>2. PICK b \in NotesIn(q, p) : b = m + 1 /\ r[m] = q[b] /\ m \in Nat
    BY <1>2
  <2>3. a = b
    BY <1>6, <2>1, <2>2 DEF InTurn, Ordered, Fitting
  <2> QED
    BY <2>1, <2>2, <2>3
<1> QED
  BY <1>5, <1>6 DEF InTurn, Ordered, Fitting

\* The last note is taken: that it has loaded, when it does not wait for the user, or the
\* answer.
LEMMA LastTaken ==
  ASSUME NEW q \in Seq(Message), q # <<>>, NEW p, NEW W, InTurn(q, p, W),
         \/ Head(q) = [op |-> "apply", plugin |-> p] /\ p \notin W
         \/ Head(q) = [op |-> "answered", plugin |-> p]
  PROVE  NotesIn(Tail(q), p) = {} /\ NotesIn(q, p) # {}
<1> PICK r : r = Tail(q)
  OBVIOUS
<1>1. /\ \A k \in DOMAIN r : k + 1 \in DOMAIN q /\ r[k] = q[k + 1] /\ k \in Nat /\ k > 0
      /\ 1 \in DOMAIN q /\ q[1] = Head(q)
  BY TailFacts
<1>2. \A k \in NotesIn(r, p) : k + 1 \in NotesIn(q, p) /\ r[k] = q[k + 1] /\ k \in Nat /\ k > 0
  BY <1>1 DEF NotesIn
<1>3. 1 \in NotesIn(q, p)
  BY <1>1 DEF NotesIn
<1>4. ASSUME NEW k \in NotesIn(r, p)
      PROVE  FALSE
  <2>1. PICK a \in NotesIn(q, p) : a = k + 1 /\ k \in Nat /\ k > 0
    BY <1>2
  <2>2. a # 1 /\ ~(a < 1) /\ ~(a <= 1)
    BY <2>1
  <2>5. a \in DOMAIN q
    BY DEF NotesIn
  <2>6. q[a] \in Message
    BY <2>5
  <2>3. q[a].op \in {"cache", "apply", "answered"}
    BY <2>6 DEF Message
  <2>4. /\ q[a].op = q[1].op => a = 1
        /\ (q[a].op = "cache" /\ q[1].op = "apply") => a < 1
        /\ q[1].op = "answered" => a <= 1
        /\ q[a].op = "answered" => p \in W
    BY <1>3 DEF InTurn, Ordered, Fitting
  <2> QED
    BY <1>1, <2>2, <2>3, <2>4
<1> QED
  BY <1>3, <1>4

\* Notes of one plugin are added.
LEMMA OthersNotes ==
  ASSUME NEW q \in Seq(Message), NEW new \in Seq(Message), NEW o,
         \A n \in DOMAIN new : new[n].plugin # o
  PROVE  /\ NotesIn(q \o new, o) = NotesIn(q, o)
         /\ \A W : InTurn(q, o, W) => InTurn(q \o new, o, W)
<1> PICK r : r = q \o new
  OBVIOUS
<1>1. /\ \A n \in DOMAIN r : n \in DOMAIN q \/ \E m \in DOMAIN new : n = Len(q) + m
      /\ \A n \in DOMAIN q : n \in DOMAIN r /\ r[n] = q[n]
      /\ \A n \in DOMAIN new : r[Len(q) + n] = new[n]
  BY ConcatFacts
<1>2. NotesIn(r, o) = NotesIn(q, o) /\ \A n \in NotesIn(q, o) : r[n] = q[n]
  BY <1>1 DEF NotesIn
<1> QED
  BY <1>2 DEF InTurn, Ordered, Fitting

\* Notes that a load sends, when there are none.
LEMMA NotesOfLoad ==
  ASSUME NEW q \in Seq(Message), NEW p \in Plugins, NotesIn(q, p) = {}, NEW W, p \notin W,
         NEW new \in Seq(Message),
         \/ new = <<>>
         \/ new = <<[op |-> "cache", plugin |-> p]>>
         \/ new = <<[op |-> "apply", plugin |-> p]>>
         \/ new = <<[op |-> "cache", plugin |-> p], [op |-> "apply", plugin |-> p]>>
  PROVE  InTurn(q \o new, p, W) /\ \A n \in DOMAIN new : new[n].plugin = p
<1> PICK r : r = q \o new
  OBVIOUS
<1>1. /\ \A n \in DOMAIN r : n \in DOMAIN q \/ \E m \in DOMAIN new : n = Len(q) + m
      /\ \A n \in DOMAIN q : n \in DOMAIN r /\ r[n] = q[n]
      /\ \A n \in DOMAIN new : r[Len(q) + n] = new[n]
      /\ Len(q) \in Nat
  BY ConcatFacts
<1>2. \A n \in DOMAIN new : /\ new[n].plugin = p /\ n \in {1, 2} /\ new[n].op \in {"cache", "apply"}
                            /\ new[n].op = "cache" => n = 1
  OBVIOUS
<1>3. ASSUME NEW m \in DOMAIN new, NEW n \in DOMAIN new, new[m].op = new[n].op
      PROVE  m = n
  <2>1. CASE new = <<[op |-> "cache", plugin |-> p], [op |-> "apply", plugin |-> p]>>
    <3>1. m \in {1, 2} /\ n \in {1, 2} /\ new[1].op # new[2].op
      BY <2>1
    <3> QED
      BY <1>3, <3>1
  <2>2. CASE DOMAIN new \subseteq {1}
    BY <2>2
  <2> QED
    BY <2>1, <2>2
<1>4. \A n \in NotesIn(r, p) : \E m \in DOMAIN new : n = Len(q) + m /\ r[n] = new[m]
  BY <1>1 DEF NotesIn
<1>5. ASSUME NEW k \in NotesIn(r, p), NEW m \in NotesIn(r, p)
      PROVE  /\ r[k].op = r[m].op => k = m
             /\ (r[k].op = "cache" /\ r[m].op = "apply") => k < m
             /\ r[k].op # "answered"
  <2> PICK i \in DOMAIN new : k = Len(q) + i /\ r[k] = new[i]
    BY <1>4
  <2> PICK j \in DOMAIN new : m = Len(q) + j /\ r[m] = new[j]
    BY <1>4
  <2>1. i \in {1, 2} /\ j \in {1, 2} /\ (new[i].op = "cache" => i = 1)
        /\ new[i].op # "answered" /\ (new[i].op = new[j].op => i = j)
    BY <1>2, <1>3
  <2>2. new[i].op = "cache" /\ new[j].op = "apply" => i = 1 /\ j = 2
    BY <1>2, <2>1
  <2>3. k = Len(q) + i /\ m = Len(q) + j
    OBVIOUS
  <2>4. i = 1 /\ j = 2 => k < m
    BY ONLY <1>1, <2>3
  <2> QED
    BY <2>1, <2>2, <2>3, <2>4
<1>6. InTurn(r, p, W)
  BY <1>5 DEF InTurn, Ordered, Fitting
<1> QED
  BY <1>2, <1>6

\* The user answers.
LEMMA NotesOfAnswer ==
  ASSUME NEW q \in Seq(Message), NEW p \in Plugins, NEW W, p \in W, InTurn(q, p, W),
         ~\E n \in DOMAIN q : q[n] = [op |-> "answered", plugin |-> p]
  PROVE  InTurn(Append(q, [op |-> "answered", plugin |-> p]), p, W)
<1> DEFINE l == Len(q) + 1
           a == [op |-> "answered", plugin |-> p]
<1> PICK r : r = Append(q, a)
  OBVIOUS
<1>0. a \in Message
  BY DEF Message
<1>1. /\ DOMAIN r = DOMAIN q \cup {l} /\ l \in Nat
      /\ \A n \in DOMAIN q : r[n] = q[n] /\ n < l /\ n \in Nat
      /\ r[l] = a
      /\ \A n \in DOMAIN q : q[n] \in Message
  <2> HIDE DEF a
  <2> QED
    BY <1>0
<1>2. a.op = "answered" /\ a.plugin = p
  OBVIOUS
<1> HIDE DEF l
<1>3. NotesIn(r, p) = NotesIn(q, p) \cup {l}
  BY <1>1, <1>2 DEF NotesIn
<1>4. \A n \in NotesIn(q, p) : r[n] = q[n] /\ n < l /\ n \in Nat
  BY <1>1 DEF NotesIn
<1>5. ASSUME NEW n \in NotesIn(q, p), q[n].op = "answered"
      PROVE  FALSE
  <2>1. n \in DOMAIN q /\ q[n].plugin = p /\ q[n] \in Message
    BY <1>1 DEF NotesIn
  <2>2. q[n] = [op |-> "answered", plugin |-> p]
    BY <1>5, <2>1 DEF Message
  <2> QED
    BY <2>1, <2>2
<1> HIDE DEF a
<1>7. ASSUME NEW k \in NotesIn(r, p), NEW m \in NotesIn(r, p)
      PROVE  /\ r[k].op = r[m].op => k = m
             /\ (r[k].op = "cache" /\ r[m].op = "apply") => k < m
             /\ r[k].op = "answered" => m <= k
  <2>1. CASE k = l /\ m = l
    BY <1>1, <1>2, <2>1
  <2>2. CASE k = l /\ m \in NotesIn(q, p)
    <3>1. r[m] = q[m] /\ m < l /\ q[m].op # "answered"
      BY <1>4, <1>5, <2>2
    <3>2. m <= k
      BY <1>1, <1>4, <2>2, <3>1
    <3> QED
      BY <1>1, <1>2, <2>2, <3>1, <3>2
  <2>3. CASE m = l /\ k \in NotesIn(q, p)
    <3>1. r[k] = q[k] /\ k < m /\ q[k].op # "answered"
      BY <1>4, <1>5, <2>3
    <3> QED
      BY <1>1, <1>2, <2>3, <3>1
  <2>4. CASE k \in NotesIn(q, p) /\ m \in NotesIn(q, p)
    <3>1. r[k] = q[k] /\ r[m] = q[m]
      BY <1>4, <2>4
    <3> QED
      BY <2>4, <3>1 DEF InTurn, Ordered, Fitting
  <2> QED
    BY <1>3, <2>1, <2>2, <2>3, <2>4
<1>8. \A k \in NotesIn(r, p) : r[k].op # "cache" \/ (k \in NotesIn(q, p) /\ r[k] = q[k])
  BY <1>1, <1>2, <1>3, <1>4
<1>6. InTurn(r, p, W)
  <2>1. \A k \in NotesIn(r, p) :
          /\ r[k].op = "cache" => p \notin W
          /\ r[k].op = "answered" => p \in W
    BY <1>8 DEF InTurn, Fitting
  <2>2. Ordered(r, p)
    BY <1>7 DEF Ordered
  <2>3. Fitting(r, p, W)
    BY <2>1 DEF Fitting
  <2> QED
    BY <2>2, <2>3, Zenon DEF InTurn
<1> QED
  BY <1>6 DEF a

-----------------------------------------------------------------------------
(* Each action *)

\* Nobody is left out by a step after which whoever was served is, and the loads asked for
\* still are.
LEMMA ServedStays ==
  ASSUME EveryClientServed, meta' \subseteq meta, connected' \subseteq connected,
         failed \subseteq failed', unloaded \subseteq unloaded',
         \A p \in meta' \ (failed' \cup unloaded') :
           /\ \A c \in connected' : <<p, c>> \in DOMAIN instances => <<p, c>> \in DOMAIN instances'
           /\ \A n \in DOMAIN jobs[p] : jobs[p][n].op \in Loads =>
                \E m \in DOMAIN jobs'[p] : jobs'[p][m] = jobs[p][n]
  PROVE  EveryClientServed'
<1> SUFFICES ASSUME NEW p \in meta' \ (failed' \cup unloaded'), NEW c \in connected',
                    <<p, c>> \notin DOMAIN instances'
             PROVE  \E n \in DOMAIN jobs'[p] :
                      \/ jobs'[p][n].op \in {"load", "reload"}
                      \/ jobs'[p][n].op = "join" /\ jobs'[p][n].client = c
  BY DEF EveryClientServed
<1>1. p \in meta \ (failed \cup unloaded) /\ c \in connected /\ <<p, c>> \notin DOMAIN instances
  OBVIOUS
<1>2. PICK n \in DOMAIN jobs[p] :
        \/ jobs[p][n].op \in {"load", "reload"}
        \/ jobs[p][n].op = "join" /\ jobs[p][n].client = c
  BY <1>1, Zenon DEF EveryClientServed
<1>3. jobs[p][n].op \in Loads
  BY <1>2 DEF Loads
<1>4. PICK m \in DOMAIN jobs'[p] : jobs'[p][m] = jobs[p][n]
  BY <1>3
<1> QED
  BY <1>2, <1>4

\* A load begins, or is asked for, for the plugins in P.
Started(P) ==
  /\ StartCaching(P)
  /\ UNCHANGED <<sent, born, inbox, waiting, instances, meta, unloaded>>
  /\ jobs' = [q \in Plugins |-> jobs'[q]]
  /\ \A q \in Plugins :
       \/ \E j \in LoadJobs :
            /\ q \in P /\ j.since = sent /\ (j.op = "join" => q \in meta)
            /\ jobs'[q] = Append(jobs[q], j)
            /\ (q \in DOMAIN downloading' <=> q \in DOMAIN downloading)
            /\ q \in DOMAIN downloading => downloading'[q] = downloading[q]
       \/ /\ jobs'[q] = jobs[q]
          /\ (q \in DOMAIN downloading' <=> q \in DOMAIN downloading)
          /\ q \in DOMAIN downloading => downloading'[q] = downloading[q]
       \/ /\ jobs'[q] = jobs[q] /\ q \in P
          /\ q \in DOMAIN downloading' /\ downloading'[q].since = sent

\* That keeps the caches, queues and phases in order.
LEMMA StartedFacts ==
  ASSUME IInv, NEW P \in SUBSET Plugins, Started(P)
  PROVE  /\ CacheInv' /\ JobsInv' /\ InstancesInv' /\ JoinInv'
         /\ OrderInv' /\ WholeInv' /\ ApartInv'
         /\ \A q \in Plugins : \A n \in DOMAIN jobs[q] :
              n \in DOMAIN jobs'[q] /\ jobs'[q][n] = jobs[q][n]
<1>0. TypeInv /\ SetsInv /\ CacheInv /\ JobsInv /\ sent \in Nat /\ waiting' = waiting /\ sent' = sent
  BY DEF IInv, TypeInv, SetsInv, Started
<1>1. /\ CacheInv'
      /\ DOMAIN caching' = DOMAIN caching \cup P
      /\ \A p \in Plugins : Cached(p)' = IF p \in P THEN <<>> ELSE Cached(p)
      /\ overlapped' = overlapped \cup (P \cap DOMAIN caching)
  BY <1>0, StartCachingFacts DEF Started
<1>2. ASSUME NEW q \in Plugins
      PROVE  \E t \in Seq(LoadJobs) :
               /\ jobs'[q] = jobs[q] \o t
               /\ \A n \in DOMAIN t : PastLoad(t[n]) /\ (t[n].op = "join" => q \in meta)
  <2>0. PICK s \in Seq(Jobs) : s = jobs[q]
    BY <1>0 DEF JobsInv
  <2>1. CASE jobs'[q] = jobs[q]
    <3>1. s \o <<>> = s /\ <<>> \in Seq(LoadJobs)
      OBVIOUS
    <3>2. \A n \in DOMAIN <<>> : FALSE
      OBVIOUS
    <3> QED
      BY <2>0, <2>1, <3>1, <3>2
  <2>2. ASSUME NEW j \in LoadJobs, j.since = sent, jobs'[q] = Append(jobs[q], j), j.op = "join" => q \in meta
        PROVE  \E t \in Seq(LoadJobs) :
               /\ jobs'[q] = jobs[q] \o t
               /\ \A n \in DOMAIN t : PastLoad(t[n]) /\ (t[n].op = "join" => q \in meta)
    <3>1. j \in Jobs
      BY DEF Jobs
    <3>2. Append(s, j) = s \o <<j>>
      BY <3>1, AppendFacts
    <3>3. PastLoad(j)
      BY <1>0, <2>2 DEF PastLoad
    <3>4. <<j>> \in Seq(LoadJobs) /\ <<j>>[1] = j /\ DOMAIN <<j>> = {1}
      OBVIOUS
    <3> QED
      BY <2>0, <2>2, <3>2, <3>3, <3>4
  <2> QED
    BY <2>1, <2>2 DEF Started
<1>3. ASSUME NEW q \in Plugins
      PROVE  Grows(q) /\ (q \notin overlapped' => Cached(q) = <<>> \/ Cached(q)' = Cached(q))
  <2>1. Cached(q)' = IF q \in P THEN <<>> ELSE Cached(q)
    BY <1>1
  <2>2. q \notin overlapped' /\ q \in P => Cached(q) = <<>>
    BY <1>1 DEF Cached
  <2> QED
    BY <1>2, <2>1, <2>2 DEF Grows
<1>4. ThreadStep
  BY <1>3 DEF ThreadStep, Started
<1>5. JobsInv' /\ InstancesInv'
  BY <1>0, <1>4, ThreadJobs
<1>6. OrderInv' /\ WholeInv'
  <2>1. DOMAIN caching' \subseteq Plugins /\ overlapped \subseteq overlapped'
    BY <1>1 DEF CacheInv
  <2> QED
    BY <1>3, <1>4, <2>1, ThreadEvents DEF IInv, Keeps
<1>7. ASSUME NEW q \in Plugins
      PROVE  /\ \A n \in DOMAIN jobs[q] : n \in DOMAIN jobs'[q] /\ jobs'[q][n] = jobs[q][n]
             /\ \A n \in DOMAIN jobs'[q] : jobs'[q][n].op = "join" => q \in meta \cup unloaded
  <2>0. PICK s \in Seq(Jobs) : s = jobs[q]
    BY <1>0 DEF JobsInv
  <2>1. PICK t \in Seq(LoadJobs) :
               /\ jobs'[q] = jobs[q] \o t
               /\ \A n \in DOMAIN t : t[n].op = "join" => q \in meta
    BY <1>2
  <2>2. t \in Seq(Jobs) /\ jobs'[q] = s \o t
    BY <2>0, <2>1 DEF Jobs
  <2>3. \A n \in DOMAIN s : s[n].op = "join" => q \in meta \cup unloaded
    BY <2>0 DEF IInv, JoinInv
  <2>4. /\ \A n \in DOMAIN s : n \in DOMAIN (s \o t) /\ (s \o t)[n] = s[n]
        /\ \A n \in DOMAIN (s \o t) :
              n \in DOMAIN s \/ \E m \in DOMAIN t : n = Len(s) + m
        /\ \A n \in DOMAIN t : (s \o t)[Len(s) + n] = t[n]
    BY <2>2, ConcatFacts
  <2> QED
    BY <2>0, <2>1, <2>2, <2>3, <2>4
<1>8. JoinInv'
  BY <1>7 DEF JoinInv, Started
<1>9. ASSUME NEW q \in Plugins \ overlapped'
      PROVE  PhaseInv(q)' /\ SinceInv(q)'
  <2>1. PhaseInv(q) /\ SinceInv(q)
    BY <1>1 DEF IInv, ApartInv
  <2>2. CASE q \notin P
    <3>1. SamePhase(q)
      BY <1>1, <2>2 DEF SamePhase, SameTables, Started
    <3> QED
      BY <2>1, <3>1, PhaseStays
  <2>3. CASE q \in P
    <3>1. q \notin DOMAIN caching /\ q \in DOMAIN caching'
      BY <1>1, <2>3
    <3>2. q \notin DOMAIN downloading /\ LoadsIn(jobs[q]) = {} /\ NotesIn(inbox, q) = {} /\ q \notin waiting
      BY <1>0, <2>1, <3>1, NothingUnderWay
    <3>3. CASE jobs'[q] # jobs[q]
      <4>1. PICK j \in LoadJobs :
              j.since = sent /\ jobs'[q] = Append(jobs[q], j) /\ q \notin DOMAIN downloading'
        BY <3>2, <3>3 DEF Started
      <4> QED
        BY <1>0, <2>1, <3>1, <3>2, <4>1, PhaseLoad DEF Started
    <3>4. CASE jobs'[q] = jobs[q]
      <4>1. LoadsIn(jobs'[q]) = {} /\ NotesIn(inbox', q) = {} /\ q \notin waiting'
        BY <3>2, <3>4 DEF Started
      <4>2. q \in DOMAIN downloading' => downloading'[q].since + 1 .. sent' = {}
        <5>1. q \in DOMAIN downloading' => downloading'[q].since = sent
          BY <3>2 DEF Started
        <5> QED
          BY <1>0, <5>1
      <4> QED
        BY <3>1, <4>1, <4>2 DEF PhaseInv, SinceInv, NotesInv, InTurn, Ordered, Fitting
    <3> QED
      BY <3>3, <3>4
  <2> QED
    BY <2>2, <2>3
<1> QED
  BY <1>1, <1>5, <1>6, <1>7, <1>8, <1>9 DEF ApartInv

\* The first load of a plugin.
LEMMA LoadPluginInv ==
  ASSUME IInv, NEW p \in Plugins, NEW c \in Clients, LoadPlugin(p, c)
  PROVE  IInv'
<1> DEFINE j == LoadJob("load", c)
<1>0. SetsInv /\ InstancesInv /\ CacheInv /\ DownloadsInv /\ JobsInv /\ InboxInv
  BY DEF IInv, TypeInv
<1>1. j \in LoadJobs /\ j.since = sent /\ j.op = "load" /\ PastLoad(j)
  BY <1>0, LoadJobFacts DEF Loads
<1> HIDE DEF j
<1>2. /\ StartCaching({p})
      /\ UNCHANGED <<sent, born, inbox, waiting, instances, meta, unloaded, connected, gone,
                     toUnload, reloads, failed>>
      /\ \/ p \in Remote /\ downloading' = With(downloading, {p}, j) /\ jobs' = jobs
         \/ jobs' = [jobs EXCEPT ![p] = Append(@, j)] /\ downloading' = downloading
  BY DEF LoadPlugin, j, clientVars, mapVars
<1>3. Started({p})
  <2>1. jobs \in [Plugins -> Seq(Jobs)]
    BY <1>0 DEF JobsInv
  <2>2. CASE jobs' = [jobs EXCEPT ![p] = Append(@, j)] /\ downloading' = downloading
    <3>1. jobs' = [q \in Plugins |-> jobs'[q]]
      BY <2>1, <2>2
    <3>2. jobs'[p] = Append(jobs[p], j) /\ \A q \in Plugins \ {p} : jobs'[q] = jobs[q]
      BY <2>1, <2>2
    <3> QED
      BY <1>1, <1>2, <2>2, <3>1, <3>2 DEF Started
  <2>3. CASE p \in Remote /\ downloading' = With(downloading, {p}, j) /\ jobs' = jobs
    <3>1. jobs' = [q \in Plugins |-> jobs'[q]]
      BY <2>1, <2>3
    <3>2. /\ DOMAIN downloading' = DOMAIN downloading \cup {p} /\ downloading'[p] = j
          /\ \A q \in DOMAIN downloading' \ {p} : downloading'[q] = downloading[q]
      BY <2>3 DEF With
    <3> QED
      BY <1>1, <1>2, <2>3, <3>1, <3>2 DEF Started
  <2> QED
    BY <1>2, <2>2, <2>3
<1>4. /\ CacheInv' /\ JobsInv' /\ InstancesInv' /\ JoinInv'
      /\ OrderInv' /\ WholeInv' /\ ApartInv'
      /\ \A q \in Plugins : \A n \in DOMAIN jobs[q] :
           n \in DOMAIN jobs'[q] /\ jobs'[q][n] = jobs[q][n]
  BY <1>3, StartedFacts
<1>5. SetsInv'
  BY <1>0, <1>2 DEF SetsInv
<1>6. DownloadsInv'
  <2>1. CASE downloading' = downloading
    BY <1>0, <1>2, <2>1 DEF DownloadsInv, PastLoad
  <2>2. CASE p \in Remote /\ downloading' = With(downloading, {p}, j)
    <3>1. /\ DOMAIN downloading' = DOMAIN downloading \cup {p} /\ downloading'[p] = j
          /\ \A q \in DOMAIN downloading' \ {p} : downloading'[q] = downloading[q] /\ q \in DOMAIN downloading
      BY <2>2 DEF With
    <3>2. \A q \in DOMAIN downloading' : PastLoad(downloading'[q]) /\ downloading'[q].op = "load"
      BY <1>0, <1>1, <3>1 DEF DownloadsInv
    <3> QED
      BY <1>0, <1>2, <2>2, <3>1, <3>2 DEF DownloadsInv, PastLoad
  <2> QED
    BY <1>2, <2>1, <2>2
<1>7. InboxInv'
  BY <1>0, <1>2 DEF InboxInv
<1>8. EveryClientServed'
  <2>1. meta \subseteq Plugins
    BY <1>0 DEF SetsInv
  <2> QED
    BY <1>2, <1>4, <2>1, ServedStays DEF IInv
<1> QED
  BY <1>4, <1>5, <1>6, <1>7, <1>8 DEF IInv, TypeInv

\* A plugin in the map is reloaded.
LEMMA ReloadWithIdInv ==
  ASSUME IInv, NEW p \in meta, ReloadWithId(p, meta),
         UNCHANGED <<clientVars, mapVars, waiting, toUnload, downloading, inbox,
                     sent, born, unloaded>>,
         reloads' \subseteq Plugins
  PROVE  IInv'
<1>0. SetsInv /\ InstancesInv /\ CacheInv /\ DownloadsInv /\ JobsInv /\ InboxInv /\ p \in Plugins
  BY DEF IInv, TypeInv, SetsInv
<1>2. /\ StartCaching({p})
      /\ UNCHANGED <<sent, born, inbox, waiting, instances, meta, unloaded, connected, gone,
                     toUnload, downloading>>
      /\ failed \subseteq failed'
      /\ \/ jobs' = jobs
         \/ \E c \in connected : jobs' = [jobs EXCEPT ![p] = Append(@, LoadJob("reload", c))]
  BY DEF ReloadWithId, clientVars, mapVars
<1>3. Started({p})
  <2>1. jobs \in [Plugins -> Seq(Jobs)]
    BY <1>0 DEF JobsInv
  <2>2. CASE \E c \in connected : jobs' = [jobs EXCEPT ![p] = Append(@, LoadJob("reload", c))]
    <3> PICK c \in connected : jobs' = [jobs EXCEPT ![p] = Append(@, LoadJob("reload", c))]
      BY <2>2
    <3>0. c \in Clients
      BY <1>0 DEF SetsInv
    <3>1. PICK j \in LoadJobs : j = LoadJob("reload", c) /\ j.since = sent /\ j.op = "reload"
      BY <1>0, <3>0, LoadJobFacts DEF Loads
    <3>2. jobs' = [q \in Plugins |-> jobs'[q]]
      BY <2>1
    <3>3. jobs'[p] = Append(jobs[p], j) /\ \A q \in Plugins \ {p} : jobs'[q] = jobs[q]
      BY <1>0, <2>1, <3>1
    <3> QED
      BY <1>2, <3>1, <3>2, <3>3 DEF Started
  <2>3. CASE jobs' = jobs
    <3>1. jobs' = [q \in Plugins |-> jobs'[q]]
      BY <2>1, <2>3
    <3> QED
      BY <1>2, <2>3, <3>1 DEF Started
  <2> QED
    BY <1>2, <2>2, <2>3
<1>4. /\ CacheInv' /\ JobsInv' /\ InstancesInv' /\ JoinInv'
      /\ OrderInv' /\ WholeInv' /\ ApartInv'
      /\ \A q \in Plugins : \A n \in DOMAIN jobs[q] :
           n \in DOMAIN jobs'[q] /\ jobs'[q][n] = jobs[q][n]
  BY <1>0, <1>3, StartedFacts
<1>5. SetsInv'
  BY <1>0, <1>2 DEF SetsInv
<1>6. DownloadsInv'
  BY <1>0, <1>2 DEF DownloadsInv, PastLoad
<1>7. InboxInv'
  BY <1>0, <1>2 DEF InboxInv
<1>8. EveryClientServed'
  <2>1. meta \subseteq Plugins
    BY <1>0 DEF SetsInv
  <2> QED
    BY <1>2, <1>4, <2>1, ServedStays DEF IInv
<1> QED
  BY <1>4, <1>5, <1>6, <1>7, <1>8 DEF IInv, TypeInv

\* A step that is the same for every plugin.
LEMMA StutterInv ==
  ASSUME IInv, UNCHANGED <<clientVars, mapVars, caching, loading, waiting, toUnload, downloading,
                           jobs, inbox, sent, born, unloaded, overlapped>>,
         reloads' \subseteq Plugins, failed \subseteq failed'
  PROVE  IInv'
<1>1. TypeInv'
  BY DEF IInv, TypeInv, SetsInv, InstancesInv, CacheInv, DownloadsInv, JobsInv, InboxInv, Past,
         PastLoad, PastJob, clientVars, mapVars
<1>2. JoinInv' /\ OrderInv' /\ WholeInv'
  BY DEF IInv, JoinInv, OrderInv, WholeInv, OrderKept, Complete, Events, Cached, Own, InstancesOf,
         clientVars, mapVars
<1>3. ApartInv'
  <2>1. \A p \in Plugins \ overlapped : SamePhase(p)
    BY DEF SamePhase, SameTables, Cached
  <2> QED
    BY <2>1, PhaseStays DEF IInv, ApartInv
<1>4. EveryClientServed'
  BY ServedStays DEF IInv, clientVars, mapVars
<1> QED
  BY <1>1, <1>2, <1>3, <1>4 DEF IInv

\* The requests to reload.
LEMMA ReloadsInv ==
  ASSUME IInv, NEW p \in Plugins, ReloadPluginWithId(p) \/ ReloadPlugin(p)
  PROVE  IInv'
<1>1. reloads \subseteq Plugins
  BY DEF IInv, TypeInv, SetsInv
<1>2. CASE ReloadPluginWithId(p)
  BY <1>1, <1>2, ReloadWithIdInv DEF ReloadPluginWithId
<1>3. CASE ReloadPlugin(p) /\ BeingLoaded(p)
  BY <1>1, <1>3, StutterInv DEF ReloadPlugin
<1>4. CASE ReloadPlugin(p) /\ ~BeingLoaded(p)
  BY <1>1, <1>4, ReloadWithIdInv DEF ReloadPlugin
<1> QED
  BY <1>2, <1>3, <1>4

\* Steps after which there is less: instances, downloads, plugins that are being loaded.
LEMMA QuietFacts ==
  ASSUME IInv, UNCHANGED <<sent, born, caching, waiting, jobs, inbox, overlapped>>,
         loading' \subseteq loading,
         DOMAIN instances' \subseteq DOMAIN instances,
         \A i \in DOMAIN instances' : instances'[i] = instances[i],
         DOMAIN downloading' \subseteq DOMAIN downloading,
         \A p \in DOMAIN downloading' : downloading'[p] = downloading[p]
  PROVE  /\ InstancesInv' /\ CacheInv' /\ DownloadsInv' /\ JobsInv' /\ InboxInv'
         /\ OrderInv' /\ WholeInv' /\ ApartInv'
<1>0. SetsInv /\ InstancesInv /\ CacheInv /\ DownloadsInv /\ JobsInv /\ InboxInv
  BY DEF IInv, TypeInv
<1>1. CacheInv' /\ JobsInv' /\ InboxInv' /\ DownloadsInv'
  <2>1. CacheInv'
    BY <1>0 DEF CacheInv, Past
  <2>2. JobsInv' /\ InboxInv'
    BY <1>0 DEF JobsInv, InboxInv, PastJob, PastLoad, Past
  <2>3. DownloadsInv'
    BY <1>0 DEF DownloadsInv, PastLoad
  <2> QED
    BY <2>1, <2>2, <2>3
<1>2. InstancesInv'
  BY <1>0 DEF InstancesInv, Past
<1>3. ApartInv'
  <2>1. \A p \in Plugins \ overlapped : SamePhase(p)
    BY DEF SamePhase, SameTables, Cached
  <2> QED
    BY <2>1, PhaseStays DEF IInv, ApartInv
<1>4. \A p : Cached(p)' = Cached(p)
  BY DEF Cached
<1>5. OrderInv'
  <2>1. OrderKept'
    BY <1>4, InTheseTerms, InTheseTermsNext DEF IInv, OrderInv
  <2>2. \A s : Rising(s)' <=> Rising(s)
    BY DEF Rising
  <2>3. \A p \in DOMAIN caching : Rising(caching[p])
    BY DEF IInv, OrderInv
  <2> QED
    BY <2>1, <2>3 DEF OrderInv
<1>6. WholeInv'
  <2> SUFFICES ASSUME NEW p \in Plugins \ overlapped', NEW i \in InstancesOf(p, instances'),
                      NEW e \in instances'[i].since + 1 .. sent'
               PROVE  Has(instances'[i].got, jobs'[i[1]], i[2], instances'[i].gen, Cached(i[1])', e)
    BY InTheseTermsNext DEF WholeInv
  <2>1. i \in InstancesOf(p, instances) /\ instances'[i] = instances[i] /\ Complete(p)
    BY DEF InstancesOf, IInv, WholeInv
  <2> QED
    BY <1>4, <2>1, InTheseTerms
<1> QED
  BY <1>1, <1>2, <1>3, <1>5, <1>6

\* A download fails.
LEMMA DownloadFailsInv ==
  ASSUME IInv, NEW p \in Plugins, DownloadFails(p)
  PROVE  IInv'
<1>1. /\ UNCHANGED <<sent, born, caching, waiting, jobs, inbox, overlapped, loading, instances,
                     connected, gone, meta, reloads, toUnload, unloaded>>
      /\ failed \subseteq failed'
      /\ downloading' = Without(downloading, {p})
  BY DEF DownloadFails, clientVars, mapVars, tableVars
<1>2. /\ DOMAIN downloading' \subseteq DOMAIN downloading
      /\ \A q \in DOMAIN downloading' : downloading'[q] = downloading[q]
  BY <1>1 DEF Without, Restrict
<1>3. /\ InstancesInv' /\ CacheInv' /\ DownloadsInv' /\ JobsInv' /\ InboxInv'
      /\ OrderInv' /\ WholeInv' /\ ApartInv'
  BY <1>1, <1>2, QuietFacts
<1>4. SetsInv'
  BY <1>1 DEF IInv, TypeInv, SetsInv
<1>5. JoinInv'
  BY <1>1 DEF IInv, JoinInv
<1>6. EveryClientServed'
  BY <1>1, ServedStays DEF IInv
<1> QED
  BY <1>3, <1>4, <1>5, <1>6 DEF IInv, TypeInv

\* A plugin is unloaded.
LEMMA UnloadPluginInv ==
  ASSUME IInv, NEW p \in Plugins, UnloadPlugin(p)
  PROVE  IInv'
<1>1. /\ UNCHANGED <<sent, born, caching, waiting, jobs, inbox, overlapped, downloading,
                     connected, gone, reloads, failed>>
      /\ loading' \subseteq loading /\ meta' = meta \ {p} /\ unloaded' = unloaded \cup {p}
      /\ toUnload' \subseteq toUnload \cup {p}
      /\ instances' = Without(instances, InstancesOf(p, instances))
  BY DEF UnloadPlugin, clientVars
<1>2. /\ DOMAIN instances' \subseteq DOMAIN instances
      /\ \A i \in DOMAIN instances' : instances'[i] = instances[i]
      /\ \A i \in DOMAIN instances : i[1] # p => i \in DOMAIN instances'
  BY <1>1 DEF Without, Restrict, InstancesOf
<1>3. /\ InstancesInv' /\ CacheInv' /\ DownloadsInv' /\ JobsInv' /\ InboxInv'
      /\ OrderInv' /\ WholeInv' /\ ApartInv'
  BY <1>1, <1>2, QuietFacts
<1>4. SetsInv'
  BY <1>1 DEF IInv, TypeInv, SetsInv
<1>5. JoinInv'
  BY <1>1 DEF IInv, JoinInv
<1>6. EveryClientServed'
  <2>1. ASSUME NEW q \in meta' \ (failed' \cup unloaded')
        PROVE  /\ \A c \in connected' : <<q, c>> \in DOMAIN instances => <<q, c>> \in DOMAIN instances'
               /\ \A n \in DOMAIN jobs[q] : jobs[q][n].op \in Loads =>
                    \E m \in DOMAIN jobs'[q] : jobs'[q][m] = jobs[q][n]
    <3>1. q # p /\ \A c : <<q, c>>[1] = q
      BY <1>1
    <3> QED
      BY <1>1, <1>2, <3>1
  <2> QED
    BY <1>1, <2>1, ServedStays DEF IInv
<1> QED
  BY <1>3, <1>4, <1>5, <1>6 DEF IInv, TypeInv

\* A client leaves.
LEMMA RemoveClientInv ==
  ASSUME IInv, NEW c \in Clients, RemoveClient(c)
  PROVE  IInv'
<1>1. /\ UNCHANGED <<sent, born, caching, waiting, jobs, inbox, overlapped, downloading, loading,
                     meta, unloaded, toUnload, reloads, failed>>
      /\ connected' = connected \ {c} /\ gone' = gone \cup {c}
      /\ instances' = Without(instances, {i \in DOMAIN instances : i[2] = c})
  BY DEF RemoveClient, tableVars, historyVars
<1>2. /\ DOMAIN instances' \subseteq DOMAIN instances
      /\ \A i \in DOMAIN instances' : instances'[i] = instances[i]
      /\ \A i \in DOMAIN instances : i[2] # c => i \in DOMAIN instances'
  BY <1>1 DEF Without, Restrict
<1>3. /\ InstancesInv' /\ CacheInv' /\ DownloadsInv' /\ JobsInv' /\ InboxInv'
      /\ OrderInv' /\ WholeInv' /\ ApartInv'
  BY <1>1, <1>2, QuietFacts
<1>4. SetsInv'
  BY <1>1 DEF IInv, TypeInv, SetsInv
<1>5. JoinInv'
  BY <1>1 DEF IInv, JoinInv
<1>6. EveryClientServed'
  <2>1. ASSUME NEW q, NEW d \in connected', <<q, d>> \in DOMAIN instances
        PROVE  <<q, d>> \in DOMAIN instances'
    <3>1. d # c /\ <<q, d>>[2] = d
      BY <1>1
    <3> QED
      BY <1>2, <2>1, <3>1
  <2> QED
    BY <1>1, <2>1, ServedStays DEF IInv
<1> QED
  BY <1>3, <1>4, <1>5, <1>6 DEF IInv, TypeInv

\* A client comes.
LEMMA AddClientInv ==
  ASSUME IInv, NEW c \in Clients, AddClient(c)
  PROVE  IInv'
<1> DEFINE new == {p \in meta : <<p, c>> \notin DOMAIN instances}
<1>0. SetsInv /\ InstancesInv /\ CacheInv /\ DownloadsInv /\ JobsInv /\ InboxInv
  BY DEF IInv, TypeInv
<1>1. PICK j \in LoadJobs : j = LoadJob("join", c) /\ j.since = sent /\ j.op = "join" /\ j.client = c
  BY <1>0, LoadJobFacts DEF Loads, LoadJob
<1>2. /\ StartCaching(new)
      /\ UNCHANGED <<sent, born, inbox, waiting, instances, meta, unloaded, gone,
                     toUnload, reloads, downloading, failed>>
      /\ connected' = connected \cup {c}
      /\ jobs' = [p \in Plugins |-> IF p \in new THEN Append(jobs[p], j) ELSE jobs[p]]
  BY <1>1 DEF AddClient, mapVars
<1>3. new \subseteq meta /\ meta \subseteq Plugins
  BY <1>0 DEF SetsInv
<1>4. \A p \in meta : <<p, c>> \in DOMAIN instances \/ p \in new
  OBVIOUS
<1> HIDE DEF new
<1>5. Started(new)
  <2>1. jobs' = [q \in Plugins |-> jobs'[q]]
    BY <1>2
  <2>2. \A q \in Plugins : jobs'[q] = IF q \in new THEN Append(jobs[q], j) ELSE jobs[q]
    BY <1>2
  <2> QED
    BY <1>1, <1>2, <1>3, <2>1, <2>2 DEF Started
<1>6. /\ CacheInv' /\ JobsInv' /\ InstancesInv' /\ JoinInv'
      /\ OrderInv' /\ WholeInv' /\ ApartInv'
      /\ \A q \in Plugins : \A n \in DOMAIN jobs[q] :
           n \in DOMAIN jobs'[q] /\ jobs'[q][n] = jobs[q][n]
  BY <1>3, <1>5, StartedFacts
<1>7. SetsInv'
  BY <1>0, <1>2 DEF SetsInv
<1>8. DownloadsInv' /\ InboxInv'
  BY <1>0, <1>2 DEF DownloadsInv, InboxInv, PastLoad
<1>9. EveryClientServed'
  <2> SUFFICES ASSUME NEW p \in meta' \ (failed' \cup unloaded'), NEW d \in connected',
                      <<p, d>> \notin DOMAIN instances'
               PROVE  \E n \in DOMAIN jobs'[p] :
                        \/ jobs'[p][n].op \in {"load", "reload"}
                        \/ jobs'[p][n].op = "join" /\ jobs'[p][n].client = d
    BY DEF EveryClientServed
  <2>0. p \in meta \ (failed \cup unloaded) /\ <<p, d>> \notin DOMAIN instances
    BY <1>2
  <2>1. CASE d \in connected
    <3>1. PICK n \in DOMAIN jobs[p] :
            \/ jobs[p][n].op \in {"load", "reload"}
            \/ jobs[p][n].op = "join" /\ jobs[p][n].client = d
      BY <2>0, <2>1, Zenon DEF IInv, EveryClientServed
    <3> QED
      BY <1>3, <1>6, <2>0, <3>1
  <2>2. CASE d = c
    <3>1. p \in new /\ p \in Plugins
      BY <1>3, <1>4, <2>0, <2>2
    <3>2. jobs'[p] = Append(jobs[p], j) /\ jobs[p] \in Seq(Jobs) /\ j \in Jobs
      BY <1>0, <1>2, <3>1 DEF JobsInv, Jobs
    <3>3. Len(jobs[p]) + 1 \in DOMAIN jobs'[p] /\ jobs'[p][Len(jobs[p]) + 1] = j
      BY <3>2, AppendFacts
    <3> QED
      BY <1>1, <2>2, <3>3
  <2> QED
    BY <1>2, <2>1, <2>2
<1> QED
  BY <1>6, <1>7, <1>8, <1>9 DEF IInv, TypeInv

\* A plugin has been downloaded: its load is for its thread now.
LEMMA DownloadedInv ==
  ASSUME IInv, NEW p \in Plugins, Downloaded(p)
  PROVE  IInv'
<1>0. SetsInv /\ InstancesInv /\ CacheInv /\ DownloadsInv /\ JobsInv /\ InboxInv /\ sent \in Nat
  BY DEF IInv, TypeInv, SetsInv
<1>1. /\ UNCHANGED <<sent, born, caching, waiting, inbox, overlapped, loading, instances,
                     connected, gone, meta, reloads, toUnload, unloaded, failed>>
      /\ p \in DOMAIN downloading
      /\ jobs' = [jobs EXCEPT ![p] = Append(@, downloading[p])]
      /\ downloading' = Without(downloading, {p})
  BY DEF Downloaded, clientVars, mapVars, tableVars, historyVars
<1>2. /\ DOMAIN downloading' = DOMAIN downloading \ {p}
      /\ \A q \in DOMAIN downloading' : downloading'[q] = downloading[q]
  BY <1>1 DEF Without, Restrict
<1>3. PICK j : j = downloading[p] /\ j \in LoadJobs /\ PastLoad(j) /\ j.op = "load" /\ j \in Jobs
  BY <1>0, <1>1 DEF DownloadsInv, PastLoad, Jobs
<1>4. /\ jobs \in [Plugins -> Seq(Jobs)] /\ jobs' = [q \in Plugins |-> jobs'[q]]
      /\ jobs'[p] = Append(jobs[p], j) /\ \A q \in Plugins \ {p} : jobs'[q] = jobs[q]
  BY <1>0, <1>1, <1>3 DEF JobsInv
<1>5. PICK s \in Seq(Jobs) : s = jobs[p]
  BY <1>4
<1>6. /\ jobs'[p] = s \o <<j>>
      /\ DOMAIN jobs'[p] = DOMAIN s \cup {Len(s) + 1}
      /\ \A n \in DOMAIN s : jobs'[p][n] = s[n]
      /\ jobs'[p][Len(s) + 1] = j
  BY <1>3, <1>4, <1>5, AppendFacts
<1>7. \A q : Cached(q)' = Cached(q)
  BY <1>1 DEF Cached
<1>8. ASSUME NEW q \in Plugins
      PROVE  Grows(q)
  <2>1. CASE q = p
    <3>1. <<j>> \in Seq(LoadJobs) /\ <<j>>[1] = j /\ DOMAIN <<j>> = {1}
      BY <1>3
    <3> QED
      BY <1>3, <1>5, <1>6, <1>7, <2>1, <3>1 DEF Grows
  <2>2. CASE q # p
    <3>1. PICK r \in Seq(Jobs) : r = jobs[q]
      BY <1>4
    <3>2. r = r \o <<>> /\ <<>> \in Seq(LoadJobs) /\ \A n \in DOMAIN <<>> : FALSE
      OBVIOUS
    <3> QED
      BY <1>4, <1>7, <2>2, <3>1, <3>2 DEF Grows
  <2> QED
    BY <2>1, <2>2
<1>9. ThreadStep
  BY <1>1, <1>4, <1>8 DEF ThreadStep
<1>10. JobsInv' /\ InstancesInv'
  BY <1>9, ThreadJobs DEF IInv
<1>11. OrderInv' /\ WholeInv'
  <2>1. DOMAIN caching' \subseteq Plugins /\ overlapped \subseteq overlapped'
    BY <1>0, <1>1 DEF CacheInv
  <2> QED
    BY <1>7, <1>9, <2>1, ThreadEvents DEF IInv, Keeps
<1>12. CacheInv' /\ InboxInv' /\ SetsInv'
  BY <1>0, <1>1 DEF CacheInv, InboxInv, SetsInv, Past
<1>13. DownloadsInv'
  BY <1>0, <1>1, <1>2 DEF DownloadsInv, PastLoad
<1>14. ASSUME NEW q \in Plugins, NEW n \in DOMAIN jobs'[q], jobs'[q][n].op = "join"
       PROVE  q \in meta' \cup unloaded'
  <2>1. n \in DOMAIN jobs[q] /\ jobs[q][n].op = "join"
    BY <1>3, <1>4, <1>5, <1>6, <1>14
  <2> QED
    BY <1>1, <2>1 DEF IInv, JoinInv
<1>15. JoinInv'
  BY <1>14 DEF JoinInv
<1>16. EveryClientServed'
  <2>1. \A q \in Plugins : \A n \in DOMAIN jobs[q] : n \in DOMAIN jobs'[q] /\ jobs'[q][n] = jobs[q][n]
    BY <1>4, <1>5, <1>6
  <2>2. meta \subseteq Plugins
    BY <1>0 DEF SetsInv
  <2> QED
    BY <1>1, <2>1, <2>2, ServedStays DEF IInv
<1>17. ASSUME NEW q \in Plugins \ overlapped
       PROVE  PhaseInv(q)' /\ SinceInv(q)'
  <2>1. PhaseInv(q) /\ SinceInv(q)
    BY DEF IInv, ApartInv
  <2>2. CASE q # p
    <3>1. SamePhase(q)
      BY <1>1, <1>2, <1>4, <1>7, <2>2 DEF SamePhase, SameTables
    <3> QED
      BY <2>1, <3>1, PhaseStays
  <2>3. CASE q = p
    <3>1. LoadsIn(s) = {} /\ NotesIn(inbox, p) = {} /\ p \notin waiting /\ p \in DOMAIN caching
      BY <1>1, <1>5, <2>1, <2>3 DEF PhaseInv
    <3>2. LoadsIn(jobs'[p]) = {Len(s) + 1}
      <4>1. j.op \in Loads
        BY <1>3 DEF Loads
      <4> QED
        BY <1>6, <3>1, <4>1 DEF LoadsIn
    <3>3. PhaseInv(p)'
      BY <1>1, <1>2, <3>1, <3>2 DEF PhaseInv, NotesInv, InTurn, Ordered, Fitting
    <3>4. \A e \in j.since + 1 .. sent : e \in Range(Cached(p))
      BY <1>1, <1>3, <2>1, <2>3 DEF SinceInv
    <3>5. SinceInv(p)'
      BY <1>1, <1>2, <1>6, <1>7, <3>2, <3>4 DEF SinceInv
    <3> QED
      BY <2>3, <3>3, <3>5
  <2> QED
    BY <2>2, <2>3
<1>18. ApartInv'
  BY <1>1, <1>17 DEF ApartInv
<1> QED
  BY <1>10, <1>11, <1>12, <1>13, <1>15, <1>16, <1>18 DEF IInv, TypeInv

\* The user answers.
LEMMA AnswerInv ==
  ASSUME IInv, NEW p \in Plugins, Answer(p)
  PROVE  IInv'
<1> DEFINE a == [op |-> "answered", plugin |-> p]
<1>0. SetsInv /\ InstancesInv /\ CacheInv /\ DownloadsInv /\ JobsInv /\ InboxInv
  BY DEF IInv, TypeInv
<1>1. /\ UNCHANGED <<sent, born, caching, waiting, jobs, overlapped, loading, instances, downloading,
                     connected, gone, meta, reloads, toUnload, unloaded, failed>>
      /\ p \in waiting
      /\ ~\E n \in DOMAIN inbox : inbox[n] = a
      /\ inbox' = Append(inbox, a)
  BY DEF Answer, clientVars, mapVars, tableVars, historyVars
<1>2. PICK q \in Seq(Message) : q = inbox
  BY <1>0 DEF InboxInv
<1>3. a \in Message /\ a.plugin = p
  BY DEF Message
<1> HIDE DEF a
<1>4. <<a>> \in Seq(Message) /\ Append(q, a) = q \o <<a>> /\ \A n \in DOMAIN <<a>> : <<a>>[n].plugin = p
  BY <1>3
<1>5. InboxInv'
  BY <1>1, <1>2, <1>3 DEF InboxInv
<1>6. SetsInv' /\ InstancesInv' /\ CacheInv' /\ DownloadsInv' /\ JobsInv'
  BY <1>0, <1>1 DEF SetsInv, InstancesInv, CacheInv, DownloadsInv, JobsInv, Past, PastLoad, PastJob
<1>7. JoinInv' /\ OrderInv' /\ WholeInv'
  BY <1>1 DEF IInv, JoinInv, OrderInv, WholeInv, OrderKept, Complete, Events, Cached, Own, InstancesOf
<1>8. EveryClientServed'
  BY <1>1, ServedStays DEF IInv
<1>9. ASSUME NEW o \in Plugins \ overlapped
      PROVE  PhaseInv(o)' /\ SinceInv(o)'
  <2>1. PhaseInv(o) /\ SinceInv(o) /\ NotesInv(o)
    BY DEF IInv, ApartInv, PhaseInv
  <2>2. Cached(o)' = Cached(o)
    BY <1>1 DEF Cached
  <2>3. SinceInv(o)'
    BY <1>1, <2>1, <2>2 DEF SinceInv
  <2>4. CASE o = p
    <3>1. p \notin DOMAIN downloading /\ LoadsIn(jobs[p]) = {} /\ p \in DOMAIN caching
      BY <1>0, <1>1, <2>1, <2>4 DEF PhaseInv, CacheInv
    <3>2. InTurn(q \o <<a>>, p, waiting)
      BY <1>1, <1>2, <1>4, <2>1, <2>4, NotesOfAnswer DEF NotesInv, a
    <3>3. NotesInv(p)'
      BY <1>1, <1>2, <1>4, <3>2 DEF NotesInv
    <3> QED
      BY <1>1, <2>3, <2>4, <3>1, <3>3 DEF PhaseInv
  <2>5. CASE o # p
    <3>0. PICK t \in Seq(Message) : t = <<a>> /\ \A n \in DOMAIN t : t[n].plugin = p
      BY <1>4
    <3>1. /\ NotesIn(q \o t, o) = NotesIn(q, o)
          /\ \A W : InTurn(q, o, W) => InTurn(q \o t, o, W)
      BY <2>5, <3>0, OthersNotes
    <3>2. NotesIn(inbox', o) = NotesIn(inbox, o) /\ NotesInv(o)'
      BY <1>1, <1>2, <1>4, <2>1, <3>0, <3>1 DEF NotesInv
    <3> QED
      BY <1>1, <2>1, <2>3, <3>2 DEF PhaseInv
  <2> QED
    BY <2>4, <2>5
<1>10. ApartInv'
  BY <1>1, <1>9 DEF ApartInv
<1> QED
  BY <1>5, <1>6, <1>7, <1>8, <1>10 DEF IInv, TypeInv

\* An event.
LEMMA UpdateInv ==
  ASSUME IInv, Update
  PROVE  IInv'
<1>0. SetsInv /\ InstancesInv /\ CacheInv /\ DownloadsInv /\ JobsInv /\ InboxInv /\ sent \in Nat
  BY DEF IInv, TypeInv, SetsInv
<1> DEFINE e == sent + 1
<1>1. /\ UNCHANGED <<born, waiting, inbox, overlapped, loading, instances, downloading,
                     connected, gone, meta, reloads, toUnload, unloaded, failed>>
      /\ sent' = e /\ e \in Nat
      /\ jobs' = [p \in Plugins |->
                    IF p \in DOMAIN caching THEN jobs[p] ELSE Given(p, <<e>>, jobs[p])]
      /\ caching' = [p \in DOMAIN caching |-> Append(caching[p], e)]
  BY <1>0 DEF Update, clientVars, mapVars, historyVars
<1>2. <<e>> \in Seq(Nat) /\ <<e>>[1] = e /\ DOMAIN <<e>> = {1}
  BY <1>1
<1> HIDE DEF e
<1>3. /\ DOMAIN caching' = DOMAIN caching
      /\ \A p \in DOMAIN caching : caching'[p] = Append(caching[p], e)
      /\ \A p \in Plugins : jobs'[p] = IF p \in DOMAIN caching THEN jobs[p] ELSE Given(p, <<e>>, jobs[p])
      /\ jobs' = [q \in Plugins |-> jobs'[q]]
  BY <1>1
<1>4. ASSUME NEW p \in Plugins, p \in DOMAIN caching
      PROVE  Caches(p)
  BY <1>3, <1>4 DEF Caches, Cached, e
<1>5. ASSUME NEW p \in Plugins, p \notin DOMAIN caching
      PROVE  /\ Gives(p, <<e>>) /\ Cached(p) = <<>>
             /\ \E t \in Seq(Jobs) : jobs'[p] = jobs[p] \o t /\ LoadsIn(t) = {}
  <2>1. PICK s \in Seq(Jobs) : s = jobs[p]
    BY <1>0 DEF JobsInv
  <2>2. PICK t \in Seq(Jobs) : Given(p, <<e>>, s) = s \o t /\ GivenTo(t, p, <<e>>)
    BY <1>2, <2>1, GivenFacts DEF IInv
  <2>3. LoadsIn(t) = {}
    BY <2>2 DEF GivenTo, LoadsIn, Loads
  <2>4. s \o t \in Seq(Jobs)
    BY ConcatFacts
  <2>5. (s \o t) \o <<>> = s \o t /\ <<>> \in Seq(LoadJobs) /\ \A n \in DOMAIN <<>> : FALSE
    BY <2>4
  <2>6. jobs'[p] = s \o t
    BY <1>3, <1>5, <2>1, <2>2
  <2>7. Cached(p) = <<>> /\ Cached(p)' = <<>>
    BY <1>3, <1>5 DEF Cached
  <2> QED
    BY <2>1, <2>2, <2>3, <2>5, <2>6, <2>7 DEF Gives
<1>6. ThreadStep
  BY <1>1, <1>3, <1>4, <1>5 DEF ThreadStep, e
<1>7. JobsInv' /\ InstancesInv'
  BY <1>6, ThreadJobs DEF IInv
<1>8. \A p \in Plugins : Keeps(p)
  BY <1>4, <1>5 DEF Keeps
<1>9. OrderInv' /\ WholeInv'
  <2>1. DOMAIN caching' \subseteq Plugins /\ overlapped \subseteq overlapped'
    BY <1>0, <1>1, <1>3 DEF CacheInv
  <2> QED
    BY <1>6, <1>8, <2>1, ThreadEvents DEF IInv
<1>10. CacheInv'
  <2>1. ASSUME NEW p \in DOMAIN caching'
        PROVE  caching'[p] \in Seq(Nat) /\ Past(caching[p])'
    <3>1. PICK s \in Seq(Nat) : s = caching[p] /\ Past(s)
      BY <1>0, <1>3, <2>1 DEF CacheInv
    <3>2. caching'[p] = Append(s, e)
      BY <1>3, <2>1, <3>1
    <3>0. e \in Nat
      BY <1>1
    <3>6. Append(s, e) \in Seq(Nat)
      BY <3>0
    <3>3. PICK r \in Seq(Nat) : r = Append(s, e)
      BY <3>6
    <3>4. \A k \in DOMAIN r : r[k] = e \/ (k \in DOMAIN s /\ r[k] = s[k])
      BY <1>1, <3>3
    <3>5. \A k \in DOMAIN r : r[k] \in 1 .. sent'
      BY <1>0, <1>1, <3>1, <3>4 DEF Past, e
    <3> QED
      BY <3>2, <3>3, <3>5 DEF Past
  <2> QED
    BY <1>0, <1>1, <1>3, <2>1 DEF CacheInv
<1>11. InboxInv' /\ SetsInv'
  BY <1>0, <1>1 DEF InboxInv, SetsInv
<1>12. DownloadsInv'
  <2>1. \A j : PastLoad(j) => PastLoad(j)'
    BY <1>0, <1>1 DEF PastLoad, LoadJobs, e
  <2> QED
    BY <1>0, <1>1, <2>1 DEF DownloadsInv, PastLoad
<1>13. ASSUME NEW p \in Plugins
       PROVE  /\ \A n \in DOMAIN jobs'[p] : jobs'[p][n].op = "join" => p \in meta \cup unloaded
              /\ \A n \in DOMAIN jobs[p] : n \in DOMAIN jobs'[p] /\ jobs'[p][n] = jobs[p][n]
              /\ LoadsIn(jobs'[p]) = LoadsIn(jobs[p])
  <2>1. PICK s \in Seq(Jobs) : s = jobs[p] /\ \A n \in DOMAIN s : s[n].op = "join" => p \in meta \cup unloaded
    BY <1>0 DEF JobsInv, IInv, JoinInv
  <2>2. CASE p \in DOMAIN caching
    BY <1>3, <2>1, <2>2
  <2>3. CASE p \notin DOMAIN caching
    <3>1. PICK t \in Seq(Jobs) : jobs'[p] = s \o t /\ LoadsIn(t) = {}
      BY <1>5, <2>1, <2>3
    <3>2. /\ \A n \in DOMAIN s : n \in DOMAIN (s \o t) /\ (s \o t)[n] = s[n]
          /\ \A n \in DOMAIN (s \o t) :
               n \in DOMAIN s \/ \E m \in DOMAIN t : n = Len(s) + m
          /\ \A n \in DOMAIN t : (s \o t)[Len(s) + n] = t[n]
          /\ LoadsIn(s \o t) = LoadsIn(s)
      BY <3>1, ConcatFacts, LoadsOfConcat
    <3>3. \A n \in DOMAIN t : t[n].op # "join"
      BY <3>1 DEF LoadsIn, Loads
    <3> QED
      BY <2>1, <3>1, <3>2, <3>3
  <2> QED
    BY <2>2, <2>3
<1>14. JoinInv'
  BY <1>1, <1>13 DEF JoinInv
<1>15. EveryClientServed'
  <2>1. meta \subseteq Plugins
    BY <1>0 DEF SetsInv
  <2> QED
    BY <1>1, <1>13, <2>1, ServedStays DEF IInv
<1>16. ASSUME NEW p \in Plugins \ overlapped
       PROVE  PhaseInv(p)' /\ SinceInv(p)'
  <2>1. PhaseInv(p) /\ SinceInv(p)
    BY DEF IInv, ApartInv
  <2>2. LoadsIn(jobs'[p]) = LoadsIn(jobs[p])
    BY <1>13
  <2>3. PhaseInv(p)'
    BY <1>1, <1>3, <2>1, <2>2 DEF PhaseInv, NotesInv
  <2>4. CASE p \in DOMAIN caching
    <3>1. PICK s \in Seq(Nat) : s = Cached(p)
      BY <1>0, <2>4 DEF CacheInv, Cached
    <3>2. Cached(p)' = Append(s, e)
      BY <1>4, <2>4, <3>1 DEF Caches, e
    <3>3. \A d : d \in Range(s) \/ d = e => d \in Range(Append(s, e))
      <4>1. PICK r : r = Append(s, e)
        OBVIOUS
      <4>2. (\A n \in DOMAIN s : n \in DOMAIN r /\ r[n] = s[n]) /\ Len(s) + 1 \in DOMAIN r /\ r[Len(s) + 1] = e
        BY <1>1, <4>1
      <4> QED
        BY <4>1, <4>2 DEF Range
    <3>4. \A k \in Nat : \A d \in k + 1 .. sent' : d \in k + 1 .. sent \/ d = e
      BY <1>0, <1>1 DEF e
    <3>5. ASSUME NEW j, j.since \in Nat, \A d \in j.since + 1 .. sent : d \in Range(s)
          PROVE  \A d \in j.since + 1 .. sent' : d \in Range(Cached(p)')
      BY <3>2, <3>3, <3>4, <3>5
    <3>6. p \in DOMAIN downloading => downloading[p].since \in Nat
      BY <1>0 DEF DownloadsInv, PastLoad, LoadJobs
    <3>7. \A n \in LoadsIn(jobs[p]) : jobs[p][n].since \in Nat
      <4>1. \A n \in DOMAIN jobs[p] : jobs[p][n] \in Jobs
        BY <1>0 DEF JobsInv
      <4> QED
        BY <4>1 DEF LoadsIn, Jobs, LoadJobs, EventJobs, Loads
    <3>8. \A n \in LoadsIn(jobs[p]) : jobs'[p][n] = jobs[p][n]
      BY <1>3, <2>4
    <3> QED
      BY <1>1, <2>1, <2>2, <2>3, <3>1, <3>5, <3>6, <3>7, <3>8 DEF SinceInv
  <2>5. CASE p \notin DOMAIN caching
    <3>1. p \notin DOMAIN downloading /\ LoadsIn(jobs[p]) = {}
      BY <1>0, <2>1, <2>5, NothingUnderWay
    <3> QED
      BY <1>1, <2>2, <2>3, <3>1 DEF SinceInv
  <2> QED
    BY <2>4, <2>5
<1>17. ApartInv'
  BY <1>1, <1>16 DEF ApartInv
<1> QED
  BY <1>7, <1>9, <1>10, <1>11, <1>12, <1>14, <1>15, <1>17 DEF IInv, TypeInv

\* An instruction is taken that says nothing of the plugin.
LEMMA PhaseTaken ==
  ASSUME InboxInv, inbox # <<>>, inbox' = Tail(inbox), NEW o, PhaseInv(o), SinceInv(o),
         SameTables(o), jobs'[o] = jobs[o], Cached(o)' = Cached(o), sent' = sent
  PROVE  PhaseInv(o)' /\ SinceInv(o)'
<1>1. PICK q \in Seq(Message) : q = inbox
  BY DEF InboxInv
<1>2. InTurn(q, o, waiting) /\ (o \in waiting' <=> o \in waiting) /\ q # <<>>
  BY <1>1 DEF PhaseInv, NotesInv, SameTables
<1>3. InTurn(Tail(q), o, waiting') /\ (NotesIn(q, o) = {} => NotesIn(Tail(q), o) = {})
  BY <1>2, NoteTaken
<1>4. NotesInv(o)' /\ (NotesIn(inbox, o) = {} => NotesIn(inbox', o) = {})
  BY <1>1, <1>3 DEF NotesInv
<1>5. SinceInv(o)'
  BY DEF SinceInv, SameTables
<1> QED
  BY <1>4, <1>5 DEF PhaseInv, SameTables

\* A plugin has asked the user, or has loaded too early.
LEMMA HeldUpInv ==
  ASSUME IInv, inbox # <<>>, inbox' = Tail(inbox), NEW p \in Plugins,
         \/ CachePluginEvents(p) /\ Head(inbox) = [op |-> "cache", plugin |-> p]
         \/ UNCHANGED <<mapVars, tableVars, jobs, overlapped, failed>>,
         UNCHANGED <<clientVars, downloading, sent, born, requested, unloaded, reloaded>>
  PROVE  IInv'
<1>0. SetsInv /\ InstancesInv /\ CacheInv /\ DownloadsInv /\ JobsInv /\ InboxInv
  BY DEF IInv, TypeInv
<1>1. /\ UNCHANGED <<sent, born, jobs, overlapped, loading, instances, downloading,
                     connected, gone, meta, reloads, toUnload, unloaded, failed>>
      /\ \/ UNCHANGED <<waiting, caching>>
         \/ /\ waiting' = waiting \cup {p} /\ caching' = With(caching, {p} \ DOMAIN caching, <<>>)
            /\ Head(inbox) = [op |-> "cache", plugin |-> p]
  BY DEF CachePluginEvents, clientVars, mapVars, tableVars
<1>2. /\ DOMAIN caching \subseteq DOMAIN caching' /\ DOMAIN caching' \subseteq DOMAIN caching \cup {p}
      /\ \A o \in DOMAIN caching : caching'[o] = caching[o]
      /\ \A o \in DOMAIN caching' \ DOMAIN caching : caching'[o] = <<>>
      /\ waiting' \subseteq DOMAIN caching'
  <2>0. waiting \subseteq DOMAIN caching
    BY <1>0 DEF CacheInv
  <2>1. CASE UNCHANGED <<waiting, caching>>
    BY <2>0, <2>1
  <2>2. CASE waiting' = waiting \cup {p} /\ caching' = With(caching, {p} \ DOMAIN caching, <<>>)
    <3>1. DOMAIN caching' = DOMAIN caching \cup {p}
      BY <2>2 DEF With
    <3> QED
      BY <2>0, <2>2, <3>1 DEF With
  <2> QED
    BY <1>1, <2>1, <2>2
<1>3. \A o : Cached(o)' = Cached(o)
  BY <1>2 DEF Cached
<1>4. CacheInv'
  <2>1. <<>> \in Seq(Nat) /\ Past(<<>>)'
    BY DEF Past
  <2>2. \A s : Past(s) => Past(s)'
    BY <1>1 DEF Past
  <2>3. ASSUME NEW o \in DOMAIN caching'
        PROVE  caching'[o] \in Seq(Nat) /\ Past(caching[o])'
    <3>1. CASE o \in DOMAIN caching
      BY <1>0, <1>2, <2>2, <3>1 DEF CacheInv, Past
    <3>2. CASE o \notin DOMAIN caching
      BY <1>2, <2>1, <2>3, <3>2 DEF Past
    <3> QED
      BY <3>1, <3>2
  <2> QED
    BY <1>0, <1>1, <1>2, <2>3 DEF CacheInv
<1>5. SetsInv' /\ InstancesInv' /\ DownloadsInv' /\ JobsInv'
  BY <1>0, <1>1 DEF SetsInv, InstancesInv, DownloadsInv, JobsInv, Past, PastLoad, PastJob
<1>6. InboxInv'
  BY <1>0, TailFacts DEF InboxInv
<1>7. OrderInv'
  <2>1. OrderKept'
    BY <1>1, <1>3, InTheseTerms, InTheseTermsNext DEF IInv, OrderInv
  <2>2. Rising(<<>>)
    BY DEF Rising
  <2>3. \A o \in DOMAIN caching' : Rising(caching'[o])
    BY <1>2, <2>2 DEF IInv, OrderInv
  <2> QED
    BY <2>1, <2>3 DEF OrderInv
<1>8. WholeInv'
  <2>1. \A o : Complete(o) => Complete(o)'
    BY <1>1, <1>3, InTheseTerms, InTheseTermsNext
  <2> QED
    BY <1>1, <2>1 DEF IInv, WholeInv
<1>9. JoinInv' /\ EveryClientServed'
  <2>1. JoinInv'
    BY <1>1 DEF IInv, JoinInv
  <2> QED
    BY <1>1, <2>1, ServedStays DEF IInv
<1>10. ASSUME NEW o \in Plugins \ overlapped
       PROVE  PhaseInv(o)' /\ SinceInv(o)'
  <2>1. PhaseInv(o) /\ SinceInv(o) /\ NotesInv(o)
    BY DEF IInv, ApartInv, PhaseInv
  <2>2. CASE SameTables(o)
    BY <1>0, <1>1, <1>3, <2>1, <2>2, PhaseTaken
  <2>3. CASE o = p /\ waiting' = waiting \cup {p} /\ Head(inbox) = [op |-> "cache", plugin |-> p]
    <3>1. PICK q \in Seq(Message) : q = inbox /\ q # <<>> /\ Head(q) = [op |-> "cache", plugin |-> p]
      BY <1>0, <2>3 DEF InboxInv
    <3>2. 1 \in NotesIn(q, p)
      <4>1. 1 \in DOMAIN q /\ q[1] = [op |-> "cache", plugin |-> p]
        BY <3>1, TailFacts
      <4> QED
        BY <4>1 DEF NotesIn
    <3>3. p \in DOMAIN caching /\ LoadsIn(jobs[p]) = {} /\ p \notin DOMAIN downloading
      BY <2>1, <2>3, <3>1, <3>2 DEF PhaseInv
    <3>4. InTurn(Tail(q), p, waiting')
      BY <2>1, <2>3, <3>1, CacheTaken DEF NotesInv
    <3>5. NotesInv(p)'
      BY <3>1, <3>4 DEF NotesInv
    <3>6. p \in DOMAIN caching'
      BY <1>2, <3>3
    <3>7. PhaseInv(p)'
      BY <1>1, <3>3, <3>5, <3>6 DEF PhaseInv
    <3>8. SinceInv(p)'
      BY <1>1, <3>3 DEF SinceInv
    <3> QED
      BY <2>3, <3>7, <3>8
  <2>4. SameTables(o) \/ (o = p /\ waiting' = waiting \cup {p} /\ Head(inbox) = [op |-> "cache", plugin |-> p])
    BY <1>1, <1>2 DEF SameTables
  <2> QED
    BY <2>2, <2>3, <2>4
<1>11. ApartInv'
  BY <1>1, <1>10 DEF ApartInv
<1> QED
  BY <1>4, <1>5, <1>6, <1>7, <1>8, <1>9, <1>11 DEF IInv, TypeInv

\* What applying the cached events does.
AppliedTo(p) ==
  /\ UNCHANGED <<sent, born, overlapped, downloading, connected, gone, unloaded>>
  /\ failed \subseteq failed'
  /\ meta' = meta \/ (meta' = meta \ {p} /\ p \in unloaded)
  /\ toUnload' \subseteq toUnload /\ reloads' \subseteq reloads
  /\ DOMAIN instances' \subseteq DOMAIN instances
  /\ \A i \in DOMAIN instances' : instances'[i] = instances[i]
  /\ \A i \in DOMAIN instances : i[1] # p \/ p \notin unloaded => i \in DOMAIN instances'
  /\ waiting' = waiting \ {p}
  /\ loading' \subseteq DOMAIN caching' /\ loading' \subseteq loading
  /\ DOMAIN caching' \subseteq DOMAIN caching /\ DOMAIN caching \ {p} \subseteq DOMAIN caching'
  /\ \A o \in DOMAIN caching' : caching'[o] = IF o = p THEN <<>> ELSE caching[o]
  /\ jobs' = [q \in Plugins |-> jobs'[q]]
  /\ \A o \in Plugins \ {p} : jobs'[o] = jobs[o]
  /\ Grows(p) \/ Gives(p, Cached(p))
  /\ Cached(p) # <<>> => Gives(p, Cached(p))
  /\ \E t \in Seq(Jobs), u \in Seq(LoadJobs) :
       /\ jobs'[p] = (jobs[p] \o t) \o u /\ LoadsIn(t) = {}
       /\ \A n \in DOMAIN t : t[n].op = "events"
       /\ \/ u = <<>>
          \/ \E j \in LoadJobs : u = <<j>> /\ j.op = "reload" /\ j.since = sent /\ p \in DOMAIN caching'

LEMMA AppliedFacts ==
  ASSUME TypeInv, NEW p \in Plugins, Applied(p),
         UNCHANGED <<clientVars, downloading, sent, born, requested, unloaded, reloaded>>
  PROVE  AppliedTo(p)
<1>0. SetsInv /\ CacheInv /\ JobsInv
  BY DEF TypeInv
<1> DEFINE m == IF p \in toUnload THEN meta \ {p} ELSE meta
           queue == IF p \in DOMAIN caching THEN Given(p, caching[p], jobs[p]) ELSE jobs[p]
           rest == loading \ {p}
           busy == \E q \in rest : Location[q] = Location[p]
           more == (p \in loading /\ p \in reloads) /\ ~busy /\ p \in m
<1>1. /\ meta' = m
      /\ instances' = IF p \in toUnload
                      THEN Without(instances, InstancesOf(p, instances)) ELSE instances
      /\ toUnload' = toUnload \ {p}
      /\ waiting' = waiting \ {p}
      /\ reloads' \subseteq reloads
      /\ UNCHANGED <<overlapped, connected, gone, downloading, sent, born, unloaded>>
  BY Zenon DEF Applied, clientVars
<1>2. \/ /\ more /\ caching' = With(caching, {p}, <<>>) /\ loading' = rest \cup {p}
         /\ \/ failed' = failed \cup {p} /\ jobs' = [jobs EXCEPT ![p] = queue]
            \/ \E c \in connected :
                 /\ jobs' = [jobs EXCEPT ![p] = Append(queue, LoadJob("reload", c))]
                 /\ failed' = failed
      \/ /\ caching' = Without(caching, {p}) /\ loading' = rest
         /\ jobs' = [jobs EXCEPT ![p] = queue] /\ failed' = failed
  BY Zenon DEF Applied
<1>3. more => p \in loading
  OBVIOUS
<1>4. IF p \in DOMAIN caching
      THEN \E t \in Seq(Jobs) : queue = jobs[p] \o t /\ GivenTo(t, p, Cached(p))
      ELSE queue = jobs[p] /\ Cached(p) = <<>>
  <2>1. CASE p \in DOMAIN caching
    <3>1. PICK s \in Seq(Jobs) : s = jobs[p]
      BY <1>0 DEF JobsInv
    <3>2. PICK ev \in Seq(Nat) : ev = caching[p] /\ ev = Cached(p)
      BY <1>0, <2>1 DEF CacheInv, Cached
    <3>3. PICK t \in Seq(Jobs) : Given(p, ev, s) = s \o t /\ GivenTo(t, p, ev)
      BY <3>1, <3>2, GivenFacts
    <3> QED
      BY <2>1, <3>1, <3>2, <3>3
  <2>2. CASE p \notin DOMAIN caching
    BY <2>2 DEF Cached
  <2> QED
    BY <2>1, <2>2
<1>5. /\ m = meta \/ (m = meta \ {p} /\ p \in unloaded)
      /\ p \in toUnload => p \in unloaded
  BY <1>0 DEF SetsInv
<1> HIDE DEF m, queue, busy, more
<1>6. PICK s \in Seq(Jobs) : s = jobs[p]
  BY <1>0 DEF JobsInv
<1>7. PICK t \in Seq(Jobs) :
        /\ queue = s \o t /\ \A n \in DOMAIN t : t[n].op = "events"
        /\ p \in DOMAIN caching => GivenTo(t, p, Cached(p))
        /\ p \notin DOMAIN caching => t = <<>>
  <2>1. CASE p \in DOMAIN caching
    <3>1. PICK t \in Seq(Jobs) : queue = s \o t /\ GivenTo(t, p, Cached(p))
      BY <1>4, <1>6, <2>1
    <3>2. \A n \in DOMAIN t : t[n].op = "events"
      BY <3>1 DEF GivenTo
    <3> QED
      BY <2>1, <3>1, <3>2
  <2>2. CASE p \notin DOMAIN caching
    <3>1. s = s \o <<>> /\ <<>> \in Seq(Jobs) /\ \A n \in DOMAIN <<>> : FALSE
      OBVIOUS
    <3> QED
      BY <1>4, <1>6, <2>2, <3>1
  <2> QED
    BY <2>1, <2>2
<1>8. LoadsIn(t) = {} /\ s \o t \in Seq(Jobs)
  BY <1>7, ConcatFacts DEF LoadsIn, Loads
<1>9. /\ jobs' = [q \in Plugins |-> jobs'[q]]
      /\ \A o \in Plugins \ {p} : jobs'[o] = jobs[o]
  BY <1>0, <1>2 DEF JobsInv
<1>10. /\ failed \subseteq failed' /\ loading' \subseteq loading
       /\ loading' \subseteq DOMAIN caching' /\ DOMAIN caching' \subseteq DOMAIN caching
       /\ DOMAIN caching \ {p} \subseteq DOMAIN caching'
       /\ \A o \in DOMAIN caching' : caching'[o] = IF o = p THEN <<>> ELSE caching[o]
  <2>1. loading \subseteq DOMAIN caching
    BY <1>0 DEF CacheInv
  <2>2. CASE more /\ caching' = With(caching, {p}, <<>>) /\ loading' = rest \cup {p} /\ failed \subseteq failed'
    <3>1. DOMAIN caching' = DOMAIN caching \cup {p}
      BY <2>2 DEF With
    <3>2. \A o \in DOMAIN caching' : caching'[o] = IF o = p THEN <<>> ELSE caching[o]
      BY <2>2 DEF With
    <3> QED
      BY <1>3, <2>1, <2>2, <3>1, <3>2
  <2>3. CASE caching' = Without(caching, {p}) /\ loading' = rest /\ failed' = failed
    <3>1. DOMAIN caching' = DOMAIN caching \ {p}
      BY <2>3 DEF Without, Restrict
    <3>2. \A o \in DOMAIN caching' : caching'[o] = IF o = p THEN <<>> ELSE caching[o]
      BY <2>3 DEF Without, Restrict
    <3> QED
      BY <2>1, <2>3, <3>1, <3>2
  <2> QED
    BY <1>2, <2>2, <2>3
<1>11. \E u \in Seq(LoadJobs) :
         /\ jobs'[p] = (s \o t) \o u /\ \A n \in DOMAIN u : PastLoad(u[n])
         /\ \/ u = <<>>
            \/ \E j \in LoadJobs : u = <<j>> /\ j.op = "reload" /\ j.since = sent /\ p \in DOMAIN caching'
  <2>1. CASE jobs' = [jobs EXCEPT ![p] = queue]
    <3>1. jobs'[p] = s \o t
      BY <1>0, <1>7, <2>1 DEF JobsInv
    <3>2. (s \o t) \o <<>> = s \o t /\ <<>> \in Seq(LoadJobs) /\ \A n \in DOMAIN <<>> : FALSE
      BY <1>8
    <3> QED
      BY <3>1, <3>2
  <2>2. ASSUME NEW c \in connected, jobs' = [jobs EXCEPT ![p] = Append(queue, LoadJob("reload", c))],
               more, caching' = With(caching, {p}, <<>>)
        PROVE  \E u \in Seq(LoadJobs) :
                 /\ jobs'[p] = (s \o t) \o u /\ \A n \in DOMAIN u : PastLoad(u[n])
                 /\ \/ u = <<>>
                    \/ \E j \in LoadJobs : u = <<j>> /\ j.op = "reload" /\ j.since = sent /\ p \in DOMAIN caching'
    <3>0. c \in Clients
      BY <1>0 DEF SetsInv
    <3>1. PICK j \in LoadJobs : j = LoadJob("reload", c) /\ j.since = sent /\ j.op = "reload" /\ PastLoad(j) /\ j \in Jobs
      BY <1>0, <3>0, LoadJobFacts DEF Loads
    <3>2. jobs'[p] = Append(s \o t, j)
      BY <1>0, <1>7, <2>2, <3>1 DEF JobsInv
    <3>3. PICK r \in Seq(Jobs) : r = s \o t
      BY <1>8
    <3>4. Append(r, j) = r \o <<j>>
      BY <3>1, AppendFacts
    <3>5. <<j>> \in Seq(LoadJobs) /\ <<j>>[1] = j /\ DOMAIN <<j>> = {1}
      OBVIOUS
    <3>6. p \in DOMAIN caching'
      BY <2>2 DEF With
    <3> QED
      BY <3>1, <3>2, <3>3, <3>4, <3>5, <3>6
  <2> QED
    BY <1>2, <2>1, <2>2
<1>12. Cached(p)' = <<>>
  BY <1>10 DEF Cached
<1>13. /\ p \in DOMAIN caching => Gives(p, Cached(p))
       /\ p \notin DOMAIN caching => Grows(p) /\ Cached(p) = <<>>
  <2>1. PICK u \in Seq(LoadJobs) : jobs'[p] = (s \o t) \o u /\ \A n \in DOMAIN u : PastLoad(u[n])
    BY <1>11
  <2>2. p \in DOMAIN caching => Gives(p, Cached(p))
    BY <1>6, <1>7, <1>12, <2>1 DEF Gives
  <2>3. p \notin DOMAIN caching => Grows(p)
    <3>1. s \o <<>> = s
      OBVIOUS
    <3> QED
      BY <1>6, <1>7, <1>12, <2>1, <3>1 DEF Grows
  <2> QED
    BY <1>4, <2>2, <2>3
<1>14. /\ DOMAIN instances' \subseteq DOMAIN instances
       /\ \A i \in DOMAIN instances' : instances'[i] = instances[i]
       /\ \A i \in DOMAIN instances : i[1] # p \/ p \notin unloaded => i \in DOMAIN instances'
  <2>1. CASE p \in toUnload
    <3>1. instances' = Without(instances, InstancesOf(p, instances)) /\ p \in unloaded
      BY <1>1, <1>5, <2>1
    <3> QED
      BY <3>1 DEF Without, Restrict, InstancesOf
  <2>2. CASE p \notin toUnload
    BY <1>1, <2>2
  <2> QED
    BY <2>1, <2>2
<1>15. \E r \in Seq(Jobs), u \in Seq(LoadJobs) :
         /\ jobs'[p] = (jobs[p] \o r) \o u /\ LoadsIn(r) = {}
         /\ \A n \in DOMAIN r : r[n].op = "events"
         /\ \/ u = <<>>
            \/ \E j \in LoadJobs : u = <<j>> /\ j.op = "reload" /\ j.since = sent /\ p \in DOMAIN caching'
  BY <1>6, <1>7, <1>8, <1>11
<1>16. toUnload' \subseteq toUnload
  BY <1>1
<1> QED
  BY <1>1, <1>5, <1>9, <1>10, <1>13, <1>14, <1>15, <1>16 DEF AppliedTo

\* The cached events are applied, when the plugin has loaded and the user has answered.
LEMMA AppliedInv ==
  ASSUME IInv, inbox # <<>>, inbox' = Tail(inbox), NEW p \in Plugins, AppliedTo(p),
         \/ Head(inbox) = [op |-> "apply", plugin |-> p] /\ p \notin waiting
         \/ Head(inbox) = [op |-> "answered", plugin |-> p]
  PROVE  IInv'
<1>0. SetsInv /\ InstancesInv /\ CacheInv /\ DownloadsInv /\ JobsInv /\ InboxInv
  BY DEF IInv, TypeInv
<1>1. PICK s \in Seq(Jobs), t \in Seq(Jobs), u \in Seq(LoadJobs) :
        /\ s = jobs[p] /\ jobs'[p] = (s \o t) \o u /\ LoadsIn(t) = {}
        /\ \A n \in DOMAIN t : t[n].op = "events"
        /\ \/ u = <<>>
           \/ \E j \in LoadJobs : u = <<j>> /\ j.op = "reload" /\ j.since = sent /\ p \in DOMAIN caching'
  <2>1. PICK s \in Seq(Jobs) : s = jobs[p]
    BY <1>0 DEF JobsInv
  <2> QED
    BY <2>1 DEF AppliedTo
<1>2. PICK r \in Seq(Jobs) : r = s \o t
  BY ConcatFacts
<1>3. ASSUME NEW o \in Plugins, o # p
      PROVE  /\ jobs'[o] = jobs[o] /\ Cached(o)' = Cached(o)
             /\ o \in DOMAIN caching' <=> o \in DOMAIN caching
             /\ Grows(o)
  <2>1. jobs'[o] = jobs[o] /\ Cached(o)' = Cached(o) /\ (o \in DOMAIN caching' <=> o \in DOMAIN caching)
    BY <1>3 DEF AppliedTo, Cached
  <2>2. PICK q \in Seq(Jobs) : q = jobs[o]
    BY <1>0 DEF JobsInv
  <2>3. q = q \o <<>> /\ <<>> \in Seq(LoadJobs) /\ \A n \in DOMAIN <<>> : FALSE
    OBVIOUS
  <2> QED
    BY <2>1, <2>2, <2>3 DEF Grows
<1>4. ThreadStep
  <2>1. \A o \in Plugins : Grows(o) \/ Gives(o, Cached(o))
    BY <1>3 DEF AppliedTo
  <2>2. /\ DOMAIN instances' \subseteq DOMAIN instances
        /\ \A i \in DOMAIN instances' : instances'[i] = instances[i]
        /\ born' = born /\ sent' = sent /\ jobs' = [q \in Plugins |-> jobs'[q]]
    BY DEF AppliedTo
  <2> QED
    BY <2>1, <2>2 DEF ThreadStep
<1>5. JobsInv' /\ InstancesInv'
  BY <1>4, ThreadJobs DEF IInv
<1>6. Cached(p)' = <<>>
  BY DEF AppliedTo, Cached
<1>7. OrderInv' /\ WholeInv'
  <2>1. DOMAIN caching' \subseteq Plugins /\ overlapped \subseteq overlapped'
    BY <1>0 DEF CacheInv, AppliedTo
  <2>2. ASSUME NEW o \in Plugins
        PROVE  Keeps(o)
    <3>1. CASE o # p
      BY <1>3, <3>1 DEF Keeps
    <3>2. CASE o = p
      BY <3>2 DEF AppliedTo, Keeps
    <3> QED
      BY <3>1, <3>2
  <2> QED
    BY <1>4, <2>1, <2>2, ThreadEvents DEF IInv
<1>8. CacheInv'
  <2>1. <<>> \in Seq(Nat) /\ Past(<<>>)'
    BY DEF Past
  <2>2. \A q : Past(q) => Past(q)'
    BY DEF Past, AppliedTo
  <2>3. ASSUME NEW o \in DOMAIN caching'
        PROVE  caching'[o] \in Seq(Nat) /\ Past(caching[o])'
    <3>1. CASE o # p
      BY <1>0, <2>2, <3>1 DEF CacheInv, Past, AppliedTo
    <3>2. CASE o = p
      BY <2>1, <2>3, <3>2 DEF Past, AppliedTo
    <3> QED
      BY <3>1, <3>2
  <2> QED
    BY <1>0, <2>3 DEF CacheInv, AppliedTo
<1>9. SetsInv'
  BY <1>0 DEF SetsInv, AppliedTo
<1>10. DownloadsInv'
  BY <1>0 DEF DownloadsInv, PastLoad, AppliedTo
<1>11. InboxInv'
  BY <1>0, TailFacts DEF InboxInv
<1>12. /\ \A n \in DOMAIN s : n \in DOMAIN (r \o u) /\ (r \o u)[n] = s[n]
       /\ \A n \in DOMAIN (r \o u) :
            \/ n \in DOMAIN s /\ (r \o u)[n] = s[n]
            \/ (r \o u)[n].op \in {"events", "reload"}
  <2>1. u \in Seq(Jobs)
    BY DEF Jobs
  <2>2. \A n \in DOMAIN u : u[n].op = "reload"
    BY <1>1
  <2>3. /\ \A n \in DOMAIN s : n \in DOMAIN r /\ r[n] = s[n]
        /\ \A n \in DOMAIN r : n \in DOMAIN s \/ \E k \in DOMAIN t : n = Len(s) + k
        /\ \A n \in DOMAIN t : r[Len(s) + n] = t[n]
    BY <1>2, ConcatFacts
  <2>4. /\ \A n \in DOMAIN r : n \in DOMAIN (r \o u) /\ (r \o u)[n] = r[n]
        /\ \A n \in DOMAIN (r \o u) : n \in DOMAIN r \/ \E k \in DOMAIN u : n = Len(r) + k
        /\ \A n \in DOMAIN u : (r \o u)[Len(r) + n] = u[n]
    BY <2>1, ConcatFacts
  <2> QED
    BY <1>1, <2>2, <2>3, <2>4
<1>13. jobs'[p] = r \o u
  BY <1>1, <1>2
<1>14. JoinInv'
  <2> SUFFICES ASSUME NEW o \in Plugins, NEW n \in DOMAIN jobs'[o], jobs'[o][n].op = "join"
               PROVE  o \in meta' \cup unloaded'
    BY DEF JoinInv
  <2>1. n \in DOMAIN jobs[o] /\ jobs[o][n].op = "join"
    BY <1>1, <1>3, <1>12, <1>13
  <2>2. o \in meta \cup unloaded
    BY <2>1 DEF IInv, JoinInv
  <2> QED
    BY <2>2 DEF AppliedTo
<1>15. EveryClientServed'
  <2>1. ASSUME NEW o \in meta' \ (failed' \cup unloaded')
        PROVE  /\ \A c \in connected' : <<o, c>> \in DOMAIN instances => <<o, c>> \in DOMAIN instances'
               /\ \A n \in DOMAIN jobs[o] : jobs[o][n].op \in Loads =>
                    \E k \in DOMAIN jobs'[o] : jobs'[o][k] = jobs[o][n]
    <3>1. o \in Plugins /\ o \notin unloaded
      BY <1>0 DEF SetsInv, AppliedTo
    <3>2. \A c : <<o, c>>[1] = o
      OBVIOUS
    <3>3. \A c : <<o, c>> \in DOMAIN instances => <<o, c>> \in DOMAIN instances'
      BY <3>1, <3>2 DEF AppliedTo
    <3>4. \A n \in DOMAIN jobs[o] : n \in DOMAIN jobs'[o] /\ jobs'[o][n] = jobs[o][n]
      BY <1>1, <1>3, <1>12, <1>13, <3>1
    <3> QED
      BY <3>3, <3>4
  <2> QED
    BY <2>1, ServedStays DEF IInv, AppliedTo
<1>16. ASSUME NEW o \in Plugins \ overlapped
       PROVE  PhaseInv(o)' /\ SinceInv(o)'
  <2>1. PhaseInv(o) /\ SinceInv(o) /\ NotesInv(o)
    BY DEF IInv, ApartInv, PhaseInv
  <2>2. CASE o # p
    <3>1. SameTables(o)
      BY <1>3, <2>2 DEF SameTables, AppliedTo
    <3>2. sent' = sent
      BY DEF AppliedTo
    <3> QED
      BY <1>0, <1>3, <2>1, <2>2, <3>1, <3>2, PhaseTaken
  <2>3. CASE o = p
    <3>1. PICK q \in Seq(Message) :
            /\ q = inbox /\ q # <<>>
            /\ \/ Head(q) = [op |-> "apply", plugin |-> p] /\ p \notin waiting
               \/ Head(q) = [op |-> "answered", plugin |-> p]
      BY <1>0 DEF InboxInv
    <3>2. InTurn(q, p, waiting)
      BY <2>1, <2>3, <3>1 DEF NotesInv
    <3>3. NotesIn(Tail(q), p) = {} /\ NotesIn(q, p) # {}
      BY <3>1, <3>2, LastTaken
    <3>4. NotesIn(inbox', p) = {} /\ NotesIn(inbox, p) # {}
      BY <3>1, <3>3
    <3>5. p \notin DOMAIN downloading /\ LoadsIn(s) = {}
      BY <1>1, <2>1, <2>3, <3>4 DEF PhaseInv
    <3>6. p \notin DOMAIN downloading' /\ p \notin waiting' /\ sent' = sent /\ sent \in Nat
      BY <1>0, <3>5 DEF AppliedTo, SetsInv
    <3>7. LoadsIn(r) = {}
      BY <1>1, <1>2, <3>5, LoadsOfConcat
    <3>8. CASE u = <<>>
      <4>1. r \o <<>> = r
        OBVIOUS
      <4>2. LoadsIn(jobs'[p]) = {}
        BY <1>13, <3>7, <3>8, <4>1
      <4> QED
        BY <2>3, <3>4, <3>6, <4>2 DEF PhaseInv, SinceInv, NotesInv, InTurn, Ordered, Fitting
    <3>9. ASSUME NEW j \in LoadJobs, u = <<j>>, j.since = sent, p \in DOMAIN caching'
          PROVE  PhaseInv(p)' /\ SinceInv(p)'
      <4>1. j \in Jobs
        BY DEF Jobs
      <4>2. r \o u = Append(r, j)
        BY <3>9, <4>1, AppendFacts
      <4>3. OneLoad(jobs'[p]) /\ \A cached : LoadsSince(jobs'[p], sent, cached)
        BY <1>13, <3>6, <3>7, <3>9, <4>2, LoadsOfAppend
      <4>4. PhaseInv(p)'
        BY <3>4, <3>6, <3>9, <4>3 DEF PhaseInv, NotesInv, InTurn, Ordered, Fitting, OneLoad
      <4>5. SinceInv(p)'
        BY <3>6, <4>3, PhaseInTheseTerms
      <4> QED
        BY <4>4, <4>5
    <3> QED
      BY <1>1, <2>3, <3>8, <3>9
  <2> QED
    BY <2>2, <2>3
<1>17. ApartInv'
  BY <1>16 DEF ApartInv, AppliedTo
<1> QED
  BY <1>5, <1>7, <1>8, <1>9, <1>10, <1>11, <1>14, <1>15, <1>17 DEF IInv, TypeInv

\* Each instruction.
LEMMA InstructionInv ==
  ASSUME IInv, Instruction
  PROVE  IInv'
<1> DEFINE m == Head(inbox)
           p == m.plugin
<1>1. inbox # <<>> /\ inbox' = Tail(inbox) /\ inbox \in Seq(Message)
  BY DEF Instruction, IInv, TypeInv, InboxInv
<1>2. m \in Message
  BY <1>1, TailFacts
<1>3. p \in Plugins /\ m = [op |-> m.op, plugin |-> p]
  BY <1>2 DEF Message
<1>4. UNCHANGED <<clientVars, downloading, sent, born, requested, unloaded, reloaded>>
  BY DEF Instruction
<1>5. \/ m.op = "cache" /\ CachePluginEvents(p)
      \/ UNCHANGED <<mapVars, tableVars, jobs, overlapped, failed>>
      \/ m.op = "apply" /\ p \notin waiting /\ Applied(p)
      \/ m.op = "answered" /\ Applied(p)
  BY DEF Instruction, HeldUp
<1> HIDE DEF m, p
<1>6. CASE m.op = "cache" /\ CachePluginEvents(p)
  BY <1>1, <1>3, <1>4, <1>6, HeldUpInv DEF m
<1>7. CASE UNCHANGED <<mapVars, tableVars, jobs, overlapped, failed>>
  BY <1>1, <1>3, <1>4, <1>7, HeldUpInv
<1>8. CASE (m.op = "apply" /\ p \notin waiting /\ Applied(p)) \/ (m.op = "answered" /\ Applied(p))
  <2>1. AppliedTo(p)
    BY <1>3, <1>4, <1>8, AppliedFacts DEF IInv
  <2> QED
    BY <1>1, <1>3, <1>8, <2>1, AppliedInv DEF m
<1> QED
  BY <1>5, <1>6, <1>7, <1>8

\* A thread loads its plugin.
LEMMA RunLoadInv ==
  ASSUME IInv, NEW p \in Plugins, RunLoad(p)
  PROVE  IInv'
<1>0. SetsInv /\ InstancesInv /\ CacheInv /\ DownloadsInv /\ JobsInv /\ InboxInv /\ born \in Nat
  BY DEF IInv, TypeInv, SetsInv
<1>1. PICK q \in Seq(Jobs) : q = jobs[p] /\ q # <<>> /\ \A n \in DOMAIN q : PastJob(q[n])
  BY <1>0 DEF RunLoad, JobsInv
<1>10. /\ \A n \in DOMAIN Tail(q) : n + 1 \in DOMAIN q /\ Tail(q)[n] = q[n + 1]
       /\ \A n \in DOMAIN q : n = 1 \/ (n - 1 \in DOMAIN Tail(q) /\ Tail(q)[n - 1] = q[n])
  <2>1. q # <<>>
    BY <1>1
  <2> QED
    BY <2>1, TailFacts
<1>2. PICK job \in Jobs : job = Head(q) /\ job = q[1] /\ 1 \in DOMAIN q
  <2>1. Head(q) = q[1] /\ 1 \in DOMAIN q
    BY <1>1, TailFacts
  <2> QED
    BY <2>1
<1>3. /\ UNCHANGED <<connected, gone, caching, loading, waiting, toUnload, reloads, downloading, sent,
                     requested, unloaded, overlapped, reloaded>>
      /\ meta' = meta \cup {p} /\ born' = born + 1
      /\ jobs' = [jobs EXCEPT ![p] = Tail(@)]
      /\ job.op \in Loads
  BY <1>1, <1>2 DEF RunLoad, clientVars, tableVars, Loads
<1>4. PICK S \in SUBSET LoadFor(job), ok \in BOOLEAN, asks \in Seq(Message), note \in Seq(Message) :
        /\ ok => S = LoadFor(job)
        /\ failed' = IF ok THEN failed ELSE failed \cup {p}
        /\ instances' = With(instances, {p} \X S,
                             [gen |-> born + 1, since |-> job.since, got |-> <<>>])
        /\ inbox' = (inbox \o asks) \o note
        /\ asks \in {<<>>, <<[op |-> "cache", plugin |-> p]>>}
        /\ note \in {<<>>, <<[op |-> "apply", plugin |-> p]>>}
  <2>1. PICK S \in SUBSET LoadFor(job), ok \in BOOLEAN,
             asks \in (IF p \in Asking THEN {<<>>, <<[op |-> "cache", plugin |-> p]>>} ELSE {<<>>}) :
        /\ ok => S = LoadFor(job)
        /\ failed' = IF ok THEN failed ELSE failed \cup {p}
        /\ instances' = With(instances, {p} \X S,
                             [gen |-> born + 1, since |-> job.since, got |-> <<>>])
        /\ inbox' = inbox \o asks \o (IF ok \/ job.op # "join" THEN <<[op |-> "apply", plugin |-> p]>> ELSE <<>>)
    BY <1>1, <1>2, Zenon DEF RunLoad
  <2>2. [op |-> "cache", plugin |-> p] \in Message /\ [op |-> "apply", plugin |-> p] \in Message
    BY DEF Message
  <2>5. \A x \in Message : <<x>> \in Seq(Message) /\ <<>> \in Seq(Message)
    OBVIOUS
  <2>3. asks \in Seq(Message) /\ asks \in {<<>>, <<[op |-> "cache", plugin |-> p]>>}
    <3>1. PICK x \in Message : x = [op |-> "cache", plugin |-> p]
      BY <2>2
    <3>2. asks \in {<<>>, <<x>>}
      BY <3>1
    <3> QED
      BY <2>5, <3>1, <3>2
  <2>4. PICK note \in Seq(Message) :
          /\ note = (IF ok \/ job.op # "join" THEN <<[op |-> "apply", plugin |-> p]>> ELSE <<>>)
          /\ note \in {<<>>, <<[op |-> "apply", plugin |-> p]>>}
    <3>1. PICK x \in Message : x = [op |-> "apply", plugin |-> p]
      BY <2>2
    <3>2. PICK n : n = (IF ok \/ job.op # "join" THEN <<x>> ELSE <<>>)
      OBVIOUS
    <3>3. n \in {<<>>, <<x>>}
      BY <3>2
    <3> QED
      BY <2>5, <3>1, <3>2, <3>3
  <2> QED
    BY <2>1, <2>3, <2>4, Zenon
<1>5. job \in LoadJobs /\ job.since \in Nat /\ job.since <= sent /\ job.client \in Clients /\ sent \in Nat
  <2>1. job \in LoadJobs
    BY <1>3 DEF Jobs, EventJobs, Loads
  <2>2. PastJob(job)
    BY <1>1, <1>2
  <2> QED
    BY <1>0, <1>3, <2>1, <2>2 DEF PastJob, PastLoad, LoadJobs, EventJobs, Loads, SetsInv
<1>6. S \subseteq Clients /\ (ok => job.client \in S /\ (job.op # "join" => connected \subseteq S))
  BY <1>0, <1>4, <1>5 DEF LoadFor, SetsInv
<1>7. 1 \in LoadsIn(q)
  BY <1>2, <1>3 DEF LoadsIn
<1>8. /\ DOMAIN instances' = DOMAIN instances \cup ({p} \X S)
      /\ \A i \in {p} \X S :
           instances'[i] = [gen |-> born + 1, since |-> job.since, got |-> <<>>]
      /\ \A i \in DOMAIN instances \ ({p} \X S) : instances'[i] = instances[i]
  BY <1>4 DEF With
<1>9. /\ jobs \in [Plugins -> Seq(Jobs)] /\ jobs'[p] = Tail(q)
      /\ \A o \in Plugins \ {p} : jobs'[o] = jobs[o]
  BY <1>0, <1>1, <1>3 DEF JobsInv
<1>11. JobsInv'
  <2>1. born' \in Nat /\ born <= born' /\ jobs[p] # <<>> /\ sent' = sent
    BY <1>0, <1>1, <1>3
  <2>2. jobs' = [jobs EXCEPT ![p] = Tail(@)]
    BY <1>3
  <2> QED
    BY <1>0, <2>1, <2>2, FewerJobs
<1>12. SetsInv' /\ CacheInv' /\ DownloadsInv'
  BY <1>0, <1>3 DEF SetsInv, CacheInv, DownloadsInv, Past, PastLoad
<1>13. InboxInv'
  BY <1>0, <1>4, ConcatFacts DEF InboxInv
<1>14. InstancesInv'
  <2> SUFFICES ASSUME NEW i \in DOMAIN instances'
               PROVE  /\ i \in Plugins \X Clients
                      /\ instances'[i] \in Instance
                      /\ instances'[i].gen \in 1 .. born' /\ instances'[i].since <= sent'
                      /\ Past(instances[i].got)'
    BY DEF InstancesInv
  <2>1. CASE i \in {p} \X S
    <3>1. instances'[i] = [gen |-> born + 1, since |-> job.since, got |-> <<>>]
      BY <1>8, <2>1
    <3> QED
      BY <1>0, <1>3, <1>5, <1>6, <2>1, <3>1 DEF Instance, Past
  <2>2. CASE i \in DOMAIN instances \ ({p} \X S)
    <3>1. instances'[i] = instances[i]
      BY <1>8, <2>2
    <3>2. /\ instances[i] \in Instance /\ i \in Plugins \X Clients
          /\ instances[i].gen \in 1 .. born /\ instances[i].since <= sent /\ Past(instances[i].got)
      BY <1>0, <2>2 DEF InstancesInv
    <3> QED
      BY <1>0, <1>3, <3>1, <3>2 DEF Past
  <2> QED
    BY <1>8, <2>1, <2>2
<1>15. JoinInv'
  <2> SUFFICES ASSUME NEW o \in Plugins, NEW n \in DOMAIN jobs'[o], jobs'[o][n].op = "join"
               PROVE  o \in meta' \cup unloaded'
    BY DEF JoinInv
  <2>1. CASE o = p
    BY <1>3, <2>1
  <2>2. CASE o # p
    BY <1>3, <1>9, <2>2 DEF IInv, JoinInv
  <2> QED
    BY <2>1, <2>2
<1>16. EveryClientServed'
  <2> SUFFICES ASSUME NEW o \in meta' \ (failed' \cup unloaded'), NEW c \in connected',
                      <<o, c>> \notin DOMAIN instances'
               PROVE  \E n \in DOMAIN jobs'[o] :
                        \/ jobs'[o][n].op \in {"load", "reload"}
                        \/ jobs'[o][n].op = "join" /\ jobs'[o][n].client = c
    BY DEF EveryClientServed
  <2>0. c \in connected /\ o \notin unloaded /\ o \notin failed /\ <<o, c>> \notin DOMAIN instances
        /\ <<o, c>> \notin {p} \X S
    BY <1>3, <1>4, <1>8
  <2>1. ASSUME o \in meta
        PROVE  \E n \in DOMAIN jobs[o] :
                 \/ jobs[o][n].op \in {"load", "reload"}
                 \/ jobs[o][n].op = "join" /\ jobs[o][n].client = c
    BY <2>0, <2>1, Zenon DEF IInv, EveryClientServed
  <2>2. CASE o # p
    <3>1. o \in meta /\ o \in Plugins
      BY <1>0, <1>3, <2>2 DEF SetsInv
    <3> QED
      BY <1>9, <2>1, <2>2, <3>1
  <2>3. CASE o = p
    <3>1. ok
      BY <1>4, <2>3
    <3>2. c \notin S
      BY <2>0, <2>3
    <3>3. job.op = "join" /\ job.client # c
      BY <1>3, <1>6, <2>0, <3>1, <3>2
    <3>4. p \in meta \cup unloaded
      BY <1>1, <1>2, <3>3 DEF IInv, JoinInv
    <3>5. PICK n \in DOMAIN q :
            \/ q[n].op \in {"load", "reload"}
            \/ q[n].op = "join" /\ q[n].client = c
      BY <1>1, <2>0, <2>1, <2>3, <3>4
    <3>6. n # 1
      BY <1>2, <3>3, <3>5
    <3>7. n - 1 \in DOMAIN Tail(q) /\ Tail(q)[n - 1] = q[n]
      BY <1>10, <3>6
    <3> QED
      BY <1>9, <2>3, <3>5, <3>7
  <2> QED
    BY <2>2, <2>3
<1>17. \A o : Cached(o)' = Cached(o)
  BY <1>3 DEF Cached
<1>18. ASSUME NEW i \in {p} \X S
       PROVE  /\ Kept(instances'[i].got, jobs'[i[1]], i[2], instances'[i].gen, Cached(i[1])')
              /\ i[1] = p /\ instances'[i].since = job.since
  <2>1. /\ i[1] = p /\ instances'[i].gen = born + 1 /\ instances'[i].got = <<>>
        /\ instances'[i].since = job.since
    BY <1>8
  <2>2. Mine(Tail(q), i[2], born + 1) = {}
    <3> SUFFICES ASSUME NEW n \in DOMAIN Tail(q), Tail(q)[n].op = "events", Tail(q)[n].gen = born + 1
                 PROVE  FALSE
      BY DEF Mine
    <3>1. PICK j : j = Tail(q)[n] /\ PastJob(j)
      BY <1>1, <1>10
    <3>2. j.gen \in 1 .. born
      BY <3>1 DEF PastJob, PastLoad, LoadJobs, Loads
    <3> QED
      BY <1>0, <3>1, <3>2
  <2>3. Rising(<<>>) /\ \A s : AllBefore(<<>>, s)
    BY DEF Rising, AllBefore
  <2>4. Rising(Cached(p))
    BY <2>3 DEF IInv, OrderInv, Cached
  <2>5. Kept(<<>>, Tail(q), i[2], born + 1, Cached(p))
    BY <2>2, <2>3, <2>4 DEF Kept
  <2> QED
    BY <1>9, <1>17, <2>1, <2>5
<1>19. ASSUME NEW i \in DOMAIN instances \ ({p} \X S)
       PROVE  LET in == instances[i]
              IN /\ i[1] \in Plugins /\ instances'[i] = in
                 /\ Kept(in.got, jobs'[i[1]], i[2], in.gen, Cached(i[1])')
                 /\ \A e : Has(in.got, jobs[i[1]], i[2], in.gen, Cached(i[1]), e)
                      => Has(in.got, jobs'[i[1]], i[2], in.gen, Cached(i[1])', e)
  <2> DEFINE in == instances[i]
  <2>1. i[1] \in Plugins /\ instances'[i] = in
    BY <1>0, <1>8 DEF InstancesInv
  <2>2. Kept(in.got, jobs[i[1]], i[2], in.gen, Cached(i[1]))
    BY InTheseTerms DEF IInv, OrderInv
  <2> HIDE DEF in
  <2>3. CASE i[1] # p
    BY <1>9, <1>17, <2>1, <2>2, <2>3 DEF in
  <2>4. CASE i[1] = p
    <3>1. 1 \notin Mine(q, i[2], in.gen)
      BY <1>2, <1>3 DEF Mine, Loads
    <3>2. /\ Kept(in.got, q, i[2], in.gen, Cached(p)) => Kept(in.got, Tail(q), i[2], in.gen, Cached(p))
          /\ \A e : Has(in.got, q, i[2], in.gen, Cached(p), e)
               => Has(in.got, Tail(q), i[2], in.gen, Cached(p), e)
      BY <1>1, <3>1, OtherTaken
    <3> QED
      BY <1>1, <1>9, <1>17, <2>1, <2>2, <2>4, <3>2 DEF in
  <2> QED
    BY <2>3, <2>4 DEF in
<1>20. OrderInv'
  <2>1. \A i \in DOMAIN instances' :
          Kept(instances'[i].got, jobs'[i[1]], i[2], instances'[i].gen, Cached(i[1])')
    BY <1>8, <1>18, <1>19
  <2>2. OrderKept'
    BY <2>1, InTheseTermsNext
  <2>3. \A o \in DOMAIN caching : Rising(caching[o])
    BY DEF IInv, OrderInv
  <2> QED
    BY <1>3, <2>2, <2>3 DEF OrderInv
<1>21. WholeInv'
  <2> SUFFICES ASSUME NEW o \in Plugins \ overlapped', NEW i \in InstancesOf(o, instances'),
                      NEW e \in instances'[i].since + 1 .. sent'
               PROVE  Has(instances'[i].got, jobs'[i[1]], i[2], instances'[i].gen, Cached(i[1])', e)
    BY InTheseTermsNext DEF WholeInv
  <2>1. i \in DOMAIN instances' /\ i[1] = o /\ o \notin overlapped
    BY <1>3 DEF InstancesOf
  <2>2. CASE i \in {p} \X S
    <3>1. e \in q[1].since + 1 .. sent /\ o = p
      BY <1>2, <1>3, <1>18, <2>1, <2>2
    <3>2. SinceInv(p)
      BY <2>1, <3>1 DEF IInv, ApartInv
    <3>3. e \in Range(Cached(p))
      BY <1>1, <1>7, <3>1, <3>2 DEF SinceInv
    <3> QED
      BY <1>17, <2>1, <3>1, <3>3 DEF Has
  <2>3. CASE i \in DOMAIN instances \ ({p} \X S)
    <3>1. instances'[i] = instances[i] /\ i \in InstancesOf(o, instances) /\ Complete(o)
      BY <1>19, <2>1, <2>3 DEF InstancesOf, IInv, WholeInv
    <3>2. Has(instances[i].got, jobs[i[1]], i[2], instances[i].gen, Cached(i[1]), e)
      BY <1>3, <3>1, InTheseTerms
    <3> QED
      BY <1>19, <2>3, <3>1, <3>2
  <2> QED
    BY <1>8, <2>1, <2>2, <2>3
<1>22. ASSUME NEW o \in Plugins \ overlapped
       PROVE  PhaseInv(o)' /\ SinceInv(o)'
  <2>1. PhaseInv(o) /\ SinceInv(o) /\ NotesInv(o)
    BY DEF IInv, ApartInv, PhaseInv
  <2>2. PICK b \in Seq(Message) : b = inbox
    BY <1>0 DEF InboxInv
  <2>3. PICK d \in Seq(Message) : d = asks \o note
    BY ConcatFacts
  <2>4. inbox' = b \o d
    BY <1>4, <2>2, <2>3
  <2>5. \/ d = <<>>
        \/ d = <<[op |-> "cache", plugin |-> p]>>
        \/ d = <<[op |-> "apply", plugin |-> p]>>
        \/ d = <<[op |-> "cache", plugin |-> p], [op |-> "apply", plugin |-> p]>>
    <3>1. PICK x : x = [op |-> "cache", plugin |-> p]
      OBVIOUS
    <3>2. PICK y : y = [op |-> "apply", plugin |-> p]
      OBVIOUS
    <3>3. asks \in {<<>>, <<x>>} /\ note \in {<<>>, <<y>>}
      BY <1>4, <3>1, <3>2
    <3>4. d \in {<<>>, <<x>>, <<y>>, <<x, y>>}
      BY <2>3, <3>3, ShortFacts
    <3> QED
      BY <3>1, <3>2, <3>4
  <2>6. \A n \in DOMAIN d : d[n].plugin = p
    BY <2>5
  <2>7. CASE o # p
    <3>1. NotesIn(b \o d, o) = NotesIn(b, o) /\ (InTurn(b, o, waiting) => InTurn(b \o d, o, waiting))
      BY <2>6, <2>7, OthersNotes
    <3>2. NotesIn(inbox', o) = NotesIn(inbox, o) /\ NotesInv(o)'
      BY <1>3, <2>1, <2>2, <2>4, <3>1 DEF NotesInv
    <3>3. jobs'[o] = jobs[o] /\ Cached(o)' = Cached(o)
      BY <1>9, <1>17, <2>7
    <3>4. SinceInv(o)'
      BY <1>3, <2>1, <3>3 DEF SinceInv
    <3> QED
      BY <1>3, <2>1, <3>2, <3>3, <3>4 DEF PhaseInv
  <2>8. CASE o = p
    <3>1. p \in DOMAIN caching /\ NotesIn(b, p) = {} /\ p \notin waiting /\ p \notin DOMAIN downloading
          /\ OneLoad(q)
      BY <1>1, <1>7, <2>1, <2>2, <2>8 DEF PhaseInv, OneLoad
    <3>2. LoadsIn(jobs'[p]) = {}
      BY <1>1, <1>7, <1>9, <3>1, LoadsOfTail
    <3>3. InTurn(b \o d, p, waiting)
      BY <2>5, <3>1, NotesOfLoad
    <3>4. NotesInv(p)'
      BY <1>3, <2>4, <3>3 DEF NotesInv
    <3>5. p \in DOMAIN caching' /\ p \notin DOMAIN downloading'
      BY <1>3, <3>1
    <3>6. PhaseInv(p)'
      BY <3>2, <3>4, <3>5 DEF PhaseInv
    <3>7. SinceInv(p)'
      BY <3>2, <3>5 DEF SinceInv
    <3> QED
      BY <2>8, <3>6, <3>7
  <2> QED
    BY <2>7, <2>8
<1>23. ApartInv'
  BY <1>3, <1>22 DEF ApartInv
<1> QED
  BY <1>11, <1>12, <1>13, <1>14, <1>15, <1>16, <1>20, <1>21, <1>23 DEF IInv, TypeInv

\* A thread calls an instance with events.
LEMMA RunEventsInv ==
  ASSUME IInv, NEW p \in Plugins, RunEvents(p)
  PROVE  IInv'
<1>0. SetsInv /\ InstancesInv /\ CacheInv /\ DownloadsInv /\ JobsInv /\ InboxInv /\ born \in Nat
  BY DEF IInv, TypeInv, SetsInv
<1>1. PICK q \in Seq(Jobs) : q = jobs[p] /\ q # <<>> /\ \A n \in DOMAIN q : PastJob(q[n])
  BY <1>0 DEF RunEvents, JobsInv
<1>2. /\ \A n \in DOMAIN Tail(q) : n + 1 \in DOMAIN q /\ Tail(q)[n] = q[n + 1]
      /\ \A n \in DOMAIN q : n = 1 \/ (n - 1 \in DOMAIN Tail(q) /\ Tail(q)[n - 1] = q[n])
      /\ Head(q) = q[1] /\ 1 \in DOMAIN q
  <2>1. q # <<>>
    BY <1>1
  <2> QED
    BY <2>1, TailFacts
<1>3. PICK job \in Jobs : job = q[1] /\ job.op = "events"
  BY <1>1, <1>2 DEF RunEvents
<1> DEFINE k == <<p, job.client>>
           mine == k \in DOMAIN instances /\ instances[k].gen = job.gen
<1>4. /\ UNCHANGED <<connected, gone, meta, caching, loading, waiting, toUnload, reloads, downloading,
                     sent, born, inbox, unloaded, overlapped, failed>>
      /\ jobs' = [jobs EXCEPT ![p] = Tail(@)]
      /\ instances' = IF mine THEN [instances EXCEPT ![k].got = @ \o job.events] ELSE instances
  BY <1>1, <1>2, <1>3 DEF RunEvents, clientVars, tableVars, historyVars
<1>5. job \in EventJobs /\ job.events \in Seq(Nat) /\ Past(job.events)
  BY <1>1, <1>2, <1>3 DEF PastJob, PastLoad, EventJobs, LoadJobs, Loads
<1>6. /\ jobs \in [Plugins -> Seq(Jobs)] /\ jobs'[p] = Tail(q)
      /\ \A o \in Plugins \ {p} : jobs'[o] = jobs[o]
  BY <1>0, <1>1, <1>4 DEF JobsInv
<1>7. /\ DOMAIN instances' = DOMAIN instances
      /\ \A i \in DOMAIN instances : i # k \/ ~mine => instances'[i] = instances[i]
      /\ mine => instances'[k] = [instances[k] EXCEPT !.got = @ \o job.events]
  BY <1>4
<1>8. \A i \in DOMAIN instances :
        /\ instances[i] \in Instance /\ i \in Plugins \X Clients
        /\ instances[i].gen \in 1 .. born /\ instances[i].since <= sent /\ Past(instances[i].got)
  BY <1>0 DEF InstancesInv
<1>9. mine => /\ instances'[k].gen = instances[k].gen /\ instances'[k].since = instances[k].since
              /\ instances'[k].got = instances[k].got \o job.events
              /\ instances'[k] \in Instance /\ Past(instances'[k].got)
  <2> SUFFICES ASSUME mine
               PROVE  /\ instances'[k].gen = instances[k].gen /\ instances'[k].since = instances[k].since
                      /\ instances'[k].got = instances[k].got \o job.events
                      /\ instances'[k] \in Instance /\ Past(instances'[k].got)
    OBVIOUS
  <2>1. PICK in \in Instance : in = instances[k] /\ Past(in.got)
    BY <1>8
  <2>2. PICK g \in Seq(Nat) : g = in.got
    BY DEF Instance
  <2>3. PICK ev \in Seq(Nat) : ev = job.events /\ Past(ev)
    BY <1>5
  <2>4. PICK h \in Seq(Nat) : h = g \o ev
    BY ConcatFacts
  <2>5. Past(h)
    <3>1. /\ \A n \in DOMAIN h : n \in DOMAIN g \/ \E m \in DOMAIN ev : n = Len(g) + m
          /\ \A n \in DOMAIN g : h[n] = g[n]
          /\ \A n \in DOMAIN ev : h[Len(g) + n] = ev[n]
      BY <2>4, ConcatFacts
    <3>2. Past(g)
      BY <2>1, <2>2
    <3> QED
      BY <2>3, <3>1, <3>2 DEF Past
  <2>6. instances'[k] = [in EXCEPT !.got = h]
    BY <1>7, <2>1, <2>2, <2>3, <2>4
  <2>7. /\ [in EXCEPT !.got = h].gen = in.gen /\ [in EXCEPT !.got = h].since = in.since
        /\ [in EXCEPT !.got = h].got = h /\ [in EXCEPT !.got = h] \in Instance
    BY DEF Instance
  <2> QED
    BY <2>1, <2>2, <2>3, <2>4, <2>5, <2>6, <2>7
<1> HIDE DEF mine, k
<1>10. InstancesInv'
  <2> SUFFICES ASSUME NEW i \in DOMAIN instances
               PROVE  /\ i \in Plugins \X Clients
                      /\ instances'[i] \in Instance
                      /\ instances'[i].gen \in 1 .. born /\ instances'[i].since <= sent
                      /\ Past(instances'[i].got)
    BY <1>4, <1>7 DEF InstancesInv, Past
  <2>1. CASE i = k /\ mine
    BY <1>8, <1>9, <2>1
  <2>2. CASE ~(i = k /\ mine)
    BY <1>7, <1>8, <2>2
  <2> QED
    BY <2>1, <2>2
<1>11. JobsInv'
  <2>1. born' \in Nat /\ born <= born' /\ jobs[p] # <<>> /\ sent' = sent
    BY <1>0, <1>1, <1>4
  <2>2. jobs' = [jobs EXCEPT ![p] = Tail(@)]
    BY <1>4
  <2> QED
    BY <1>0, <2>1, <2>2, FewerJobs
<1>12. SetsInv' /\ CacheInv' /\ DownloadsInv' /\ InboxInv'
  BY <1>0, <1>4 DEF SetsInv, CacheInv, DownloadsInv, InboxInv, Past, PastLoad
<1>13. ASSUME NEW o \in Plugins, NEW n \in DOMAIN jobs[o], jobs[o][n].op \in Loads
       PROVE  \E m \in DOMAIN jobs'[o] : jobs'[o][m] = jobs[o][n]
  <2>1. CASE o # p
    BY <1>6, <2>1
  <2>2. CASE o = p
    <3>1. n # 1
      BY <1>1, <1>3, <1>13, <2>2 DEF Loads
    <3>2. n - 1 \in DOMAIN Tail(q) /\ Tail(q)[n - 1] = q[n]
      BY <1>1, <1>2, <2>2, <3>1
    <3> QED
      BY <1>1, <1>6, <2>2, <3>2
  <2> QED
    BY <2>1, <2>2
<1>14. EveryClientServed'
  <2>1. meta \subseteq Plugins
    BY <1>0 DEF SetsInv
  <2> QED
    BY <1>4, <1>7, <1>13, <2>1, ServedStays DEF IInv
<1>15. JoinInv'
  <2> SUFFICES ASSUME NEW o \in Plugins, NEW n \in DOMAIN jobs'[o], jobs'[o][n].op = "join"
               PROVE  o \in meta \cup unloaded
    BY <1>4 DEF JoinInv
  <2>1. \E m \in DOMAIN jobs[o] : jobs[o][m].op = "join"
    <3>1. CASE o = p
      <4>1. n + 1 \in DOMAIN q /\ Tail(q)[n] = q[n + 1]
        BY <1>2, <1>6, <3>1
      <4> QED
        BY <1>1, <1>6, <3>1, <4>1
    <3>2. CASE o # p
      BY <1>6, <3>2
    <3> QED
      BY <3>1, <3>2
  <2> QED
    BY <2>1 DEF IInv, JoinInv
<1>16. \A o : Cached(o)' = Cached(o)
  BY <1>4 DEF Cached
<1>17. ASSUME NEW i \in DOMAIN instances
       PROVE  LET in == instances[i]
                  new == instances'[i]
              IN /\ new.since = in.since
                 /\ Kept(new.got, jobs'[i[1]], i[2], new.gen, Cached(i[1])')
                 /\ \A e : Has(in.got, jobs[i[1]], i[2], in.gen, Cached(i[1]), e)
                      => Has(new.got, jobs'[i[1]], i[2], new.gen, Cached(i[1])', e)
  <2> DEFINE in == instances[i]
             new == instances'[i]
  <2>1. Kept(in.got, jobs[i[1]], i[2], in.gen, Cached(i[1])) /\ i[1] \in Plugins /\ in.got \in Seq(Nat)
        /\ i = <<i[1], i[2]>>
    BY <1>8, InTheseTerms DEF IInv, OrderInv, Instance
  <2>2. CASE i = k /\ mine
    <3>1. i[1] = p /\ i[2] = job.client /\ in.gen = job.gen
      BY <2>2 DEF k, mine
    <3>2. new.gen = in.gen /\ new.since = in.since /\ new.got = in.got \o q[1].events
      BY <1>3, <1>9, <2>2
    <3> HIDE DEF in, new
    <3>3. 1 \in Mine(q, i[2], in.gen)
      BY <1>2, <1>3, <3>1 DEF Mine
    <3>4. /\ Kept(in.got, q, i[2], in.gen, Cached(p))
               => Kept(in.got \o q[1].events, Tail(q), i[2], in.gen, Cached(p))
          /\ \A e : Has(in.got, q, i[2], in.gen, Cached(p), e)
               => Has(in.got \o q[1].events, Tail(q), i[2], in.gen, Cached(p), e)
      BY <1>1, <2>1, <3>3, OwnTaken
    <3> QED
      BY <1>1, <1>6, <1>16, <2>1, <3>1, <3>2, <3>4 DEF in, new
  <2>3. CASE ~(i = k /\ mine)
    <3>1. new = in
      BY <1>7, <2>3
    <3>2. CASE i[1] # p
      BY <1>6, <1>16, <2>1, <3>1, <3>2
    <3>3. CASE i[1] = p
      <4>1. 1 \notin Mine(q, i[2], in.gen)
        BY <1>3, <2>1, <2>3, <3>3 DEF Mine, k, mine
      <4> HIDE DEF in, new
      <4>2. /\ Kept(in.got, q, i[2], in.gen, Cached(p)) => Kept(in.got, Tail(q), i[2], in.gen, Cached(p))
            /\ \A e : Has(in.got, q, i[2], in.gen, Cached(p), e)
                 => Has(in.got, Tail(q), i[2], in.gen, Cached(p), e)
        BY <1>1, <4>1, OtherTaken
      <4> QED
        BY <1>1, <1>6, <1>16, <2>1, <3>1, <3>3, <4>2 DEF in, new
    <3> QED
      BY <3>2, <3>3
  <2> QED
    BY <2>2, <2>3
<1>18. OrderInv'
  <2>1. OrderKept'
    BY <1>7, <1>17, InTheseTermsNext
  <2>2. \A o \in DOMAIN caching : Rising(caching[o])
    BY DEF IInv, OrderInv
  <2> QED
    BY <1>4, <2>1, <2>2 DEF OrderInv
<1>19. WholeInv'
  <2> SUFFICES ASSUME NEW o \in Plugins \ overlapped, NEW i \in InstancesOf(o, instances'),
                      NEW e \in instances'[i].since + 1 .. sent'
               PROVE  Has(instances'[i].got, jobs'[i[1]], i[2], instances'[i].gen, Cached(i[1])', e)
    BY <1>4, InTheseTermsNext DEF WholeInv
  <2>1. i \in DOMAIN instances /\ i \in InstancesOf(o, instances) /\ Complete(o)
    BY <1>7 DEF InstancesOf, IInv, WholeInv
  <2>2. instances'[i].since = instances[i].since
    BY <1>17, <2>1
  <2>3. Has(instances[i].got, jobs[i[1]], i[2], instances[i].gen, Cached(i[1]), e)
    BY <1>4, <2>1, <2>2, InTheseTerms
  <2> QED
    BY <1>17, <2>1, <2>3
<1>20. ASSUME NEW o \in Plugins \ overlapped
       PROVE  PhaseInv(o)' /\ SinceInv(o)'
  <2>1. PhaseInv(o) /\ SinceInv(o) /\ NotesInv(o)
    BY DEF IInv, ApartInv, PhaseInv
  <2>2. CASE o # p
    <3>1. SamePhase(o)
      BY <1>4, <1>6, <1>16, <2>2 DEF SamePhase, SameTables
    <3> QED
      BY <2>1, <3>1, PhaseStays
  <2>3. CASE o = p
    <3>1. OneLoad(q) /\ LoadsSince(q, sent, Cached(p))
      BY <1>1, <2>1, <2>3, PhaseInTheseTerms
    <3>2. OneLoad(Tail(q)) /\ (LoadsIn(q) = {} => LoadsIn(Tail(q)) = {}) /\ LoadsSince(Tail(q), sent, Cached(p))
      BY <1>1, <3>1, LoadsOfTail
    <3>3. PhaseInv(p)'
      BY <1>1, <1>4, <1>6, <2>1, <2>3, <3>2 DEF PhaseInv, NotesInv, OneLoad
    <3>4. SinceInv(p)'
      <4>1. p \in DOMAIN downloading' =>
              \A e \in downloading'[p].since + 1 .. sent' : e \in Range(Cached(p)')
        BY <1>4, <1>16, <2>1, <2>3 DEF SinceInv
      <4>2. LoadsSince(jobs'[p], sent', Cached(p)')
        BY <1>4, <1>6, <1>16, <3>2
      <4> QED
        BY <4>1, <4>2, PhaseInTheseTerms
    <3> QED
      BY <2>3, <3>3, <3>4
  <2> QED
    BY <2>2, <2>3
<1>21. ApartInv'
  BY <1>4, <1>20 DEF ApartInv
<1> QED
  BY <1>10, <1>11, <1>12, <1>14, <1>15, <1>18, <1>19, <1>21 DEF IInv, TypeInv

-----------------------------------------------------------------------------
(* The theorems *)

\* At first no plugin runs and nothing is on its way.
LEMMA InitInv == Init => IInv
<1> SUFFICES ASSUME Init PROVE IInv
  OBVIOUS
<1>1. TypeInv
  BY DEF Init, TypeInv, SetsInv, InstancesInv, CacheInv, DownloadsInv, JobsInv, InboxInv
<1>2. JoinInv /\ EveryClientServed
  BY DEF Init, JoinInv, EveryClientServed
<1>3. ApartInv
  BY DEF Init, ApartInv, PhaseInv, SinceInv, LoadsIn, NotesIn, NotesInv, InTurn, Ordered, Fitting
<1>4. OrderInv /\ WholeInv
  BY DEF Init, OrderInv, OrderKept, WholeInv, Complete, InstancesOf
<1> QED
  BY <1>1, <1>2, <1>3, <1>4 DEF IInv

\* Every step keeps the invariant.
LEMMA NextInv == IInv /\ [Next]_vars => IInv'
<1> SUFFICES ASSUME IInv, [Next]_vars PROVE IInv'
  OBVIOUS
<1>1. CASE UNCHANGED vars
  <2>1. reloads \subseteq Plugins
    BY DEF IInv, TypeInv, SetsInv
  <2> QED
    BY <1>1, <2>1, StutterInv DEF vars, clientVars, mapVars
<1>2. ASSUME NEW p \in Plugins, NEW c \in Clients, LoadPlugin(p, c)
      PROVE  IInv'
  BY <1>2, LoadPluginInv
<1>3. ASSUME NEW p \in Plugins, Downloaded(p) \/ DownloadFails(p)
      PROVE  IInv'
  BY <1>3, DownloadedInv, DownloadFailsInv
<1>4. ASSUME NEW p \in Plugins, ReloadPluginWithId(p) \/ ReloadPlugin(p) \/ UnloadPlugin(p)
      PROVE  IInv'
  BY <1>4, ReloadsInv, UnloadPluginInv
<1>5. ASSUME NEW p \in Plugins, Answer(p) \/ Thread(p)
      PROVE  IInv'
  BY <1>5, AnswerInv, RunLoadInv, RunEventsInv DEF Thread
<1>6. ASSUME NEW c \in Clients, AddClient(c) \/ RemoveClient(c)
      PROVE  IInv'
  BY <1>6, AddClientInv, RemoveClientInv
<1>7. CASE Update
  BY <1>7, UpdateInv
<1>8. CASE Instruction
  BY <1>8, InstructionInv
<1> QED
  BY <1>1, <1>2, <1>3, <1>4, <1>5, <1>6, <1>7, <1>8 DEF Next

\* So it holds always.
THEOREM Invariant == Spec => []IInv
BY InitInv, NextInv, PTL DEF Spec

\* Every variable holds a value of its kind.
THEOREM TypesKept == Spec => []TypeOK
<1>1. IInv => TypeOK
  <2> SUFFICES ASSUME IInv PROVE TypeOK
    OBVIOUS
  <2>0. SetsInv /\ InstancesInv /\ CacheInv /\ DownloadsInv /\ JobsInv /\ InboxInv
    BY DEF IInv, TypeInv
  <2>1. ASSUME NEW s \in Seq(Nat), Past(s)
        PROVE  s \in Seq(1 .. sent)
    <3>1. Len(s) \in Nat /\ s \in [1 .. Len(s) -> Nat]
      BY LenProperties
    <3>2. s \in [1 .. Len(s) -> 1 .. sent]
      BY <2>1, <3>1 DEF Past
    <3> DEFINE S == 1 .. sent
    <3>3. PICK n \in Nat : n = Len(s) /\ s \in [1 .. n -> S]
      BY <3>1, <3>2
    <3> HIDE DEF S
    <3>4. s \in Seq(S)
      BY <3>3
    <3> QED
      BY <3>4 DEF S
  <2>2. \A i \in DOMAIN instances :
          instances[i] \in [gen : 1 .. born, since : 0 .. sent, got : Seq(1 .. sent)]
    BY <2>0, <2>1 DEF SetsInv, InstancesInv, Instance
  <2>3. \A p \in DOMAIN caching : caching[p] \in Seq(1 .. sent)
    BY <2>0, <2>1 DEF CacheInv
  <2>4. \A p \in Plugins : \A n \in DOMAIN jobs[p] : jobs[p][n].op \in {"load", "reload", "join", "events"}
    <3>1. \A j : PastJob(j) => j.op \in {"load", "reload", "join", "events"}
      BY DEF PastJob, PastLoad, LoadJobs, EventJobs, Loads
    <3> QED
      BY <2>0, <3>1 DEF JobsInv
  <2> QED
    BY <2>0, <2>2, <2>3, <2>4 DEF TypeOK, SetsInv, InstancesInv, CacheInv, DownloadsInv, InboxInv, Message
<1> QED
  BY <1>1, Invariant, PTL

\* Every client has every plugin, or a load on its plugin's thread that will give it one -
\* whatever clients come and go while it is being loaded, reloaded or unloaded.
THEOREM ClientsServed == Spec => []EveryClientServed
<1>1. IInv => EveryClientServed
  BY DEF IInv
<1> QED
  BY <1>1, Invariant, PTL

\* No instance gets an event twice or out of order; and of the plugins whose loads have
\* not overlapped, every instance gets every event since its load was requested.
THEOREM EventsStay == Spec => []EventsKept
<1>1. IInv => EventsKept
  BY DEF IInv, OrderInv, WholeInv, EventsKept, TypeInv, SetsInv
<1> QED
  BY <1>1, Invariant, PTL
=============================================================================
