----------------------- MODULE HostQueryForwardProofs -----------------------
(***************************************************************************)
(* Nothing waits for nobody (NothingWaitsForNobody), for any panes and     *)
(* clients and any number of queries: a lane's slot always has somebody to *)
(* release it, no entry or queue is left without a query in flight, and a  *)
(* paused pane has a query under way.                                      *)
(*                                                                         *)
(* The argument: a token is in one place, in flight or waiting, of one     *)
(* lane, so that the reply that releases a slot releases one, with the     *)
(* entry of the pane that waits for it.                                    *)
(*                                                                         *)
(* Answers come in the order of the queries (StreamOrderOfSingles), unless *)
(* one sequence makes several. The argument: a pane has one query under    *)
(* way at most, in one place, and is paused meanwhile; what it keeps back  *)
(* comes after that query, and what was answered before.                   *)
(*                                                                         *)
(* Last, of the client that carries the queries (ForwardClient): a token is*)
(* answered once, with its own reply.                                      *)
(***************************************************************************)
EXTENDS HostQueryForward, ForwardClient, FiniteSetTheorems, SequenceTheorems,
        WellFoundedInduction, TLAPS

Issued == Nat \ {0}
Entries == [token : Issued, pane : Panes, n : Nat]
Queries == [kind : {"query"}, pane : Panes, n : Nat, lane : Lanes \cup {"local"}]
Replies == [kind : {"reply"}, token : Issued, bytes : {"cache", "host"}]
Messages == Queries \cup Replies
Sequences == Seq([n : Nat, lanes : PtySequences])

Elems(q) == {q[i] : i \in 1 .. Len(q)}

PaneTypes ==
  /\ open \in SUBSET Panes
  /\ asked \in [Panes -> Nat]
  /\ paused \in [Panes -> BOOLEAN]
  /\ pending_input \in [Panes -> Sequences]

LaneTypes ==
  /\ next_token \in Issued
  /\ in_flight \in [Lanes -> Nat]
  /\ entries \in [Lanes -> SUBSET Entries]
  /\ waiting \in [Lanes -> Seq(Entries)]

ServerTypes ==
  /\ deadlines \in SUBSET Issued
  /\ to_server \in Seq(Issued)
  /\ clients \in SUBSET Clients
  /\ in_hand \in SUBSET (Issued \X Clients) /\ IsFiniteSet(in_hand)
  /\ sent \in [Clients -> SUBSET Issued]

ChannelType == to_screen \in Seq(Messages)

\* Tokens in flight and waiting were issued, each in one place.
TokensInv ==
  \A lane, other \in Lanes :
    /\ in_flight[lane] < next_token
    /\ in_flight[lane] # Sentinel /\ in_flight[lane] = in_flight[other] => lane = other
    /\ \A k \in 1 .. Len(waiting[lane]) :
         /\ waiting[lane][k].token < next_token
         /\ waiting[lane][k].token # in_flight[other]
         /\ \A j \in 1 .. Len(waiting[other]) :
              waiting[lane][k].token = waiting[other][j].token => lane = other /\ k = j

\* A lane is free, or it has the entry of the token in flight and no other.
EntriesInv ==
  \A lane \in Lanes :
    \/ in_flight[lane] = Sentinel /\ entries[lane] = {} /\ waiting[lane] = <<>>
    \/ in_flight[lane] # Sentinel /\ \E e \in Entries : entries[lane] = {e} /\ e.token = in_flight[lane]

\* A reply for token t is on its way to Screen.
Coming(t) == \E m \in Elems(to_screen) : m.kind = "reply" /\ m.token = t

ReleaserInv ==
  \A lane \in Lanes : in_flight[lane] # Sentinel =>
    in_flight[lane] \in deadlines \/ Coming(in_flight[lane])

HeldBySomebody(t) ==
  \/ Coming(t)
  \/ t \in Elems(to_server)
  \/ \E c \in clients : <<t, c>> \in in_hand

HandsInv == \A lane \in Lanes : in_flight[lane] # Sentinel => HeldBySomebody(in_flight[lane])

UnderWay(p) ==
  \/ \E m \in Elems(to_screen) : m.kind = "query" /\ m.pane = p
  \/ \E lane \in Lanes : \/ \E e \in entries[lane] : e.pane = p
                         \/ \E e \in Elems(waiting[lane]) : e.pane = p

PausesInv ==
  \A p \in open :
    /\ paused[p] => UnderWay(p)
    /\ pending_input[p] # <<>> => paused[p]

IInv ==
  /\ PaneTypes /\ LaneTypes /\ ServerTypes /\ ChannelType
  /\ TokensInv /\ EntriesInv /\ ReleaserInv /\ HandsInv /\ PausesInv
-----------------------------------------------------------------------------

\* What is in a sequence that is extended, or loses its head.
LEMMA ElemsFacts ==
  ASSUME NEW M, NEW q \in Seq(M)
  PROVE  /\ Elems(q) \subseteq M
         /\ q = <<>> <=> Elems(q) = {}
         /\ \A m \in M : Append(q, m) \in Seq(M) /\ Elems(Append(q, m)) = Elems(q) \cup {m}
         /\ \A s \in Seq(M) : q \o s \in Seq(M) /\ Elems(q \o s) = Elems(q) \cup Elems(s)
         /\ q # <<>> => /\ Head(q) \in M /\ Tail(q) \in Seq(M)
                        /\ Elems(q) = {Head(q)} \cup Elems(Tail(q))
<1>0. Len(q) \in Nat /\ \A i \in 1 .. Len(q) : q[i] \in M
  BY LenProperties, ElementOfSeq
<1>1. Elems(q) \subseteq M
  BY <1>0 DEF Elems
<1>2. q = <<>> <=> Elems(q) = {}
  <2>1. ASSUME q # <<>> PROVE Elems(q) # {}
    <3>1. 1 \in 1 .. Len(q)
      BY <2>1, EmptySeq
    <3> QED
      BY <3>1 DEF Elems
  <2>2. Elems(<<>>) = {}
    BY DEF Elems
  <2> QED
    BY <2>1, <2>2
<1>3. ASSUME NEW m \in M
      PROVE  Append(q, m) \in Seq(M) /\ Elems(Append(q, m)) = Elems(q) \cup {m}
  <2>1. /\ Append(q, m) \in Seq(M) /\ Len(Append(q, m)) = Len(q) + 1
        /\ \A i \in 1 .. Len(q) : Append(q, m)[i] = q[i]
        /\ Append(q, m)[Len(q) + 1] = m
    BY AppendProperties
  <2>2. \A i \in 1 .. Len(q) + 1 : i \in 1 .. Len(q) \/ i = Len(q) + 1
    BY <1>0
  <2>3. 1 .. Len(q) \subseteq 1 .. Len(q) + 1 /\ Len(q) + 1 \in 1 .. Len(q) + 1
    BY <1>0
  <2> QED
    BY <2>1, <2>2, <2>3 DEF Elems
<1>4. ASSUME NEW s \in Seq(M)
      PROVE  q \o s \in Seq(M) /\ Elems(q \o s) = Elems(q) \cup Elems(s)
  <2>1. /\ q \o s \in Seq(M) /\ Len(q \o s) = Len(q) + Len(s) /\ Len(s) \in Nat
        /\ \A i \in 1 .. Len(q) + Len(s) : (q \o s)[i] = IF i <= Len(q) THEN q[i] ELSE s[i - Len(q)]
    BY ConcatProperties, LenProperties
  <2>2. Elems(q \o s) \subseteq Elems(q) \cup Elems(s)
    <3> SUFFICES ASSUME NEW i \in 1 .. Len(q) + Len(s) PROVE (q \o s)[i] \in Elems(q) \cup Elems(s)
      BY <2>1 DEF Elems
    <3>1. CASE i <= Len(q)
      BY <1>0, <2>1, <3>1 DEF Elems
    <3>2. CASE ~(i <= Len(q))
      <4>1. i - Len(q) \in 1 .. Len(s) /\ (q \o s)[i] = s[i - Len(q)]
        BY <1>0, <2>1, <3>2
      <4> QED
        BY <4>1 DEF Elems
    <3> QED
      BY <3>1, <3>2
  <2>3. Elems(q) \subseteq Elems(q \o s)
    <3> SUFFICES ASSUME NEW i \in 1 .. Len(q) PROVE q[i] \in Elems(q \o s)
      BY DEF Elems
    <3>1. i \in 1 .. Len(q \o s) /\ (q \o s)[i] = q[i]
      BY <1>0, <2>1
    <3> QED
      BY <3>1 DEF Elems
  <2>4. Elems(s) \subseteq Elems(q \o s)
    <3> SUFFICES ASSUME NEW i \in 1 .. Len(s) PROVE s[i] \in Elems(q \o s)
      BY DEF Elems
    <3>1. i + Len(q) \in 1 .. Len(q \o s) /\ (q \o s)[i + Len(q)] = s[i]
      BY <1>0, <2>1
    <3> QED
      BY <3>1 DEF Elems
  <2> QED
    BY <2>1, <2>2, <2>3, <2>4
<1>5. ASSUME q # <<>>
      PROVE  Head(q) \in M /\ Tail(q) \in Seq(M) /\ Elems(q) = {Head(q)} \cup Elems(Tail(q))
  <2>1. /\ Head(q) \in M /\ Head(q) = q[1] /\ Tail(q) \in Seq(M) /\ Len(q) > 0
        /\ Len(Tail(q)) = Len(q) - 1
        /\ \A i \in 1 .. Len(Tail(q)) : Tail(q)[i] = q[i + 1]
    BY <1>0, <1>5, HeadTailProperties, EmptySeq
  <2>2. \A i \in 1 .. Len(q) : i = 1 \/ (i - 1 \in 1 .. Len(Tail(q)) /\ q[i] = Tail(q)[i - 1])
    BY <1>0, <2>1
  <2>3. \A i \in 1 .. Len(Tail(q)) : i + 1 \in 1 .. Len(q)
    BY <1>0, <2>1
  <2>4. 1 \in 1 .. Len(q)
    BY <1>0, <2>1
  <2>5. Elems(q) \subseteq {Head(q)} \cup Elems(Tail(q))
    BY <2>1, <2>2 DEF Elems
  <2>6. {Head(q)} \cup Elems(Tail(q)) \subseteq Elems(q)
    BY <2>1, <2>3, <2>4 DEF Elems
  <2> QED
    BY <2>1, <2>5, <2>6
<1> QED
  BY <1>1, <1>2, <1>3, <1>4, <1>5

\* A set of naturals has a least element.
LEMMA LeastNatural ==
  ASSUME NEW S, S \subseteq Nat, S # {}
  PROVE  \E m \in S : \A k \in S : m <= k
<1>1. PICK m \in S : \A k \in S : ~(<<k, m>> \in OpToRel(<, Nat))
  BY NatLessThanWellFounded, WFMin
<1>2. \A k \in S : ~(k < m)
  BY <1>1 DEF OpToRel
<1> QED
  BY <1>2

\* A set of naturals that is bounded has a greatest element.
LEMMA GreatestNatural ==
  ASSUME NEW n \in Nat, NEW S, S \subseteq 0 .. n, S # {}
  PROVE  \E m \in S : \A k \in S : k <= m
<1> DEFINE T == {n - k : k \in S}
<1>1. T \subseteq Nat /\ T # {}
  <2>1. \A k \in S : n - k \in Nat
    OBVIOUS
  <2>2. PICK k \in S : TRUE
    OBVIOUS
  <2>3. n - k \in T
    BY <2>2
  <2> QED
    BY <2>1, <2>3
<1>2. PICK t \in T : \A u \in T : t <= u
  <2> HIDE DEF T
  <2> QED
    BY <1>1, LeastNatural
<1>3. PICK m \in S : t = n - m
  OBVIOUS
<1>4. \A k \in S : n - m <= n - k
  BY <1>2, <1>3
<1> QED
  BY <1>4
-----------------------------------------------------------------------------

\* The last sequence that is fed is the first that asks, if any asks.
LEMMA ConsumedFacts ==
  ASSUME NEW ss \in Sequences
  PROVE  /\ Consumed(ss) \in 0 .. Len(ss) /\ Len(ss) \in Nat
         /\ \/ /\ \E k \in DOMAIN ss : Asks(ss[k])
               /\ Consumed(ss) \in 1 .. Len(ss) /\ Asks(ss[Consumed(ss)])
            \/ /\ ~\E k \in DOMAIN ss : Asks(ss[k])
               /\ Consumed(ss) = Len(ss)
<1>1. DOMAIN ss = 1 .. Len(ss) /\ Len(ss) \in Nat
  BY LenProperties DEF Sequences
<1>2. CASE \E k \in DOMAIN ss : Asks(ss[k])
  <2> DEFINE S == {k \in 1 .. Len(ss) : Asks(ss[k])}
  <2>1. S \subseteq Nat /\ S # {}
    BY <1>1, <1>2
  <2>2. PICK m \in S : \A k \in S : m <= k
    <3> HIDE DEF S
    <3> QED
      BY <2>1, LeastNatural
  <2>3. m \in DOMAIN ss /\ Asks(ss[m]) /\ \A j \in 1 .. m - 1 : ~Asks(ss[j])
    BY <1>1, <2>2
  <2>4. Consumed(ss) \in DOMAIN ss /\ Asks(ss[Consumed(ss)])
    BY <1>2, <2>3 DEF Consumed
  <2> QED
    BY <1>1, <1>2, <2>4
<1>3. CASE ~\E k \in DOMAIN ss : Asks(ss[k])
  BY <1>1, <1>3 DEF Consumed
<1> QED
  BY <1>2, <1>3

\* A pane that is fed is paused when it asks, and only then keeps input back.
LEMMA FeedFacts ==
  ASSUME ForwardAssumption, PaneTypes, NEW p \in Panes, NEW ss \in Sequences,
         NEW channel \in Seq(Messages), NEW now, Feed(p, ss, now, channel)
  PROVE  /\ paused' \in [Panes -> BOOLEAN] /\ pending_input' \in [Panes -> Sequences]
         /\ to_screen' \in Seq(Messages)
         /\ Elems(channel) \subseteq Elems(to_screen')
         /\ \A o \in Panes \ {p} : paused'[o] = paused[o] /\ pending_input'[o] = pending_input[o]
         /\ paused'[p] => \E m \in Elems(to_screen') : m.kind = "query" /\ m.pane = p
         /\ pending_input'[p] # <<>> => paused'[p]
<1> DEFINE qs == QueriesOf(p, ss)
<1>1. /\ paused' = [paused EXCEPT ![p] = PausesAfter(p, ss)]
      /\ pending_input' = [pending_input EXCEPT ![p] = Rest(ss)]
      /\ to_screen' = channel \o qs
  BY DEF Feed
<1>2. PausesAfter(p, ss) <=> qs # <<>>
  BY DEF PausesAfter
<1>3. qs \in Seq(Messages) /\ \A m \in Elems(qs) : m.kind = "query" /\ m.pane = p
  <2>1. CASE \E k \in DOMAIN ss : Asks(ss[k])
    <3> DEFINE q == ss[Consumed(ss)]
    <3>1. q \in [n : Nat, lanes : PtySequences]
      BY <2>1, ConsumedFacts, ElementOfSeq DEF Sequences
    <3>2. q.n \in Nat /\ q.lanes \in Seq(Lanes \cup {"local"})
      BY <3>1 DEF ForwardAssumption
    <3>3. DOMAIN q.lanes = 1 .. Len(q.lanes) /\ Len(q.lanes) \in Nat
          /\ \A i \in 1 .. Len(q.lanes) : q.lanes[i] \in Lanes \cup {"local"}
      BY <3>2, LenProperties, ElementOfSeq
    <3>4. qs = [i \in 1 .. Len(q.lanes) |-> Query(p, q.n + i - 1, q.lanes[i])]
      BY <2>1, <3>3 DEF QueriesOf
    <3> HIDE DEF q, qs
    <3>5. \A i \in 1 .. Len(q.lanes) :
            /\ Query(p, q.n + i - 1, q.lanes[i]) \in Messages
            /\ Query(p, q.n + i - 1, q.lanes[i]).kind = "query"
            /\ Query(p, q.n + i - 1, q.lanes[i]).pane = p
      <4> TAKE i \in 1 .. Len(q.lanes)
      <4>1. q.n + i - 1 \in Nat
        BY <3>2, <3>3
      <4> QED
        BY <3>3, <4>1 DEF Query, Messages, Queries
    <3>6. qs \in [1 .. Len(q.lanes) -> Messages]
      BY <3>4, <3>5
    <3>7. qs \in Seq(Messages) /\ Len(qs) = Len(q.lanes)
      BY <3>3, <3>6
    <3>8. \A i \in 1 .. Len(qs) : qs[i].kind = "query" /\ qs[i].pane = p
      BY <3>4, <3>5, <3>7
    <3> QED
      BY <3>7, <3>8 DEF Elems
  <2>2. CASE ~\E k \in DOMAIN ss : Asks(ss[k])
    <3>1. qs = <<>>
      BY <2>2 DEF QueriesOf
    <3> HIDE DEF qs
    <3> QED
      BY <3>1 DEF Elems
  <2> QED
    BY <2>1, <2>2
<1>4. Rest(ss) # <<>> => qs # <<>>
  <2>1. ASSUME ~\E k \in DOMAIN ss : Asks(ss[k])
        PROVE  Rest(ss) = <<>>
    <3>1. Consumed(ss) = Len(ss) /\ Len(ss) \in Nat
      BY <2>1, ConsumedFacts
    <3>2. SubSeq(ss, Len(ss) + 1, Len(ss)) = <<>>
      BY <3>1, SubSeqEmpty
    <3> QED
      BY <3>1, <3>2 DEF Rest
  <2>2. ASSUME \E k \in DOMAIN ss : Asks(ss[k])
        PROVE  qs # <<>>
    <3> DEFINE q == ss[Consumed(ss)]
    <3>1. q \in [n : Nat, lanes : PtySequences] /\ q.lanes # <<>>
      BY <2>2, ConsumedFacts, ElementOfSeq DEF Sequences, Asks
    <3>2. q.lanes \in Seq(Lanes \cup {"local"})
      BY <3>1 DEF ForwardAssumption
    <3>3. DOMAIN q.lanes = 1 .. Len(q.lanes) /\ Len(q.lanes) \in Nat \ {0}
      BY <3>1, <3>2, LenProperties, EmptySeq
    <3>4. qs = [i \in 1 .. Len(q.lanes) |-> Query(p, q.n + i - 1, q.lanes[i])]
      BY <2>2, <3>3 DEF QueriesOf
    <3> HIDE DEF q, qs
    <3>5. 1 \in DOMAIN qs
      BY <3>3, <3>4
    <3>6. DOMAIN <<>> = {}
      OBVIOUS
    <3> QED
      BY <3>5, <3>6
  <2> QED
    BY <2>1, <2>2
<1>5. Rest(ss) \in Sequences
  <2>1. Consumed(ss) \in Nat /\ Len(ss) \in Nat
    BY ConsumedFacts
  <2>2. \A i \in Consumed(ss) + 1 .. Len(ss) : ss[i] \in [n : Nat, lanes : PtySequences]
    <3> TAKE i \in Consumed(ss) + 1 .. Len(ss)
    <3>1. i \in 1 .. Len(ss)
      BY <2>1
    <3> QED
      BY <3>1, ElementOfSeq DEF Sequences
  <2>3. Rest(ss) \in Seq([n : Nat, lanes : PtySequences])
    BY <2>1, <2>2, SubSeqProperties DEF Rest
  <2> QED
    BY <2>3 DEF Sequences
<1> HIDE DEF qs
<1>6. to_screen' \in Seq(Messages) /\ Elems(to_screen') = Elems(channel) \cup Elems(qs)
  BY <1>1, <1>3, ElemsFacts
<1>7. qs # <<>> => Elems(qs) # {}
  BY <1>3, ElemsFacts
<1>8. paused' \in [Panes -> BOOLEAN] /\ pending_input' \in [Panes -> Sequences]
  BY <1>1, <1>2, <1>5 DEF PaneTypes, PausesAfter
<1>9. /\ paused'[p] <=> qs # <<>>
      /\ pending_input'[p] = Rest(ss)
      /\ \A o \in Panes \ {p} : paused'[o] = paused[o] /\ pending_input'[o] = pending_input[o]
  BY <1>1, <1>2 DEF PaneTypes
<1> QED
  BY <1>3, <1>4, <1>6, <1>7, <1>8, <1>9
-----------------------------------------------------------------------------

\* What is said of the lanes, and of what is under way, survives a step that leaves
\* the lanes alone and takes nothing out of Screen's channel.
LEMMA LanesKept ==
  ASSUME IInv, UNCHANGED <<next_token, in_flight, entries, waiting>>,
         Elems(to_screen) \subseteq Elems(to_screen')
  PROVE  /\ LaneTypes' /\ TokensInv' /\ EntriesInv'
         /\ \A t : Coming(t) => Coming(t)'
         /\ \A p : UnderWay(p) => UnderWay(p)'
<1>1. LaneTypes' /\ TokensInv' /\ EntriesInv'
  BY DEF IInv, LaneTypes, TokensInv, EntriesInv
<1>2. \A t : Coming(t) => Coming(t)'
  BY DEF Coming
<1>3. \A p : UnderWay(p) => UnderWay(p)'
  BY DEF UnderWay
<1> QED
  BY <1>1, <1>2, <1>3

LEMMA PtyBytesKeeps ==
  ASSUME ForwardAssumption, IInv, NEW p \in Panes, NEW lanes \in PtySequences, PtyBytes(p, lanes)
  PROVE  IInv'
<1> DEFINE s == Sequence(asked[p] + 1, lanes)
<1>1. /\ p \in open /\ UNCHANGED <<open, laneVars, serverVars>>
      /\ asked' = [asked EXCEPT ![p] = @ + (IF lanes = <<>> THEN 1 ELSE Len(lanes))]
      /\ IF paused[p]
           THEN /\ pending_input' = [pending_input EXCEPT ![p] = Append(@, s)]
                /\ UNCHANGED <<paused, answered, to_screen>>
           ELSE Feed(p, <<s>>, <<>>, to_screen)
  BY DEF PtyBytes
<1>2. asked \in [Panes -> Nat] /\ PaneTypes /\ to_screen \in Seq(Messages)
  BY DEF IInv, PaneTypes, ChannelType
<1>3. s \in [n : Nat, lanes : PtySequences]
  BY <1>2 DEF Sequence
<1>4. asked' \in [Panes -> Nat]
  <2>1. lanes \in Seq(Lanes \cup {"local"})
    BY DEF ForwardAssumption
  <2>2. Len(lanes) \in Nat
    BY <2>1, LenProperties
  <2> QED
    BY <1>1, <1>2, <2>2
<1>5. /\ paused' \in [Panes -> BOOLEAN] /\ pending_input' \in [Panes -> Sequences]
      /\ to_screen' \in Seq(Messages) /\ Elems(to_screen) \subseteq Elems(to_screen')
      /\ \A o \in open : (paused'[o] => UnderWay(o)') /\ (pending_input'[o] # <<>> => paused'[o])
  <2> HIDE DEF s
  <2>1. CASE paused[p]
    <3>1. Append(pending_input[p], s) \in Sequences
      <4>1. pending_input[p] \in Seq([n : Nat, lanes : PtySequences])
        BY <1>2 DEF PaneTypes, Sequences
      <4> QED
        BY <1>3, <4>1, AppendProperties DEF Sequences
    <3>2. /\ pending_input' = [pending_input EXCEPT ![p] = Append(pending_input[p], s)]
          /\ paused' = paused /\ to_screen' = to_screen
      BY <1>1, <2>1
    <3>3. \A o : UnderWay(o) => UnderWay(o)'
      BY <1>1, <3>2, LanesKept DEF laneVars
    <3>4. \A o \in open : o \in Panes /\ (paused[o] => UnderWay(o))
                          /\ (pending_input[o] # <<>> => paused[o])
      BY DEF IInv, PausesInv, PaneTypes
    <3> QED
      BY <1>2, <2>1, <3>1, <3>2, <3>3, <3>4 DEF PaneTypes
  <2>2. CASE ~paused[p]
    <3>1. <<s>> \in Sequences
      BY <1>3 DEF Sequences
    <3>2. Feed(p, <<s>>, <<>>, to_screen)
      BY <1>1, <2>2
    <3> DEFINE ss == <<s>>
               now == <<>>
    <3> HIDE DEF ss, now
    <3>3. /\ paused' \in [Panes -> BOOLEAN] /\ pending_input' \in [Panes -> Sequences]
          /\ to_screen' \in Seq(Messages)
          /\ Elems(to_screen) \subseteq Elems(to_screen')
          /\ \A o \in Panes \ {p} : paused'[o] = paused[o] /\ pending_input'[o] = pending_input[o]
          /\ paused'[p] => \E m \in Elems(to_screen') : m.kind = "query" /\ m.pane = p
          /\ pending_input'[p] # <<>> => paused'[p]
      BY <1>2, <3>1, <3>2, FeedFacts DEF ss, now
    <3>4. \A o : UnderWay(o) => UnderWay(o)'
      BY <1>1, <3>3, LanesKept DEF laneVars
    <3>5. paused'[p] => UnderWay(p)'
      BY <3>3 DEF UnderWay
    <3>6. \A o \in open : o \in Panes /\ (paused[o] => UnderWay(o))
                          /\ (pending_input[o] # <<>> => paused[o])
      BY DEF IInv, PausesInv, PaneTypes
    <3> QED
      BY <3>3, <3>4, <3>5, <3>6
  <2> QED
    BY <2>1, <2>2
<1>6. /\ LaneTypes' /\ TokensInv' /\ EntriesInv'
      /\ \A t : Coming(t) => Coming(t)'
  BY <1>1, <1>5, LanesKept DEF laneVars
<1>7. PaneTypes' /\ ChannelType' /\ PausesInv'
  BY <1>1, <1>4, <1>5 DEF IInv, PaneTypes, ChannelType, PausesInv
<1>8. ServerTypes'
  BY <1>1 DEF IInv, ServerTypes, laneVars, serverVars
<1>9. ReleaserInv' /\ HandsInv'
  BY <1>1, <1>6 DEF IInv, ReleaserInv, HandsInv, HeldBySomebody, laneVars, serverVars
<1> QED
  BY <1>6, <1>7, <1>8, <1>9 DEF IInv

LEMMA ClosePaneKeeps ==
  ASSUME IInv, NEW p \in Panes, ClosePane(p)
  PROVE  IInv'
<1>1. /\ open' = open \ {p}
      /\ UNCHANGED <<asked, paused, pending_input, to_screen, laneVars, serverVars>>
  BY DEF ClosePane
<1>2. /\ LaneTypes' /\ TokensInv' /\ EntriesInv'
      /\ \A t : Coming(t) => Coming(t)'
      /\ \A o : UnderWay(o) => UnderWay(o)'
  BY <1>1, LanesKept DEF laneVars
<1>3. PaneTypes' /\ ServerTypes' /\ ChannelType'
  BY <1>1 DEF IInv, PaneTypes, ServerTypes, ChannelType, laneVars, serverVars
<1>4. ReleaserInv' /\ HandsInv' /\ PausesInv'
  BY <1>1, <1>2 DEF IInv, ReleaserInv, HandsInv, HeldBySomebody, PausesInv, laneVars, serverVars
<1> QED
  BY <1>2, <1>3, <1>4 DEF IInv

\* A step of the server's other threads that adds to Screen's channel, keeps the types,
\* and leaves every token in flight a releaser and a holder.
LEMMA ServerStep ==
  ASSUME IInv, UNCHANGED <<paneVars, next_token, in_flight, entries, waiting>>,
         ChannelType', ServerTypes', Elems(to_screen) \subseteq Elems(to_screen'),
         \A t \in Issued : t \in deadlines => t \in deadlines' \/ Coming(t)',
         \A t \in Issued : HeldBySomebody(t) => HeldBySomebody(t)'
  PROVE  IInv'
<1>1. /\ LaneTypes' /\ TokensInv' /\ EntriesInv'
      /\ \A t : Coming(t) => Coming(t)'
      /\ \A o : UnderWay(o) => UnderWay(o)'
  BY LanesKept
<1>2. PaneTypes' /\ PausesInv'
  BY <1>1 DEF IInv, PaneTypes, PausesInv, paneVars
<1>3. \A lane \in Lanes : in_flight[lane] # Sentinel => in_flight[lane] \in Issued
  BY DEF IInv, LaneTypes, Sentinel, Issued
<1>4. ReleaserInv'
  BY <1>1, <1>3 DEF IInv, ReleaserInv
<1>5. HandsInv'
  BY <1>1, <1>3 DEF IInv, HandsInv
<1> QED
  BY <1>1, <1>2, <1>4, <1>5 DEF IInv

\* A reply that is added comes, and nothing is taken away.
LEMMA ReplyAdded ==
  ASSUME ChannelType, NEW t \in Issued, NEW bytes \in {"cache", "host"},
         to_screen' = Append(to_screen, Reply(t, bytes))
  PROVE  ChannelType' /\ Elems(to_screen) \subseteq Elems(to_screen') /\ Coming(t)'
<1>1. Reply(t, bytes) \in Messages /\ Reply(t, bytes).kind = "reply" /\ Reply(t, bytes).token = t
  BY DEF Reply, Messages, Replies
<1> DEFINE m == Reply(t, bytes)
<1> HIDE DEF m
<1>2. to_screen' \in Seq(Messages) /\ Elems(to_screen') = Elems(to_screen) \cup {m}
  BY <1>1, ElemsFacts DEF ChannelType, m
<1>3. Coming(t)'
  BY <1>1, <1>2 DEF Coming, m
<1> QED
  BY <1>2, <1>3 DEF ChannelType

LEMMA DeadlineKeeps ==
  ASSUME IInv, NEW t \in Tokens, Deadline(t)
  PROVE  IInv'
<1>1. /\ t \in deadlines /\ deadlines' = deadlines \ {t}
      /\ to_screen' = Append(to_screen, Reply(t, "cache"))
      /\ UNCHANGED <<paneVars, next_token, in_flight, entries, waiting, to_server, serverVars>>
  BY DEF Deadline
<1>2. t \in Issued /\ ChannelType /\ ServerTypes
  BY <1>1 DEF IInv, ServerTypes
<1>3. ChannelType' /\ Elems(to_screen) \subseteq Elems(to_screen') /\ Coming(t)'
  BY <1>1, <1>2, ReplyAdded
<1>4. ServerTypes'
  BY <1>1, <1>2 DEF ServerTypes, serverVars
<1>5. \A u \in Issued : u \in deadlines => u \in deadlines' \/ Coming(u)'
  BY <1>1, <1>3
<1>6. \A u : HeldBySomebody(u) => HeldBySomebody(u)'
  BY <1>1, <1>3 DEF HeldBySomebody, Coming, serverVars
<1> QED
  BY <1>1, <1>3, <1>4, <1>5, <1>6, ServerStep

\* Every member of a finite set is in each of its sequences.
LEMMA SequencesOfSet ==
  ASSUME NEW S, IsFiniteSet(S), NEW s \in SetToSeqs(S)
  PROVE  s \in Seq(S) /\ Elems(s) = S /\ DOMAIN s = 1 .. Len(s)
<1> DEFINE D == 1 .. Cardinality(S)
<1>1. Cardinality(S) \in Nat
  BY FS_CardinalityType
<1>2. s \in [D -> S] /\ \A i, j \in D : i # j => s[i] # s[j]
  BY DEF SetToSeqs
<1>3. s \in Injection(D, S)
  BY <1>2 DEF Injection, IsInjective
<1>4. Cardinality(D) = Cardinality(S)
  BY <1>1, FS_Interval
<1>5. s \in Surjection(D, S)
  <2> HIDE DEF D
  <2> QED
    BY <1>3, <1>4, FS_Injection
<1>6. s \in Seq(S) /\ Len(s) = Cardinality(S)
  BY <1>1, <1>2
<1>7. \A t \in S : \E i \in D : s[i] = t
  BY <1>5 DEF Surjection
<1> QED
  BY <1>2, <1>6, <1>7 DEF Elems

\* A client that goes gives an empty reply for each token in its hands.
LEMMA RemoveClientFacts ==
  ASSUME ChannelType, NEW c, NEW hand \in SUBSET (Issued \X Clients), IsFiniteSet(hand),
         RemoveClient(c, hand)
  PROVE  /\ ChannelType' /\ Elems(to_screen) \subseteq Elems(to_screen')
         /\ \A t : <<t, c>> \in hand => Coming(t)'
         /\ clients' = clients \ {c}
         /\ in_hand' \subseteq hand /\ IsFiniteSet(in_hand')
         /\ \A t, d : <<t, d>> \in hand /\ d # c => <<t, d>> \in in_hand'
         /\ \E r \in Seq(Messages) : /\ to_screen' = to_screen \o r
                                   /\ \A k \in 1 .. Len(r) : r[k].kind = "reply"
<1> DEFINE H == {g \in hand : g[2] = c}
           S == Stuck(c, hand)
           f == [h \in H |-> h[1]]
<1>1. IsFiniteSet(H)
  BY FS_Subset
<1>2. S = {h[1] : h \in H}
  BY DEF Stuck
<1>3. f \in Surjection(H, S)
  BY <1>2 DEF Surjection
<1>4. IsFiniteSet(S)
  <2> HIDE DEF H, S, f
  <2> QED
    BY <1>1, <1>3, FS_Surjection
<1>5. S \subseteq Issued
  BY <1>2
<1>6. \A t : <<t, c>> \in hand => t \in S
  <2> SUFFICES ASSUME NEW t, <<t, c>> \in hand PROVE t \in S
    OBVIOUS
  <2>1. <<t, c>> \in H
    OBVIOUS
  <2> QED
    BY <1>2, <2>1
<1>7. PICK s \in SetToSeqs(S) : to_screen' = to_screen \o [k \in DOMAIN s |-> Reply(s[k], "cache")]
  BY DEF RemoveClient
<1> HIDE DEF S, H, f
<1>8. s \in Seq(S) /\ Elems(s) = S /\ DOMAIN s = 1 .. Len(s) /\ Len(s) \in Nat
  BY <1>4, SequencesOfSet, LenProperties
<1> DEFINE r == [k \in 1 .. Len(s) |-> Reply(s[k], "cache")]
<1>9. \A k \in 1 .. Len(s) : /\ Reply(s[k], "cache") \in Messages
                             /\ Reply(s[k], "cache").kind = "reply"
                             /\ Reply(s[k], "cache").token = s[k]
  <2> TAKE k \in 1 .. Len(s)
  <2>1. s[k] \in Issued
    BY <1>5, <1>8, ElementOfSeq
  <2> QED
    BY <2>1 DEF Reply, Messages, Replies
<1>10. r \in Seq(Messages) /\ Len(r) = Len(s)
  <2>1. r \in [1 .. Len(s) -> Messages]
    BY <1>9
  <2> QED
    BY <1>8, <2>1
<1>11. \A t \in S : \E m \in Elems(r) : m.kind = "reply" /\ m.token = t
  <2> TAKE t \in S
  <2>1. PICK k \in 1 .. Len(s) : s[k] = t
    BY <1>8 DEF Elems
  <2>2. k \in 1 .. Len(r) /\ r[k] = Reply(s[k], "cache")
    BY <1>10
  <2>3. r[k] \in Elems(r)
    BY <2>2 DEF Elems
  <2> QED
    BY <1>9, <2>1, <2>2, <2>3
<1>12. to_screen' = to_screen \o r
  BY <1>7, <1>8
<1>18. \A k \in 1 .. Len(r) : r[k].kind = "reply"
  BY <1>9, <1>10
<1> HIDE DEF r
<1>13. to_screen' \in Seq(Messages) /\ Elems(to_screen') = Elems(to_screen) \cup Elems(r)
  BY <1>10, <1>12, ElemsFacts DEF ChannelType
<1>14. \A t \in S : Coming(t)'
  BY <1>11, <1>13 DEF Coming
<1>15. clients' = clients \ {c} /\ in_hand' = {h \in hand : h[2] # c}
  BY DEF RemoveClient
<1>16. in_hand' \subseteq hand /\ IsFiniteSet(in_hand')
  BY <1>15, FS_Subset
<1>17. \A t, d : <<t, d>> \in hand /\ d # c => <<t, d>> \in in_hand'
  BY <1>15
<1> QED
  BY <1>6, <1>10, <1>12, <1>13, <1>14, <1>15, <1>16, <1>17, <1>18 DEF ChannelType

LEMMA ForwardQueryToHostKeeps ==
  ASSUME IInv, ForwardQueryToHost
  PROVE  IInv'
<1>1. /\ to_server # <<>> /\ to_server' = Tail(to_server)
      /\ UNCHANGED <<paneVars, next_token, in_flight, entries, waiting, deadlines>>
  BY DEF ForwardQueryToHost
<1>2. ChannelType /\ ServerTypes
  BY DEF IInv
<1>3. PICK t \in Issued : t = Head(to_server) /\ Elems(to_server) = {t} \cup Elems(to_server')
  BY <1>1, <1>2, ElemsFacts DEF ServerTypes
<1>4. to_server' \in Seq(Issued)
  BY <1>1, <1>2, ElemsFacts DEF ServerTypes
<1>5. \A c \in Targets : c \in clients /\ c \in Clients
  BY <1>2 DEF Targets, ServerTypes
<1>6. \/ /\ to_screen' = Append(to_screen, Reply(t, "cache"))
         /\ UNCHANGED serverVars
      \/ \E c \in Targets :
           /\ in_hand' = in_hand \cup {<<t, c>>}
           /\ sent' = [sent EXCEPT ![c] = @ \cup {t}]
           /\ UNCHANGED <<to_screen, clients, routed, last_active>>
      \/ \E c \in Targets :
           /\ RemoveClient(c, in_hand \cup {<<t, c>>})
           /\ UNCHANGED <<routed, sent>>
  BY <1>3 DEF ForwardQueryToHost
<1>7. CASE to_screen' = Append(to_screen, Reply(t, "cache")) /\ UNCHANGED serverVars
  <2>1. ChannelType' /\ Elems(to_screen) \subseteq Elems(to_screen') /\ Coming(t)'
    BY <1>2, <1>3, <1>7, ReplyAdded
  <2>2. ServerTypes'
    BY <1>1, <1>2, <1>7, <1>4 DEF ServerTypes, serverVars
  <2>3. \A u : HeldBySomebody(u) => HeldBySomebody(u)'
    BY <1>3, <1>7, <2>1 DEF HeldBySomebody, Coming, serverVars
  <2> QED
    BY <1>1, <2>1, <2>2, <2>3, ServerStep
<1>8. ASSUME NEW c \in Targets, in_hand' = in_hand \cup {<<t, c>>},
             sent' = [sent EXCEPT ![c] = @ \cup {t}],
             UNCHANGED <<to_screen, clients, routed, last_active>>
      PROVE  IInv'
  <2>1. ChannelType' /\ Elems(to_screen) \subseteq Elems(to_screen')
    BY <1>2, <1>8 DEF ChannelType
  <2>2. in_hand' \in SUBSET (Issued \X Clients) /\ IsFiniteSet(in_hand')
    <3>1. in_hand \in SUBSET (Issued \X Clients) /\ IsFiniteSet(in_hand)
      BY <1>2 DEF ServerTypes
    <3>2. c \in Clients
      BY <1>5
    <3>3. <<t, c>> \in Issued \X Clients
      BY <1>3, <3>2
    <3>4. IsFiniteSet(in_hand \cup {<<t, c>>})
      BY <3>1, FS_AddElement
    <3> QED
      BY <1>8, <3>1, <3>3, <3>4
  <2>3. sent' \in [Clients -> SUBSET Issued]
    BY <1>2, <1>3, <1>5, <1>8 DEF ServerTypes
  <2>4. ServerTypes'
    BY <1>1, <1>2, <1>8, <1>4, <2>2, <2>3 DEF ServerTypes
  <2>5. \A u : HeldBySomebody(u) => HeldBySomebody(u)'
    BY <1>3, <1>5, <1>8 DEF HeldBySomebody, Coming
  <2> QED
    BY <1>1, <2>1, <2>4, <2>5, ServerStep
<1>9. ASSUME NEW c \in Targets, RemoveClient(c, in_hand \cup {<<t, c>>}), UNCHANGED <<routed, sent>>
      PROVE  IInv'
  <2> DEFINE hand == in_hand \cup {<<t, c>>}
  <2>1. hand \in SUBSET (Issued \X Clients) /\ IsFiniteSet(hand)
    <3>1. in_hand \in SUBSET (Issued \X Clients) /\ IsFiniteSet(in_hand)
      BY <1>2 DEF ServerTypes
    <3>2. c \in Clients
      BY <1>5
    <3>3. <<t, c>> \in Issued \X Clients
      BY <1>3, <3>2
    <3>4. IsFiniteSet(in_hand \cup {<<t, c>>})
      BY <3>1, FS_AddElement
    <3> QED
      BY <3>1, <3>3, <3>4
  <2>2. in_hand \subseteq hand /\ <<t, c>> \in hand /\ RemoveClient(c, hand)
    BY <1>9
  <2> HIDE DEF hand
  <2>3. /\ ChannelType' /\ Elems(to_screen) \subseteq Elems(to_screen')
        /\ \A u : <<u, c>> \in hand => Coming(u)'
        /\ clients' = clients \ {c}
        /\ in_hand' \subseteq hand /\ IsFiniteSet(in_hand')
        /\ \A u, d : <<u, d>> \in hand /\ d # c => <<u, d>> \in in_hand'
    BY <1>2, <2>1, <2>2, RemoveClientFacts
  <2>4. ServerTypes'
    BY <1>1, <1>2, <1>9, <1>4, <2>1, <2>3 DEF ServerTypes
  <2>5. \A u : HeldBySomebody(u) => HeldBySomebody(u)'
    BY <1>3, <2>2, <2>3 DEF HeldBySomebody, Coming
  <2> QED
    BY <1>1, <2>3, <2>4, <2>5, ServerStep
<1> QED
  BY <1>6, <1>7, <1>8, <1>9

LEMMA RouteReplyKeeps ==
  ASSUME IInv, NEW c \in Clients, NEW t \in Tokens, RouteReply(c, t)
  PROVE  IInv'
<1>1. /\ t \in sent[c]
      /\ sent' = [sent EXCEPT ![c] = @ \ {t}]
      /\ in_hand' = {h \in in_hand : h[1] # t}
      /\ to_screen' = Append(to_screen, Reply(t, "host"))
      /\ UNCHANGED <<paneVars, next_token, in_flight, entries, waiting, deadlines, to_server, clients>>
  BY DEF RouteReply, laneVars
<1>2. ChannelType /\ ServerTypes /\ t \in Issued
  BY <1>1 DEF IInv, ServerTypes
<1>3. ChannelType' /\ Elems(to_screen) \subseteq Elems(to_screen') /\ Coming(t)'
  BY <1>1, <1>2, ReplyAdded
<1>4. IsFiniteSet(in_hand')
  BY <1>1, <1>2, FS_Subset DEF ServerTypes
<1>5. ServerTypes'
  BY <1>1, <1>2, <1>4 DEF ServerTypes
<1>6. ASSUME NEW u \in Issued, HeldBySomebody(u)
      PROVE  HeldBySomebody(u)'
  <2>1. CASE u = t
    BY <1>3, <2>1 DEF HeldBySomebody
  <2>2. CASE u # t
    BY <1>1, <1>3, <1>6, <2>2 DEF HeldBySomebody, Coming
  <2> QED
    BY <2>1, <2>2
<1> QED
  BY <1>1, <1>3, <1>5, <1>6, ServerStep

LEMMA RouteKeyKeeps ==
  ASSUME IInv, NEW c \in Clients, RouteKey(c)
  PROVE  IInv'
<1>1. UNCHANGED <<paneVars, to_screen, next_token, in_flight, entries, waiting, deadlines,
                  to_server, clients, in_hand, sent>>
  BY DEF RouteKey, laneVars
<1>2. ChannelType' /\ ServerTypes'
  BY <1>1 DEF IInv, ChannelType, ServerTypes
<1>3. \A u : HeldBySomebody(u) => HeldBySomebody(u)'
  BY <1>1 DEF HeldBySomebody, Coming
<1> QED
  BY <1>1, <1>2, <1>3, ServerStep

LEMMA ClientExitKeeps ==
  ASSUME IInv, NEW c \in Clients, ClientExit(c)
  PROVE  IInv'
<1>1. /\ RemoveClient(c, in_hand) /\ sent' = [sent EXCEPT ![c] = {}]
      /\ UNCHANGED <<paneVars, next_token, in_flight, entries, waiting, deadlines, to_server>>
  BY DEF ClientExit, laneVars
<1>2. ChannelType /\ ServerTypes
  BY DEF IInv
<1>3. in_hand \in SUBSET (Issued \X Clients) /\ IsFiniteSet(in_hand)
  BY <1>2 DEF ServerTypes
<1>4. /\ ChannelType' /\ Elems(to_screen) \subseteq Elems(to_screen')
      /\ \A u : <<u, c>> \in in_hand => Coming(u)'
      /\ clients' = clients \ {c}
      /\ in_hand' \subseteq in_hand /\ IsFiniteSet(in_hand')
      /\ \A u, d : <<u, d>> \in in_hand /\ d # c => <<u, d>> \in in_hand'
  BY <1>1, <1>2, <1>3, RemoveClientFacts
<1>5. ServerTypes'
  BY <1>1, <1>2, <1>4 DEF ServerTypes
<1>6. \A u : HeldBySomebody(u) => HeldBySomebody(u)'
  BY <1>1, <1>4 DEF HeldBySomebody, Coming
<1> QED
  BY <1>1, <1>4, <1>5, <1>6, ServerStep
-----------------------------------------------------------------------------

\* A pane that is resumed has a query of its own under way if it is paused again.
LEMMA ResumeFacts ==
  ASSUME ForwardAssumption, PaneTypes, NEW p \in Panes, NEW n, NEW bytes,
         NEW channel \in Seq(Messages), Resume(p, n, bytes, channel), UNCHANGED <<open, asked>>
  PROVE  /\ PaneTypes' /\ ChannelType'
         /\ Elems(channel) \subseteq Elems(to_screen')
         /\ \A o \in open \ {p} : paused'[o] = paused[o] /\ pending_input'[o] = pending_input[o]
         /\ p \in open =>
              /\ paused'[p] => \E m \in Elems(to_screen') : m.kind = "query" /\ m.pane = p
              /\ pending_input'[p] # <<>> => paused'[p]
<1>1. CASE p \in open
  <2> DEFINE now == <<Answered(n, bytes)>>
  <2>1. Feed(p, pending_input[p], now, channel)
    BY <1>1 DEF Resume
  <2>2. pending_input[p] \in Sequences
    BY DEF PaneTypes
  <2> DEFINE ss == pending_input[p]
  <2> HIDE DEF now
  <2>3. /\ paused' \in [Panes -> BOOLEAN] /\ pending_input' \in [Panes -> Sequences]
        /\ to_screen' \in Seq(Messages)
        /\ Elems(channel) \subseteq Elems(to_screen')
        /\ \A o \in Panes \ {p} : paused'[o] = paused[o] /\ pending_input'[o] = pending_input[o]
        /\ paused'[p] => \E m \in Elems(to_screen') : m.kind = "query" /\ m.pane = p
        /\ pending_input'[p] # <<>> => paused'[p]
    BY <2>1, <2>2, FeedFacts
  <2>4. open \subseteq Panes
    BY DEF PaneTypes
  <2> QED
    BY <2>3, <2>4 DEF PaneTypes, ChannelType
<1>2. CASE p \notin open
  <2>1. to_screen' = channel /\ UNCHANGED <<paused, pending_input>>
    BY <1>2 DEF Resume
  <2> QED
    BY <1>2, <2>1 DEF PaneTypes, ChannelType
<1> QED
  BY <1>1, <1>2

\* Screen answers a query itself.
LEMMA AnsweredLocally ==
  ASSUME ForwardAssumption, IInv, to_screen # <<>>, NEW q \in Queries, q = Head(to_screen),
         Resume(q.pane, q.n, "cache", Tail(to_screen)),
         UNCHANGED <<open, asked, laneVars, serverVars>>
  PROVE  IInv'
<1>1. q.pane \in Panes /\ q.kind = "query"
  BY DEF Queries
<1>2. PaneTypes /\ ChannelType
  BY DEF IInv
<1>3. Tail(to_screen) \in Seq(Messages) /\ Elems(to_screen) = {q} \cup Elems(Tail(to_screen))
  BY <1>2, ElemsFacts DEF ChannelType
<1>4. /\ PaneTypes' /\ ChannelType'
      /\ Elems(Tail(to_screen)) \subseteq Elems(to_screen')
      /\ \A o \in open \ {q.pane} : paused'[o] = paused[o] /\ pending_input'[o] = pending_input[o]
      /\ q.pane \in open =>
           /\ paused'[q.pane] => \E m \in Elems(to_screen') : m.kind = "query" /\ m.pane = q.pane
           /\ pending_input'[q.pane] # <<>> => paused'[q.pane]
  BY <1>1, <1>2, <1>3, ResumeFacts
<1>5. \A t : Coming(t) => Coming(t)'
  <2> SUFFICES ASSUME NEW t, Coming(t) PROVE Coming(t)'
    OBVIOUS
  <2>1. PICK m \in Elems(to_screen) : m.kind = "reply" /\ m.token = t
    BY DEF Coming
  <2>2. m \in Elems(to_screen')
    BY <1>1, <1>3, <1>4, <2>1
  <2> QED
    BY <2>1, <2>2 DEF Coming
<1>6. LaneTypes' /\ TokensInv' /\ EntriesInv' /\ ServerTypes'
  BY DEF IInv, LaneTypes, TokensInv, EntriesInv, ServerTypes, laneVars, serverVars
<1>7. ReleaserInv' /\ HandsInv'
  BY <1>5 DEF IInv, ReleaserInv, HandsInv, HeldBySomebody, laneVars, serverVars
<1>8. PausesInv'
  <2> SUFFICES ASSUME NEW o \in open
               PROVE  (paused'[o] => UnderWay(o)') /\ (pending_input'[o] # <<>> => paused'[o])
    BY DEF PausesInv
  <2>1. CASE o = q.pane
    BY <1>4, <2>1 DEF UnderWay
  <2>2. CASE o # q.pane
    <3>1. UnderWay(o) => UnderWay(o)'
      BY <1>3, <1>4, <2>2 DEF UnderWay, laneVars
    <3> QED
      BY <1>4, <2>2, <3>1 DEF IInv, PausesInv
  <2> QED
    BY <2>1, <2>2
<1> QED
  BY <1>4, <1>6, <1>7, <1>8 DEF IInv

\* A query gets a token, and waits behind the one in flight or is dispatched.
LEMMA GivenToken ==
  ASSUME IInv, to_screen # <<>>, NEW q \in Queries, q = Head(to_screen), NEW lane \in Lanes,
         NEW e, e = Pending(next_token, q.pane, q.n),
         to_screen' = Tail(to_screen), next_token' = next_token + 1,
         \/ /\ in_flight[lane] # Sentinel
            /\ waiting' = [waiting EXCEPT ![lane] = Append(@, e)]
            /\ UNCHANGED <<in_flight, entries, deadlines, to_server>>
         \/ /\ in_flight[lane] = Sentinel
            /\ Dispatch(lane, e, entries[lane]) /\ UNCHANGED waiting,
         UNCHANGED <<open, asked, paused, pending_input, serverVars>>
  PROVE  IInv'
<1>1. /\ e \in Entries /\ e.token = next_token /\ e.pane = q.pane /\ next_token \in Issued
      /\ q.pane \in Panes /\ q.kind = "query"
  BY DEF Queries, Pending, Entries, IInv, LaneTypes
<1>2. ChannelType /\ LaneTypes /\ TokensInv /\ EntriesInv /\ ServerTypes
  BY DEF IInv
<1>3. Tail(to_screen) \in Seq(Messages) /\ Elems(to_screen) = {q} \cup Elems(to_screen')
  BY <1>2, ElemsFacts DEF ChannelType
<1>4. \A t : Coming(t) => Coming(t)'
  BY <1>1, <1>3 DEF Coming
<1>5. PaneTypes' /\ ChannelType'
  BY <1>3 DEF IInv, PaneTypes, ChannelType
<1>6. next_token' \in Issued /\ next_token' > next_token
  BY <1>1 DEF Issued
<1>7. waiting[lane] \in Seq(Entries) /\ Len(waiting[lane]) \in Nat
  BY <1>2, LenProperties DEF LaneTypes
<1>8. CASE /\ in_flight[lane] # Sentinel
           /\ waiting' = [waiting EXCEPT ![lane] = Append(@, e)]
           /\ UNCHANGED <<in_flight, entries, deadlines, to_server>>
  <2> DEFINE w == Append(waiting[lane], e)
  <2>1. /\ w \in Seq(Entries) /\ w # <<>> /\ Len(w) = Len(waiting[lane]) + 1
        /\ \A k \in 1 .. Len(waiting[lane]) : w[k] = waiting[lane][k]
        /\ w[Len(waiting[lane]) + 1] = e
        /\ Elems(w) = Elems(waiting[lane]) \cup {e}
    BY <1>1, <1>7, AppendProperties, ElemsFacts
  <2>2. waiting' = [waiting EXCEPT ![lane] = w]
    BY <1>8
  <2> HIDE DEF w
  <2>3. waiting'[lane] = w /\ \A l \in Lanes : l # lane => waiting'[l] = waiting[l]
    BY <1>2, <2>2 DEF LaneTypes
  <2>4. LaneTypes'
    <3>1. waiting' \in [Lanes -> Seq(Entries)]
      BY <1>2, <2>1, <2>2 DEF LaneTypes
    <3>2. in_flight' \in [Lanes -> Nat]
      BY <1>2, <1>8 DEF LaneTypes
    <3>3. entries' \in [Lanes -> SUBSET Entries]
      BY <1>2, <1>8 DEF LaneTypes
    <3>4. next_token' \in Issued
      BY <1>6
    <3> QED
      BY ONLY <3>1, <3>2, <3>3, <3>4 DEF LaneTypes
  <2>5. \A l \in Lanes : \A k \in 1 .. Len(waiting'[l]) :
          \/ /\ k \in 1 .. Len(waiting[l])
             /\ waiting'[l][k] = waiting[l][k]
          \/ l = lane /\ k = Len(waiting[lane]) + 1 /\ waiting'[l][k] = e
    BY <1>7, <2>1, <2>3
  <2>6. TokensInv'
    <3>1. \A l \in Lanes : in_flight'[l] < next_token' /\ in_flight'[l] # next_token
      BY <1>1, <1>2, <1>6, <1>8 DEF TokensInv, LaneTypes, Issued
    <3>2. \A l \in Lanes : \A k \in 1 .. Len(waiting[l]) :
            waiting[l][k].token < next_token' /\ waiting[l][k].token # next_token
      <4> TAKE l \in Lanes
      <4> TAKE k \in 1 .. Len(waiting[l])
      <4>1. waiting[l][k] \in Entries
        BY <1>2, ElementOfSeq DEF LaneTypes
      <4> QED
        BY <1>1, <1>2, <1>6, <4>1 DEF TokensInv, Entries, Issued
    <3> SUFFICES ASSUME NEW l \in Lanes, NEW o \in Lanes
                 PROVE  /\ in_flight'[l] < next_token'
                        /\ in_flight'[l] # Sentinel /\ in_flight'[l] = in_flight'[o] => l = o
                        /\ \A k \in 1 .. Len(waiting'[l]) :
                             /\ waiting'[l][k].token < next_token'
                             /\ waiting'[l][k].token # in_flight'[o]
                             /\ \A j \in 1 .. Len(waiting'[o]) :
                                  waiting'[l][k].token = waiting'[o][j].token => l = o /\ k = j
      BY DEF TokensInv
    <3>3. in_flight'[l] # Sentinel /\ in_flight'[l] = in_flight'[o] => l = o
      BY <1>2, <1>8 DEF TokensInv
    <3>4. ASSUME NEW k \in 1 .. Len(waiting'[l])
          PROVE  /\ waiting'[l][k].token < next_token'
                 /\ waiting'[l][k].token # in_flight'[o]
      <4>1. CASE k \in 1 .. Len(waiting[l]) /\ waiting'[l][k] = waiting[l][k]
        BY <1>2, <1>8, <3>2, <4>1 DEF TokensInv
      <4>2. CASE l = lane /\ k = Len(waiting[lane]) + 1 /\ waiting'[l][k] = e
        BY <1>1, <1>6, <3>1, <4>2 DEF Issued
      <4> QED
        BY <2>5, <4>1, <4>2
    <3>5. ASSUME NEW k \in 1 .. Len(waiting'[l]), NEW j \in 1 .. Len(waiting'[o]),
                 waiting'[l][k].token = waiting'[o][j].token
          PROVE  l = o /\ k = j
      <4>1. CASE k \in 1 .. Len(waiting[l]) /\ waiting'[l][k] = waiting[l][k]
        <5>1. CASE j \in 1 .. Len(waiting[o]) /\ waiting'[o][j] = waiting[o][j]
          BY <1>2, <3>5, <4>1, <5>1 DEF TokensInv
        <5>2. CASE o = lane /\ j = Len(waiting[lane]) + 1 /\ waiting'[o][j] = e
          BY <1>1, <3>2, <3>5, <4>1, <5>2
        <5> QED
          BY <2>5, <5>1, <5>2
      <4>2. CASE l = lane /\ k = Len(waiting[lane]) + 1 /\ waiting'[l][k] = e
        <5>1. CASE j \in 1 .. Len(waiting[o]) /\ waiting'[o][j] = waiting[o][j]
          BY <1>1, <3>2, <3>5, <4>2, <5>1
        <5>2. CASE o = lane /\ j = Len(waiting[lane]) + 1 /\ waiting'[o][j] = e
          BY <4>2, <5>2
        <5> QED
          BY <2>5, <5>1, <5>2
      <4> QED
        BY <2>5, <4>1, <4>2
    <3> QED
      BY <3>1, <3>3, <3>4, <3>5
  <2>7. EntriesInv'
    BY <1>2, <1>8, <2>3 DEF EntriesInv
  <2>8. ServerTypes' /\ ReleaserInv' /\ HandsInv'
    BY <1>4, <1>8 DEF IInv, ServerTypes, ReleaserInv, HandsInv, HeldBySomebody, serverVars
  <2>9. \A o : UnderWay(o) => UnderWay(o)'
    <3> SUFFICES ASSUME NEW o, UnderWay(o) PROVE UnderWay(o)'
      OBVIOUS
    <3>1. CASE \E m \in Elems(to_screen) : m.kind = "query" /\ m.pane = o
      <4>1. CASE o = q.pane
        BY <1>1, <2>1, <2>3, <4>1 DEF UnderWay
      <4>2. CASE o # q.pane
        BY <1>3, <3>1, <4>2 DEF UnderWay
      <4> QED
        BY <4>1, <4>2
    <3>2. CASE \E l \in Lanes : \E d \in entries[l] : d.pane = o
      BY <1>8, <3>2 DEF UnderWay
    <3>3. CASE \E l \in Lanes : \E d \in Elems(waiting[l]) : d.pane = o
      <4>1. \A l \in Lanes : Elems(waiting[l]) \subseteq Elems(waiting'[l])
        BY <2>1, <2>3
      <4> QED
        BY <3>3, <4>1 DEF UnderWay
    <3> QED
      BY <3>1, <3>2, <3>3 DEF UnderWay
  <2>10. PausesInv'
    BY <2>9 DEF IInv, PausesInv
  <2> QED
    BY <1>5, <2>4, <2>6, <2>7, <2>8, <2>10 DEF IInv
<1>9. CASE /\ in_flight[lane] = Sentinel
           /\ Dispatch(lane, e, entries[lane]) /\ UNCHANGED waiting
  <2>1. entries[lane] = {} /\ waiting[lane] = <<>>
    BY <1>2, <1>9 DEF EntriesInv
  <2>2. /\ in_flight' = [in_flight EXCEPT ![lane] = next_token]
        /\ entries' = [entries EXCEPT ![lane] = {e}]
        /\ to_server' = Append(to_server, next_token)
        /\ deadlines' = deadlines \cup {next_token}
        /\ waiting' = waiting
    BY <1>1, <1>9, <2>1 DEF Dispatch, Armed
  <2>3. /\ in_flight'[lane] = next_token /\ entries'[lane] = {e}
        /\ \A l \in Lanes : l # lane => in_flight'[l] = in_flight[l] /\ entries'[l] = entries[l]
    BY <1>2, <2>2 DEF LaneTypes
  <2>4. LaneTypes'
    BY <1>1, <1>2, <1>6, <2>2 DEF LaneTypes, Issued
  <2>5. to_server' \in Seq(Issued) /\ Elems(to_server') = Elems(to_server) \cup {next_token}
    BY <1>1, <1>2, <2>2, ElemsFacts DEF ServerTypes
  <2>6. ServerTypes'
    BY <1>1, <1>2, <2>2, <2>5 DEF ServerTypes, serverVars
  <2>7. TokensInv'
    <3>1. \A l \in Lanes : in_flight[l] < next_token /\ in_flight[l] \in Nat
      BY <1>2 DEF TokensInv, LaneTypes
    <3>2. \A l \in Lanes : \A k \in 1 .. Len(waiting[l]) :
            waiting[l][k].token < next_token /\ waiting[l][k].token \in Nat
      <4> TAKE l \in Lanes
      <4> TAKE k \in 1 .. Len(waiting[l])
      <4>1. waiting[l][k] \in Entries
        BY <1>2, ElementOfSeq DEF LaneTypes
      <4> QED
        BY <1>2, <4>1 DEF TokensInv, Entries, Issued
    <3>3. \A l \in Lanes : in_flight'[l] < next_token' /\ in_flight'[l] \in Nat
                           /\ (l # lane => in_flight'[l] < next_token)
      BY <1>1, <1>6, <2>3, <3>1 DEF Issued
    <3>4. \A l, o \in Lanes : in_flight'[l] # Sentinel /\ in_flight'[l] = in_flight'[o] => l = o
      BY <1>1, <1>2, <2>3, <3>1 DEF TokensInv, Issued
    <3>5. \A l, o \in Lanes : \A k \in 1 .. Len(waiting[l]) :
            waiting[l][k].token < next_token' /\ waiting[l][k].token # in_flight'[o]
      BY <1>1, <1>2, <1>6, <2>3, <3>2 DEF TokensInv, Issued
    <3>6. \A l, o \in Lanes : \A k \in 1 .. Len(waiting[l]) : \A j \in 1 .. Len(waiting[o]) :
            waiting[l][k].token = waiting[o][j].token => l = o /\ k = j
      BY <1>2 DEF TokensInv
    <3>7. waiting' = waiting
      BY <2>2
    <3> QED
      BY ONLY <3>3, <3>4, <3>5, <3>6, <3>7 DEF TokensInv
  <2>8. EntriesInv'
    BY <1>1, <1>2, <2>2, <2>3 DEF EntriesInv, Issued, Sentinel
  <2>9. ReleaserInv'
    BY <1>4, <2>2, <2>3 DEF IInv, ReleaserInv
  <2>10. HandsInv'
    BY <1>4, <2>3, <2>5 DEF IInv, HandsInv, HeldBySomebody, serverVars
  <2>11. \A o : UnderWay(o) => UnderWay(o)'
    <3> SUFFICES ASSUME NEW o, UnderWay(o) PROVE UnderWay(o)'
      OBVIOUS
    <3>1. CASE \E m \in Elems(to_screen) : m.kind = "query" /\ m.pane = o
      <4>1. CASE o = q.pane
        BY <1>1, <2>3, <4>1 DEF UnderWay
      <4>2. CASE o # q.pane
        BY <1>3, <3>1, <4>2 DEF UnderWay
      <4> QED
        BY <4>1, <4>2
    <3>2. CASE \E l \in Lanes : \E d \in entries[l] : d.pane = o
      BY <2>1, <2>3, <3>2 DEF UnderWay
    <3>3. CASE \E l \in Lanes : \E d \in Elems(waiting[l]) : d.pane = o
      BY <2>2, <3>3 DEF UnderWay
    <3> QED
      BY <3>1, <3>2, <3>3 DEF UnderWay
  <2>12. PausesInv'
    BY <2>11 DEF IInv, PausesInv
  <2> QED
    BY <1>5, <2>4, <2>6, <2>7, <2>8, <2>9, <2>10, <2>12 DEF IInv
<1> QED
  BY <1>8, <1>9

LEMMA ForwardHostQueryKeeps ==
  ASSUME ForwardAssumption, IInv, ForwardHostQuery
  PROVE  IInv'
<1>1. to_screen # <<>> /\ Head(to_screen).kind = "query" /\ ChannelType
  BY DEF ForwardHostQuery, IInv
<1>2. PICK q \in Queries : q = Head(to_screen)
  <2>1. Head(to_screen) \in Messages
    BY <1>1, ElemsFacts DEF ChannelType
  <2> QED
    BY <1>1, <2>1 DEF Messages, Replies
<1>3. PICK e : e = Pending(next_token, q.pane, q.n)
  OBVIOUS
<1>4. UNCHANGED <<open, asked, several, serverVars>>
  BY DEF ForwardHostQuery
<1>5. CASE q.lane = "local"
  BY <1>1, <1>2, <1>4, <1>5, AnsweredLocally DEF ForwardHostQuery
<1>6. CASE q.lane # "local"
  <2>1. q.lane \in Lanes
    BY <1>6 DEF Queries
  <2>2. /\ to_screen' = Tail(to_screen)
        /\ next_token' = next_token + 1
        /\ IF in_flight[q.lane] # Sentinel
             THEN /\ waiting' = [waiting EXCEPT ![q.lane] = Append(@, e)]
                  /\ UNCHANGED <<in_flight, entries, deadlines, to_server>>
             ELSE Dispatch(q.lane, e, entries[q.lane]) /\ UNCHANGED waiting
        /\ UNCHANGED <<paused, pending_input, answered>>
    BY <1>2, <1>3, <1>6 DEF ForwardHostQuery
  <2> DEFINE lane == q.lane
  <2>3. /\ lane \in Lanes
        /\ \/ /\ in_flight[lane] # Sentinel
              /\ waiting' = [waiting EXCEPT ![lane] = Append(@, e)]
              /\ UNCHANGED <<in_flight, entries, deadlines, to_server>>
           \/ /\ in_flight[lane] = Sentinel
              /\ Dispatch(lane, e, entries[lane]) /\ UNCHANGED waiting
    BY <2>1, <2>2
  <2> HIDE DEF lane
  <2> QED
    BY <1>1, <1>2, <1>3, <1>4, <2>2, <2>3, GivenToken
<1> QED
  BY <1>5, <1>6
-----------------------------------------------------------------------------

\* What is left to dispatch is the end of the queue, and what is passed over was
\* asked by panes that are closed.
LEMMA DispatchableFacts ==
  ASSUME LaneTypes, NEW lane \in Lanes
  PROVE  \E m \in Nat :
           /\ Dispatchable(lane) \in Seq(Entries)
           /\ Len(waiting[lane]) = m + Len(Dispatchable(lane))
           /\ \A j \in 1 .. Len(Dispatchable(lane)) : Dispatchable(lane)[j] = waiting[lane][m + j]
           /\ \A j \in 1 .. m : waiting[lane][j].pane \notin open
<1> DEFINE w == waiting[lane]
           n == Len(w)
<1>1. w \in Seq(Entries) /\ n \in Nat
  BY LenProperties DEF LaneTypes
<1>2. CASE lane = "host"
  <2>1. Dispatchable(lane) = w
    BY <1>2 DEF Dispatchable
  <2> HIDE DEF w
  <2>2. \A j \in 1 .. n : w[j] = w[0 + j]
    OBVIOUS
  <2>3. n = 0 + n /\ \A j \in 1 .. 0 : w[j].pane \notin open
    BY <1>1
  <2> QED
    BY <1>1, <2>1, <2>2, <2>3 DEF w
<1>3. CASE lane # "host"
  <2> DEFINE skipped == {k \in 0 .. n : \A j \in 1 .. k : w[j].pane \notin open}
             most == CHOOSE k \in skipped : \A j \in skipped : j <= k
             d == SubSeq(w, most + 1, n)
  <2>1. Dispatchable(lane) = d
    BY <1>3 DEF Dispatchable
  <2>2. skipped \subseteq 0 .. n /\ skipped # {}
    <3>1. 0 \in 0 .. n /\ \A j \in 1 .. 0 : w[j].pane \notin open
      BY <1>1
    <3> QED
      BY <3>1
  <2>3. \E k \in skipped : \A j \in skipped : j <= k
    <3> HIDE DEF skipped, w, n
    <3> QED
      BY <1>1, <2>2, GreatestNatural
  <2>4. most \in skipped
    BY <2>3
  <2>5. most \in 0 .. n /\ \A j \in 1 .. most : w[j].pane \notin open
    BY <2>4
  <2> HIDE DEF most, skipped
  <2>6. \A i \in most + 1 .. n : w[i] \in Entries
    <3> TAKE i \in most + 1 .. n
    <3>1. i \in 1 .. n
      BY <1>1, <2>5
    <3> QED
      BY <1>1, <3>1, ElementOfSeq
  <2>7. /\ d \in Seq(Entries)
        /\ Len(d) = IF most + 1 <= n THEN n - (most + 1) + 1 ELSE 0
        /\ \A i \in 1 .. n - (most + 1) + 1 : d[i] = w[most + 1 + i - 1]
    <3> HIDE DEF w, n
    <3>1. most + 1 \in Int /\ n \in Int
      BY <1>1, <2>5
    <3> QED
      BY <2>6, <3>1, SubSeqProperties
  <2> HIDE DEF d, w, n
  <2>8. n = most + Len(d) /\ most \in Nat
    BY <1>1, <2>5, <2>7
  <2>9. \A j \in 1 .. Len(d) : d[j] = w[most + j]
    <3> TAKE j \in 1 .. Len(d)
    <3>1. j \in 1 .. n - (most + 1) + 1 /\ most + 1 + j - 1 = most + j
      BY <1>1, <2>5, <2>8
    <3> QED
      BY <2>7, <3>1
  <2> QED
    BY <2>1, <2>5, <2>7, <2>8, <2>9 DEF w, n
<1> QED
  BY <1>2, <1>3

\* A reply releases the slot of its lane: its pane goes on, and the lane is free or has
\* the next query at a client.
LEMMA SlotReleased ==
  ASSUME ForwardAssumption, IInv, to_screen # <<>>, NEW r \in Replies, r = Head(to_screen),
         NEW lane \in Lanes, in_flight[lane] = r.token,
         NEW e \in Entries, entries[lane] = {e},
         NEW next \in Seq(Entries), NEW m \in Nat, Len(waiting[lane]) = m + Len(next),
         \A j \in 1 .. Len(next) : next[j] = waiting[lane][m + j],
         \A j \in 1 .. m : waiting[lane][j].pane \notin open,
         Resume(e.pane, e.n, r.bytes, Tail(to_screen)),
         IF next = <<>>
           THEN /\ in_flight' = [in_flight EXCEPT ![lane] = Sentinel]
                /\ entries' = [entries EXCEPT ![lane] = {}]
                /\ UNCHANGED <<to_server, deadlines>>
           ELSE Dispatch(lane, Head(next), {}),
         waiting' = [waiting EXCEPT ![lane] = IF next = <<>> THEN <<>> ELSE Tail(next)],
         UNCHANGED <<next_token, open, asked, serverVars>>
  PROVE  IInv'
<1> DEFINE rest == IF next = <<>> THEN <<>> ELSE Tail(next)
           From(l) == IF l = lane THEN m + 1 ELSE 0
<1>1. ChannelType /\ PaneTypes /\ LaneTypes /\ TokensInv /\ EntriesInv /\ ServerTypes
  BY DEF IInv
<1>0. next_token' = next_token
  OBVIOUS
<1>2. r.kind = "reply" /\ r.token \in Issued /\ r.token # Sentinel /\ e.pane \in Panes
  BY DEF Replies, Issued, Entries, Sentinel
<1>3. Tail(to_screen) \in Seq(Messages) /\ Elems(to_screen) = {r} \cup Elems(Tail(to_screen))
  BY <1>1, ElemsFacts DEF ChannelType
<1>4. /\ PaneTypes' /\ ChannelType'
      /\ Elems(Tail(to_screen)) \subseteq Elems(to_screen')
      /\ \A o \in open \ {e.pane} : paused'[o] = paused[o] /\ pending_input'[o] = pending_input[o]
      /\ e.pane \in open =>
           /\ paused'[e.pane] => \E q \in Elems(to_screen') : q.kind = "query" /\ q.pane = e.pane
           /\ pending_input'[e.pane] # <<>> => paused'[e.pane]
  BY <1>1, <1>2, <1>3, ResumeFacts
<1>5. \A t : t # r.token /\ Coming(t) => Coming(t)'
  BY <1>3, <1>4 DEF Coming
<1>6. Len(next) \in Nat /\ (next # <<>> => Len(next) > 0)
  BY LenProperties, EmptySeq
<1>7. ASSUME next # <<>>
      PROVE  /\ Head(next) \in Entries /\ Head(next) = waiting[lane][m + 1]
             /\ m + 1 \in 1 .. Len(waiting[lane])
             /\ Tail(next) \in Seq(Entries) /\ Len(Tail(next)) = Len(next) - 1
             /\ \A k \in 1 .. Len(Tail(next)) : Tail(next)[k] = next[k + 1]
  <2>1. /\ Head(next) \in Entries /\ Head(next) = next[1]
        /\ Tail(next) \in Seq(Entries) /\ Len(Tail(next)) = Len(next) - 1
        /\ \A k \in 1 .. Len(Tail(next)) : Tail(next)[k] = next[k + 1]
    BY <1>6, <1>7, HeadTailProperties
  <2>2. 1 \in 1 .. Len(next) /\ m + 1 \in 1 .. Len(waiting[lane])
    BY <1>6, <1>7
  <2> QED
    BY <2>1, <2>2
<1>8. /\ rest \in Seq(Entries) /\ Len(rest) \in Nat
      /\ \A k \in 1 .. Len(rest) :
           m + 1 + k \in 1 .. Len(waiting[lane]) /\ rest[k] = waiting[lane][m + 1 + k]
  <2>1. CASE next = <<>>
    BY <2>1
  <2>2. CASE next # <<>>
    <3>1. rest = Tail(next)
      BY <2>2
    <3> HIDE DEF rest
    <3>2. rest \in Seq(Entries) /\ Len(rest) = Len(next) - 1
          /\ \A k \in 1 .. Len(rest) : rest[k] = next[k + 1]
      BY <1>7, <2>2, <3>1
    <3>3. \A k \in 1 .. Len(rest) :
            /\ k + 1 \in 1 .. Len(next) /\ m + (k + 1) = m + 1 + k
            /\ m + 1 + k \in 1 .. Len(waiting[lane])
      BY <1>6, <3>2
    <3>4. Len(rest) \in Nat
      BY <1>6, <2>2, <3>2
    <3>5. \A k \in 1 .. Len(rest) : rest[k] = waiting[lane][m + (k + 1)]
      BY <3>2, <3>3
    <3> QED
      BY <3>2, <3>3, <3>4, <3>5
  <2> QED
    BY <2>1, <2>2
<1>9. waiting' = [waiting EXCEPT ![lane] = rest]
  OBVIOUS
<1> HIDE DEF rest
<1>10. waiting'[lane] = rest /\ \A l \in Lanes : l # lane => waiting'[l] = waiting[l]
  BY <1>1, <1>9 DEF LaneTypes
<1>11. waiting' \in [Lanes -> Seq(Entries)]
  BY <1>1, <1>8, <1>9 DEF LaneTypes
<1>12. \A l \in Lanes : \A k \in 1 .. Len(waiting'[l]) :
         From(l) + k \in 1 .. Len(waiting[l]) /\ waiting'[l][k] = waiting[l][From(l) + k]
  <2> TAKE l \in Lanes
  <2>1. CASE l = lane
    BY <1>8, <1>10, <2>1
  <2>2. CASE l # lane
    <3>1. Len(waiting[l]) \in Nat
      BY <1>1, LenProperties DEF LaneTypes
    <3>2. \A k \in 1 .. Len(waiting[l]) : 0 + k = k
      BY <3>1
    <3> QED
      BY <1>10, <2>2, <3>2
  <2> QED
    BY <2>1, <2>2
<1>13. \A l \in Lanes : \A k \in 1 .. Len(waiting'[l]) :
         /\ waiting'[l][k].token \in Issued
         /\ waiting'[l][k].token < next_token
         /\ \A o \in Lanes : waiting'[l][k].token # in_flight[o]
  <2> TAKE l \in Lanes
  <2> TAKE k \in 1 .. Len(waiting'[l])
  <2>0. From(l) + k \in 1 .. Len(waiting[l]) /\ waiting'[l][k] = waiting[l][From(l) + k]
    BY <1>12
  <2> HIDE DEF From
  <2>1. PICK i \in 1 .. Len(waiting[l]) : waiting'[l][k] = waiting[l][i]
    BY <2>0
  <2>2. waiting[l][i] \in Entries
    BY <1>1, ElementOfSeq DEF LaneTypes
  <2> QED
    BY <1>1, <2>1, <2>2 DEF TokensInv, Entries
<1>14. \A l, o \in Lanes : \A k \in 1 .. Len(waiting'[l]) : \A j \in 1 .. Len(waiting'[o]) :
         waiting'[l][k].token = waiting'[o][j].token => l = o /\ k = j
  <2> TAKE l, o \in Lanes
  <2> TAKE k \in 1 .. Len(waiting'[l])
  <2> TAKE j \in 1 .. Len(waiting'[o])
  <2> HAVE waiting'[l][k].token = waiting'[o][j].token
  <2>1. From(l) + k \in 1 .. Len(waiting[l]) /\ waiting'[l][k] = waiting[l][From(l) + k]
    BY <1>12
  <2>2. From(o) + j \in 1 .. Len(waiting[o]) /\ waiting'[o][j] = waiting[o][From(o) + j]
    BY <1>12
  <2>3. From(l) \in Nat /\ From(o) \in Nat
    OBVIOUS
  <2> HIDE DEF From
  <2>4. PICK a \in 1 .. Len(waiting[l]) : a = From(l) + k
    BY <2>1
  <2>5. PICK b \in 1 .. Len(waiting[o]) : b = From(o) + j
    BY <2>2
  <2>6. waiting[l][a].token = waiting[o][b].token
    BY <2>1, <2>2, <2>4, <2>5
  <2>7. l = o /\ a = b
    BY <1>1, <2>6 DEF TokensInv
  <2> QED
    BY <2>3, <2>4, <2>5, <2>7
<1>15. \A t : t # r.token /\ HeldBySomebody(t) /\ Elems(to_server) \subseteq Elems(to_server')
              => HeldBySomebody(t)'
  BY <1>5 DEF HeldBySomebody, serverVars
<1>16. \A l \in Lanes : l # lane /\ in_flight[l] # Sentinel => in_flight[l] # r.token
  BY <1>1, <1>2 DEF TokensInv
<1>17. \A o \in open \ {e.pane} : \A i \in 1 .. Len(waiting[lane]) :
         waiting[lane][i].pane = o =>
           \/ \E k \in 1 .. Len(waiting'[lane]) : waiting'[lane][k] = waiting[lane][i]
           \/ next # <<>> /\ Head(next) = waiting[lane][i]
  <2> TAKE o \in open \ {e.pane}
  <2> TAKE i \in 1 .. Len(waiting[lane])
  <2> HAVE waiting[lane][i].pane = o
  <2>1. ~(i \in 1 .. m)
    OBVIOUS
  <2>2. i > m /\ i <= m + Len(next)
    BY <1>6, <2>1
  <2>3. next # <<>>
    <3>1. Len(<<>>) = 0
      OBVIOUS
    <3> QED
      BY <1>6, <2>2, <3>1
  <2>4. CASE i = m + 1
    BY <1>7, <2>3, <2>4
  <2>5. CASE i # m + 1
    <3>1. rest = Tail(next)
      BY <2>3 DEF rest
    <3>2. Len(rest) = Len(next) - 1
      BY <1>7, <2>3, <3>1
    <3>3. i - (m + 1) \in 1 .. Len(rest) /\ m + 1 + (i - (m + 1)) = i
      BY <1>6, <2>2, <2>5, <3>2
    <3>4. rest[i - (m + 1)] = waiting[lane][i]
      BY <1>8, <3>3
    <3> QED
      BY <1>10, <3>3, <3>4
  <2> QED
    BY <2>4, <2>5
<1>18. ASSUME \A l \in Lanes : l # lane => entries'[l] = entries[l],
              next # <<>> => Head(next) \in entries'[lane]
       PROVE  PausesInv'
  <2>1. ASSUME NEW o \in open \ {e.pane}, UnderWay(o)
        PROVE  UnderWay(o)'
    <3>1. CASE \E q \in Elems(to_screen) : q.kind = "query" /\ q.pane = o
      BY <1>2, <1>3, <1>4, <3>1 DEF UnderWay
    <3>2. CASE \E l \in Lanes : \E d \in entries[l] : d.pane = o
      <4>1. PICK l \in Lanes : \E d \in entries[l] : d.pane = o
        BY <3>2
      <4>2. l # lane
        BY <4>1
      <4> QED
        BY <1>18, <4>1, <4>2 DEF UnderWay
    <3>3. CASE \E l \in Lanes : \E d \in Elems(waiting[l]) : d.pane = o
      <4>1. PICK l \in Lanes : \E d \in Elems(waiting[l]) : d.pane = o
        BY <3>3
      <4>2. CASE l # lane
        BY <1>10, <4>1, <4>2 DEF UnderWay
      <4>3. CASE l = lane
        <5>1. PICK i \in 1 .. Len(waiting[lane]) : waiting[lane][i].pane = o
          BY <4>1, <4>3 DEF Elems
        <5>2. CASE \E k \in 1 .. Len(waiting'[lane]) : waiting'[lane][k] = waiting[lane][i]
          <6>1. waiting[lane][i] \in Elems(waiting'[lane])
            BY <5>2 DEF Elems
          <6> QED
            BY <5>1, <6>1 DEF UnderWay
        <5>3. CASE next # <<>> /\ Head(next) = waiting[lane][i]
          BY <1>18, <5>1, <5>3 DEF UnderWay
        <5> QED
          BY <1>17, <5>1, <5>2, <5>3
      <4> QED
        BY <4>2, <4>3
    <3> QED
      BY <2>1, <3>1, <3>2, <3>3 DEF UnderWay
  <2>2. \A o \in open : (paused[o] => UnderWay(o)) /\ (pending_input[o] # <<>> => paused[o])
    BY DEF IInv, PausesInv
  <2> SUFFICES ASSUME NEW o \in open
               PROVE  (paused'[o] => UnderWay(o)') /\ (pending_input'[o] # <<>> => paused'[o])
    BY DEF PausesInv
  <2>3. CASE o = e.pane
    BY <1>4, <2>3 DEF UnderWay
  <2>4. CASE o # e.pane
    BY <1>4, <2>1, <2>2, <2>4
  <2> QED
    BY <2>3, <2>4
<1>19. CASE next = <<>>
  <2>1. /\ in_flight' = [in_flight EXCEPT ![lane] = Sentinel]
        /\ entries' = [entries EXCEPT ![lane] = {}]
        /\ UNCHANGED <<to_server, deadlines>>
    BY <1>19
  <2>2. /\ in_flight'[lane] = Sentinel /\ entries'[lane] = {}
        /\ \A l \in Lanes : l # lane => in_flight'[l] = in_flight[l] /\ entries'[l] = entries[l]
    BY <1>1, <2>1 DEF LaneTypes
  <2>3. waiting'[lane] = <<>>
    BY <1>10, <1>19 DEF rest
  <2>4. LaneTypes'
    <3>1. in_flight' \in [Lanes -> Nat] /\ entries' \in [Lanes -> SUBSET Entries]
      BY <1>1, <2>1 DEF LaneTypes, Sentinel
    <3>2. next_token' \in Issued
      BY <1>1 DEF LaneTypes
    <3> QED
      BY ONLY <1>11, <3>1, <3>2 DEF LaneTypes
  <2>5. ServerTypes'
    BY <1>1, <2>1 DEF ServerTypes, serverVars
  <2>6. TokensInv'
    <3>1. \A l \in Lanes : in_flight'[l] < next_token'
      <4>1. Sentinel < next_token
        BY <1>1 DEF LaneTypes, Issued, Sentinel
      <4>2. \A l \in Lanes : in_flight[l] < next_token
        BY <1>1 DEF TokensInv
      <4> QED
        BY <1>0, <2>2, <4>1, <4>2
    <3>2. \A l, o \in Lanes : in_flight'[l] # Sentinel /\ in_flight'[l] = in_flight'[o] => l = o
      BY <1>1, <2>2 DEF TokensInv
    <3>3. \A l, o \in Lanes : \A k \in 1 .. Len(waiting'[l]) :
            waiting'[l][k].token < next_token' /\ waiting'[l][k].token # in_flight'[o]
      <4>1. \A l, o \in Lanes : \A k \in 1 .. Len(waiting'[l]) : waiting'[l][k].token # in_flight'[o]
        <5> TAKE l, o \in Lanes
        <5> TAKE k \in 1 .. Len(waiting'[l])
        <5>1. waiting'[l][k].token \in Issued /\ waiting'[l][k].token # in_flight[o]
          BY <1>13
        <5>2. in_flight'[o] = Sentinel \/ in_flight'[o] = in_flight[o]
          BY <2>2
        <5> QED
          BY <5>1, <5>2 DEF Issued, Sentinel
      <4> QED
        BY <1>0, <1>13, <4>1
    <3> QED
      BY ONLY <1>14, <3>1, <3>2, <3>3 DEF TokensInv
  <2>7. EntriesInv'
    BY <1>1, <1>10, <2>2, <2>3 DEF EntriesInv
  <2>8. ReleaserInv'
    BY <1>5, <1>16, <2>1, <2>2 DEF IInv, ReleaserInv
  <2>9. HandsInv'
    BY <1>15, <1>16, <2>1, <2>2 DEF IInv, HandsInv
  <2>10. PausesInv'
    BY <1>18, <1>19, <2>2
  <2> QED
    BY <1>4, <2>4, <2>5, <2>6, <2>7, <2>8, <2>9, <2>10 DEF IInv
<1>20. CASE next # <<>>
  <2> DEFINE h == Head(next)
  <2>1. h \in Entries /\ h = waiting[lane][m + 1] /\ m + 1 \in 1 .. Len(waiting[lane])
    BY <1>7, <1>20
  <2> HIDE DEF h
  <2>2. PICK t \in Issued : t = h.token
    BY <2>1 DEF Entries
  <2>3. /\ in_flight' = [in_flight EXCEPT ![lane] = t]
        /\ entries' = [entries EXCEPT ![lane] = {h}]
        /\ to_server' = Append(to_server, t)
        /\ deadlines' = deadlines \cup {t}
    BY <1>20, <2>2 DEF Dispatch, Armed, h
  <2>4. /\ in_flight'[lane] = t /\ entries'[lane] = {h}
        /\ \A l \in Lanes : l # lane => in_flight'[l] = in_flight[l] /\ entries'[l] = entries[l]
    BY <1>1, <2>3 DEF LaneTypes
  <2>5. LaneTypes'
    <3>1. in_flight' \in [Lanes -> Nat]
      BY <1>1, <2>3 DEF LaneTypes, Issued
    <3>2. entries' \in [Lanes -> SUBSET Entries]
      BY <1>1, <2>1, <2>3 DEF LaneTypes
    <3>3. next_token' \in Issued
      BY <1>1 DEF LaneTypes
    <3> QED
      BY ONLY <1>11, <3>1, <3>2, <3>3 DEF LaneTypes
  <2>6. to_server' \in Seq(Issued) /\ Elems(to_server') = Elems(to_server) \cup {t}
    BY <1>1, <2>3, ElemsFacts DEF ServerTypes
  <2>7. ServerTypes'
    BY <1>1, <2>3, <2>6 DEF ServerTypes, serverVars
  <2>8. TokensInv'
    <3>1. \A l \in Lanes : in_flight[l] < next_token /\ t < next_token /\ t # in_flight[l]
      BY <1>1, <2>1, <2>2 DEF TokensInv
    <3>2. \A l \in Lanes : in_flight'[l] < next_token'
      BY <2>4, <3>1
    <3>3. \A l, o \in Lanes : in_flight'[l] # Sentinel /\ in_flight'[l] = in_flight'[o] => l = o
      BY <1>1, <2>4, <3>1 DEF TokensInv
    <3>4. ASSUME NEW l \in Lanes, NEW o \in Lanes, NEW k \in 1 .. Len(waiting'[l])
          PROVE  waiting'[l][k].token < next_token' /\ waiting'[l][k].token # in_flight'[o]
      <4>1. CASE o # lane
        <5>1. waiting'[l][k].token < next_token /\ waiting'[l][k].token # in_flight[o]
          BY <1>13
        <5>2. in_flight'[o] = in_flight[o]
          BY <2>4, <4>1
        <5> QED
          BY <1>0, <5>1, <5>2
      <4>2. CASE o = lane
        <5>1. ASSUME waiting'[l][k].token = t PROVE FALSE
          <6>1. From(l) + k \in 1 .. Len(waiting[l]) /\ waiting'[l][k] = waiting[l][From(l) + k]
            BY <1>12
          <6>2. l = lane /\ From(l) + k = m + 1
            <7> HIDE DEF From
            <7> QED
              BY <1>1, <2>1, <2>2, <5>1, <6>1 DEF TokensInv
          <6> QED
            BY <6>2
        <5> QED
          BY <1>13, <2>4, <4>2, <5>1
      <4> QED
        BY <4>1, <4>2
    <3> QED
      BY ONLY <1>14, <3>2, <3>3, <3>4 DEF TokensInv
  <2>9. EntriesInv'
    <3> SUFFICES ASSUME NEW l \in Lanes
                 PROVE  \/ in_flight'[l] = Sentinel /\ entries'[l] = {} /\ waiting'[l] = <<>>
                        \/ /\ in_flight'[l] # Sentinel
                           /\ \E d \in Entries : entries'[l] = {d} /\ d.token = in_flight'[l]
      BY DEF EntriesInv
    <3>1. CASE l = lane
      BY <2>1, <2>2, <2>4, <3>1 DEF Issued, Sentinel
    <3>2. CASE l # lane
      BY <1>1, <1>10, <2>4, <3>2 DEF EntriesInv
    <3> QED
      BY <3>1, <3>2
  <2>10. ReleaserInv'
    BY <1>5, <1>16, <2>3, <2>4 DEF IInv, ReleaserInv
  <2>11. HandsInv'
    <3>1. HeldBySomebody(t)'
      BY <2>6 DEF HeldBySomebody
    <3> QED
      BY <1>15, <1>16, <2>4, <2>6, <3>1 DEF IInv, HandsInv
  <2>12. PausesInv'
    BY <1>18, <2>4 DEF h
  <2> QED
    BY <1>4, <2>5, <2>7, <2>8, <2>9, <2>10, <2>11, <2>12 DEF IInv
<1> QED
  BY <1>19, <1>20

LEMMA ForwardedReplyKeeps ==
  ASSUME ForwardAssumption, IInv, ForwardedReply
  PROVE  IInv'
<1>1. /\ to_screen # <<>> /\ Head(to_screen).kind = "reply" /\ ChannelType
      /\ UNCHANGED <<open, asked, several, serverVars>>
  BY DEF ForwardedReply, IInv
<1>2. PICK r \in Replies : r = Head(to_screen)
  <2>1. Head(to_screen) \in Messages
    BY <1>1, ElemsFacts DEF ChannelType
  <2> QED
    BY <1>1, <2>1 DEF Messages, Queries
<1>3. CASE LaneOf(r.token) = {}
  <2>1. /\ to_screen' = Tail(to_screen)
        /\ UNCHANGED <<paused, pending_input, laneVars>>
    BY <1>2, <1>3 DEF ForwardedReply
  <2>2. to_screen' \in Seq(Messages) /\ Elems(to_screen) = {r} \cup Elems(to_screen')
    BY <1>1, <1>2, <2>1, ElemsFacts DEF ChannelType
  <2>3. r.kind = "reply" /\ \A lane \in Lanes : in_flight[lane] # r.token
    BY <1>3 DEF LaneOf, Replies
  <2>4. \A lane \in Lanes : Coming(in_flight[lane]) => Coming(in_flight[lane])'
    BY <2>1, <2>2, <2>3 DEF Coming, laneVars
  <2>5. \A p : UnderWay(p) => UnderWay(p)'
    BY <2>1, <2>2, <2>3 DEF UnderWay, laneVars
  <2>6. PaneTypes' /\ LaneTypes' /\ ServerTypes' /\ ChannelType' /\ TokensInv' /\ EntriesInv'
    BY <1>1, <2>1, <2>2 DEF IInv, PaneTypes, LaneTypes, ServerTypes, ChannelType, TokensInv,
                            EntriesInv, laneVars, serverVars
  <2>7. ReleaserInv' /\ HandsInv'
    BY <1>1, <2>1, <2>4 DEF IInv, ReleaserInv, HandsInv, HeldBySomebody, laneVars, serverVars
  <2>8. PausesInv'
    BY <1>1, <2>1, <2>5 DEF IInv, PausesInv
  <2> QED
    BY <2>6, <2>7, <2>8 DEF IInv
<1>4. CASE LaneOf(r.token) # {}
  <2> DEFINE lane == CHOOSE l \in LaneOf(r.token) : TRUE
             found == {e \in entries[lane] : e.token = r.token}
             left == EntriesWithout(lane, r.token)
             next == Dispatchable(lane)
  <2>1. lane \in Lanes /\ in_flight[lane] = r.token
    BY <1>4 DEF LaneOf
  <2>2. /\ IF found = {}
             THEN /\ to_screen' = Tail(to_screen)
                  /\ UNCHANGED <<paused, pending_input, answered>>
             ELSE LET e == CHOOSE e \in found : TRUE IN
                    Resume(e.pane, e.n, r.bytes, Tail(to_screen))
        /\ IF next = <<>>
             THEN /\ in_flight' = [in_flight EXCEPT ![lane] = Sentinel]
                  /\ entries' = [entries EXCEPT ![lane] = left]
                  /\ UNCHANGED <<to_server, deadlines>>
             ELSE Dispatch(lane, Head(next), left)
        /\ waiting' = [waiting EXCEPT ![lane] = IF next = <<>> THEN <<>> ELSE Tail(next)]
        /\ UNCHANGED next_token
    BY <1>2, <1>4 DEF ForwardedReply
  <2> HIDE DEF lane
  <2>3. r.token # Sentinel
    BY DEF Replies, Issued, Sentinel
  <2>4. PICK e \in Entries : entries[lane] = {e} /\ e.token = r.token
    BY <2>1, <2>3 DEF IInv, EntriesInv
  <2>5. found = {e} /\ left = {}
    BY <2>4 DEF EntriesWithout
  <2>6. Resume(e.pane, e.n, r.bytes, Tail(to_screen))
    BY <2>2, <2>5
  <2>7. LaneTypes
    BY DEF IInv
  <2>8. PICK m \in Nat :
          /\ next \in Seq(Entries)
          /\ Len(waiting[lane]) = m + Len(next)
          /\ \A j \in 1 .. Len(next) : next[j] = waiting[lane][m + j]
          /\ \A j \in 1 .. m : waiting[lane][j].pane \notin open
    BY <2>1, <2>7, DispatchableFacts
  <2> HIDE DEF found, left, next
  <2>9. IF next = <<>>
          THEN /\ in_flight' = [in_flight EXCEPT ![lane] = Sentinel]
               /\ entries' = [entries EXCEPT ![lane] = {}]
               /\ UNCHANGED <<to_server, deadlines>>
          ELSE Dispatch(lane, Head(next), {})
    BY <2>2, <2>5
  <2> QED
    BY <1>1, <1>2, <2>1, <2>2, <2>4, <2>6, <2>8, <2>9, SlotReleased
<1> QED
  BY <1>3, <1>4
-----------------------------------------------------------------------------

LEMMA InitHolds ==
  ASSUME ForwardAssumption, Init
  PROVE  IInv
<1>1. PaneTypes /\ ChannelType
  BY DEF Init, PaneTypes, ChannelType, Sequences
<1>2. LaneTypes
  BY DEF Init, LaneTypes, Issued, Sentinel, FirstToken
<1>3. ServerTypes
  BY FS_EmptySet DEF Init, ServerTypes
<1>4. TokensInv /\ EntriesInv /\ ReleaserInv /\ HandsInv /\ PausesInv
  BY DEF Init, TokensInv, EntriesInv, ReleaserInv, HandsInv, PausesInv, Sentinel, FirstToken
<1> QED
  BY <1>1, <1>2, <1>3, <1>4 DEF IInv

LEMMA NextKeeps ==
  ASSUME ForwardAssumption, IInv, [Next]_vars
  PROVE  IInv'
<1>1. CASE \E p \in Panes, lanes \in PtySequences : PtyBytes(p, lanes)
  BY <1>1, PtyBytesKeeps
<1>2. CASE \E p \in Panes : ClosePane(p)
  BY <1>2, ClosePaneKeeps
<1>3. CASE ForwardHostQuery
  BY <1>3, ForwardHostQueryKeeps
<1>4. CASE ForwardedReply
  BY <1>4, ForwardedReplyKeeps
<1>5. CASE \E t \in Tokens : Deadline(t)
  BY <1>5, DeadlineKeeps
<1>6. CASE ForwardQueryToHost
  BY <1>6, ForwardQueryToHostKeeps
<1>7. CASE \E c \in Clients, t \in Tokens : RouteReply(c, t)
  BY <1>7, RouteReplyKeeps
<1>8. CASE \E c \in Clients : RouteKey(c)
  BY <1>8, RouteKeyKeeps
<1>9. CASE \E c \in Clients : ClientExit(c)
  BY <1>9, ClientExitKeeps
<1>10. CASE UNCHANGED vars
  <2>1. UNCHANGED <<paneVars, to_screen, laneVars, serverVars>>
    BY <1>10 DEF vars
  <2>2. /\ ChannelType' /\ ServerTypes' /\ Elems(to_screen) \subseteq Elems(to_screen')
        /\ \A t \in Issued : t \in deadlines => t \in deadlines' \/ Coming(t)'
    BY <2>1 DEF IInv, ChannelType, ServerTypes, laneVars, serverVars
  <2>3. \A t \in Issued : HeldBySomebody(t) => HeldBySomebody(t)'
    BY <2>1 DEF HeldBySomebody, Coming, laneVars, serverVars
  <2> QED
    BY <2>1, <2>2, <2>3, ServerStep DEF laneVars
<1> QED
  BY <1>1, <1>2, <1>3, <1>4, <1>5, <1>6, <1>7, <1>8, <1>9, <1>10 DEF Next, ScreenStep

\* What the invariant says of sets of messages is what the property says of indices.
LEMMA NobodyWaitsAlone ==
  ASSUME IInv
  PROVE  NothingWaitsForNobody
<1>1. DOMAIN to_screen = 1 .. Len(to_screen) /\ DOMAIN to_server = 1 .. Len(to_server)
      /\ \A lane \in Lanes : DOMAIN waiting[lane] = 1 .. Len(waiting[lane])
  BY LenProperties DEF IInv, ChannelType, ServerTypes, LaneTypes
<1>2. \A t : Coming(t) => RepliedTo(t)
  BY <1>1 DEF Coming, RepliedTo, Elems
<1>3. SlotHasReleaser
  BY <1>2 DEF IInv, ReleaserInv, SlotHasReleaser
<1>4. HeldByAClient
  <2>1. Elems(to_server) = Range(to_server)
    BY <1>1 DEF Elems, Range
  <2> QED
    BY <1>2, <2>1 DEF IInv, HandsInv, HeldBySomebody, HeldByAClient
<1>5. EntriesInFlight
  <2> SUFFICES ASSUME NEW lane \in Lanes
               PROVE  /\ {e.token : e \in entries[lane]} = {in_flight[lane]} \ {Sentinel}
                      /\ in_flight[lane] = Sentinel => waiting[lane] = <<>>
    BY DEF EntriesInFlight
  <2>1. CASE in_flight[lane] = Sentinel /\ entries[lane] = {} /\ waiting[lane] = <<>>
    BY <2>1
  <2>2. CASE /\ in_flight[lane] # Sentinel
             /\ \E e \in Entries : entries[lane] = {e} /\ e.token = in_flight[lane]
    BY <2>2
  <2> QED
    BY <2>1, <2>2 DEF IInv, EntriesInv
<1>6. PausedForAReason
  <2>1. \A p : UnderWay(p) => QueryUnderWay(p)
    <3> SUFFICES ASSUME NEW p, UnderWay(p) PROVE QueryUnderWay(p)
      OBVIOUS
    <3>1. CASE \E m \in Elems(to_screen) : m.kind = "query" /\ m.pane = p
      BY <1>1, <3>1 DEF Elems, QueryUnderWay
    <3>2. CASE \E lane \in Lanes : \E e \in entries[lane] : e.pane = p
      BY <3>2 DEF QueryUnderWay
    <3>3. CASE \E lane \in Lanes : \E e \in Elems(waiting[lane]) : e.pane = p
      BY <1>1, <3>3 DEF Elems, QueryUnderWay
    <3> QED
      BY <3>1, <3>2, <3>3 DEF UnderWay
  <2> QED
    BY <2>1 DEF IInv, PausesInv, PausedForAReason
<1> QED
  BY <1>3, <1>4, <1>5, <1>6 DEF NothingWaitsForNobody

\* Whatever panes ask, in whatever sequences, and whichever clients leave or do not
\* answer, nothing waits for what has no one to release it: a lane's slot has a deadline
\* or a reply to come, and somebody who holds its query; no entry is left behind, no
\* query waits behind a free slot, and a paused pane has a query under way.
THEOREM NothingLeftWaiting == Spec => []NothingWaitsForNobody
<1>1. Init => IInv
  BY InitHolds, ForwardAssumption
<1>2. IInv /\ [Next]_vars => IInv'
  BY NextKeeps, ForwardAssumption
<1>3. IInv => NothingWaitsForNobody
  BY NobodyWaitsAlone
<1> QED
  BY <1>1, <1>2, <1>3, PTL DEF Spec
-----------------------------------------------------------------------------

Answers == [n : Nat, bytes : {"grid", "cache", "host"}]
AnswerTypes == answered \in [Panes -> Seq(Answers)]

Increasing(q) == \A j, k \in 1 .. Len(q) : j < k => q[j].n < q[k].n

\* Where a query of pane p is: at position k of Screen's channel, or with a token in a lane.
QueryAt(p, k) ==
  k \in 1 .. Len(to_screen) /\ to_screen[k].kind = "query" /\ to_screen[k].pane = p
Record(p, lane, e) ==
  lane \in Lanes /\ e.pane = p /\ (e \in entries[lane] \/ e \in Elems(waiting[lane]))
Asked(p, n) ==
  \/ \E k : QueryAt(p, k) /\ to_screen[k].n = n
  \/ \E lane, e : Record(p, lane, e) /\ e.n = n

\* All answers so far come before number n of pane p, which its program has written.
ToCome(p, n) == n <= asked[p] /\ \A a \in Elems(answered[p]) : a.n < n

\* What a pane holds back is still to be answered, in this order; and so is what it has
\* asked, before what it holds back, while it is paused.
PaneOrder(p) ==
  /\ Increasing(pending_input[p])
  /\ \A a \in Elems(answered[p]) : a.n <= asked[p]
  /\ \A s \in Elems(pending_input[p]) : Len(s.lanes) <= 1 /\ ToCome(p, s.n)
  /\ \A n : Asked(p, n) => /\ paused[p] /\ ToCome(p, n)
                           /\ \A s \in Elems(pending_input[p]) : n < s.n

\* A pane has one query under way at most, in one place.
OneQuery(p) ==
  /\ \A j, k : QueryAt(p, j) /\ QueryAt(p, k) => j = k
  /\ \A k, lane, e : ~(QueryAt(p, k) /\ Record(p, lane, e))
  /\ \A lane, other, e, f : Record(p, lane, e) /\ Record(p, other, f) => lane = other /\ e = f

OrderInv ==
  /\ AnswerTypes
  /\ \A p \in Panes \ several : /\ Increasing(answered[p])
                                /\ p \in open => PaneOrder(p) /\ OneQuery(p)
-----------------------------------------------------------------------------

\* Two series, the first of which ends before the second begins, are one.
LEMMA SeriesJoined ==
  ASSUME NEW M, \A x \in M : x.n \in Nat, NEW q \in Seq(M), NEW s \in Seq(M),
         Increasing(q), Increasing(s),
         \A x \in Elems(q) : \A y \in Elems(s) : x.n < y.n
  PROVE  Increasing(q \o s)
<1>1. /\ Len(q) \in Nat /\ Len(s) \in Nat /\ Len(q \o s) = Len(q) + Len(s)
      /\ \A i \in 1 .. Len(q) + Len(s) : (q \o s)[i] = IF i <= Len(q) THEN q[i] ELSE s[i - Len(q)]
  BY ConcatProperties, LenProperties
<1> SUFFICES ASSUME NEW j \in 1 .. Len(q) + Len(s), NEW k \in 1 .. Len(q) + Len(s), j < k
             PROVE  (q \o s)[j].n < (q \o s)[k].n
  BY <1>1 DEF Increasing
<1>2. CASE k <= Len(q)
  <2>1. j \in 1 .. Len(q) /\ k \in 1 .. Len(q) /\ (q \o s)[j] = q[j] /\ (q \o s)[k] = q[k]
    BY <1>1, <1>2
  <2> QED
    BY <2>1 DEF Increasing
<1>3. CASE j <= Len(q) /\ ~(k <= Len(q))
  <2>1. j \in 1 .. Len(q) /\ k - Len(q) \in 1 .. Len(s)
        /\ (q \o s)[j] = q[j] /\ (q \o s)[k] = s[k - Len(q)]
    BY <1>1, <1>3
  <2> QED
    BY <2>1 DEF Elems
<1>4. CASE ~(j <= Len(q))
  <2>1. /\ j - Len(q) \in 1 .. Len(s) /\ k - Len(q) \in 1 .. Len(s) /\ j - Len(q) < k - Len(q)
        /\ (q \o s)[j] = s[j - Len(q)] /\ (q \o s)[k] = s[k - Len(q)]
    BY <1>1, <1>4
  <2> QED
    BY <2>1 DEF Increasing
<1> QED
  BY <1>2, <1>3, <1>4

\* A series goes on with a greater number.
LEMMA SeriesExtended ==
  ASSUME NEW M, \A x \in M : x.n \in Nat, NEW q \in Seq(M), NEW x \in M, Increasing(q),
         \A y \in Elems(q) : y.n < x.n
  PROVE  Append(q, x) \in Seq(M) /\ Increasing(Append(q, x))
<1>1. /\ Append(q, x) \in Seq(M) /\ Len(Append(q, x)) = Len(q) + 1 /\ Len(q) \in Nat
      /\ \A i \in 1 .. Len(q) : Append(q, x)[i] = q[i]
      /\ Append(q, x)[Len(q) + 1] = x
  BY AppendProperties, LenProperties
<1> SUFFICES ASSUME NEW j \in 1 .. Len(q) + 1, NEW k \in 1 .. Len(q) + 1, j < k
             PROVE  Append(q, x)[j].n < Append(q, x)[k].n
  BY <1>1 DEF Increasing
<1>2. j \in 1 .. Len(q) /\ Append(q, x)[j] = q[j]
  BY <1>1
<1>3. CASE k \in 1 .. Len(q)
  BY <1>1, <1>2, <1>3 DEF Increasing
<1>4. CASE k = Len(q) + 1
  BY <1>1, <1>2, <1>4 DEF Elems
<1> QED
  BY <1>1, <1>3, <1>4

\* The first sequence that asks is the last that is fed.
LEMMA FirstAsks ==
  ASSUME NEW ss \in Sequences, \E k \in DOMAIN ss : Asks(ss[k])
  PROVE  \A k \in 1 .. Consumed(ss) - 1 : ~Asks(ss[k])
<1>1. DOMAIN ss = 1 .. Len(ss) /\ Len(ss) \in Nat
  BY LenProperties DEF Sequences
<1> DEFINE S == {k \in 1 .. Len(ss) : Asks(ss[k])}
<1>2. S \subseteq Nat /\ S # {}
  BY <1>1
<1>3. PICK m \in S : \A k \in S : m <= k
  <2> HIDE DEF S
  <2> QED
    BY <1>2, LeastNatural
<1>4. m \in DOMAIN ss /\ Asks(ss[m]) /\ \A j \in 1 .. m - 1 : ~Asks(ss[j])
  BY <1>1, <1>3
<1> QED
  BY <1>4 DEF Consumed

\* The grid's own answers are numbered as what it was fed.
LEMMA GridSeries ==
  ASSUME NEW ss, NEW n \in Nat, \A k \in 1 .. n : ss[k].n \in Nat,
         NEW grid, grid = [k \in 1 .. n |-> Answered(ss[k].n, "grid")]
  PROVE  grid \in Seq(Answers) /\ Len(grid) = n /\ \A k \in 1 .. n : grid[k].n = ss[k].n
<1>1. \A k \in 1 .. n : Answered(ss[k].n, "grid") \in Answers /\ Answered(ss[k].n, "grid").n = ss[k].n
  BY DEF Answered, Answers
<1>2. grid \in [1 .. n -> Answers]
  BY <1>1
<1> QED
  BY <1>1, <1>2

\* What a pane that is fed answers, asks and keeps back, by positions in its input.
LEMMA FedParts ==
  ASSUME ForwardAssumption, NEW p \in Panes, NEW ss \in Sequences
  PROVE  LET c == Consumed(ss)
             own == IF QueriesOf(p, ss) = <<>> THEN c ELSE c - 1
         IN
         /\ c \in 0 .. Len(ss) /\ own \in 0 .. c
         /\ GridAnswers(ss) \in Seq(Answers) /\ Len(GridAnswers(ss)) = own
         /\ \A k \in 1 .. own : GridAnswers(ss)[k].n = ss[k].n
         /\ Rest(ss) \in Sequences /\ Len(Rest(ss)) = Len(ss) - c
         /\ \A k \in 1 .. Len(Rest(ss)) : Rest(ss)[k] = ss[c + k]
         /\ QueriesOf(p, ss) \in Seq(Messages)
         /\ \A k \in 1 .. Len(QueriesOf(p, ss)) : QueriesOf(p, ss)[k].pane = p
         /\ QueriesOf(p, ss) # <<>> =>
              /\ c \in 1 .. Len(ss)
              /\ Len(QueriesOf(p, ss)) = Len(ss[c].lanes)
              /\ QueriesOf(p, ss)[1].n = ss[c].n
<1> DEFINE c == Consumed(ss)
           qs == QueriesOf(p, ss)
           grid == GridAnswers(ss)
           rest == Rest(ss)
           own == IF qs = <<>> THEN c ELSE c - 1
<1> SUFFICES /\ c \in 0 .. Len(ss) /\ own \in 0 .. c
             /\ grid \in Seq(Answers) /\ Len(grid) = own
             /\ \A k \in 1 .. own : grid[k].n = ss[k].n
             /\ rest \in Sequences /\ Len(rest) = Len(ss) - c
             /\ \A k \in 1 .. Len(rest) : rest[k] = ss[c + k]
             /\ qs \in Seq(Messages)
             /\ \A k \in 1 .. Len(qs) : qs[k].pane = p
             /\ qs # <<>> =>
                  /\ c \in 1 .. Len(ss) /\ Len(qs) = Len(ss[c].lanes)
                  /\ qs[1].n = ss[c].n
  OBVIOUS
<1>1. /\ c \in 0 .. Len(ss) /\ Len(ss) \in Nat /\ DOMAIN ss = 1 .. Len(ss)
      /\ \/ /\ \E k \in DOMAIN ss : Asks(ss[k])
            /\ c \in 1 .. Len(ss) /\ Asks(ss[c]) /\ \A k \in 1 .. c - 1 : ~Asks(ss[k])
         \/ /\ ~\E k \in DOMAIN ss : Asks(ss[k])
            /\ c = Len(ss)
  BY ConsumedFacts, FirstAsks, LenProperties DEF Sequences
<1>2. \A k \in 1 .. Len(ss) : ss[k] \in [n : Nat, lanes : PtySequences]
  BY <1>1, ElementOfSeq DEF Sequences
<1>3. \A k \in 1 .. Len(ss) : ss[k].n \in Nat
  BY <1>2
<1>4. Rest(ss) \in Sequences /\ Len(Rest(ss)) = Len(ss) - c
      /\ \A k \in 1 .. Len(Rest(ss)) : Rest(ss)[k] = ss[c + k]
  <2>1. \A i \in c + 1 .. Len(ss) : ss[i] \in [n : Nat, lanes : PtySequences]
    <3> TAKE i \in c + 1 .. Len(ss)
    <3>1. i \in 1 .. Len(ss)
      BY <1>1
    <3> QED
      BY <1>2, <3>1
  <2>2. c \in 0 .. Len(ss) /\ Len(ss) \in Nat /\ c + 1 \in Int /\ Len(ss) \in Int
    BY <1>1
  <2>6. Rest(ss) = SubSeq(ss, c + 1, Len(ss))
    BY DEF Rest
  <2> HIDE DEF c
  <2>3. /\ Rest(ss) \in Sequences
        /\ Len(Rest(ss)) = IF c + 1 <= Len(ss) THEN Len(ss) - (c + 1) + 1 ELSE 0
        /\ \A i \in 1 .. Len(ss) - (c + 1) + 1 : Rest(ss)[i] = ss[c + 1 + i - 1]
    BY <2>1, <2>2, <2>6, SubSeqProperties DEF Sequences
  <2>4. Len(Rest(ss)) = Len(ss) - c
    BY <2>2, <2>3
  <2>5. ASSUME NEW k \in 1 .. Len(Rest(ss)) PROVE Rest(ss)[k] = ss[c + k]
    <3>1. k \in 1 .. Len(ss) - (c + 1) + 1 /\ c + 1 + k - 1 = c + k
      BY <2>2, <2>4
    <3> QED
      BY <2>3, <3>1
  <2> QED
    BY <2>3, <2>4, <2>5
<1>5. CASE \E k \in DOMAIN ss : Asks(ss[k])
  <2> DEFINE q == ss[c]
  <2>1. c \in 1 .. Len(ss) /\ Asks(q) /\ \A k \in 1 .. c - 1 : ~Asks(ss[k])
    BY <1>1, <1>5
  <2>2. q.n \in Nat /\ q.lanes \in PtySequences /\ q.lanes # <<>>
    BY <1>2, <2>1 DEF Asks
  <2>3. q.lanes \in Seq(Lanes \cup {"local"})
    BY <2>2 DEF ForwardAssumption
  <2>4. DOMAIN q.lanes = 1 .. Len(q.lanes) /\ Len(q.lanes) \in Nat \ {0}
        /\ \A i \in 1 .. Len(q.lanes) : q.lanes[i] \in Lanes \cup {"local"}
    BY <2>2, <2>3, LenProperties, EmptySeq, ElementOfSeq
  <2>5. qs = [i \in 1 .. Len(q.lanes) |-> Query(p, q.n + i - 1, q.lanes[i])]
    BY <1>5, <2>4 DEF QueriesOf
  <2> HIDE DEF qs, q
  <2>6. \A i \in 1 .. Len(q.lanes) :
          /\ Query(p, q.n + i - 1, q.lanes[i]) \in Messages
          /\ Query(p, q.n + i - 1, q.lanes[i]).pane = p
          /\ Query(p, q.n + i - 1, q.lanes[i]).n = q.n + i - 1
    <3> TAKE i \in 1 .. Len(q.lanes)
    <3>1. q.n + i - 1 \in Nat
      BY <2>2, <2>4
    <3> QED
      BY <2>4, <3>1 DEF Query, Messages, Queries
  <2>7. qs \in [1 .. Len(q.lanes) -> Messages]
    BY <2>5, <2>6
  <2>8. qs \in Seq(Messages) /\ Len(qs) = Len(q.lanes)
    BY <2>4, <2>7
  <2>9. 1 \in 1 .. Len(q.lanes) /\ q.n + 1 - 1 = q.n
    BY <2>2, <2>4
  <2>10. qs[1].n = q.n /\ qs # <<>>
    <3>1. qs[1] = Query(p, q.n + 1 - 1, q.lanes[1])
      BY <2>5, <2>9
    <3> QED
      BY <2>4, <2>6, <2>8, <2>9, <3>1, EmptySeq
  <2>11. \A i \in 1 .. Len(qs) : qs[i].pane = p
    BY <2>5, <2>6, <2>8
  <2>12. {k \in 1 .. c : ~Asks(ss[k])} = 1 .. c - 1
    <3>1. \A k \in 1 .. c : k \in 1 .. c - 1 \/ k = c
      BY <2>1
    <3>2. \A k \in 1 .. c - 1 : k \in 1 .. c
      BY <2>1
    <3>3. Asks(ss[c])
      BY <2>1 DEF q
    <3>4. \A k \in 1 .. c - 1 : ~Asks(ss[k])
      BY <2>1
    <3> HIDE DEF c
    <3> QED
      BY <3>1, <3>2, <3>3, <3>4
  <2>13. grid = [k \in 1 .. c - 1 |-> Answered(ss[k].n, "grid")]
    BY <2>12 DEF GridAnswers
  <2>14. c - 1 \in Nat /\ \A k \in 1 .. c - 1 : ss[k].n \in Nat
    <3>1. c - 1 \in Nat /\ \A k \in 1 .. c - 1 : k \in 1 .. Len(ss)
      BY <1>1, <2>1
    <3> QED
      BY <1>3, <3>1
  <2> HIDE DEF c, grid
  <2>15. grid \in Seq(Answers) /\ Len(grid) = c - 1 /\ \A k \in 1 .. c - 1 : grid[k].n = ss[k].n
    <3> DEFINE m == c - 1
    <3> HIDE DEF m
    <3> SUFFICES grid \in Seq(Answers) /\ Len(grid) = m /\ \A k \in 1 .. m : grid[k].n = ss[k].n
      BY DEF m
    <3>1. m \in Nat /\ (\A k \in 1 .. m : ss[k].n \in Nat)
          /\ grid = [k \in 1 .. m |-> Answered(ss[k].n, "grid")]
      BY <2>13, <2>14 DEF m
    <3> QED
      BY <3>1, GridSeries
  <2>16. own = c - 1 /\ c - 1 \in 0 .. c
    BY <2>1, <2>10
  <2>17. Len(qs) = Len(ss[c].lanes) /\ qs[1].n = ss[c].n
    BY <2>8, <2>10 DEF q
  <2> HIDE DEF own, rest
  <2> QED
    BY <1>1, <1>4, <2>1, <2>8, <2>11, <2>15, <2>16, <2>17 DEF rest
<1>6. CASE ~\E k \in DOMAIN ss : Asks(ss[k])
  <2>1. c = Len(ss) /\ qs = <<>>
    BY <1>1, <1>6 DEF QueriesOf
  <2>2. {k \in 1 .. c : ~Asks(ss[k])} = 1 .. c
    BY <1>1, <1>6, <2>1
  <2>3. grid = [k \in 1 .. c |-> Answered(ss[k].n, "grid")]
    BY <2>2 DEF GridAnswers
  <2>4. c \in Nat /\ \A k \in 1 .. c : ss[k].n \in Nat
    <3>1. c \in Nat /\ \A k \in 1 .. c : k \in 1 .. Len(ss)
      BY <1>1
    <3> QED
      BY <1>3, <3>1
  <2>5. qs \in Seq(Messages) /\ Len(qs) = 0
    BY <2>1
  <2> HIDE DEF c, grid, qs
  <2>6. grid \in Seq(Answers) /\ Len(grid) = c /\ \A k \in 1 .. c : grid[k].n = ss[k].n
    <3>1. c \in Nat /\ (\A k \in 1 .. c : ss[k].n \in Nat)
          /\ grid = [k \in 1 .. c |-> Answered(ss[k].n, "grid")]
      BY <2>3, <2>4
    <3> QED
      BY ONLY <3>1, GridSeries
  <2>7. own = c /\ c \in 0 .. c
    BY <2>1, <2>4
  <2>8. \A k \in 1 .. Len(qs) : qs[k].pane = p
    BY <2>5
  <2> HIDE DEF own, rest
  <2> QED
    BY <1>1, <1>4, <2>1, <2>5, <2>6, <2>7, <2>8 DEF rest
<1> QED
  BY <1>5, <1>6

\* The input of a pane goes on where its answers end, a query at a time.
GoesOn(before, ss) ==
  /\ Increasing(before) /\ Increasing(ss)
  /\ \A a \in Elems(before) : \A s \in Elems(ss) : a.n < s.n
  /\ \A s \in Elems(ss) : Len(s.lanes) <= 1

\* So do its answers, what it asks next and what it keeps back.
WentOn(p, before, ss, after) ==
  /\ Increasing(after) /\ Increasing(Rest(ss)) /\ Elems(Rest(ss)) \subseteq Elems(ss)
  /\ \A a \in Elems(after) : a \in Elems(before) \/ \E s \in Elems(ss) : a.n = s.n
  /\ \A a \in Elems(after) : \A s \in Elems(Rest(ss)) : a.n < s.n
  /\ QueriesOf(p, ss) # <<>> =>
       /\ Len(QueriesOf(p, ss)) = 1
       /\ \E s \in Elems(ss) : /\ QueriesOf(p, ss)[1].n = s.n
                               /\ \A a \in Elems(after) : a.n < s.n
                               /\ \A r \in Elems(Rest(ss)) : s.n < r.n

\* A pane that is fed answers in order, asks next what comes after that, and keeps back
\* what comes later.
LEMMA FedInOrder ==
  ASSUME ForwardAssumption, NEW p \in Panes, NEW ss \in Sequences, NEW before \in Seq(Answers),
         GoesOn(before, ss)
  PROVE  WentOn(p, before, ss, before \o GridAnswers(ss))
<1> DEFINE after == before \o GridAnswers(ss)
<1>0. /\ Increasing(before) /\ Increasing(ss)
      /\ \A a \in Elems(before) : \A s \in Elems(ss) : a.n < s.n
      /\ \A s \in Elems(ss) : Len(s.lanes) <= 1
  BY DEF GoesOn
<1> DEFINE qs == QueriesOf(p, ss)
           grid == GridAnswers(ss)
           rest == Rest(ss)
<1>1. PICK c \in 0 .. Len(ss), own \in 0 .. Len(ss) :
        /\ own = IF qs = <<>> THEN c ELSE c - 1
        /\ own \in 0 .. c
        /\ grid \in Seq(Answers) /\ Len(grid) = own
        /\ \A k \in 1 .. own : grid[k].n = ss[k].n
        /\ rest \in Sequences /\ Len(rest) = Len(ss) - c
        /\ \A k \in 1 .. Len(rest) : rest[k] = ss[c + k]
        /\ qs \in Seq(Messages)
        /\ qs # <<>> => /\ c \in 1 .. Len(ss) /\ Len(qs) = Len(ss[c].lanes)
                        /\ qs[1].n = ss[c].n
  <2> DEFINE d == Consumed(ss)
             own == IF qs = <<>> THEN d ELSE d - 1
  <2>1. Len(ss) \in Nat
    BY LenProperties DEF Sequences
  <2>2. d \in 0 .. Len(ss) /\ own \in 0 .. d
    BY FedParts
  <2>3. own \in 0 .. Len(ss)
    <3> HIDE DEF d, own
    <3> QED
      BY <2>1, <2>2
  <2>4. /\ grid \in Seq(Answers) /\ Len(grid) = own
        /\ \A k \in 1 .. own : grid[k].n = ss[k].n
        /\ rest \in Sequences /\ Len(rest) = Len(ss) - d
        /\ \A k \in 1 .. Len(rest) : rest[k] = ss[d + k]
        /\ qs \in Seq(Messages)
        /\ qs # <<>> => /\ d \in 1 .. Len(ss) /\ Len(qs) = Len(ss[d].lanes)
                        /\ qs[1].n = ss[d].n
    BY FedParts
  <2>5. own = IF qs = <<>> THEN d ELSE d - 1
    OBVIOUS
  <2> HIDE DEF d, own, qs, grid, rest
  <2> QED
    BY <2>2, <2>3, <2>4, <2>5
<1> HIDE DEF qs, grid, rest
<1>2. Len(ss) \in Nat /\ \A k \in 1 .. Len(ss) : ss[k] \in Elems(ss) /\ ss[k].n \in Nat
  <2>1. Len(ss) \in Nat
    BY LenProperties DEF Sequences
  <2>2. \A k \in 1 .. Len(ss) : ss[k] \in [n : Nat, lanes : PtySequences]
    BY ElementOfSeq DEF Sequences
  <2> QED
    BY <2>1, <2>2 DEF Elems
<1>3. \A j, k \in 1 .. Len(ss) : j < k => ss[j].n < ss[k].n
  BY <1>0 DEF Increasing
<1>4. \A k \in 1 .. own : k \in 1 .. Len(ss) /\ k <= c /\ (qs # <<>> => k < c)
  BY <1>1, <1>2
<1>5. \A k \in 1 .. Len(rest) : c + k \in 1 .. Len(ss) /\ c < c + k
  BY <1>1, <1>2
<1>6. Increasing(grid)
  <2> SUFFICES ASSUME NEW j \in 1 .. own, NEW k \in 1 .. own, j < k PROVE grid[j].n < grid[k].n
    BY <1>1 DEF Increasing
  <2>1. ss[j].n < ss[k].n
    BY <1>3, <1>4
  <2> QED
    BY <1>1, <2>1
<1>7. Increasing(rest)
  <2> SUFFICES ASSUME NEW j \in 1 .. Len(rest), NEW k \in 1 .. Len(rest), j < k
               PROVE  rest[j].n < rest[k].n
    BY DEF Increasing
  <2>1. c + j < c + k
    BY <1>1, <1>2
  <2>2. ss[c + j].n < ss[c + k].n
    BY <1>3, <1>5, <2>1
  <2> QED
    BY <1>1, <2>2
<1>8. \A s \in Elems(rest) : \E k \in 1 .. Len(ss) : c < k /\ s = ss[k]
  BY <1>1, <1>5 DEF Elems
<1>9. \A a \in Elems(grid) : \E k \in 1 .. Len(ss) : k <= c /\ (qs # <<>> => k < c) /\ a.n = ss[k].n
  BY <1>1, <1>4 DEF Elems
<1>10. after = before \o grid /\ Elems(after) = Elems(before) \cup Elems(grid)
  BY <1>1, ElemsFacts DEF grid
<1> HIDE DEF after
<1>11. Increasing(after)
  <2>1. \A a \in Answers : a.n \in Nat
    BY DEF Answers
  <2>2. \A a \in Elems(before) : \A b \in Elems(grid) : a.n < b.n
    <3> TAKE a \in Elems(before)
    <3> TAKE b \in Elems(grid)
    <3>1. PICK k \in 1 .. Len(ss) : b.n = ss[k].n
      BY <1>9
    <3> QED
      BY <1>0, <1>2, <3>1
  <2> QED
    BY <1>0, <1>1, <1>6, <1>10, <2>1, <2>2, SeriesJoined
<1>12. Elems(rest) \subseteq Elems(ss)
  BY <1>2, <1>8
<1>13. \A a \in Elems(after) : a \in Elems(before) \/ \E s \in Elems(ss) : a.n = s.n
  BY <1>2, <1>9, <1>10
<1>14. \A a \in Elems(after) : \A s \in Elems(rest) : a.n < s.n
  <2> TAKE a \in Elems(after)
  <2> TAKE s \in Elems(rest)
  <2>1. PICK k \in 1 .. Len(ss) : c < k /\ s = ss[k]
    BY <1>8
  <2>2. CASE a \in Elems(before)
    BY <1>0, <1>2, <2>1, <2>2
  <2>3. CASE a \in Elems(grid)
    <3>1. PICK j \in 1 .. Len(ss) : j <= c /\ a.n = ss[j].n
      BY <1>9, <2>3
    <3>2. j < k
      BY <1>1, <1>2, <2>1, <3>1
    <3> QED
      BY <1>3, <2>1, <3>1, <3>2
  <2> QED
    BY <1>10, <2>2, <2>3
<1>15. ASSUME qs # <<>>
       PROVE  /\ Len(qs) = 1
              /\ \E s \in Elems(ss) : /\ qs[1].n = s.n
                                      /\ \A a \in Elems(after) : a.n < s.n
                                      /\ \A r \in Elems(rest) : s.n < r.n
  <2>1. c \in 1 .. Len(ss) /\ Len(qs) = Len(ss[c].lanes) /\ qs[1].n = ss[c].n
    BY <1>1, <1>15
  <2>2. ss[c] \in Elems(ss) /\ Len(ss[c].lanes) <= 1
    BY <1>0, <1>2, <2>1
  <2>3. Len(qs) \in Nat /\ Len(qs) # 0
    BY <1>1, <1>15, LenProperties, EmptySeq
  <2>4. \A a \in Elems(after) : a.n < ss[c].n
    <3> TAKE a \in Elems(after)
    <3>1. CASE a \in Elems(before)
      BY <1>0, <2>2, <3>1
    <3>2. CASE a \in Elems(grid)
      <4>1. PICK j \in 1 .. Len(ss) : j < c /\ a.n = ss[j].n
        BY <1>9, <1>15, <3>2
      <4> QED
        BY <1>3, <2>1, <4>1
    <3> QED
      BY <1>10, <3>1, <3>2
  <2>5. \A r \in Elems(rest) : ss[c].n < r.n
    BY <1>3, <1>8, <2>1
  <2>6. Len(qs) = 1
    <3>1. Len(qs) <= 1
      BY <2>1, <2>2, Zenon
    <3>2. \A l \in Nat : l # 0 /\ l <= 1 => l = 1
      OBVIOUS
    <3> QED
      BY <2>3, <3>1, <3>2, Zenon
  <2> QED
    BY <2>1, <2>2, <2>4, <2>5, <2>6, Zenon
<1> QED
  BY <1>7, <1>11, <1>12, <1>13, <1>14, <1>15 DEF qs, rest, after, WentOn
-----------------------------------------------------------------------------

\* A pane's answers keep their type when it is fed, and the other panes' are untouched.
LEMMA FeedTypes ==
  ASSUME ForwardAssumption, AnswerTypes, NEW p \in Panes, NEW ss \in Sequences,
         NEW now \in Seq(Answers), NEW channel, Feed(p, ss, now, channel)
  PROVE  /\ AnswerTypes'
         /\ answered[p] \o now \in Seq(Answers)
         /\ answered'[p] = (answered[p] \o now) \o GridAnswers(ss)
         /\ \A o \in Panes \ {p} : answered'[o] = answered[o]
<1>1. answered' = [answered EXCEPT ![p] = (answered[p] \o now) \o GridAnswers(ss)]
  BY DEF Feed
<1>2. GridAnswers(ss) \in Seq(Answers)
  BY FedParts
<1>3. answered[p] \in Seq(Answers)
  BY DEF AnswerTypes
<1>4. answered[p] \o now \in Seq(Answers)
  BY <1>3, ConcatProperties
<1>5. (answered[p] \o now) \o GridAnswers(ss) \in Seq(Answers)
  BY <1>2, <1>4, ConcatProperties
<1> QED
  BY <1>1, <1>4, <1>5 DEF AnswerTypes

\* What is said of a pane survives a step that leaves it alone, moves what Screen's
\* channel holds of it forward by d places, and adds nothing of it to the lanes.
LEMMA OtherPane ==
  ASSUME NEW o, NEW d \in Nat, to_screen \in Seq(Messages), to_screen' \in Seq(Messages),
         answered'[o] = answered[o], asked'[o] = asked[o],
         paused'[o] = paused[o], pending_input'[o] = pending_input[o],
         \A k \in 1 .. Len(to_screen') :
           to_screen'[k].kind = "query" /\ to_screen'[k].pane = o =>
             k + d \in 1 .. Len(to_screen) /\ to_screen[k + d] = to_screen'[k],
         \A lane, e : Record(o, lane, e)' => Record(o, lane, e),
         PaneOrder(o), OneQuery(o)
  PROVE  PaneOrder(o)' /\ OneQuery(o)'
<1>1. \A k : QueryAt(o, k)' => QueryAt(o, k + d) /\ to_screen[k + d] = to_screen'[k] /\ k \in Int
  BY DEF QueryAt
<1>2. \A n : Asked(o, n)' => Asked(o, n)
  BY <1>1 DEF Asked
<1>3. \A n : ToCome(o, n) => ToCome(o, n)'
  BY DEF ToCome
<1>4. PaneOrder(o)'
  BY <1>2, <1>3 DEF PaneOrder
<1>5. OneQuery(o)'
  <2>1. \A j, k : QueryAt(o, j)' /\ QueryAt(o, k)' => j = k
    <3> TAKE j, k
    <3> HAVE QueryAt(o, j)' /\ QueryAt(o, k)'
    <3>1. j + d = k + d /\ j \in Int /\ k \in Int
      BY <1>1 DEF OneQuery
    <3> QED
      BY <3>1
  <2>2. \A k, lane, e : ~(QueryAt(o, k)' /\ Record(o, lane, e)')
    BY <1>1 DEF OneQuery
  <2>3. \A lane, other, e, f :
          Record(o, lane, e)' /\ Record(o, other, f)' => lane = other /\ e = f
    BY DEF OneQuery
  <2> QED
    BY <2>1, <2>2, <2>3 DEF OneQuery
<1> QED
  BY <1>4, <1>5

\* A pane with nothing under way is fed in order.
LEMMA PaneFed ==
  ASSUME ForwardAssumption, PaneTypes, AnswerTypes, NEW p \in Panes, NEW ss \in Sequences,
         NEW now \in Seq(Answers), NEW channel \in Seq(Messages), Feed(p, ss, now, channel),
         Increasing(answered[p] \o now), Increasing(ss),
         \A a \in Elems(answered[p] \o now) : a.n <= asked'[p] /\ \A s \in Elems(ss) : a.n < s.n,
         \A s \in Elems(ss) : Len(s.lanes) <= 1 /\ s.n <= asked'[p],
         \A k \in 1 .. Len(channel) : ~(channel[k].kind = "query" /\ channel[k].pane = p),
         \A lane, e : ~Record(p, lane, e)'
  PROVE  Increasing(answered'[p]) /\ PaneOrder(p)' /\ OneQuery(p)'
<1> DEFINE qs == QueriesOf(p, ss)
           before == answered[p] \o now
           after == answered'[p]
<1>1. before \in Seq(Answers) /\ after = before \o GridAnswers(ss)
  BY FeedTypes
<1>2. WentOn(p, before, ss, after)
  <2>1. GoesOn(before, ss)
    BY DEF GoesOn
  <2> HIDE DEF before, after
  <2>2. WentOn(p, before, ss, before \o GridAnswers(ss))
    BY <1>1, <2>1, FedInOrder
  <2> QED
    BY <1>1, <2>2
<1>3. /\ paused'[p] = (qs # <<>>) /\ pending_input'[p] = Rest(ss)
      /\ to_screen' = channel \o qs
  BY DEF Feed, PaneTypes, PausesAfter
<1>4. qs \in Seq(Messages) /\ Len(qs) \in Nat /\ Len(channel) \in Nat
  BY FedParts, LenProperties
<1>5. Len(to_screen') = Len(channel) + Len(qs)
      /\ \A k \in 1 .. Len(channel) + Len(qs) :
           to_screen'[k] = IF k <= Len(channel) THEN channel[k] ELSE qs[k - Len(channel)]
  BY <1>3, <1>4, ConcatProperties
<1> HIDE DEF qs, before, after
<1>6. \A k : QueryAt(p, k)' => qs # <<>> /\ k = Len(channel) + 1 /\ to_screen'[k] = qs[1]
  <2> SUFFICES ASSUME NEW k \in 1 .. Len(channel) + Len(qs),
                      to_screen'[k].kind = "query", to_screen'[k].pane = p
               PROVE  qs # <<>> /\ k = Len(channel) + 1 /\ to_screen'[k] = qs[1]
    BY <1>5 DEF QueryAt
  <2>1. ~(k <= Len(channel))
    BY <1>4, <1>5
  <2>2. k - Len(channel) \in 1 .. Len(qs) /\ to_screen'[k] = qs[k - Len(channel)]
    BY <1>4, <1>5, <2>1
  <2>3. qs # <<>>
    BY <1>4, <2>2, EmptySeq
  <2>4. k - Len(channel) = 1
    <3>1. Len(qs) = 1
      BY <1>2, <2>3 DEF WentOn, qs
    <3> QED
      BY <2>2, <3>1
  <2> QED
    BY <1>4, <2>2, <2>3, <2>4
<1>7. \A n : Asked(p, n)' => qs # <<>> /\ n = qs[1].n
  BY <1>6 DEF Asked
<1>8. OneQuery(p)'
  BY <1>6 DEF OneQuery
<1>9. \A a \in Elems(after) : a.n <= asked'[p]
  BY <1>2 DEF before, WentOn
<1>10. PaneOrder(p)'
  <2>1. Increasing(pending_input[p])'
    BY <1>2, <1>3 DEF WentOn
  <2>2. \A s \in Elems(pending_input'[p]) : Len(s.lanes) <= 1 /\ ToCome(p, s.n)'
    BY <1>2, <1>3 DEF ToCome, after, WentOn
  <2>3. \A n : Asked(p, n)' => /\ paused'[p] /\ ToCome(p, n)'
                               /\ \A s \in Elems(pending_input'[p]) : n < s.n
    <3> TAKE n
    <3> HAVE Asked(p, n)'
    <3>1. qs # <<>> /\ n = qs[1].n
      BY <1>7
    <3>2. PICK s \in Elems(ss) : /\ n = s.n
                                 /\ \A a \in Elems(after) : a.n < s.n
                                 /\ \A r \in Elems(Rest(ss)) : s.n < r.n
      BY <1>2, <3>1 DEF WentOn, qs
    <3> QED
      BY <1>3, <3>1, <3>2 DEF ToCome, after
  <2> QED
    BY <1>9, <2>1, <2>2, <2>3 DEF PaneOrder, after
<1> QED
  BY <1>2, <1>8, <1>10 DEF after, WentOn
-----------------------------------------------------------------------------

\* A reply, or several, at the end of Screen's channel.
LEMMA RepliesAppended ==
  ASSUME ChannelType, NEW r \in Seq(Messages), to_screen' = to_screen \o r,
         \A k \in 1 .. Len(r) : r[k].kind = "reply"
  PROVE  \A k \in 1 .. Len(to_screen') :
           \/ to_screen'[k].kind = "reply"
           \/ k \in 1 .. Len(to_screen) /\ to_screen'[k] = to_screen[k]
<1>1. /\ Len(to_screen) \in Nat /\ Len(r) \in Nat /\ Len(to_screen') = Len(to_screen) + Len(r)
      /\ \A i \in 1 .. Len(to_screen) + Len(r) :
           to_screen'[i] = IF i <= Len(to_screen) THEN to_screen[i] ELSE r[i - Len(to_screen)]
  BY ConcatProperties, LenProperties DEF ChannelType
<1> TAKE k \in 1 .. Len(to_screen')
<1>2. CASE k <= Len(to_screen)
  BY <1>1, <1>2
<1>3. CASE ~(k <= Len(to_screen))
  <2>1. k - Len(to_screen) \in 1 .. Len(r) /\ to_screen'[k] = r[k - Len(to_screen)]
    BY <1>1, <1>3
  <2> QED
    BY <2>1
<1> QED
  BY <1>2, <1>3

LEMMA ReplyAppended ==
  ASSUME ChannelType, NEW r \in Messages, r.kind = "reply", to_screen' = Append(to_screen, r)
  PROVE  \A k \in 1 .. Len(to_screen') :
           \/ to_screen'[k].kind = "reply"
           \/ k \in 1 .. Len(to_screen) /\ to_screen'[k] = to_screen[k]
<1>1. /\ Len(to_screen) \in Nat /\ Len(to_screen') = Len(to_screen) + 1
      /\ \A i \in 1 .. Len(to_screen) : to_screen'[i] = to_screen[i]
      /\ to_screen'[Len(to_screen) + 1] = r
  BY AppendProperties, LenProperties DEF ChannelType
<1> QED
  BY <1>1

\* Steps that only add replies to Screen's channel change the order of nothing.
LEMMA RepliesAdded ==
  ASSUME ChannelType, ChannelType', OrderInv, UNCHANGED <<paneVars, entries, waiting>>,
         \A k \in 1 .. Len(to_screen') :
           \/ to_screen'[k].kind = "reply"
           \/ k \in 1 .. Len(to_screen) /\ to_screen'[k] = to_screen[k]
  PROVE  OrderInv'
<1>1. AnswerTypes' /\ UNCHANGED <<open, asked, paused, pending_input, answered, several>>
  BY DEF OrderInv, AnswerTypes, paneVars
<1> SUFFICES ASSUME NEW o \in Panes \ several
             PROVE  Increasing(answered[o]) /\ (o \in open => PaneOrder(o)' /\ OneQuery(o)')
  BY <1>1 DEF OrderInv
<1>2. Increasing(answered[o]) /\ (o \in open => PaneOrder(o) /\ OneQuery(o))
  BY DEF OrderInv
<1>3. \A lane, e : Record(o, lane, e)' => Record(o, lane, e)
  BY DEF Record
<1>4. \A k \in 1 .. Len(to_screen') :
        to_screen'[k].kind = "query" /\ to_screen'[k].pane = o =>
          k + 0 \in 1 .. Len(to_screen) /\ to_screen[k + 0] = to_screen'[k]
  <2> TAKE k \in 1 .. Len(to_screen')
  <2> HAVE to_screen'[k].kind = "query" /\ to_screen'[k].pane = o
  <2>1. k \in 1 .. Len(to_screen) /\ to_screen'[k] = to_screen[k]
    OBVIOUS
  <2>2. k + 0 = k
    BY <2>1
  <2> QED
    BY <2>1, <2>2
<1>5. o \in open => PaneOrder(o)' /\ OneQuery(o)'
  BY <1>1, <1>2, <1>3, <1>4, OtherPane DEF ChannelType
<1> QED
  BY <1>2, <1>5

LEMMA DeadlineInOrder ==
  ASSUME IInv, IInv', OrderInv, NEW t \in Tokens, Deadline(t)
  PROVE  OrderInv'
<1>1. to_screen' = Append(to_screen, Reply(t, "cache")) /\ UNCHANGED <<paneVars, entries, waiting>>
  BY DEF Deadline
<1>2. ChannelType /\ ChannelType' /\ Reply(t, "cache").kind = "reply"
  BY DEF IInv, Reply
<1>3. Reply(t, "cache") \in Messages
  BY DEF Reply, Messages, Replies, Tokens, Issued
<1> QED
  BY <1>1, <1>2, <1>3, ReplyAppended, RepliesAdded

LEMMA RouteReplyInOrder ==
  ASSUME IInv, IInv', OrderInv, NEW c \in Clients, NEW t \in Tokens, RouteReply(c, t)
  PROVE  OrderInv'
<1>1. to_screen' = Append(to_screen, Reply(t, "host")) /\ UNCHANGED <<paneVars, entries, waiting>>
  BY DEF RouteReply, laneVars
<1>2. ChannelType /\ ChannelType' /\ Reply(t, "host").kind = "reply"
  BY DEF IInv, Reply
<1>3. Reply(t, "host") \in Messages
  BY DEF Reply, Messages, Replies, Tokens, Issued
<1> QED
  BY <1>1, <1>2, <1>3, ReplyAppended, RepliesAdded

LEMMA RouteKeyInOrder ==
  ASSUME IInv, IInv', OrderInv, NEW c \in Clients, RouteKey(c)
  PROVE  OrderInv'
<1>1. UNCHANGED <<paneVars, to_screen, entries, waiting>>
  BY DEF RouteKey, laneVars
<1> QED
  BY <1>1, RepliesAdded DEF IInv

LEMMA ClientExitInOrder ==
  ASSUME IInv, IInv', OrderInv, NEW c \in Clients, ClientExit(c)
  PROVE  OrderInv'
<1>1. RemoveClient(c, in_hand) /\ UNCHANGED <<paneVars, entries, waiting>>
  BY DEF ClientExit, laneVars
<1>2. ChannelType /\ ChannelType' /\ in_hand \in SUBSET (Issued \X Clients) /\ IsFiniteSet(in_hand)
  BY DEF IInv, ServerTypes
<1>3. \E r \in Seq(Messages) : /\ to_screen' = to_screen \o r
                               /\ \A k \in 1 .. Len(r) : r[k].kind = "reply"
  BY <1>1, <1>2, RemoveClientFacts
<1> QED
  BY <1>1, <1>2, <1>3, RepliesAppended, RepliesAdded

LEMMA ForwardQueryInOrder ==
  ASSUME IInv, IInv', OrderInv, ForwardQueryToHost
  PROVE  OrderInv'
<1>1. /\ to_server # <<>>
      /\ UNCHANGED <<paneVars, entries, waiting>>
  BY DEF ForwardQueryToHost
<1>2. ChannelType /\ ChannelType' /\ ServerTypes
  BY DEF IInv
<1>3. PICK t \in Issued : t = Head(to_server)
  BY <1>1, <1>2, ElemsFacts DEF ServerTypes
<1>4. CASE to_screen' = Append(to_screen, Reply(t, "cache"))
  <2>1. Reply(t, "cache") \in Messages /\ Reply(t, "cache").kind = "reply"
    BY DEF Reply, Messages, Replies
  <2> QED
    BY <1>1, <1>2, <1>4, <2>1, ReplyAppended, RepliesAdded
<1>5. CASE to_screen' = to_screen
  BY <1>1, <1>2, <1>5, RepliesAdded
<1>6. CASE \E c \in Targets : RemoveClient(c, in_hand \cup {<<t, c>>})
  <2>1. PICK c \in Targets : RemoveClient(c, in_hand \cup {<<t, c>>})
    BY <1>6
  <2>2. c \in Clients
    BY <1>2 DEF Targets, ServerTypes
  <2> DEFINE hand == in_hand \cup {<<t, c>>}
  <2>3. hand \in SUBSET (Issued \X Clients) /\ IsFiniteSet(hand)
    <3>1. in_hand \in SUBSET (Issued \X Clients) /\ IsFiniteSet(in_hand)
      BY <1>2 DEF ServerTypes
    <3>2. <<t, c>> \in Issued \X Clients
      BY <2>2
    <3>3. IsFiniteSet(hand)
      BY <3>1, FS_AddElement
    <3> QED
      BY <3>1, <3>2, <3>3
  <2> HIDE DEF hand
  <2>4. RemoveClient(c, hand)
    BY <2>1 DEF hand
  <2>5. \E r \in Seq(Messages) : /\ to_screen' = to_screen \o r
                                 /\ \A k \in 1 .. Len(r) : r[k].kind = "reply"
    BY <1>2, <2>3, <2>4, RemoveClientFacts
  <2> QED
    BY <1>1, <1>2, <2>5, RepliesAppended, RepliesAdded
<1> QED
  BY <1>3, <1>4, <1>5, <1>6 DEF ForwardQueryToHost

LEMMA ClosePaneInOrder ==
  ASSUME IInv, IInv', OrderInv, NEW p \in Panes, ClosePane(p)
  PROVE  OrderInv'
<1>1. /\ open' = open \ {p}
      /\ UNCHANGED <<asked, paused, pending_input, answered, several, to_screen, entries, waiting>>
  BY DEF ClosePane, laneVars
<1>2. AnswerTypes'
  BY <1>1 DEF OrderInv, AnswerTypes
<1>3. \A o : PaneOrder(o) => PaneOrder(o)'
  BY <1>1 DEF PaneOrder, Asked, QueryAt, Record, ToCome
<1>4. \A o : OneQuery(o) => OneQuery(o)'
  BY <1>1 DEF OneQuery, QueryAt, Record
<1> QED
  BY <1>1, <1>2, <1>3, <1>4 DEF OrderInv
-----------------------------------------------------------------------------

\* The panes other than the one that is fed.
LEMMA FedOthers ==
  ASSUME ForwardAssumption, PaneTypes, AnswerTypes, ChannelType, ChannelType',
         NEW p \in Panes, NEW ss \in Sequences, NEW now \in Seq(Answers),
         NEW channel \in Seq(Messages), Feed(p, ss, now, channel),
         NEW d \in Nat,
         \A k \in 1 .. Len(channel) : k + d \in 1 .. Len(to_screen) /\ to_screen[k + d] = channel[k],
         NEW o \in Panes \ {p}, asked'[o] = asked[o],
         \A lane, e : Record(o, lane, e)' => Record(o, lane, e),
         PaneOrder(o), OneQuery(o)
  PROVE  PaneOrder(o)' /\ OneQuery(o)'
<1> DEFINE qs == QueriesOf(p, ss)
<1>1. qs \in Seq(Messages) /\ \A k \in 1 .. Len(qs) : qs[k].pane = p
  BY FedParts
<1>2. to_screen' = channel \o qs /\ paused'[o] = paused[o] /\ pending_input'[o] = pending_input[o]
  BY DEF Feed, PaneTypes
<1>3. answered'[o] = answered[o]
  BY FeedTypes
<1> HIDE DEF qs
<1>4. /\ Len(channel) \in Nat /\ Len(qs) \in Nat /\ Len(to_screen') = Len(channel) + Len(qs)
      /\ \A i \in 1 .. Len(channel) + Len(qs) :
           to_screen'[i] = IF i <= Len(channel) THEN channel[i] ELSE qs[i - Len(channel)]
  BY <1>1, <1>2, ConcatProperties, LenProperties
<1>5. \A k \in 1 .. Len(to_screen') :
        to_screen'[k].kind = "query" /\ to_screen'[k].pane = o =>
          k + d \in 1 .. Len(to_screen) /\ to_screen[k + d] = to_screen'[k]
  <2> TAKE k \in 1 .. Len(to_screen')
  <2> HAVE to_screen'[k].kind = "query" /\ to_screen'[k].pane = o
  <2>1. CASE k <= Len(channel)
    BY <1>4, <2>1
  <2>2. CASE ~(k <= Len(channel))
    <3>1. k - Len(channel) \in 1 .. Len(qs) /\ to_screen'[k] = qs[k - Len(channel)]
      BY <1>4, <2>2
    <3> QED
      BY <1>1, <3>1
  <2> QED
    BY <2>1, <2>2
<1> QED
  BY <1>2, <1>3, <1>5, OtherPane DEF ChannelType

\* What is left of a channel whose first message is taken.
LEMMA HeadTaken ==
  ASSUME ChannelType, to_screen # <<>>
  PROVE  /\ Tail(to_screen) \in Seq(Messages) /\ 1 \in 1 .. Len(to_screen)
         /\ Head(to_screen) = to_screen[1]
         /\ \A k \in 1 .. Len(Tail(to_screen)) :
              /\ k + 1 \in 1 .. Len(to_screen) /\ k + 1 # 1
              /\ to_screen[k + 1] = Tail(to_screen)[k]
<1>1. Len(to_screen) \in Nat /\ Len(to_screen) # 0
  BY LenProperties, EmptySeq DEF ChannelType
<1>2. /\ Tail(to_screen) \in Seq(Messages) /\ Len(Tail(to_screen)) = Len(to_screen) - 1
      /\ Head(to_screen) = to_screen[1]
      /\ \A i \in 1 .. Len(Tail(to_screen)) : Tail(to_screen)[i] = to_screen[i + 1]
  BY <1>1, HeadTailProperties DEF ChannelType
<1>3. \A k \in 1 .. Len(Tail(to_screen)) : k + 1 \in 1 .. Len(to_screen) /\ k + 1 # 1
  BY <1>1, <1>2
<1> QED
  BY <1>1, <1>2, <1>3

\* Queries have numbers.
LEMMA AskedNumbers ==
  ASSUME ChannelType, LaneTypes, NEW p, NEW n, Asked(p, n)
  PROVE  n \in Nat
<1>1. ASSUME NEW k, QueryAt(p, k), to_screen[k].n = n
      PROVE  n \in Nat
  <2>1. to_screen[k] \in Messages /\ to_screen[k].kind = "query"
    BY <1>1, ElementOfSeq DEF QueryAt, ChannelType
  <2> QED
    BY <1>1, <2>1 DEF Messages, Queries, Replies
<1>2. ASSUME NEW lane, NEW e, Record(p, lane, e), e.n = n
      PROVE  n \in Nat
  <2>1. lane \in Lanes /\ (e \in entries[lane] \/ e \in Elems(waiting[lane]))
    BY <1>2 DEF Record
  <2>2. entries[lane] \subseteq Entries /\ waiting[lane] \in Seq(Entries)
    BY <2>1 DEF LaneTypes
  <2>3. e \in Entries
    BY <2>1, <2>2, ElemsFacts
  <2> QED
    BY <1>2, <2>3 DEF Entries
<1> QED
  BY <1>1, <1>2 DEF Asked

LEMMA PtyBytesInOrder ==
  ASSUME ForwardAssumption, IInv, IInv', OrderInv,
         NEW p \in Panes, NEW lanes \in PtySequences, PtyBytes(p, lanes)
  PROVE  OrderInv'
<1> DEFINE s == Sequence(asked[p] + 1, lanes)
           none == <<>>
           ss == <<s>>
<1>1. /\ p \in open /\ UNCHANGED <<open, entries, waiting>>
      /\ asked' = [asked EXCEPT ![p] = @ + (IF lanes = <<>> THEN 1 ELSE Len(lanes))]
      /\ several' = IF Len(lanes) > 1 THEN several \cup {p} ELSE several
      /\ \/ /\ paused[p]
            /\ pending_input' = [pending_input EXCEPT ![p] = Append(pending_input[p], s)]
            /\ UNCHANGED <<paused, answered, to_screen>>
         \/ ~paused[p] /\ Feed(p, ss, none, to_screen)
  BY DEF PtyBytes, laneVars
<1>2. /\ asked \in [Panes -> Nat] /\ PaneTypes /\ to_screen \in Seq(Messages) /\ AnswerTypes
      /\ ChannelType /\ ChannelType'
  BY DEF IInv, PaneTypes, ChannelType, OrderInv
<1>3. s \in [n : Nat, lanes : PtySequences] /\ s.n = asked[p] + 1 /\ s.lanes = lanes
  BY <1>2 DEF Sequence
<1>4. Len(lanes) \in Nat /\ (lanes # <<>> => Len(lanes) # 0)
  <2>1. lanes \in Seq(Lanes \cup {"local"})
    BY DEF ForwardAssumption
  <2> QED
    BY <2>1, LenProperties, EmptySeq
<1>5. /\ Len(lanes) <= 1 => asked'[p] = asked[p] + 1
      /\ \A o \in Panes \ {p} : asked'[o] = asked[o]
  BY <1>1, <1>2, <1>4
<1>6. ss \in Sequences /\ none \in Seq(Answers) /\ Elems(ss) = {s} /\ Increasing(ss)
  BY <1>3 DEF Sequences, Elems, Increasing
<1>7. \A o, lane, e : Record(o, lane, e)' => Record(o, lane, e)
  BY <1>1 DEF Record
<1> HIDE DEF s, ss, none
<1>8. AnswerTypes'
  <2>1. CASE UNCHANGED answered
    BY <1>2, <2>1 DEF AnswerTypes
  <2>2. CASE Feed(p, ss, none, to_screen)
    BY <1>2, <1>6, <2>2, FeedTypes
  <2> QED
    BY <1>1, <2>1, <2>2
<1> SUFFICES ASSUME NEW o \in Panes \ several'
             PROVE  Increasing(answered'[o]) /\ (o \in open => PaneOrder(o)' /\ OneQuery(o)')
  BY <1>1, <1>8 DEF OrderInv
<1>9. /\ o \notin several /\ (o = p => Len(lanes) <= 1)
      /\ Increasing(answered[o])
      /\ o \in open => PaneOrder(o) /\ OneQuery(o)
  BY <1>1, <1>4 DEF OrderInv
<1>10. CASE o # p
  <2>1. CASE paused[p]
    <3>1. /\ answered' = answered /\ paused' = paused /\ to_screen' = to_screen
          /\ pending_input'[o] = pending_input[o] /\ asked'[o] = asked[o]
      BY <1>1, <1>2, <1>5, <1>10, <2>1 DEF PaneTypes
    <3>2. PaneOrder(o) => PaneOrder(o)'
      BY <1>7, <3>1 DEF PaneOrder, Asked, QueryAt, ToCome
    <3>3. OneQuery(o) => OneQuery(o)'
      BY <1>7, <3>1 DEF OneQuery, QueryAt
    <3> QED
      BY <1>9, <3>1, <3>2, <3>3
  <2>2. CASE ~paused[p]
    <3>1. Feed(p, ss, none, to_screen)
      BY <1>1, <2>2
    <3>2. answered'[o] = answered[o]
      BY <1>2, <1>6, <1>10, <3>1, FeedTypes
    <3>3. PICK d \in Nat : \A k \in 1 .. Len(to_screen) :
            k + d \in 1 .. Len(to_screen) /\ to_screen[k + d] = to_screen[k]
      <4>1. \A k \in 1 .. Len(to_screen) : k + 0 = k
        OBVIOUS
      <4> QED
        BY <4>1
    <3>4. o \in Panes \ {p} /\ asked'[o] = asked[o]
      BY <1>5, <1>10
    <3>5. o \in open => PaneOrder(o)' /\ OneQuery(o)'
      <4> SUFFICES ASSUME o \in open PROVE PaneOrder(o)' /\ OneQuery(o)'
        OBVIOUS
      <4>1. PaneTypes /\ AnswerTypes /\ ChannelType /\ ChannelType' /\ to_screen \in Seq(Messages)
        BY <1>2
      <4>2. \A lane, e : Record(o, lane, e)' => Record(o, lane, e)
        BY <1>7
      <4>3. PaneOrder(o) /\ OneQuery(o)
        BY <1>9
      <4> QED
        BY <1>6, <3>1, <3>3, <3>4, <4>1, <4>2, <4>3, FedOthers
    <3> QED
      BY <1>9, <3>2, <3>5
  <2> QED
    BY <2>1, <2>2
<1>11. CASE o = p
  <2>1. PaneOrder(p) /\ OneQuery(p) /\ Increasing(answered[p]) /\ Len(lanes) <= 1
        /\ asked'[p] = asked[p] + 1 /\ asked[p] \in Nat
    BY <1>1, <1>2, <1>5, <1>9, <1>11
  <2>2. /\ answered[p] \in Seq(Answers)
        /\ \A a \in Elems(answered[p]) : a.n \in Nat /\ a.n <= asked[p] /\ a.n < s.n
    <3>1. answered[p] \in Seq(Answers)
      BY <1>2 DEF AnswerTypes
    <3>2. \A a \in Elems(answered[p]) : a \in Answers
      BY <3>1, ElemsFacts
    <3>3. \A a \in Elems(answered[p]) : a.n \in Nat
      BY <3>2 DEF Answers
    <3>4. \A a \in Elems(answered[p]) : a.n <= asked[p]
      BY <2>1 DEF PaneOrder
    <3> QED
      BY <1>3, <2>1, <3>1, <3>3, <3>4
  <2>3. CASE paused[p]
    <3> DEFINE w == pending_input[p]
               M == [n : Nat, lanes : PtySequences]
    <3>1. w \in Seq(M) /\ s \in M /\ \A x \in M : x.n \in Nat
      BY <1>2, <1>3 DEF PaneTypes, Sequences
    <3> HIDE DEF M
    <3>2. /\ answered' = answered /\ paused' = paused /\ to_screen' = to_screen
          /\ pending_input'[p] = Append(w, s)
      BY <1>1, <1>2, <2>3 DEF PaneTypes
    <3>3. \A x \in Elems(w) : /\ x.n \in Nat /\ x.n <= asked[p] /\ Len(x.lanes) <= 1
                              /\ \A a \in Elems(answered[p]) : a.n < x.n
      <4>1. Elems(w) \subseteq M
        BY <3>1, ElemsFacts
      <4> QED
        BY <2>1, <3>1, <4>1 DEF PaneOrder, ToCome
    <3>4. Increasing(w)
      BY <2>1 DEF PaneOrder
    <3>5. \A n : Asked(p, n) => /\ n <= asked[p] /\ \A a \in Elems(answered[p]) : a.n < n
                                /\ \A x \in Elems(w) : n < x.n
      BY <2>1 DEF PaneOrder, ToCome
    <3> HIDE DEF w
    <3>6. Elems(Append(w, s)) = Elems(w) \cup {s}
      BY <3>1, ElemsFacts
    <3>7. Increasing(Append(w, s))
      <4>1. \A x \in Elems(w) : x.n < s.n
        BY <1>3, <2>1, <3>3
      <4> QED
        BY <3>1, <3>4, <4>1, SeriesExtended
    <3>8. \A n : Asked(p, n)' => Asked(p, n) /\ n \in Nat
      <4>1. \A n : Asked(p, n)' => Asked(p, n)
        BY <1>7, <3>2 DEF Asked, QueryAt
      <4> QED
        BY <1>2, <4>1, AskedNumbers DEF IInv
    <3>9. \A x \in Elems(pending_input'[p]) : Len(x.lanes) <= 1 /\ ToCome(p, x.n)'
      <4> TAKE x \in Elems(pending_input'[p])
      <4>1. CASE x \in Elems(w)
        <5>1. x.n <= asked[p] + 1
          BY <2>1, <3>3, <4>1
        <5> QED
          BY <2>1, <3>2, <3>3, <4>1, <5>1 DEF ToCome
      <4>2. CASE x = s
        <5>1. s.n <= asked'[p]
          BY <1>3, <2>1
        <5> QED
          BY <1>3, <2>1, <2>2, <3>2, <4>2, <5>1 DEF ToCome
      <4> QED
        BY <3>2, <3>6, <4>1, <4>2
    <3>10. \A n : Asked(p, n)' => /\ paused'[p] /\ ToCome(p, n)'
                                  /\ \A x \in Elems(pending_input'[p]) : n < x.n
      <4> TAKE n
      <4> HAVE Asked(p, n)'
      <4>1. Asked(p, n) /\ n \in Nat
        BY <3>8
      <4>2. n <= asked'[p] /\ n < s.n
        BY <1>3, <2>1, <3>5, <4>1
      <4> QED
        BY <2>3, <3>2, <3>5, <3>6, <4>1, <4>2 DEF ToCome
    <3>11. \A a \in Elems(answered'[p]) : a.n <= asked'[p]
      BY <2>1, <2>2, <3>2
    <3>12. PaneOrder(p)'
      BY <3>2, <3>7, <3>9, <3>10, <3>11 DEF PaneOrder
    <3>13. OneQuery(p)'
      BY <1>7, <2>1, <3>2 DEF OneQuery, QueryAt
    <3> QED
      BY <1>11, <2>1, <3>2, <3>12, <3>13
  <2>4. CASE ~paused[p]
    <3>1. Feed(p, ss, none, to_screen)
      BY <1>1, <2>4
    <3>2. answered[p] \o none = answered[p]
      BY <2>2, ConcatEmptySeq DEF none
    <3>3. \A n : ~Asked(p, n)
      BY <2>1, <2>4 DEF PaneOrder
    <3>4. \A k \in 1 .. Len(to_screen) : ~(to_screen[k].kind = "query" /\ to_screen[k].pane = p)
      BY <3>3 DEF Asked, QueryAt
    <3>5. \A lane, e : ~Record(p, lane, e)'
      BY <1>7, <3>3 DEF Asked
    <3>6. /\ Increasing(answered[p] \o none)
          /\ \A a \in Elems(answered[p] \o none) :
               a.n <= asked'[p] /\ \A x \in Elems(ss) : a.n < x.n
          /\ \A x \in Elems(ss) : Len(x.lanes) <= 1 /\ x.n <= asked'[p]
      BY <1>3, <1>6, <2>1, <2>2, <3>2
    <3> QED
      BY <1>2, <1>6, <1>11, <3>1, <3>4, <3>5, <3>6, PaneFed
  <2> QED
    BY <2>3, <2>4
<1> QED
  BY <1>10, <1>11
-----------------------------------------------------------------------------

\* The pane whose query was under way is resumed when the query is taken away.
LEMMA ResumedInOrder ==
  ASSUME ForwardAssumption, PaneTypes, LaneTypes, ChannelType, ChannelType', OrderInv,
         to_screen # <<>>, NEW p \in Panes, NEW n, NEW bytes \in {"cache", "host"},
         Resume(p, n, bytes, Tail(to_screen)), UNCHANGED <<open, asked, several>>,
         Asked(p, n),
         p \in open \ several =>
           /\ \A k \in 1 .. Len(Tail(to_screen)) :
                ~(Tail(to_screen)[k].kind = "query" /\ Tail(to_screen)[k].pane = p)
           /\ \A lane, e : ~Record(p, lane, e)',
         \A o \in Panes \ {p} : \A lane, e : Record(o, lane, e)' => Record(o, lane, e)
  PROVE  OrderInv'
<1> DEFINE channel == Tail(to_screen)
           answer == Answered(n, bytes)
           now == <<answer>>
           ss == pending_input[p]
<1>1. /\ channel \in Seq(Messages)
      /\ \A k \in 1 .. Len(channel) : k + 1 \in 1 .. Len(to_screen)
                                      /\ to_screen[k + 1] = channel[k]
  BY HeadTaken
<1>2. n \in Nat /\ AnswerTypes /\ open \subseteq Panes /\ asked \in [Panes -> Nat]
  BY AskedNumbers DEF OrderInv, PaneTypes
<1>3. answer \in Answers /\ answer.n = n
  BY <1>2 DEF Answered, Answers
<1>4. now \in Seq(Answers) /\ ss \in Sequences
  BY <1>3 DEF PaneTypes
<1>5. \A o \in Panes \ several : /\ Increasing(answered[o])
                                 /\ o \in open => PaneOrder(o) /\ OneQuery(o)
  BY DEF OrderInv
<1> HIDE DEF answer
<1>6. CASE p \in open
  <2>1. Feed(p, ss, now, channel)
    BY <1>6 DEF Resume, answer
  <2> HIDE DEF channel, ss
  <2>2. AnswerTypes' /\ \A o \in Panes \ {p} : answered'[o] = answered[o]
    BY <1>2, <1>4, <2>1, FeedTypes
  <2> SUFFICES ASSUME NEW o \in Panes \ several
               PROVE  Increasing(answered'[o]) /\ (o \in open => PaneOrder(o)' /\ OneQuery(o)')
    BY <2>2 DEF OrderInv
  <2>3. CASE o # p
    <3>1. PICK d \in Nat : \A k \in 1 .. Len(channel) : k + d \in 1 .. Len(to_screen)
                                                        /\ to_screen[k + d] = channel[k]
      BY <1>1
    <3>2. /\ o \in Panes \ {p} /\ asked'[o] = asked[o]
          /\ \A lane, e : Record(o, lane, e)' => Record(o, lane, e)
      BY <2>3
    <3> HIDE DEF now
    <3>3. o \in open => PaneOrder(o)' /\ OneQuery(o)'
      <4> HAVE o \in open
      <4>1. PaneOrder(o) /\ OneQuery(o)
        BY <1>5
      <4>2. channel \in Seq(Messages) /\ AnswerTypes
        BY <1>1, <1>2
      <4>3. ForwardAssumption /\ PaneTypes /\ ChannelType /\ ChannelType' /\ p \in Panes
        OBVIOUS
      <4> QED
        BY ONLY <1>4, <2>1, <3>1, <3>2, <4>1, <4>2, <4>3, FedOthers
    <3> QED
      BY <1>5, <2>2, <3>2, <3>3
  <2>4. CASE o = p
    <3>1. PaneOrder(p) /\ OneQuery(p) /\ Increasing(answered[p]) /\ p \notin several
      BY <1>5, <1>6, <2>4
    <3>2. answered[p] \in Seq(Answers) /\ \A x \in Answers : x.n \in Nat
      BY <1>2 DEF AnswerTypes, Answers
    <3> DEFINE before == answered[p] \o now
    <3>3. before \in Seq(Answers) /\ Elems(before) = Elems(answered[p]) \cup {answer}
      <4>1. Elems(now) = {answer}
        BY DEF Elems
      <4> HIDE DEF now
      <4> QED
        BY <1>4, <3>2, <4>1, ElemsFacts
    <3>4. Increasing(before)
      <4>1. Increasing(now) /\ Elems(now) = {answer}
        BY DEF Elems, Increasing
      <4>2. \A x \in Elems(answered[p]) : \A y \in Elems(now) : x.n < y.n
        BY <1>3, <3>1, <4>1 DEF PaneOrder, ToCome
      <4> HIDE DEF now
      <4> QED
        BY <1>4, <3>1, <3>2, <4>1, <4>2, SeriesJoined
    <3>5. \A s \in Elems(ss) : /\ Len(s.lanes) <= 1 /\ s.n <= asked[p] /\ n < s.n
                               /\ \A a \in Elems(answered[p]) : a.n < s.n
      BY <3>1 DEF PaneOrder, ToCome, ss
    <3>6. \A a \in Elems(before) : a.n <= asked'[p] /\ \A s \in Elems(ss) : a.n < s.n
      <4>1. n <= asked[p]
        BY <3>1 DEF PaneOrder, ToCome
      <4>2. \A a \in Elems(answered[p]) : a.n <= asked[p]
        BY <3>1 DEF PaneOrder
      <4> QED
        BY <1>3, <3>3, <3>5, <4>1, <4>2
    <3>7. Increasing(ss)
      BY <3>1 DEF PaneOrder, ss
    <3>8. /\ \A k \in 1 .. Len(channel) : ~(channel[k].kind = "query" /\ channel[k].pane = p)
          /\ \A lane, e : ~Record(p, lane, e)'
      BY <1>6, <3>1 DEF channel
    <3>9. \A s \in Elems(ss) : Len(s.lanes) <= 1 /\ s.n <= asked'[p]
      BY <3>5
    <3> HIDE DEF now
    <3>10. Increasing(answered'[p]) /\ PaneOrder(p)' /\ OneQuery(p)'
      BY <1>1, <1>2, <1>4, <2>1, <3>4, <3>6, <3>7, <3>8, <3>9, PaneFed
    <3> QED
      BY <2>4, <3>10
  <2> QED
    BY <2>3, <2>4
<1>7. CASE p \notin open
  <2>1. to_screen' = channel /\ UNCHANGED <<paused, pending_input, answered>>
    BY <1>7 DEF Resume
  <2> HIDE DEF channel
  <2>2. AnswerTypes'
    BY <1>2, <2>1 DEF AnswerTypes
  <2> SUFFICES ASSUME NEW o \in Panes \ several
               PROVE  Increasing(answered[o]) /\ (o \in open => PaneOrder(o)' /\ OneQuery(o)')
    BY <2>1, <2>2 DEF OrderInv
  <2>3. ASSUME o \in open PROVE PaneOrder(o)' /\ OneQuery(o)'
    <3>1. o # p /\ PaneOrder(o) /\ OneQuery(o)
      BY <1>5, <1>7, <2>3
    <3>2. \A lane, e : Record(o, lane, e)' => Record(o, lane, e)
      BY <3>1
    <3>3. PICK d \in Nat : \A k \in 1 .. Len(channel) : k + d \in 1 .. Len(to_screen)
                                                        /\ to_screen[k + d] = channel[k]
      BY <1>1
    <3>4. \A k \in 1 .. Len(to_screen') :
            to_screen'[k].kind = "query" /\ to_screen'[k].pane = o =>
              k + d \in 1 .. Len(to_screen) /\ to_screen[k + d] = to_screen'[k]
      BY <2>1, <3>3
    <3> QED
      BY <2>1, <3>1, <3>2, <3>4, OtherPane DEF ChannelType
  <2> QED
    BY <1>5, <2>3
<1> QED
  BY <1>6, <1>7

LEMMA ForwardHostQueryInOrder ==
  ASSUME ForwardAssumption, IInv, IInv', OrderInv, ForwardHostQuery
  PROVE  OrderInv'
<1>1. /\ to_screen # <<>> /\ Head(to_screen).kind = "query"
      /\ ChannelType /\ ChannelType' /\ PaneTypes /\ LaneTypes /\ EntriesInv
      /\ UNCHANGED <<open, asked, several>>
  BY DEF ForwardHostQuery, IInv
<1>2. PICK q \in Queries : q = Head(to_screen)
  <2>1. Head(to_screen) \in Messages
    BY <1>1, ElemsFacts DEF ChannelType
  <2> QED
    BY <1>1, <2>1 DEF Messages, Replies
<1> DEFINE p == q.pane
           channel == Tail(to_screen)
<1>3. p \in Panes /\ QueryAt(p, 1) /\ Asked(p, q.n) /\ to_screen[1] = q
  <2>1. 1 \in 1 .. Len(to_screen) /\ to_screen[1] = q
    BY <1>1, <1>2, HeadTaken
  <2>2. q.kind = "query" /\ q.pane \in Panes
    BY DEF Queries
  <2> QED
    BY <2>1, <2>2 DEF QueryAt, Asked
<1>4. \A o \in Panes \ several : /\ Increasing(answered[o])
                                 /\ o \in open => PaneOrder(o) /\ OneQuery(o)
  BY DEF OrderInv
<1>5. \A k \in 1 .. Len(channel) : k + 1 \in 1 .. Len(to_screen) /\ k + 1 # 1
                                   /\ to_screen[k + 1] = channel[k]
  BY <1>1, HeadTaken
<1> HIDE DEF p, channel
<1>6. p \in open \ several =>
        /\ \A k \in 1 .. Len(channel) : ~(channel[k].kind = "query" /\ channel[k].pane = p)
        /\ \A lane, e : ~Record(p, lane, e)
  <2> HAVE p \in open \ several
  <2>1. OneQuery(p)
    BY <1>3, <1>4
  <2>2. ASSUME NEW k \in 1 .. Len(channel), channel[k].kind = "query", channel[k].pane = p
        PROVE  FALSE
    <3>1. QueryAt(p, k + 1) /\ k + 1 # 1
      BY <1>5, <2>2 DEF QueryAt
    <3> QED
      BY <1>3, <2>1, <3>1 DEF OneQuery
  <2> QED
    BY <1>3, <2>1, <2>2 DEF OneQuery
<1>7. CASE q.lane = "local"
  <2>1. Resume(p, q.n, "cache", channel) /\ UNCHANGED laneVars
    BY <1>2, <1>7 DEF ForwardHostQuery, p, channel
  <2>2. \A o, lane, e : Record(o, lane, e)' => Record(o, lane, e)
    BY <2>1 DEF Record, laneVars
  <2>3. PICK n : n = q.n
    OBVIOUS
  <2>4. PICK bytes \in {"cache", "host"} : bytes = "cache"
    OBVIOUS
  <2>5. Resume(p, n, bytes, Tail(to_screen)) /\ Asked(p, n)
    BY <1>3, <2>1, <2>3, <2>4 DEF channel
  <2> QED
    BY <1>1, <1>3, <1>6, <2>2, <2>5, ResumedInOrder DEF channel
<1>8. CASE q.lane # "local"
  <2> DEFINE lane == q.lane
             e == Pending(next_token, p, q.n)
  <2>1. /\ to_screen' = channel /\ UNCHANGED <<paused, pending_input, answered>>
        /\ \/ waiting' = [waiting EXCEPT ![lane] = Append(@, e)] /\ UNCHANGED entries
           \/ entries' = [entries EXCEPT ![lane] = entries[lane] \cup {e}] /\ UNCHANGED waiting
    BY <1>2, <1>8 DEF ForwardHostQuery, Dispatch, p, channel
  <2>2. lane \in Lanes /\ e.pane = p /\ e.n = q.n /\ e \in Entries
    BY <1>1, <1>3, <1>8 DEF Queries, Pending, Entries, LaneTypes
  <2> HIDE DEF lane, e
  <2>3. \A o, l, f : Record(o, l, f)' => Record(o, l, f) \/ (o = p /\ l = lane /\ f = e)
    <3>1. Elems(Append(waiting[lane], e)) = Elems(waiting[lane]) \cup {e}
      BY <1>1, <2>2, ElemsFacts DEF LaneTypes
    <3>2. \A l \in Lanes : \A f : /\ f \in entries'[l] => f \in entries[l] \/ (l = lane /\ f = e)
                                  /\ f \in Elems(waiting'[l]) =>
                                       f \in Elems(waiting[l]) \/ (l = lane /\ f = e)
      <4>1. CASE waiting' = [waiting EXCEPT ![lane] = Append(@, e)] /\ UNCHANGED entries
        <5>1. /\ waiting'[lane] = Append(waiting[lane], e)
              /\ \A l \in Lanes \ {lane} : waiting'[l] = waiting[l]
          BY <1>1, <2>2, <4>1 DEF LaneTypes
        <5> QED
          BY <3>1, <4>1, <5>1
      <4>2. CASE entries' = [entries EXCEPT ![lane] = entries[lane] \cup {e}] /\ UNCHANGED waiting
        <5>1. /\ entries'[lane] = entries[lane] \cup {e}
              /\ \A l \in Lanes \ {lane} : entries'[l] = entries[l]
          BY <1>1, <2>2, <4>2 DEF LaneTypes
        <5> QED
          BY <4>2, <5>1
      <4> QED
        BY <2>1, <4>1, <4>2
    <3> QED
      BY <2>2, <3>2 DEF Record
  <2>4. AnswerTypes'
    BY <2>1 DEF OrderInv, AnswerTypes
  <2> SUFFICES ASSUME NEW o \in Panes \ several
               PROVE  Increasing(answered[o]) /\ (o \in open => PaneOrder(o)' /\ OneQuery(o)')
    BY <1>1, <2>1, <2>4 DEF OrderInv
  <2>5. ASSUME o \in open, o # p PROVE PaneOrder(o)' /\ OneQuery(o)'
    <3>1. \A l, f : Record(o, l, f)' => Record(o, l, f)
      BY <2>3, <2>5
    <3>2. PaneOrder(o) /\ OneQuery(o)
      BY <1>4, <2>5
    <3>3. PICK d \in Nat : \A k \in 1 .. Len(channel) : k + d \in 1 .. Len(to_screen)
                                                        /\ to_screen[k + d] = channel[k]
      BY <1>5
    <3>4. \A k \in 1 .. Len(to_screen') :
            to_screen'[k].kind = "query" /\ to_screen'[k].pane = o =>
              k + d \in 1 .. Len(to_screen) /\ to_screen[k + d] = to_screen'[k]
      BY <2>1, <3>3
    <3> QED
      BY <1>1, <2>1, <3>1, <3>2, <3>4, OtherPane DEF ChannelType
  <2>6. ASSUME o \in open, o = p PROVE PaneOrder(o)' /\ OneQuery(o)'
    <3>1. PaneOrder(p) /\ p \in open \ several
      BY <1>4, <2>6
    <3>2. \A k : ~QueryAt(p, k)'
      BY <1>6, <2>1, <3>1 DEF QueryAt
    <3>3. \A l, f : Record(p, l, f)' => l = lane /\ f = e
      BY <1>6, <2>3, <3>1
    <3>4. \A n : Asked(p, n)' => n = q.n
      BY <2>2, <3>2, <3>3 DEF Asked
    <3>5. \A n : Asked(p, n)' => Asked(p, n)
      BY <1>3, <3>4
    <3>6. PaneOrder(p)'
      BY <1>1, <2>1, <3>1, <3>5 DEF PaneOrder, ToCome
    <3>7. OneQuery(p)'
      BY <3>2, <3>3 DEF OneQuery
    <3> QED
      BY <2>6, <3>6, <3>7
  <2> QED
    BY <1>4, <2>5, <2>6
<1> QED
  BY <1>7, <1>8

LEMMA ForwardedReplyInOrder ==
  ASSUME ForwardAssumption, IInv, IInv', OrderInv, ForwardedReply
  PROVE  OrderInv'
<1>1. /\ to_screen # <<>> /\ Head(to_screen).kind = "reply"
      /\ ChannelType /\ ChannelType' /\ PaneTypes /\ LaneTypes /\ EntriesInv /\ TokensInv
      /\ UNCHANGED <<open, asked, several>>
  BY DEF ForwardedReply, IInv
<1>2. PICK r \in Replies : r = Head(to_screen)
  <2>1. Head(to_screen) \in Messages
    BY <1>1, ElemsFacts DEF ChannelType
  <2> QED
    BY <1>1, <2>1 DEF Messages, Queries
<1> DEFINE channel == Tail(to_screen)
<1>3. \A k \in 1 .. Len(channel) : k + 1 \in 1 .. Len(to_screen)
                                   /\ to_screen[k + 1] = channel[k]
  BY <1>1, HeadTaken
<1>4. \A o \in Panes \ several : /\ Increasing(answered[o])
                                 /\ o \in open => PaneOrder(o) /\ OneQuery(o)
  BY DEF OrderInv
<1>5. CASE LaneOf(r.token) = {}
  <2>1. to_screen' = channel /\ UNCHANGED <<paused, pending_input, answered, laneVars>>
    BY <1>2, <1>5 DEF ForwardedReply
  <2> HIDE DEF channel
  <2>2. AnswerTypes'
    BY <2>1 DEF OrderInv, AnswerTypes
  <2>3. ASSUME NEW o \in Panes \ several, o \in open PROVE PaneOrder(o)' /\ OneQuery(o)'
    <3>1. \A l, f : Record(o, l, f)' => Record(o, l, f)
      BY <2>1 DEF Record, laneVars
    <3>2. PaneOrder(o) /\ OneQuery(o)
      BY <1>4, <2>3
    <3>3. PICK d \in Nat : \A k \in 1 .. Len(channel) : k + d \in 1 .. Len(to_screen)
                                                        /\ to_screen[k + d] = channel[k]
      BY <1>3
    <3>4. \A k \in 1 .. Len(to_screen') :
            to_screen'[k].kind = "query" /\ to_screen'[k].pane = o =>
              k + d \in 1 .. Len(to_screen) /\ to_screen[k + d] = to_screen'[k]
      BY <2>1, <3>3
    <3> QED
      BY <1>1, <2>1, <3>1, <3>2, <3>4, OtherPane DEF ChannelType
  <2> QED
    BY <1>1, <1>4, <2>1, <2>2, <2>3 DEF OrderInv
<1>6. CASE LaneOf(r.token) # {}
  <2> DEFINE lane == CHOOSE l \in LaneOf(r.token) : TRUE
             found == {e \in entries[lane] : e.token = r.token}
             left == EntriesWithout(lane, r.token)
             next == Dispatchable(lane)
  <2>1. lane \in Lanes /\ in_flight[lane] = r.token
    BY <1>6 DEF LaneOf
  <2>2. /\ found # {} => LET e == CHOOSE e \in found : TRUE IN
                           Resume(e.pane, e.n, r.bytes, Tail(to_screen))
        /\ entries' = [entries EXCEPT ![lane] =
                         IF next = <<>> THEN left ELSE left \cup {Head(next)}]
        /\ waiting' = [waiting EXCEPT ![lane] = IF next = <<>> THEN <<>> ELSE Tail(next)]
    BY <1>2, <1>6 DEF ForwardedReply, Dispatch
  <2> HIDE DEF lane
  <2>3. r.token # Sentinel /\ r.bytes \in {"cache", "host"}
    BY DEF Replies, Issued, Sentinel
  <2>4. PICK e \in Entries : entries[lane] = {e} /\ e.token = r.token
    BY <1>1, <2>1, <2>3 DEF EntriesInv
  <2>5. found = {e} /\ left = {}
    BY <2>4 DEF EntriesWithout
  <2>6. Resume(e.pane, e.n, r.bytes, Tail(to_screen))
    BY <2>2, <2>5
  <2>7. next \in Seq(Entries) /\ Elems(next) \subseteq Elems(waiting[lane])
    <3>1. PICK m \in Nat :
            /\ next \in Seq(Entries)
            /\ Len(waiting[lane]) = m + Len(next)
            /\ \A j \in 1 .. Len(next) : next[j] = waiting[lane][m + j]
      BY <1>1, <2>1, DispatchableFacts
    <3> HIDE DEF next
    <3>2. Len(next) \in Nat
      BY <3>1, LenProperties
    <3>3. \A j \in 1 .. Len(next) : m + j \in 1 .. Len(waiting[lane])
      BY <3>1, <3>2
    <3> QED
      BY <3>1, <3>3 DEF Elems
  <2> HIDE DEF found, left, next
  <2> DEFINE first == IF next = <<>> THEN {} ELSE {Head(next)}
             rest == IF next = <<>> THEN <<>> ELSE Tail(next)
  <2>8. first \subseteq Elems(waiting[lane]) /\ Elems(rest) \subseteq Elems(waiting[lane])
    <3>1. Elems(<<>>) = {}
      BY DEF Elems
    <3>2. next # <<>> => Elems(next) = {Head(next)} \cup Elems(Tail(next))
      BY <2>7, ElemsFacts
    <3> QED
      BY <2>7, <3>1, <3>2
  <2>9. entries' = [entries EXCEPT ![lane] = first] /\ waiting' = [waiting EXCEPT ![lane] = rest]
    BY <2>2, <2>5
  <2> HIDE DEF first, rest
  <2>10. /\ entries'[lane] = first /\ waiting'[lane] = rest
         /\ \A l \in Lanes \ {lane} : entries'[l] = entries[l] /\ waiting'[l] = waiting[l]
    BY <1>1, <2>1, <2>9 DEF LaneTypes
  <2>11. \A o, l, f : Record(o, l, f)' => Record(o, l, f) /\ (l = lane => f \in Elems(waiting[lane]))
    BY <2>8, <2>10 DEF Record
  <2>12. e \notin Elems(waiting[lane])
    BY <1>1, <2>1, <2>4 DEF TokensInv, Elems
  <2>13. Record(e.pane, lane, e) /\ e.pane \in Panes /\ Asked(e.pane, e.n)
    BY <2>1, <2>4 DEF Record, Asked, Entries
  <2>14. PICK p, n, bytes : p = e.pane /\ n = e.n /\ bytes = r.bytes
    OBVIOUS
  <2>15. p \in open \ several =>
           /\ \A k \in 1 .. Len(channel) : ~(channel[k].kind = "query" /\ channel[k].pane = p)
           /\ \A l, f : ~Record(p, l, f)'
    <3> HAVE p \in open \ several
    <3>1. OneQuery(p)
      BY <1>4, <2>13, <2>14
    <3>2. ASSUME NEW k \in 1 .. Len(channel), channel[k].kind = "query", channel[k].pane = p
          PROVE  FALSE
      <4>1. QueryAt(p, k + 1)
        BY <1>3, <3>2 DEF QueryAt
      <4> QED
        BY <2>13, <2>14, <3>1, <4>1 DEF OneQuery
    <3>3. \A l, f : Record(p, l, f) => l = lane /\ f = e
      BY <2>13, <2>14, <3>1 DEF OneQuery
    <3>4. \A l, f : ~Record(p, l, f)'
      <4> SUFFICES ASSUME NEW l, NEW f, Record(p, l, f)' PROVE FALSE
        OBVIOUS
      <4>1. Record(p, l, f) /\ (l = lane => f \in Elems(waiting[lane]))
        BY <2>11
      <4>2. l = lane /\ f = e
        BY <3>3, <4>1
      <4> QED
        BY <2>12, <4>1, <4>2
    <3> QED
      BY <3>2, <3>4
  <2>16. /\ p \in Panes /\ bytes \in {"cache", "host"} /\ Asked(p, n) /\ Resume(p, n, bytes, Tail(to_screen))
         /\ \A o \in Panes \ {p} : \A l, f : Record(o, l, f)' => Record(o, l, f)
    BY <2>3, <2>6, <2>11, <2>13, <2>14
  <2> QED
    BY <1>1, <2>15, <2>16, ResumedInOrder
<1> QED
  BY <1>5, <1>6

LEMMA NextInOrder ==
  ASSUME ForwardAssumption, IInv, IInv', OrderInv, [Next]_vars
  PROVE  OrderInv'
<1>1. CASE \E p \in Panes, lanes \in PtySequences : PtyBytes(p, lanes)
  BY <1>1, PtyBytesInOrder
<1>2. CASE \E p \in Panes : ClosePane(p)
  BY <1>2, ClosePaneInOrder
<1>3. CASE ForwardHostQuery
  BY <1>3, ForwardHostQueryInOrder
<1>4. CASE ForwardedReply
  BY <1>4, ForwardedReplyInOrder
<1>5. CASE \E t \in Tokens : Deadline(t)
  BY <1>5, DeadlineInOrder
<1>6. CASE ForwardQueryToHost
  BY <1>6, ForwardQueryInOrder
<1>7. CASE \E c \in Clients, t \in Tokens : RouteReply(c, t)
  BY <1>7, RouteReplyInOrder
<1>8. CASE \E c \in Clients : RouteKey(c)
  BY <1>8, RouteKeyInOrder
<1>9. CASE \E c \in Clients : ClientExit(c)
  BY <1>9, ClientExitInOrder
<1>10. CASE UNCHANGED vars
  <2>1. UNCHANGED <<paneVars, to_screen, entries, waiting>>
    BY <1>10 DEF vars, laneVars
  <2> QED
    BY <2>1, RepliesAdded DEF IInv
<1> QED
  BY <1>1, <1>2, <1>3, <1>4, <1>5, <1>6, <1>7, <1>8, <1>9, <1>10 DEF Next, ScreenStep

\* Whatever panes ask, on whichever lane, and whoever answers - the grid, Screen, a client
\* or the deadline -, a program whose sequences make one query at a time reads the answers
\* in the order of its queries, each once.
THEOREM AnswersInStreamOrder == Spec => []StreamOrderOfSingles
<1>1. Init => IInv /\ OrderInv
  <2>1. Init => OrderInv
    <3> SUFFICES ASSUME Init PROVE OrderInv
      OBVIOUS
    <3>1. AnswerTypes
      BY DEF Init, AnswerTypes
    <3>2. \A p \in Panes : Increasing(answered[p]) /\ PaneOrder(p) /\ OneQuery(p)
      <4> TAKE p \in Panes
      <4>1. \A k : ~QueryAt(p, k)
        BY DEF Init, QueryAt
      <4>2. \A lane, e : ~Record(p, lane, e)
        BY DEF Init, Record, Elems
      <4>3. Elems(answered[p]) = {} /\ Elems(pending_input[p]) = {}
        BY DEF Init, Elems
      <4>4. Increasing(answered[p]) /\ Increasing(pending_input[p])
        BY DEF Init, Increasing
      <4> QED
        BY <4>1, <4>2, <4>3, <4>4 DEF PaneOrder, OneQuery, Asked
    <3> QED
      BY <3>1, <3>2 DEF OrderInv
  <2> QED
    BY <2>1, InitHolds, ForwardAssumption
<1>2. IInv /\ OrderInv /\ [Next]_vars => IInv' /\ OrderInv'
  BY NextKeeps, NextInOrder, ForwardAssumption
<1>3. OrderInv => StreamOrderOfSingles
  <2> SUFFICES ASSUME OrderInv, NEW p \in Panes \ several PROVE InOrder(p)
    BY DEF StreamOrderOfSingles
  <2>1. answered[p] \in Seq(Answers) /\ Increasing(answered[p])
    BY DEF OrderInv, AnswerTypes
  <2>2. DOMAIN answered[p] = 1 .. Len(answered[p])
    BY <2>1, LenProperties
  <2> QED
    BY <2>1, <2>2 DEF InOrder, Increasing
<1> QED
  BY <1>1, <1>2, <1>3, PTL DEF Spec

-----------------------------------------------------------------------------
(* ForwardClient: what holds of the slots of the client that carries the   *)
(* queries, for any number of forwards and of batches of its own, and any  *)
(* terminal: a token is answered once, and its slot is open and its timer  *)
(* armed until it is.                                                      *)
(*                                                                         *)
(* The argument: at most one batch is live, its token is not the clipboard *)
(* slot's, and neither has been answered (SlotsInv). So a slot that closes *)
(* gives its token the first answer.                                       *)

BatchSet == [token : Forwards \cup {Own}, reply_bytes : Bytes, abandoned : BOOLEAN]
OutSet == [token : Forwards \cup {Own}, replied : BOOLEAN]

\* The batch that is live is the only one, and waits for its answer and its timer.
BatchInv ==
  /\ \A j, k \in Live : j = k
  /\ \A k \in Live :
       /\ batches[k].token \in timers
       /\ batches[k].token < next_forward
       /\ answers[batches[k].token] = <<>>
       /\ batches[k].token # clipboard

\* So does the clipboard slot.
ClipboardInv ==
  clipboard # None =>
    clipboard \in timers /\ clipboard < next_forward /\ answers[clipboard] = <<>>

\* Nothing is said of a token before it is dispatched.
FreshInv == \A t \in Forwards : t >= next_forward => answers[t] = <<>>

SlotsInv == BatchInv /\ ClipboardInv /\ FreshInv

ClientIInv == ClientTypeOK /\ SlotsInv /\ OpenOrAnsweredOnce
-----------------------------------------------------------------------------

\* The batches are a sequence of batches.
LEMMA BatchTypes ==
  ASSUME ClientTypeOK
  PROVE  /\ batches \in Seq(BatchSet)
         /\ \A k \in DOMAIN batches : batches[k] \in BatchSet
         /\ DOMAIN batches = 1 .. Len(batches)
         /\ Len(batches) \in Nat
<1>1. batches \in Seq(BatchSet)
  BY DEF ClientTypeOK, BatchSet
<1> QED
  BY <1>1

\* Giving up batches changes neither their number nor their tokens, makes the
\* batches of K the server's no more, and leaves the others as they were.
LEMMA AbandonFacts ==
  ASSUME ClientTypeOK, NEW K
  PROVE  /\ AbandonAll(K) \in Seq(BatchSet)
         /\ Len(AbandonAll(K)) = Len(batches)
         /\ \A k \in DOMAIN batches :
              /\ AbandonAll(K)[k].token = batches[k].token
              /\ k \in K => ~IsLive(AbandonAll(K)[k])
              /\ k \notin K => AbandonAll(K)[k] = batches[k]
<1> DEFINE A == AbandonAll(K)
<1>2. \A k \in DOMAIN batches : batches[k] \in BatchSet
  BY BatchTypes
<1>3. \A k \in DOMAIN batches : A[k] \in BatchSet /\ A[k].token = batches[k].token
                                /\ (k \in K => A[k].abandoned)
                                /\ (k \notin K => A[k] = batches[k])
  <2> TAKE k \in DOMAIN batches
  <2>1. A[k] = IF k \in K THEN [batches[k] EXCEPT !.abandoned = TRUE, !.reply_bytes = <<>>]
               ELSE batches[k]
    BY DEF AbandonAll
  <2>2. batches[k] \in BatchSet
    BY <1>2
  <2>3. <<>> \in Bytes
    BY DEF Bytes
  <2> QED
    BY <2>1, <2>2, <2>3 DEF BatchSet
<1>4. DOMAIN batches = 1 .. Len(batches) /\ Len(batches) \in Nat
  BY BatchTypes
<1>5. DOMAIN A = 1 .. Len(batches)
  BY <1>4 DEF AbandonAll
<1>6. A \in [1 .. Len(batches) -> BatchSet]
  BY <1>3, <1>4, <1>5 DEF AbandonAll
<1>7. A \in Seq(BatchSet) /\ Len(A) = Len(batches)
  BY <1>4, <1>6
<1> QED
  BY <1>3, <1>7 DEF IsLive

\* The first answer to a token.
LEMMA AnswerFacts ==
  ASSUME ClientTypeOK, NEW t \in Forwards, answers[t] = <<>>, NEW bytes \in Bytes
  PROVE  /\ Answer(t, bytes) \in [Forwards \cup {Own} -> Seq(Bytes)]
         /\ Answer(t, bytes)[Own] = <<>>
         /\ Answer(t, bytes)[t] # <<>>
         /\ Len(Answer(t, bytes)[t]) = 1
         /\ \A u \in Forwards \cup {Own} : u # t => Answer(t, bytes)[u] = answers[u]
<1>1. /\ answers \in [Forwards \cup {Own} -> Seq(Bytes)]
      /\ answers[Own] = <<>>
      /\ t # Own
  BY DEF ClientTypeOK, Forwards, Own
<1>2. /\ Append(answers[t], bytes) \in Seq(Bytes)
      /\ Append(answers[t], bytes) # <<>>
      /\ Len(Append(answers[t], bytes)) = 1
  BY <1>1
<1> QED
  BY <1>1, <1>2 DEF Answer

\* What is handed over is the first answer to the token of the live batch.
LEMMA HandedOverFacts ==
  ASSUME ClientTypeOK, BatchInv
  PROVE  /\ HandedOver \in [Forwards \cup {Own} -> Seq(Bytes)]
         /\ HandedOver[Own] = <<>>
         /\ \A t \in Forwards \cup {Own} :
              \/ /\ \A k \in Live : batches[k].token # t
                 /\ HandedOver[t] = answers[t]
              \/ /\ \E k \in Live : batches[k].token = t
                 /\ HandedOver[t] # <<>>
                 /\ Len(HandedOver[t]) = 1
<1>1. \A t \in Forwards \cup {Own} :
        /\ HandedOver[t] \in Seq(Bytes)
        /\ \/ /\ \A k \in Live : batches[k].token # t
              /\ HandedOver[t] = answers[t]
           \/ /\ \E k \in Live : batches[k].token = t
              /\ HandedOver[t] # <<>>
              /\ Len(HandedOver[t]) = 1
  <2> TAKE t \in Forwards \cup {Own}
  <2>1. answers[t] \in Seq(Bytes)
    BY DEF ClientTypeOK
  <2>2. CASE \A k \in Live : batches[k].token # t
    <3>1. HandedOver[t] = answers[t]
      BY <2>2 DEF HandedOver
    <3> QED
      BY <2>1, <2>2, <3>1
  <2>3. CASE \E k \in Live : batches[k].token = t
    <3> DEFINE k == CHOOSE k \in Live : batches[k].token = t
    <3>1. k \in Live /\ batches[k].token = t
      BY <2>3
    <3>2. HandedOver[t] = Append(answers[t], batches[k].reply_bytes)
      BY <2>3 DEF HandedOver
    <3>3. batches[k].reply_bytes \in Bytes
      BY <3>1, BatchTypes DEF BatchSet, Live
    <3>4. answers[t] = <<>>
      BY <3>1 DEF BatchInv
    <3> HIDE DEF k
    <3>5. /\ Append(answers[t], batches[k].reply_bytes) \in Seq(Bytes)
          /\ Append(answers[t], batches[k].reply_bytes) # <<>>
          /\ Len(Append(answers[t], batches[k].reply_bytes)) = 1
      BY <2>1, <3>3, <3>4
    <3> QED
      BY <2>3, <3>2, <3>5
  <2> QED
    BY <2>2, <2>3
<1>2. \A k \in Live : batches[k].token # Own
  BY DEF Live, IsLive
<1>3. HandedOver[Own] = answers[Own]
  BY <1>1, <1>2
<1>4. DOMAIN HandedOver = Forwards \cup {Own}
  BY DEF HandedOver
<1>5. HandedOver = [t \in Forwards \cup {Own} |-> HandedOver[t]]
  BY DEF HandedOver
<1> QED
  BY <1>1, <1>3, <1>4, <1>5 DEF ClientTypeOK

LEMMA InitClientIInv == ClientInit => ClientIInv
<1> SUFFICES ASSUME ClientInit
             PROVE  ClientIInv
  OBVIOUS
<1>1. Live = {}
  BY DEF ClientInit, Live
<1>2. ClientTypeOK
  BY ClientAssumption DEF ClientInit, ClientTypeOK, Forwards, Own, None, TerminalKinds, Bytes
<1>3. SlotsInv
  BY <1>1 DEF ClientInit, SlotsInv, BatchInv, ClipboardInv, FreshInv
<1>4. OpenOrAnsweredOnce
  BY DEF ClientInit, OpenOrAnsweredOnce, OpenUntilAnswered, AnsweredAtMostOnce, Forwards
<1> QED
  BY <1>2, <1>3, <1>4 DEF ClientIInv

\* A step that leaves the slots alone: the same batches are live, with the same
\* tokens, and nothing is answered.
LEMMA SameSlots ==
  ASSUME ClientIInv,
         answers' = answers, clipboard' = clipboard, timers' = timers,
         next_forward' = next_forward, Live' = Live,
         \A k \in Live : batches'[k].token = batches[k].token
  PROVE  SlotsInv' /\ OpenOrAnsweredOnce'
<1> USE DEF ClientIInv, SlotsInv
<1>1. BatchInv'
  BY DEF BatchInv
<1>2. ClipboardInv' /\ FreshInv'
  BY DEF ClipboardInv, FreshInv
<1>3. OpenOrAnsweredOnce'
  BY DEF OpenOrAnsweredOnce, OpenUntilAnswered, AnsweredAtMostOnce
<1> QED
  BY <1>1, <1>2, <1>3

\* Another batch at the end, and the live ones among those before it.
LEMMA AppendedBatches ==
  ASSUME NEW s \in Seq(BatchSet), NEW b \in BatchSet
  PROVE  /\ Append(s, b) \in Seq(BatchSet)
         /\ DOMAIN Append(s, b) = 1 .. Len(s) + 1
         /\ DOMAIN s = 1 .. Len(s)
         /\ Len(s) \in Nat
         /\ \A k \in DOMAIN s : Append(s, b)[k] = s[k]
         /\ Append(s, b)[Len(s) + 1] = b
  OBVIOUS

\* The batches when the one in front has gone.
LEMMA TailBatches ==
  ASSUME NEW s \in Seq(BatchSet), s # <<>>
  PROVE  /\ Tail(s) \in Seq(BatchSet)
         /\ Len(s) \in Nat \ {0}
         /\ DOMAIN s = 1 .. Len(s)
         /\ DOMAIN Tail(s) = 1 .. Len(s) - 1
         /\ \A k \in DOMAIN Tail(s) : k + 1 \in DOMAIN s /\ Tail(s)[k] = s[k + 1]
  OBVIOUS

\* A forward: the slot that is open is handed over, and a new one opened.
LEMMA ForwardStep == ClientIInv /\ OpenForward => ClientIInv'
<1> SUFFICES ASSUME ClientIInv, OpenForward
             PROVE  ClientIInv'
  OBVIOUS
<1> USE DEF ClientIInv, SlotsInv
<1> DEFINE t == next_forward
           A == AbandonAll(Live)
           n == Len(A) + 1
<1>1. /\ t \in Forwards /\ t # Own /\ next_forward' = t + 1
      /\ answers' = HandedOver
      /\ batches' = Append(A, Batch(t))
      /\ timers' = timers \cup {t}
      /\ clipboard' = clipboard
  BY DEF OpenForward, ClientTypeOK, Forwards, Own, Abandoned
<1>2. Batch(t) \in BatchSet /\ Batch(t).token = t /\ IsLive(Batch(t))
  BY <1>1 DEF Batch, BatchSet, Bytes, IsLive
<1>3. /\ A \in Seq(BatchSet)
      /\ Len(A) = Len(batches)
      /\ \A k \in DOMAIN batches : ~IsLive(A[k])
  BY AbandonFacts DEF Live
<1>4. /\ batches' \in Seq(BatchSet)
      /\ DOMAIN batches' = 1 .. n
      /\ \A k \in DOMAIN A : batches'[k] = A[k]
      /\ batches'[n] = Batch(t)
      /\ DOMAIN A = DOMAIN batches
      /\ n \in Nat \ {0} /\ DOMAIN A = 1 .. n - 1
  BY <1>1, <1>2, <1>3, AppendedBatches, BatchTypes
<1>5. Live' = {n}
  <2>1. n \in Live'
    BY <1>2, <1>4 DEF Live, IsLive
  <2>2. ASSUME NEW k \in Live'
        PROVE  k = n
    <3>1. k \in 1 .. n /\ IsLive(batches'[k])
      BY <1>4, <2>2 DEF Live, IsLive
    <3>2. k \in 1 .. n - 1 => ~IsLive(batches'[k])
      BY <1>3, <1>4
    <3> QED
      BY <1>4, <3>1, <3>2
  <2> QED
    BY <2>1, <2>2
<1>6. HandedOver[t] = <<>> /\ (clipboard # None => HandedOver[clipboard] = <<>>)
  <2>1. \A k \in Live : batches[k].token # t /\ batches[k].token # clipboard
    BY <1>1, BatchTypes DEF BatchInv, Live, BatchSet, Forwards, Own
  <2>2. answers[t] = <<>>
    BY <1>1 DEF FreshInv, Forwards
  <2>3. clipboard # None => clipboard \in Forwards /\ answers[clipboard] = <<>>
    BY DEF ClipboardInv, ClientTypeOK
  <2> QED
    BY <1>1, <2>1, <2>2, <2>3, HandedOverFacts
<1>7. ClientTypeOK'
  <2>1. /\ answers' \in [Forwards \cup {Own} -> Seq(Bytes)]
        /\ answers'[Own] = <<>>
    BY <1>1, HandedOverFacts
  <2>2. stdout' \in Seq([token : Forwards \cup {Own}, replied : BOOLEAN])
    BY <1>1 DEF OpenForward, ClientTypeOK
  <2> QED
    BY <1>1, <1>4, <2>1, <2>2, ClientAssumption
    DEF OpenForward, ClientTypeOK, BatchSet, Forwards, Own, None
<1>8. BatchInv'
  <2>1. clipboard # t
    BY <1>1 DEF ClipboardInv, Forwards, None
  <2> QED
    BY <1>1, <1>2, <1>4, <1>5, <1>6, <2>1 DEF BatchInv, Forwards
<1>9. ClipboardInv'
  BY <1>1, <1>6 DEF ClipboardInv, ClientTypeOK, Forwards, None
<1>10. \A u \in Forwards : u >= t + 1 => answers'[u] = <<>>
  <2> SUFFICES ASSUME NEW u \in Forwards, u >= t + 1
               PROVE  HandedOver[u] = <<>>
    BY <1>1
  <2>1. \A k \in Live : batches[k].token # u
    BY <1>1 DEF BatchInv, Forwards
  <2>2. answers[u] = <<>>
    BY <1>1 DEF FreshInv, Forwards
  <2> QED
    BY <2>1, <2>2, HandedOverFacts
<1>11. FreshInv'
  BY <1>1, <1>10 DEF FreshInv, Forwards
<1>12. AnsweredAtMostOnce'
  <2> SUFFICES ASSUME NEW u \in Forwards
               PROVE  Len(HandedOver[u]) <= 1
    BY <1>1 DEF AnsweredAtMostOnce
  <2>1. HandedOver[u] = answers[u] \/ Len(HandedOver[u]) = 1
    BY HandedOverFacts
  <2>2. Len(answers[u]) <= 1
    BY DEF OpenOrAnsweredOnce, AnsweredAtMostOnce
  <2>3. CASE HandedOver[u] = answers[u]
    BY <2>2, <2>3
  <2>4. CASE Len(HandedOver[u]) = 1
    BY <2>4
  <2> QED
    BY <2>1, <2>3, <2>4
<1>13. OpenUntilAnswered'
  <2> SUFFICES ASSUME NEW u \in 1 .. t, HandedOver[u] = <<>>
               PROVE  /\ u \in timers \cup {t}
                      /\ clipboard = u \/ \E k \in Live' : batches'[k].token = u
    <3>1. 1 .. next_forward' - 1 = 1 .. t
      BY <1>1 DEF Forwards
    <3> QED
      BY <1>1, <3>1 DEF OpenUntilAnswered
  <2>1. CASE u = t
    <3>1. n \in Live' /\ batches'[n].token = u
      BY <1>2, <1>4, <1>5, <2>1
    <3> QED
      BY <2>1, <3>1
  <2>2. CASE u # t
    <3>1. u \in 1 .. next_forward - 1 /\ u \in Forwards
      BY <1>1, <2>2, ClientAssumption DEF Forwards
    <3>2. (\A k \in Live : batches[k].token # u) /\ answers[u] = <<>>
      BY <3>1, HandedOverFacts
    <3> QED
      BY <3>1, <3>2 DEF OpenOrAnsweredOnce, OpenUntilAnswered
  <2> QED
    BY <2>1, <2>2
<1> QED
  BY <1>7, <1>8, <1>9, <1>11, <1>12, <1>13 DEF OpenOrAnsweredOnce

\* A token gets its first answer, and its slot - the live batch's or the
\* clipboard's - is closed in the same step.
LEMMA SlotCloses ==
  ASSUME ClientIInv, NEW t \in Forwards, t < next_forward, NEW bytes \in Bytes,
         answers[t] = <<>>,
         answers' = Answer(t, bytes),
         next_forward' = next_forward,
         timers \ {t} \subseteq timers', timers' \subseteq timers,
         clipboard' = (IF clipboard = t THEN None ELSE clipboard),
         \A k \in Live' : \E j \in Live : /\ batches'[k].token = batches[j].token
                                          /\ batches[j].token # t,
         \A j, k \in Live' : j = k,
         \A j \in Live : batches[j].token # t =>
           \E k \in Live' : batches'[k].token = batches[j].token
  PROVE  SlotsInv' /\ OpenOrAnsweredOnce'
<1> USE DEF ClientIInv, SlotsInv
<1>1. /\ answers'[t] # <<>> /\ Len(answers'[t]) = 1
      /\ \A u \in Forwards \cup {Own} : u # t => answers'[u] = answers[u]
  BY AnswerFacts
<1>2. BatchInv'
  <2> SUFFICES ASSUME NEW k \in Live'
               PROVE  /\ batches'[k].token \in timers'
                      /\ batches'[k].token < next_forward
                      /\ answers'[batches'[k].token] = <<>>
                      /\ batches'[k].token # clipboard'
    BY DEF BatchInv
  <2>1. PICK j \in Live : batches'[k].token = batches[j].token /\ batches[j].token # t
    OBVIOUS
  <2>2. batches[j].token \in Forwards /\ batches[j].token # None
    BY BatchTypes DEF Live, IsLive, BatchSet, Own, None
  <2> QED
    BY <1>1, <2>1, <2>2 DEF BatchInv
<1>3. ClipboardInv'
  BY <1>1 DEF ClipboardInv, ClientTypeOK
<1>4. FreshInv'
  <2> SUFFICES ASSUME NEW u \in Forwards, u >= next_forward
               PROVE  answers'[u] = <<>>
    BY DEF FreshInv
  <2>1. u # t
    BY ClientAssumption DEF Forwards, ClientTypeOK
  <2> QED
    BY <1>1, <2>1 DEF FreshInv
<1>5. AnsweredAtMostOnce'
  <2> SUFFICES ASSUME NEW u \in Forwards
               PROVE  Len(answers'[u]) <= 1
    BY DEF AnsweredAtMostOnce
  <2>1. CASE u = t
    <3>1. Len(answers'[u]) = 1
      BY <1>1, <2>1
    <3> QED
      BY <3>1
  <2>2. CASE u # t
    BY <1>1, <2>2 DEF OpenOrAnsweredOnce, AnsweredAtMostOnce
  <2> QED
    BY <2>1, <2>2
<1>6. OpenUntilAnswered'
  <2> SUFFICES ASSUME NEW u \in 1 .. next_forward - 1, answers'[u] = <<>>
               PROVE  /\ u \in timers'
                      /\ clipboard' = u \/ \E k \in Live' : batches'[k].token = u
    BY DEF OpenUntilAnswered
  <2>1. u \in Forwards /\ u # t
    BY <1>1, ClientAssumption DEF Forwards, ClientTypeOK
  <2>2. u \in timers /\ (clipboard = u \/ \E k \in Live : batches[k].token = u)
    BY <1>1, <2>1 DEF OpenOrAnsweredOnce, OpenUntilAnswered
  <2> QED
    BY <2>1, <2>2
<1> QED
  BY <1>2, <1>3, <1>4, <1>5, <1>6 DEF OpenOrAnsweredOnce

\* A forward for the clipboard: the clipboard's slot changes hands.
LEMMA ClipboardForwardStep == ClientIInv /\ ForwardClipboardQuery => ClientIInv'
<1> SUFFICES ASSUME ClientIInv, ForwardClipboardQuery
             PROVE  ClientIInv'
  OBVIOUS
<1> USE DEF ClientIInv, SlotsInv
<1> DEFINE t == next_forward
<1>1. /\ t \in Forwards /\ t # None /\ next_forward' = t + 1 /\ t + 1 \in 1 .. MaxToken + 1
      /\ answers' = IF clipboard = None THEN answers ELSE Answer(clipboard, <<>>)
      /\ batches' = batches
      /\ timers' = timers \cup {t}
      /\ clipboard' = t
  BY ClientAssumption DEF ForwardClipboardQuery, ClientTypeOK, Forwards, None
<1>2. Live' = Live
  BY <1>1 DEF Live, IsLive
<1>3. /\ answers' \in [Forwards \cup {Own} -> Seq(Bytes)]
      /\ answers'[Own] = <<>>
      /\ \A u \in Forwards : u # clipboard => answers'[u] = answers[u]
      /\ clipboard # None => answers'[clipboard] # <<>> /\ Len(answers'[clipboard]) = 1
  <2>1. CASE clipboard = None
    BY <1>1, <2>1 DEF ClientTypeOK
  <2>2. CASE clipboard # None
    <3>1. <<>> \in Bytes
      BY DEF Bytes
    <3> QED
      BY <1>1, <2>2, <3>1, AnswerFacts DEF ClientTypeOK, ClipboardInv
  <2> QED
    BY <2>1, <2>2
<1>4. ClientTypeOK'
  BY <1>1, <1>3 DEF ForwardClipboardQuery, ClientTypeOK
<1>5. t # clipboard /\ answers'[t] = <<>>
  BY <1>1, <1>3 DEF ClipboardInv, FreshInv, Forwards
<1>6. BatchInv'
  <2> SUFFICES ASSUME NEW k \in Live
               PROVE  /\ batches[k].token \in timers \cup {t}
                      /\ batches[k].token < t + 1
                      /\ answers'[batches[k].token] = <<>>
                      /\ batches[k].token # t
    BY <1>1, <1>2 DEF BatchInv
  <2>1. batches[k].token \in Forwards
    BY BatchTypes DEF Live, IsLive, BatchSet
  <2> QED
    BY <1>1, <1>3, <2>1 DEF BatchInv, Forwards
<1>7. ClipboardInv'
  BY <1>1, <1>5 DEF ClipboardInv, Forwards
<1>8. FreshInv'
  <2> SUFFICES ASSUME NEW u \in Forwards, u >= t + 1
               PROVE  answers'[u] = <<>>
    BY <1>1 DEF FreshInv
  <2>1. u # clipboard /\ u >= t
    BY <1>1 DEF ClipboardInv, Forwards, None
  <2> QED
    BY <1>3, <2>1 DEF FreshInv
<1>9. AnsweredAtMostOnce'
  <2> SUFFICES ASSUME NEW u \in Forwards
               PROVE  Len(answers'[u]) <= 1
    BY DEF AnsweredAtMostOnce
  <2>1. CASE u = clipboard
    <3>1. Len(answers'[u]) = 1
      BY <1>3, <2>1 DEF Forwards, None
    <3> QED
      BY <3>1
  <2>2. CASE u # clipboard
    BY <1>3, <2>2 DEF OpenOrAnsweredOnce, AnsweredAtMostOnce
  <2> QED
    BY <2>1, <2>2
<1>10. OpenUntilAnswered'
  <2> SUFFICES ASSUME NEW u \in 1 .. t, answers'[u] = <<>>
               PROVE  /\ u \in timers \cup {t}
                      /\ t = u \/ \E k \in Live : batches[k].token = u
    <3>1. 1 .. next_forward' - 1 = 1 .. t
      BY <1>1 DEF Forwards
    <3> QED
      BY <1>1, <1>2, <3>1 DEF OpenUntilAnswered
  <2>1. CASE u # t
    <3>1. u \in 1 .. next_forward - 1 /\ u \in Forwards
      BY <1>1, <2>1, ClientAssumption DEF Forwards
    <3>2. u # clipboard
      BY <1>3, <3>1 DEF Forwards, None
    <3> QED
      BY <1>3, <3>1, <3>2 DEF OpenOrAnsweredOnce, OpenUntilAnswered
  <2> QED
    BY <2>1
<1> QED
  BY <1>4, <1>6, <1>7, <1>8, <1>9, <1>10 DEF OpenOrAnsweredOnce

\* A query of the client's own: a batch that is never live.
LEMMA OwnStep == ClientIInv /\ OwnQuery => ClientIInv'
<1> SUFFICES ASSUME ClientIInv, OwnQuery
             PROVE  ClientIInv'
  OBVIOUS
<1>1. batches' = Append(batches, Batch(Own))
  BY DEF OwnQuery
<1>2. Batch(Own) \in BatchSet /\ ~IsLive(Batch(Own))
  BY DEF Batch, BatchSet, Bytes, IsLive
<1>3. batches \in Seq(BatchSet)
  BY BatchTypes DEF ClientIInv
<1>4. /\ batches' \in Seq(BatchSet)
      /\ DOMAIN batches' = 1 .. Len(batches) + 1
      /\ DOMAIN batches = 1 .. Len(batches)
      /\ Len(batches) \in Nat
      /\ \A k \in DOMAIN batches : batches'[k] = batches[k]
      /\ batches'[Len(batches) + 1] = Batch(Own)
  BY <1>1, <1>2, <1>3, AppendedBatches
<1>5. Live' = Live
  <2>1. Live' = {k \in 1 .. Len(batches) + 1 : IsLive(batches'[k])}
    BY <1>4 DEF Live, IsLive
  <2>2. Live = {k \in 1 .. Len(batches) : IsLive(batches[k])}
    BY <1>4 DEF Live
  <2>3. \A k \in 1 .. Len(batches) : batches'[k] = batches[k]
    BY <1>4
  <2>4. ~IsLive(batches'[Len(batches) + 1])
    BY <1>2, <1>4
  <2> QED
    BY <1>4, <2>1, <2>2, <2>3, <2>4
<1>6. ClientTypeOK'
  <2>1. stdout' \in Seq([token : Forwards \cup {Own}, replied : BOOLEAN])
    BY DEF OwnQuery, ClientIInv, ClientTypeOK
  <2> QED
    BY <1>4, <2>1, ClientAssumption DEF OwnQuery, ClientIInv, ClientTypeOK, BatchSet
<1>7. SlotsInv' /\ OpenOrAnsweredOnce'
  <2>1. \A k \in Live : batches'[k].token = batches[k].token
    BY <1>4 DEF Live
  <2> QED
    BY <1>5, <2>1, SameSlots DEF OwnQuery
<1> QED
  BY <1>6, <1>7 DEF ClientIInv

\* What the terminal answers goes into the batch in front, if that is live.
LEMMA CollectFacts ==
  ASSUME ClientTypeOK, NEW a \in [kind : {"reply", "clipboard"}, token : Forwards \cup {Own}],
         Collect(a)
  PROVE  /\ batches' \in Seq(BatchSet)
         /\ Live' = Live
         /\ \A k \in Live : batches'[k].token = batches[k].token
<1>1. \A k \in DOMAIN batches :
        /\ batches'[k] \in BatchSet
        /\ batches'[k].token = batches[k].token
        /\ batches'[k].abandoned = batches[k].abandoned
  <2> TAKE k \in DOMAIN batches
  <2>1. batches[k] \in BatchSet
    BY BatchTypes
  <2>2. batches'[k] = IF k \in Collecting
                      THEN [batches[k] EXCEPT !.reply_bytes = Append(@, a)]
                      ELSE batches[k]
    BY DEF Collect
  <2>3. Append(batches[k].reply_bytes, a) \in Bytes
    BY <2>1 DEF BatchSet, Bytes
  <2> QED
    BY <2>1, <2>2, <2>3 DEF BatchSet
<1>2. DOMAIN batches' = DOMAIN batches
  BY DEF Collect
<1>3. batches' \in [1 .. Len(batches) -> BatchSet]
  BY <1>1, <1>2, BatchTypes DEF Collect
<1>4. batches' \in Seq(BatchSet)
  BY <1>3, BatchTypes
<1>5. Live' = Live
  BY <1>1, <1>2 DEF Live, IsLive
<1> QED
  BY <1>1, <1>4, <1>5 DEF Live

\* What the terminal has yet to answer stays a sequence.
LEMMA StdoutFacts ==
  ASSUME ClientTypeOK, stdout # <<>>
  PROVE  /\ stdout[1] \in OutSet
         /\ Tail(stdout) \in Seq(OutSet)
         /\ [stdout EXCEPT ![1].replied = TRUE] \in Seq(OutSet)
<1>1. stdout \in Seq(OutSet)
  BY DEF ClientTypeOK, OutSet
<1>2. 1 \in 1 .. Len(stdout) /\ Len(stdout) \in Nat /\ stdout \in [1 .. Len(stdout) -> OutSet]
  BY <1>1
<1>3. stdout[1] \in OutSet
  BY <1>2
<1>4. [stdout[1] EXCEPT !.replied = TRUE] \in OutSet
  BY <1>3 DEF OutSet
<1>5. [stdout EXCEPT ![1].replied = TRUE] \in [1 .. Len(stdout) -> OutSet]
  BY <1>2, <1>4
<1>6. [stdout EXCEPT ![1].replied = TRUE] \in Seq(OutSet)
  BY <1>2, <1>5
<1> QED
  BY <1>1, <1>3, <1>6

LEMMA ReplyStep == ClientIInv /\ TerminalReply => ClientIInv'
<1> SUFFICES ASSUME ClientIInv, TerminalReply
             PROVE  ClientIInv'
  OBVIOUS
<1> DEFINE a == HostReply(stdout[1].token)
<1>1. stdout[1] \in [token : Forwards \cup {Own}, replied : BOOLEAN]
  BY StdoutFacts DEF TerminalReply, ClientIInv, OutSet
<1>2. a \in [kind : {"reply", "clipboard"}, token : Forwards \cup {Own}] /\ Collect(a)
  BY <1>1 DEF HostReply, TerminalReply
<1>3. /\ batches' \in Seq(BatchSet)
      /\ Live' = Live
      /\ \A k \in Live : batches'[k].token = batches[k].token
  BY <1>2, CollectFacts DEF ClientIInv
<1>4. stdout' \in Seq([token : Forwards \cup {Own}, replied : BOOLEAN])
  BY StdoutFacts DEF TerminalReply, ClientIInv, OutSet
<1>5. ClientTypeOK'
  BY <1>3, <1>4 DEF TerminalReply, ClientIInv, ClientTypeOK, BatchSet
<1>6. SlotsInv' /\ OpenOrAnsweredOnce'
  BY <1>3, SameSlots DEF TerminalReply
<1> QED
  BY <1>5, <1>6 DEF ClientIInv

\* A slot that is closed while its batch goes, or stays abandoned: what SlotCloses
\* asks of the batches when the one in front is dropped.
LEMMA FrontGone ==
  ASSUME ClientTypeOK, batches # <<>>, batches' = Tail(batches)
  PROVE  /\ batches' \in Seq(BatchSet)
         /\ \A k \in Live' : k + 1 \in Live /\ batches'[k].token = batches[k + 1].token
         /\ \A j \in Live : j # 1 => j - 1 \in Live' /\ batches'[j - 1].token = batches[j].token
<1>1. /\ batches' \in Seq(BatchSet)
      /\ Len(batches) \in Nat \ {0}
      /\ DOMAIN batches = 1 .. Len(batches)
      /\ DOMAIN batches' = 1 .. Len(batches) - 1
      /\ \A k \in DOMAIN batches' : batches'[k] = batches[k + 1]
  BY BatchTypes, TailBatches
<1>2. \A k \in Live' : k + 1 \in Live /\ batches'[k].token = batches[k + 1].token
  BY <1>1 DEF Live, IsLive
<1>3. ASSUME NEW j \in Live, j # 1
      PROVE  j - 1 \in Live' /\ batches'[j - 1].token = batches[j].token
  <2>1. j - 1 \in DOMAIN batches' /\ batches'[j - 1] = batches[j]
    BY <1>1, <1>3 DEF Live
  <2> QED
    BY <2>1, <1>3 DEF Live, IsLive
<1> QED
  BY <1>1, <1>2, <1>3

\* The batch in front goes and is not live: the others move up.
LEMMA SlotsMove ==
  ASSUME ClientIInv, 1 \notin Live,
         answers' = answers, clipboard' = clipboard, timers' = timers,
         next_forward' = next_forward,
         \A k \in Live' : k \in Nat \ {0},
         \A k \in Live' : k + 1 \in Live /\ batches'[k].token = batches[k + 1].token,
         \A j \in Live : j # 1 => j - 1 \in Live' /\ batches'[j - 1].token = batches[j].token
  PROVE  SlotsInv' /\ OpenOrAnsweredOnce'
<1> USE DEF ClientIInv, SlotsInv
<1>1. BatchInv'
  <2>1. ASSUME NEW j \in Live', NEW k \in Live'
        PROVE  j = k
    <3>1. j + 1 = k + 1
      BY DEF BatchInv
    <3> QED
      BY <3>1
  <2>2. ASSUME NEW k \in Live'
        PROVE  /\ batches'[k].token \in timers
               /\ batches'[k].token < next_forward
               /\ answers[batches'[k].token] = <<>>
               /\ batches'[k].token # clipboard
    BY DEF BatchInv
  <2> QED
    BY <2>1, <2>2 DEF BatchInv
<1>2. ClipboardInv' /\ FreshInv'
  BY DEF ClipboardInv, FreshInv
<1>3. OpenUntilAnswered'
  <2> SUFFICES ASSUME NEW u \in 1 .. next_forward - 1, answers[u] = <<>>
               PROVE  /\ u \in timers
                      /\ clipboard = u \/ \E k \in Live' : batches'[k].token = u
    BY DEF OpenUntilAnswered
  <2>1. u \in timers /\ (clipboard = u \/ \E k \in Live : batches[k].token = u)
    BY DEF OpenOrAnsweredOnce, OpenUntilAnswered
  <2> QED
    BY <2>1
<1>4. AnsweredAtMostOnce'
  BY DEF OpenOrAnsweredOnce, AnsweredAtMostOnce
<1> QED
  BY <1>1, <1>2, <1>3, <1>4 DEF OpenOrAnsweredOnce

LEMMA BarrierStep == ClientIInv /\ TerminalBarrier => ClientIInv'
<1> SUFFICES ASSUME ClientIInv, TerminalBarrier
             PROVE  ClientIInv'
  OBVIOUS
<1> USE DEF ClientIInv, SlotsInv
<1>0. stdout' \in Seq(OutSet)
  BY StdoutFacts DEF TerminalBarrier
<1>1. CASE batches = <<>>
  <2>1. batches' = batches /\ Live = {} /\ Live' = {}
    BY <1>1 DEF TerminalBarrier, Live
  <2>2. ClientTypeOK'
    BY <1>0, <2>1 DEF TerminalBarrier, ClientTypeOK, OutSet
  <2> QED
    BY <2>1, <2>2, SameSlots DEF TerminalBarrier
<1>2. CASE batches # <<>>
  <2>1. batches' = Tail(batches)
    BY <1>2 DEF TerminalBarrier
  <2>2. /\ batches' \in Seq(BatchSet)
        /\ \A k \in Live' : k + 1 \in Live /\ batches'[k].token = batches[k + 1].token
        /\ \A j \in Live : j # 1 => j - 1 \in Live' /\ batches'[j - 1].token = batches[j].token
    BY <1>2, <2>1, FrontGone
  <2>3. \A k \in Live' : k \in Nat \ {0}
    BY <2>2 DEF Live
  <2>4. CASE 1 \in Live
    <3> DEFINE t == batches[1].token
               bytes == batches[1].reply_bytes
    <3>1. /\ t \in Forwards /\ bytes \in Bytes
          /\ t < next_forward /\ t \in timers /\ t # clipboard
          /\ answers[t] = <<>>
      BY <2>4, BatchTypes DEF BatchInv, Live, IsLive, BatchSet
    <3>2. answers' = Answer(t, bytes)
      BY <2>4 DEF TerminalBarrier
    <3>3. Live = {1} /\ Live' = {}
      <4>1. Live = {1}
        BY <2>4 DEF BatchInv
      <4> QED
        BY <4>1, <2>2, <2>3
    <3>4. SlotsInv' /\ OpenOrAnsweredOnce'
      <4>1. \A j \in Live : batches[j].token = t
        BY <3>3
      <4>2. clipboard' = clipboard /\ timers' = timers /\ next_forward' = next_forward
        BY DEF TerminalBarrier
      <4> HIDE DEF t, bytes
      <4> QED
        BY <3>1, <3>2, <3>3, <4>1, <4>2, SlotCloses
    <3>5. answers' \in [Forwards \cup {Own} -> Seq(Bytes)] /\ answers'[Own] = <<>>
      BY <3>1, <3>2, AnswerFacts
    <3>6. ClientTypeOK'
      BY <1>0, <2>2, <3>5 DEF TerminalBarrier, ClientTypeOK, BatchSet, OutSet
    <3> QED
      BY <3>4, <3>6
  <2>5. CASE 1 \notin Live
    <3>1. answers' = answers
      BY <2>5 DEF TerminalBarrier
    <3>2. SlotsInv' /\ OpenOrAnsweredOnce'
      BY <2>2, <2>3, <2>5, <3>1, SlotsMove DEF TerminalBarrier
    <3>3. ClientTypeOK'
      BY <1>0, <2>2, <3>1 DEF TerminalBarrier, ClientTypeOK, BatchSet, OutSet
    <3> QED
      BY <3>2, <3>3
  <2> QED
    BY <2>4, <2>5
<1> QED
  BY <1>1, <1>2

LEMMA ExpireStep == ClientIInv /\ ExpireBatch => ClientIInv'
<1> SUFFICES ASSUME ClientIInv, ExpireBatch
             PROVE  ClientIInv'
  OBVIOUS
<1> USE DEF ClientIInv, SlotsInv
<1>1. 1 \notin Live
  BY DEF ExpireBatch, BatchInv
<1>2. /\ batches' \in Seq(BatchSet)
      /\ \A k \in Live' : k + 1 \in Live /\ batches'[k].token = batches[k + 1].token
      /\ \A j \in Live : j # 1 => j - 1 \in Live' /\ batches'[j - 1].token = batches[j].token
  BY FrontGone DEF ExpireBatch
<1>3. \A k \in Live' : k \in Nat \ {0}
  BY <1>2 DEF Live
<1>4. SlotsInv' /\ OpenOrAnsweredOnce'
  BY <1>1, <1>2, <1>3, SlotsMove DEF ExpireBatch
<1>5. ClientTypeOK'
  BY <1>2 DEF ExpireBatch, ClientTypeOK, BatchSet
<1> QED
  BY <1>4, <1>5

\* The clipboard's slot is answered and closed, the batches stay.
LEMMA ClipboardAnswered ==
  ASSUME ClientIInv, clipboard # None, NEW bytes \in Bytes,
         answers' = Answer(clipboard, bytes), clipboard' = None,
         batches' = batches, next_forward' = next_forward,
         timers \ {clipboard} \subseteq timers', timers' \subseteq timers
  PROVE  /\ SlotsInv' /\ OpenOrAnsweredOnce'
         /\ answers' \in [Forwards \cup {Own} -> Seq(Bytes)] /\ answers'[Own] = <<>>
<1> USE DEF ClientIInv, SlotsInv
<1>1. clipboard \in Forwards /\ clipboard < next_forward /\ answers[clipboard] = <<>>
  BY DEF ClipboardInv, ClientTypeOK
<1>2. Live' = Live
  BY DEF Live, IsLive
<1>3. \A j, k \in Live : j = k
  BY DEF BatchInv
<1>4. \A j \in Live : batches[j].token # clipboard
  BY DEF BatchInv
<1>5. SlotsInv' /\ OpenOrAnsweredOnce'
  <2> DEFINE t == clipboard
  <2>1. clipboard' = IF clipboard = t THEN None ELSE clipboard
    OBVIOUS
  <2>2. \A k \in Live' : \E j \in Live : /\ batches'[k].token = batches[j].token
                                          /\ batches[j].token # t
    BY <1>2, <1>4
  <2> QED
    BY <1>1, <1>2, <1>3, <2>1, <2>2, SlotCloses
<1> QED
  BY <1>1, <1>5, AnswerFacts

LEMMA ClipboardStep ==
  ASSUME ClientIInv, NEW t \in Forwards, TerminalClipboard(t)
  PROVE  ClientIInv'
<1> DEFINE a == ClipboardContent(t)
<1>1. a \in [kind : {"reply", "clipboard"}, token : Forwards \cup {Own}]
  BY DEF ClipboardContent
<1>2. CASE clipboard # None
  <2>1. <<a>> \in Bytes
    BY <1>1 DEF Bytes
  <2>2. answers' = Answer(clipboard, <<a>>) /\ clipboard' = None /\ batches' = batches
    BY <1>2 DEF TerminalClipboard
  <2> HIDE DEF a
  <2>3. /\ SlotsInv' /\ OpenOrAnsweredOnce'
        /\ answers' \in [Forwards \cup {Own} -> Seq(Bytes)] /\ answers'[Own] = <<>>
    BY <1>2, <2>1, <2>2, ClipboardAnswered DEF TerminalClipboard
  <2>4. ClientTypeOK'
    BY <2>2, <2>3 DEF TerminalClipboard, ClientIInv, ClientTypeOK
  <2> QED
    BY <2>3, <2>4 DEF ClientIInv
<1>3. CASE clipboard = None
  <2>1. Collect(a) /\ answers' = answers /\ clipboard' = clipboard
    BY <1>3 DEF TerminalClipboard
  <2>2. /\ batches' \in Seq(BatchSet)
        /\ Live' = Live
        /\ \A k \in Live : batches'[k].token = batches[k].token
    BY <1>1, <2>1, CollectFacts DEF ClientIInv
  <2>3. SlotsInv' /\ OpenOrAnsweredOnce'
    BY <2>1, <2>2, SameSlots DEF TerminalClipboard
  <2>4. ClientTypeOK'
    BY <2>1, <2>2 DEF TerminalClipboard, ClientIInv, ClientTypeOK, BatchSet
  <2> QED
    BY <2>3, <2>4 DEF ClientIInv
<1> QED
  BY <1>2, <1>3

LEMMA InputStep == ClientIInv /\ UserInput => ClientIInv'
<1> SUFFICES ASSUME ClientIInv, UserInput
             PROVE  ClientIInv'
  OBVIOUS
<1>1. <<>> \in Bytes
  BY DEF Bytes
<1>2. /\ SlotsInv' /\ OpenOrAnsweredOnce'
      /\ answers' \in [Forwards \cup {Own} -> Seq(Bytes)] /\ answers'[Own] = <<>>
  BY <1>1, ClipboardAnswered DEF UserInput
<1>3. ClientTypeOK'
  BY <1>2 DEF UserInput, ClientIInv, ClientTypeOK
<1> QED
  BY <1>2, <1>3 DEF ClientIInv

\* A timer: the live batch is its token's, the clipboard's slot is, or neither.
LEMMA TimeoutStep ==
  ASSUME ClientIInv, NEW t \in Forwards, Timeout(t)
  PROVE  ClientIInv'
<1> USE DEF ClientIInv, SlotsInv
<1> DEFINE slots == TimedOut(t)
<1>1. /\ t \in timers /\ timers' = timers \ {t}
      /\ batches' = AbandonAll(slots)
      /\ clipboard' = (IF clipboard = t THEN None ELSE clipboard)
      /\ next_forward' = next_forward
  BY DEF Timeout
<1>2. /\ batches' \in Seq(BatchSet)
      /\ DOMAIN batches' = DOMAIN batches
      /\ \A k \in DOMAIN batches :
           /\ batches'[k].token = batches[k].token
           /\ k \in slots => ~IsLive(batches'[k])
           /\ k \notin slots => batches'[k] = batches[k]
  BY <1>1, AbandonFacts, BatchTypes DEF AbandonAll
<1>3. Live' = Live \ slots
  BY <1>2 DEF Live, IsLive, TimedOut
<1>4. \A k \in slots : k \in Live /\ batches[k].token = t
  BY DEF TimedOut
<1>5. \A j, k \in Live : j = k
  BY DEF BatchInv
<1>6. ASSUME answers' \in [Forwards \cup {Own} -> Seq(Bytes)], answers'[Own] = <<>>
      PROVE  ClientTypeOK'
  BY <1>1, <1>2, <1>6 DEF Timeout, ClientTypeOK, BatchSet
<1>7. /\ \A k \in Live' : \E j \in Live : /\ batches'[k].token = batches[j].token
                                          /\ batches[j].token # t
      /\ \A j, k \in Live' : j = k
      /\ \A j \in Live : batches[j].token # t =>
           \E k \in Live' : batches'[k].token = batches[j].token
  <2>1. \A k \in Live : batches'[k].token = batches[k].token
    BY <1>2 DEF Live
  <2>2. slots = {k \in Live : batches[k].token = t}
    BY DEF TimedOut
  <2> QED
    BY <1>3, <1>5, <2>1, <2>2
<1>8. ASSUME NEW bytes \in Bytes, answers' = Answer(t, bytes), t < next_forward, answers[t] = <<>>
      PROVE  ClientIInv'
  <2>1. answers' \in [Forwards \cup {Own} -> Seq(Bytes)] /\ answers'[Own] = <<>>
    BY <1>8, AnswerFacts
  <2> HIDE DEF slots
  <2>2. SlotsInv' /\ OpenOrAnsweredOnce'
    BY <1>1, <1>7, <1>8, SlotCloses
  <2> QED
    BY <1>6, <2>1, <2>2
<1>9. CASE slots # {}
  <2> DEFINE k == CHOOSE k \in slots : TRUE
  <2>1. k \in Live /\ batches[k].token = t
    BY <1>4, <1>9
  <2>2. answers' = Answer(t, batches[k].reply_bytes)
    BY <1>9 DEF Timeout
  <2> HIDE DEF k
  <2>3. batches[k].reply_bytes \in Bytes
    BY <2>1, BatchTypes DEF Live, BatchSet
  <2>4. t < next_forward /\ answers[t] = <<>>
    BY <2>1 DEF BatchInv
  <2> QED
    BY <1>8, <2>2, <2>3, <2>4
<1>10. CASE slots = {} /\ clipboard = t
  <2>1. <<>> \in Bytes
    BY DEF Bytes
  <2>2. answers' = Answer(t, <<>>)
    BY <1>10 DEF Timeout
  <2>3. t < next_forward /\ answers[t] = <<>>
    BY <1>10 DEF ClipboardInv, Forwards, None
  <2> QED
    BY <1>8, <2>1, <2>2, <2>3
<1>11. CASE slots = {} /\ clipboard # t
  <2>1. answers' = answers /\ clipboard' = clipboard
    BY <1>11 DEF Timeout
  <2>2. Live' = Live /\ \A k \in Live : batches'[k] = batches[k] /\ batches[k].token # t
    BY <1>2, <1>3, <1>11 DEF Live, TimedOut
  <2>3. ClientTypeOK'
    BY <1>6, <2>1 DEF ClientTypeOK
  <2>4. BatchInv'
    BY <1>1, <2>1, <2>2 DEF BatchInv
  <2>5. ClipboardInv' /\ FreshInv'
    BY <1>1, <1>11, <2>1 DEF ClipboardInv, FreshInv
  <2>6. OpenUntilAnswered'
    <3> SUFFICES ASSUME NEW u \in 1 .. next_forward - 1, answers[u] = <<>>
                 PROVE  /\ u \in timers \ {t}
                        /\ clipboard = u \/ \E k \in Live : batches[k].token = u
      BY <1>1, <2>1, <2>2 DEF OpenUntilAnswered
    <3>1. u \in timers /\ (clipboard = u \/ \E k \in Live : batches[k].token = u)
      BY DEF OpenOrAnsweredOnce, OpenUntilAnswered
    <3>2. u # t
      BY <1>11, <2>2, <3>1
    <3> QED
      BY <3>1, <3>2
  <2>7. AnsweredAtMostOnce'
    BY <2>1 DEF OpenOrAnsweredOnce, AnsweredAtMostOnce
  <2> QED
    BY <2>3, <2>4, <2>5, <2>6, <2>7 DEF OpenOrAnsweredOnce
<1> QED
  BY <1>9, <1>10, <1>11

LEMMA NextClientIInv == ClientIInv /\ [ClientNext]_forwardVars => ClientIInv'
<1> SUFFICES ASSUME ClientIInv, [ClientNext]_forwardVars
             PROVE  ClientIInv'
  OBVIOUS
<1>1. CASE UNCHANGED forwardVars
  <2>1. Live' = Live
    BY <1>1 DEF forwardVars, Live, IsLive
  <2>2. SlotsInv' /\ OpenOrAnsweredOnce'
    BY <1>1, <2>1, SameSlots DEF forwardVars
  <2>3. ClientTypeOK'
    BY <1>1 DEF forwardVars, ClientIInv, ClientTypeOK
  <2> QED
    BY <2>2, <2>3 DEF ClientIInv
<1> QED
  BY <1>1, ForwardStep, ClipboardForwardStep, OwnStep, ReplyStep, BarrierStep, ClipboardStep,
     InputStep, ExpireStep, TimeoutStep DEF ClientNext

LEMMA SpecClientIInv == ClientSpec => []ClientIInv
  BY InitClientIInv, NextClientIInv, PTL DEF ClientSpec

-----------------------------------------------------------------------------

\* Every variable keeps its type, and nothing is ever answered in the name of a
\* batch of the client's own.
THEOREM ClientTypeCorrect == ClientSpec => []ClientTypeOK
<1>1. ClientIInv => ClientTypeOK
  BY DEF ClientIInv
<1> QED
  BY <1>1, SpecClientIInv, PTL

\* However barriers, timers, user input and further forwards race, each token has
\* either a slot that is open, with its timer armed, or its one answer.
THEOREM TokensAnsweredOnce == ClientSpec => []OpenOrAnsweredOnce
<1>1. ClientIInv => OpenOrAnsweredOnce
  BY DEF ClientIInv
<1> QED
  BY <1>1, SpecClientIInv, PTL

\* At most one batch collects for the server, whatever was abandoned before, and
\* neither slot's token has been answered.
THEOREM OneSlotOfEachKind == ClientSpec => []SlotsInv
<1>1. ClientIInv => SlotsInv
  BY DEF ClientIInv
<1> QED
  BY <1>1, SpecClientIInv, PTL

-----------------------------------------------------------------------------
(* Replies stay with their queries *)

\* What the terminal answered to queries is an answer to the query of t.
Matches(bytes, t) == \A m \in DOMAIN bytes : bytes[m].kind = "reply" => bytes[m].token = t

BatchesMatch == \A k \in DOMAIN batches : Matches(batches[k].reply_bytes, batches[k].token)
AnswersMatch == \A t \in Forwards : \A n \in DOMAIN answers[t] : Matches(answers[t][n], t)

RepliesInv ==
  /\ BatchesFollowTerminal
  /\ terminal # "late" => BatchesMatch /\ AnswersMatch

\* An answer that matches its token.
LEMMA AnswerMatches ==
  ASSUME ClientTypeOK, AnswersMatch, NEW t \in Forwards, NEW bytes \in Bytes, Matches(bytes, t),
         answers' = Answer(t, bytes)
  PROVE  AnswersMatch'
<1> SUFFICES ASSUME NEW u \in Forwards, NEW n \in DOMAIN answers'[u]
             PROVE  Matches(answers'[u][n], u)
  BY DEF AnswersMatch, Matches
<1>1. answers[u] \in Seq(Bytes)
  BY DEF ClientTypeOK
<1>2. CASE u = t
  <2>1. answers'[u] = Append(answers[u], bytes)
    BY <1>2 DEF ClientTypeOK, Answer
  <2>2. \/ n \in DOMAIN answers[u] /\ answers'[u][n] = answers[u][n]
        \/ answers'[u][n] = bytes
    BY <1>1, <2>1
  <2> QED
    BY <1>2, <2>2 DEF AnswersMatch
<1>3. CASE u # t
  <2>1. answers'[u] = answers[u]
    BY <1>3 DEF ClientTypeOK, Answer
  <2> QED
    BY <2>1 DEF AnswersMatch
<1> QED
  BY <1>2, <1>3

\* What is handed over matches.
LEMMA HandedOverMatches ==
  ASSUME ClientTypeOK, AnswersMatch, BatchesMatch, answers' = HandedOver
  PROVE  AnswersMatch'
<1> SUFFICES ASSUME NEW u \in Forwards, NEW n \in DOMAIN answers'[u]
             PROVE  Matches(answers'[u][n], u)
  BY DEF AnswersMatch, Matches
<1>1. answers[u] \in Seq(Bytes)
  BY DEF ClientTypeOK
<1>2. CASE \E k \in Live : batches[k].token = u
  <2> DEFINE k == CHOOSE k \in Live : batches[k].token = u
  <2>1. k \in Live /\ batches[k].token = u
    BY <1>2
  <2>2. answers'[u] = Append(answers[u], batches[k].reply_bytes)
    BY <1>2 DEF HandedOver
  <2> HIDE DEF k
  <2>3. \/ n \in DOMAIN answers[u] /\ answers'[u][n] = answers[u][n]
        \/ answers'[u][n] = batches[k].reply_bytes
    BY <1>1, <2>2
  <2>4. Matches(batches[k].reply_bytes, u)
    BY <2>1 DEF BatchesMatch, Live
  <2> QED
    BY <2>3, <2>4 DEF AnswersMatch
<1>3. CASE ~\E k \in Live : batches[k].token = u
  <2>1. answers'[u] = answers[u]
    BY <1>3 DEF HandedOver
  <2> QED
    BY <2>1 DEF AnswersMatch
<1> QED
  BY <1>2, <1>3

\* A batch that gives up its bytes, or stays as it was, matches.
LEMMA AbandonMatches ==
  ASSUME ClientTypeOK, BatchesMatch, NEW K
  PROVE  \A k \in DOMAIN batches :
           Matches(AbandonAll(K)[k].reply_bytes, AbandonAll(K)[k].token)
<1> TAKE k \in DOMAIN batches
<1>1. batches[k] \in BatchSet
  BY BatchTypes
<1>2. AbandonAll(K)[k] = IF k \in K
        THEN [batches[k] EXCEPT !.abandoned = TRUE, !.reply_bytes = <<>>] ELSE batches[k]
  BY DEF AbandonAll
<1>3. CASE k \in K
  <2>1. AbandonAll(K)[k].reply_bytes = <<>>
    BY <1>1, <1>2, <1>3 DEF BatchSet
  <2>2. Matches(<<>>, AbandonAll(K)[k].token)
    BY DEF Matches
  <2> QED
    BY <2>1, <2>2
<1>4. CASE k \notin K
  BY <1>2, <1>4 DEF BatchesMatch
<1> QED
  BY <1>3, <1>4

\* A query and its batch are written together.
LEMMA WrittenTogether ==
  ASSUME ClientTypeOK, BatchesFollowTerminal, NEW t \in Forwards \cup {Own},
         NEW s \in Seq(BatchSet), Len(s) = Len(batches),
         \A k \in DOMAIN batches : s[k].token = batches[k].token,
         terminal' = terminal,
         batches' = Append(s, Batch(t)),
         stdout' = Append(stdout, [token |-> t, replied |-> FALSE])
  PROVE  BatchesFollowTerminal'
<1> SUFFICES ASSUME terminal = "prompt"
             PROVE  /\ Len(batches') = Len(stdout')
                    /\ \A k \in DOMAIN batches' : batches'[k].token = stdout'[k].token
  BY DEF BatchesFollowTerminal
<1> DEFINE n == Len(batches)
<1>1. /\ Len(stdout) = n
      /\ \A k \in 1 .. n : batches[k].token = stdout[k].token
      /\ n \in Nat /\ DOMAIN batches = 1 .. n /\ stdout \in Seq(OutSet)
  BY BatchTypes DEF BatchesFollowTerminal, ClientTypeOK, OutSet
<1>2. Batch(t) \in BatchSet /\ Batch(t).token = t
  BY DEF Batch, BatchSet, Bytes
<1>3. [token |-> t, replied |-> FALSE] \in OutSet
  BY DEF OutSet
<1>4. /\ DOMAIN batches' = 1 .. n + 1 /\ Len(batches') = n + 1
      /\ \A k \in 1 .. n : batches'[k] = s[k]
      /\ batches'[n + 1] = Batch(t)
  BY <1>1, <1>2
<1>5. /\ Len(stdout') = n + 1
      /\ \A k \in 1 .. n : stdout'[k] = stdout[k]
      /\ stdout'[n + 1] = [token |-> t, replied |-> FALSE]
  BY <1>1, <1>3
<1> SUFFICES ASSUME NEW k \in 1 .. n + 1
             PROVE  batches'[k].token = stdout'[k].token
  BY <1>4, <1>5
<1>6. CASE k = n + 1
  BY <1>2, <1>4, <1>5, <1>6
<1>7. CASE k # n + 1
  <2>1. k \in 1 .. n
    BY <1>1, <1>7
  <2> QED
    BY <1>1, <1>4, <1>5, <2>1
<1> QED
  BY <1>6, <1>7

\* A batch of no bytes matches, and so does a sequence of batches that it ends.
LEMMA AppendedMatches ==
  ASSUME NEW s \in Seq(BatchSet), NEW t \in Forwards \cup {Own},
         \A k \in DOMAIN s : Matches(s[k].reply_bytes, s[k].token),
         batches' = Append(s, Batch(t))
  PROVE  BatchesMatch'
<1>1. Batch(t) \in BatchSet /\ Matches(Batch(t).reply_bytes, t)
  BY DEF Batch, BatchSet, Bytes, Matches
<1>2. /\ DOMAIN batches' = 1 .. Len(s) + 1
      /\ DOMAIN s = 1 .. Len(s) /\ Len(s) \in Nat
      /\ \A k \in DOMAIN s : batches'[k] = s[k]
      /\ batches'[Len(s) + 1] = Batch(t)
  BY <1>1, AppendedBatches
<1>3. Batch(t).token = t
  BY DEF Batch
<1> SUFFICES ASSUME NEW k \in 1 .. Len(s) + 1
             PROVE  Matches(batches'[k].reply_bytes, batches'[k].token)
  BY <1>2 DEF BatchesMatch, Matches
<1>4. CASE k = Len(s) + 1
  BY <1>1, <1>2, <1>3, <1>4
<1>5. CASE k # Len(s) + 1
  <2>1. k \in DOMAIN s
    BY <1>2, <1>5
  <2> QED
    BY <1>2, <2>1
<1> QED
  BY <1>4, <1>5

LEMMA ForwardReplies == ClientIInv /\ RepliesInv /\ OpenForward => RepliesInv'
<1> SUFFICES ASSUME ClientIInv, RepliesInv, OpenForward
             PROVE  RepliesInv'
  OBVIOUS
<1> DEFINE A == AbandonAll(Live)
<1>1. /\ next_forward \in Forwards \cup {Own}
      /\ batches' = Append(A, Batch(next_forward))
      /\ stdout' = Append(stdout, [token |-> next_forward, replied |-> FALSE])
      /\ answers' = HandedOver
      /\ terminal' = terminal
  BY DEF OpenForward, ClientIInv, ClientTypeOK, Forwards, Abandoned
<1>2. /\ A \in Seq(BatchSet)
      /\ Len(A) = Len(batches)
      /\ \A k \in DOMAIN batches : A[k].token = batches[k].token
      /\ DOMAIN A = DOMAIN batches
  BY AbandonFacts DEF ClientIInv, AbandonAll
<1> HIDE DEF A
<1>3. BatchesFollowTerminal'
  BY <1>1, <1>2, WrittenTogether DEF ClientIInv, RepliesInv
<1>4. ASSUME terminal # "late"
      PROVE  BatchesMatch' /\ AnswersMatch'
  <2>1. BatchesMatch /\ AnswersMatch
    BY <1>4 DEF RepliesInv
  <2>2. \A k \in DOMAIN A : Matches(A[k].reply_bytes, A[k].token)
    BY <1>2, <2>1, AbandonMatches DEF A, ClientIInv
  <2>3. BatchesMatch'
    BY <1>1, <1>2, <2>2, AppendedMatches
  <2> QED
    BY <1>1, <2>1, <2>3, HandedOverMatches DEF ClientIInv, SlotsInv
<1> QED
  BY <1>1, <1>3, <1>4 DEF RepliesInv

LEMMA OwnReplies == ClientIInv /\ RepliesInv /\ OwnQuery => RepliesInv'
<1> SUFFICES ASSUME ClientIInv, RepliesInv, OwnQuery
             PROVE  RepliesInv'
  OBVIOUS
<1>1. /\ batches' = Append(batches, Batch(Own))
      /\ stdout' = Append(stdout, [token |-> Own, replied |-> FALSE])
      /\ answers' = answers
      /\ terminal' = terminal
  BY DEF OwnQuery
<1>2. BatchesFollowTerminal'
  BY <1>1, BatchTypes, WrittenTogether DEF ClientIInv, RepliesInv
<1>3. ASSUME terminal # "late"
      PROVE  BatchesMatch' /\ AnswersMatch'
  <2>1. BatchesMatch /\ AnswersMatch
    BY <1>3 DEF RepliesInv
  <2>2. BatchesMatch'
    BY <1>1, <2>1, BatchTypes, AppendedMatches DEF ClientIInv, BatchesMatch
  <2> QED
    BY <1>1, <2>1, <2>2 DEF AnswersMatch
<1> QED
  BY <1>1, <1>2, <1>3 DEF RepliesInv

\* An answer that collects in the batch in front, if that is live, and is an answer
\* to its query or the content of a clipboard.
LEMMA CollectMatches ==
  ASSUME ClientTypeOK, NEW a \in [kind : {"reply", "clipboard"}, token : Forwards \cup {Own}],
         Collect(a)
  PROVE  /\ Len(batches') = Len(batches) /\ DOMAIN batches' = DOMAIN batches
         /\ \A k \in DOMAIN batches : batches'[k].token = batches[k].token
         /\ BatchesMatch /\ (1 \in DOMAIN batches /\ a.kind = "reply" => a.token = batches[1].token)
              => BatchesMatch'
<1>1. DOMAIN batches' = DOMAIN batches /\ batches' \in Seq(BatchSet)
  BY CollectFacts DEF Collect
<1>2. Len(batches') = Len(batches)
  BY <1>1, BatchTypes
<1>3. \A k \in DOMAIN batches :
        /\ batches[k] \in BatchSet
        /\ batches'[k].token = batches[k].token
        /\ \/ batches'[k].reply_bytes = batches[k].reply_bytes
           \/ k = 1 /\ batches'[k].reply_bytes = Append(batches[k].reply_bytes, a)
  <2> TAKE k \in DOMAIN batches
  <2>1. batches[k] \in BatchSet
    BY BatchTypes
  <2>2. batches'[k] = IF k \in Collecting
                      THEN [batches[k] EXCEPT !.reply_bytes = Append(@, a)]
                      ELSE batches[k]
    BY DEF Collect
  <2> QED
    BY <2>1, <2>2 DEF BatchSet, Collecting
<1>4. ASSUME BatchesMatch, 1 \in DOMAIN batches /\ a.kind = "reply" => a.token = batches[1].token
      PROVE  BatchesMatch'
  <2> SUFFICES ASSUME NEW k \in DOMAIN batches
               PROVE  Matches(batches'[k].reply_bytes, batches'[k].token)
    BY <1>1 DEF BatchesMatch, Matches
  <2>1. Matches(batches[k].reply_bytes, batches[k].token)
    BY <1>4 DEF BatchesMatch
  <2>2. CASE batches'[k].reply_bytes = batches[k].reply_bytes
    BY <1>3, <2>1, <2>2
  <2>3. CASE k = 1 /\ batches'[k].reply_bytes = Append(batches[k].reply_bytes, a)
    <3> DEFINE old == batches[k].reply_bytes
    <3>1. old \in Seq([kind : {"reply", "clipboard"}, token : Forwards \cup {Own}])
      BY <1>3 DEF BatchSet, Bytes
    <3>2. Matches(old, batches[k].token)
      BY <2>1
    <3> HIDE DEF old
    <3>3. \A m \in DOMAIN Append(old, a) :
            \/ m \in DOMAIN old /\ Append(old, a)[m] = old[m]
            \/ Append(old, a)[m] = a
      BY <3>1
    <3>4. a.kind = "reply" => a.token = batches[k].token
      BY <1>4, <2>3
    <3>5. Matches(Append(old, a), batches[k].token)
      BY <3>2, <3>3, <3>4 DEF Matches
    <3> QED
      BY <1>3, <2>3, <3>5 DEF old
  <2> QED
    BY <1>3, <2>2, <2>3
<1> QED
  BY <1>1, <1>2, <1>3, <1>4

LEMMA ReplyReplies == ClientIInv /\ RepliesInv /\ TerminalReply => RepliesInv'
<1> SUFFICES ASSUME ClientIInv, RepliesInv, TerminalReply
             PROVE  RepliesInv'
  OBVIOUS
<1> DEFINE a == HostReply(stdout[1].token)
<1>1. /\ stdout # <<>> /\ terminal' = terminal /\ answers' = answers
      /\ stdout' = [stdout EXCEPT ![1].replied = TRUE]
      /\ Collect(a) /\ terminal # "mute" /\ terminal \in TerminalKinds
  BY DEF TerminalReply, ClientIInv, ClientTypeOK
<1>2. /\ a \in [kind : {"reply", "clipboard"}, token : Forwards \cup {Own}]
      /\ a.token = stdout[1].token
  BY <1>1, StdoutFacts DEF HostReply, OutSet, ClientIInv
<1> HIDE DEF a
<1>3. /\ Len(batches') = Len(batches) /\ DOMAIN batches' = DOMAIN batches
      /\ \A k \in DOMAIN batches : batches'[k].token = batches[k].token
      /\ BatchesMatch /\ (1 \in DOMAIN batches /\ a.kind = "reply" => a.token = batches[1].token)
           => BatchesMatch'
  BY <1>1, <1>2, CollectMatches DEF ClientIInv
<1>4. /\ stdout \in Seq(OutSet) /\ Len(stdout') = Len(stdout)
      /\ \A k \in 1 .. Len(stdout) : stdout'[k].token = stdout[k].token
  <2>1. stdout \in Seq(OutSet) /\ stdout' \in Seq(OutSet)
    BY <1>1, StdoutFacts DEF ClientIInv, ClientTypeOK, OutSet
  <2>2. DOMAIN stdout' = DOMAIN stdout
    BY <1>1
  <2>3. Len(stdout') = Len(stdout)
    BY <2>1, <2>2
  <2>4. ASSUME NEW k \in 1 .. Len(stdout)
        PROVE  stdout'[k].token = stdout[k].token
    <3>1. stdout[k] \in OutSet
      BY <2>1
    <3>2. k \in DOMAIN stdout
      BY <2>1
    <3>3. CASE k = 1
      <4>1. stdout'[1] = [stdout[1] EXCEPT !.replied = TRUE]
        BY <1>1, <3>2, <3>3
      <4> QED
        BY <3>1, <3>3, <4>1 DEF OutSet
    <3>4. CASE k # 1
      BY <1>1, <3>2, <3>4
    <3> QED
      BY <3>3, <3>4
  <2> QED
    BY <2>1, <2>3, <2>4
<1>5. BatchesFollowTerminal'
  <2> SUFFICES ASSUME terminal = "prompt"
               PROVE  /\ Len(batches') = Len(stdout')
                      /\ \A k \in DOMAIN batches' : batches'[k].token = stdout'[k].token
    BY <1>1 DEF BatchesFollowTerminal
  <2> QED
    BY <1>3, <1>4, BatchTypes DEF RepliesInv, ClientIInv, BatchesFollowTerminal
<1>6. ASSUME terminal # "late"
      PROVE  BatchesMatch' /\ AnswersMatch'
  <2>1. terminal = "prompt"
    BY <1>1, <1>6 DEF TerminalKinds
  <2>2. 1 \in DOMAIN batches => a.token = batches[1].token
    BY <1>2, <2>1 DEF RepliesInv, BatchesFollowTerminal
  <2> QED
    BY <1>1, <1>3, <1>6, <2>2 DEF RepliesInv, AnswersMatch
<1> QED
  BY <1>1, <1>5, <1>6 DEF RepliesInv

\* When the batch in front goes, the others match as before.
LEMMA FrontGoneMatches ==
  ASSUME ClientTypeOK, batches # <<>>, batches' = Tail(batches), BatchesMatch
  PROVE  BatchesMatch'
<1>1. /\ DOMAIN batches' = 1 .. Len(batches) - 1
      /\ \A k \in DOMAIN batches' : k + 1 \in DOMAIN batches /\ batches'[k] = batches[k + 1]
  BY BatchTypes, TailBatches
<1> QED
  BY <1>1 DEF BatchesMatch, Matches

LEMMA BarrierReplies == ClientIInv /\ RepliesInv /\ TerminalBarrier => RepliesInv'
<1> SUFFICES ASSUME ClientIInv, RepliesInv, TerminalBarrier
             PROVE  RepliesInv'
  OBVIOUS
<1>1. /\ stdout # <<>> /\ stdout' = Tail(stdout) /\ terminal' = terminal
      /\ batches' = IF batches = <<>> THEN <<>> ELSE Tail(batches)
      /\ stdout \in Seq(OutSet) /\ ClientTypeOK
  BY DEF TerminalBarrier, ClientIInv, ClientTypeOK, OutSet
<1>2. BatchesFollowTerminal'
  <2> SUFFICES ASSUME terminal = "prompt"
               PROVE  /\ Len(batches') = Len(stdout')
                      /\ \A k \in DOMAIN batches' : batches'[k].token = stdout'[k].token
    BY <1>1 DEF BatchesFollowTerminal
  <2>1. /\ Len(batches) = Len(stdout)
        /\ \A k \in DOMAIN batches : batches[k].token = stdout[k].token
    BY DEF RepliesInv, BatchesFollowTerminal
  <2>2. /\ Len(stdout) \in Nat \ {0} /\ Len(stdout') = Len(stdout) - 1
        /\ \A k \in 1 .. Len(stdout) - 1 : stdout'[k] = stdout[k + 1]
    BY <1>1
  <2>3. batches # <<>>
    BY <2>1, <2>2, BatchTypes, <1>1
  <2>4. /\ batches' \in Seq(BatchSet) /\ DOMAIN batches' = 1 .. Len(batches) - 1
        /\ \A k \in DOMAIN batches' : k + 1 \in DOMAIN batches /\ batches'[k] = batches[k + 1]
    BY <1>1, <2>3, BatchTypes, TailBatches
  <2>5. Len(batches') = Len(batches) - 1
    BY <2>1, <2>2, <2>4
  <2> QED
    BY <2>1, <2>2, <2>4, <2>5
<1>3. ASSUME terminal # "late"
      PROVE  BatchesMatch' /\ AnswersMatch'
  <2>1. BatchesMatch /\ AnswersMatch
    BY <1>3 DEF RepliesInv
  <2>2. BatchesMatch'
    <3>1. CASE batches = <<>>
      BY <1>1, <2>1, <3>1 DEF BatchesMatch
    <3>2. CASE batches # <<>>
      BY <1>1, <2>1, <3>2, FrontGoneMatches
    <3> QED
      BY <3>1, <3>2
  <2>3. AnswersMatch'
    <3>1. CASE 1 \in Live
      <4>1. answers' = Answer(batches[1].token, batches[1].reply_bytes)
        BY <3>1 DEF TerminalBarrier
      <4>2. batches[1].token \in Forwards /\ batches[1].reply_bytes \in Bytes
        BY <1>1, <3>1, BatchTypes DEF Live, IsLive, BatchSet
      <4>3. Matches(batches[1].reply_bytes, batches[1].token)
        BY <2>1, <3>1 DEF BatchesMatch, Live
      <4> QED
        BY <1>1, <2>1, <4>1, <4>2, <4>3, AnswerMatches
    <3>2. CASE 1 \notin Live
      BY <2>1, <3>2 DEF TerminalBarrier, AnswersMatch
    <3> QED
      BY <3>1, <3>2
  <2> QED
    BY <2>2, <2>3
<1> QED
  BY <1>1, <1>2, <1>3 DEF RepliesInv

LEMMA ExpireReplies == ClientIInv /\ RepliesInv /\ ExpireBatch => RepliesInv'
<1> SUFFICES ASSUME ClientIInv, RepliesInv, ExpireBatch
             PROVE  RepliesInv'
  OBVIOUS
<1>1. terminal # "prompt" /\ terminal' = terminal /\ answers' = answers
  BY DEF ExpireBatch
<1>2. BatchesFollowTerminal'
  BY <1>1 DEF BatchesFollowTerminal
<1>3. BatchesMatch => BatchesMatch'
  BY FrontGoneMatches DEF ExpireBatch, ClientIInv
<1> QED
  BY <1>1, <1>2, <1>3 DEF RepliesInv, AnswersMatch

\* The content of a clipboard matches whatever it comes to.
LEMMA ClipboardReplies ==
  ASSUME ClientIInv, RepliesInv, NEW t \in Forwards, TerminalClipboard(t)
  PROVE  RepliesInv'
<1> DEFINE a == ClipboardContent(t)
<1>1. /\ a \in [kind : {"reply", "clipboard"}, token : Forwards \cup {Own}]
      /\ a.kind = "clipboard"
      /\ terminal' = terminal /\ stdout' = stdout
  BY DEF ClipboardContent, TerminalClipboard
<1>2. CASE clipboard # None
  <2>1. answers' = Answer(clipboard, <<a>>) /\ batches' = batches
    BY <1>2 DEF TerminalClipboard
  <2>2. clipboard \in Forwards
    BY <1>2 DEF ClientIInv, ClientTypeOK
  <2> HIDE DEF a
  <2>3. <<a>> \in Bytes /\ Matches(<<a>>, clipboard)
    BY <1>1 DEF Bytes, Matches
  <2>4. AnswersMatch => AnswersMatch'
    BY <2>1, <2>2, <2>3, AnswerMatches DEF ClientIInv
  <2> QED
    BY <1>1, <2>1, <2>4 DEF RepliesInv, BatchesFollowTerminal, BatchesMatch
<1>3. CASE clipboard = None
  <2>1. Collect(a) /\ answers' = answers
    BY <1>3 DEF TerminalClipboard
  <2> HIDE DEF a
  <2>2. /\ Len(batches') = Len(batches) /\ DOMAIN batches' = DOMAIN batches
        /\ \A k \in DOMAIN batches : batches'[k].token = batches[k].token
        /\ BatchesMatch => BatchesMatch'
    BY <1>1, <2>1, CollectMatches DEF ClientIInv
  <2>3. BatchesFollowTerminal'
    BY <1>1, <2>2 DEF RepliesInv, BatchesFollowTerminal
  <2> QED
    BY <1>1, <2>1, <2>2, <2>3 DEF RepliesInv, AnswersMatch
<1> QED
  BY <1>2, <1>3

\* Steps that answer with nothing: the clipboard's slot closes by user input or by
\* the next forward.
LEMMA EmptyReplies ==
  ClientIInv /\ RepliesInv /\ (UserInput \/ ForwardClipboardQuery) => RepliesInv'
<1> SUFFICES ASSUME ClientIInv, RepliesInv, UserInput \/ ForwardClipboardQuery
             PROVE  RepliesInv'
  OBVIOUS
<1>1. /\ batches' = batches /\ stdout' = stdout /\ terminal' = terminal
      /\ answers' = answers \/ (clipboard \in Forwards /\ answers' = Answer(clipboard, <<>>))
  BY DEF UserInput, ForwardClipboardQuery, ClientIInv, ClientTypeOK
<1>2. <<>> \in Bytes /\ Matches(<<>>, clipboard)
  BY DEF Bytes, Matches
<1>3. ASSUME AnswersMatch
      PROVE  AnswersMatch'
  <2>1. CASE answers' = answers
    BY <1>3, <2>1 DEF AnswersMatch
  <2>2. CASE clipboard \in Forwards /\ answers' = Answer(clipboard, <<>>)
    BY <1>2, <1>3, <2>2, AnswerMatches DEF ClientIInv
  <2> QED
    BY <1>1, <2>1, <2>2
<1> QED
  BY <1>1, <1>3 DEF RepliesInv, BatchesFollowTerminal, BatchesMatch

LEMMA TimeoutReplies ==
  ASSUME ClientIInv, RepliesInv, NEW t \in Forwards, Timeout(t)
  PROVE  RepliesInv'
<1> DEFINE slots == TimedOut(t)
<1>1. /\ batches' = AbandonAll(slots) /\ stdout' = stdout /\ terminal' = terminal
      /\ answers' = IF slots # {}
                      THEN Answer(t, batches[CHOOSE k \in slots : TRUE].reply_bytes)
                      ELSE IF clipboard = t THEN Answer(t, <<>>) ELSE answers
  BY DEF Timeout
<1>2. /\ Len(batches') = Len(batches) /\ DOMAIN batches' = DOMAIN batches
      /\ \A k \in DOMAIN batches : batches'[k].token = batches[k].token
  BY <1>1, AbandonFacts DEF ClientIInv, AbandonAll
<1>3. BatchesFollowTerminal'
  BY <1>1, <1>2 DEF RepliesInv, BatchesFollowTerminal
<1>4. BatchesMatch => BatchesMatch'
  BY <1>1, <1>2, AbandonMatches DEF ClientIInv, BatchesMatch, Matches
<1>5. ASSUME BatchesMatch, AnswersMatch
      PROVE  AnswersMatch'
  <2>1. CASE slots # {}
    <3> DEFINE k == CHOOSE k \in slots : TRUE
    <3>1. k \in Live /\ batches[k].token = t
      BY <2>1 DEF TimedOut
    <3>2. answers' = Answer(t, batches[k].reply_bytes)
      BY <1>1, <2>1
    <3> HIDE DEF k
    <3>3. batches[k].reply_bytes \in Bytes /\ Matches(batches[k].reply_bytes, t)
      BY <1>5, <3>1, BatchTypes DEF Live, BatchSet, BatchesMatch, ClientIInv
    <3> QED
      BY <1>5, <3>2, <3>3, AnswerMatches DEF ClientIInv
  <2>2. CASE slots = {} /\ clipboard = t
    <3>1. <<>> \in Bytes /\ Matches(<<>>, t)
      BY DEF Bytes, Matches
    <3>2. answers' = Answer(t, <<>>)
      BY <1>1, <2>2
    <3> QED
      BY <1>5, <3>1, <3>2, AnswerMatches DEF ClientIInv
  <2>3. CASE slots = {} /\ clipboard # t
    BY <1>1, <1>5, <2>3 DEF AnswersMatch
  <2> QED
    BY <2>1, <2>2, <2>3
<1> QED
  BY <1>1, <1>3, <1>4, <1>5 DEF RepliesInv

LEMMA NextReplies == ClientIInv /\ RepliesInv /\ [ClientNext]_forwardVars => RepliesInv'
<1> SUFFICES ASSUME ClientIInv, RepliesInv, [ClientNext]_forwardVars
             PROVE  RepliesInv'
  OBVIOUS
<1>1. CASE UNCHANGED forwardVars
  BY <1>1 DEF forwardVars, RepliesInv, BatchesFollowTerminal, BatchesMatch, AnswersMatch
<1> QED
  BY <1>1, ForwardReplies, OwnReplies, ReplyReplies, BarrierReplies, ClipboardReplies,
     EmptyReplies, ExpireReplies, TimeoutReplies DEF ClientNext

LEMMA InitReplies == ClientInit => RepliesInv
<1> SUFFICES ASSUME ClientInit
             PROVE  RepliesInv
  OBVIOUS
<1>1. BatchesFollowTerminal /\ BatchesMatch
  BY DEF ClientInit, BatchesFollowTerminal, BatchesMatch
<1>2. AnswersMatch
  BY DEF ClientInit, AnswersMatch
<1> QED
  BY <1>1, <1>2 DEF RepliesInv

\* What was delivered for a token are the elements of its answers.
LEMMA MatchingIsOwn == ClientTypeOK /\ RepliesInv => RepliesMatchQueries
<1> SUFFICES ASSUME ClientTypeOK, RepliesInv, terminal # "late", NEW t \in Forwards,
                    NEW a \in Delivered(t), a.kind = "reply"
             PROVE  a.token = t
  BY DEF RepliesMatchQueries, NoForeignReply, RepliesInv
<1>1. PICK n \in DOMAIN answers[t] : a \in Range(answers[t][n])
  BY DEF Delivered
<1>2. PICK m \in DOMAIN answers[t][n] : a = answers[t][n][m]
  BY <1>1 DEF Range
<1>3. Matches(answers[t][n], t)
  BY DEF RepliesInv, AnswersMatch
<1> QED
  BY <1>2, <1>3 DEF Matches

\* The parser's batches stay the terminal's, in the same order, and the reply to a
\* token holds no answer to another's query, however many slots were abandoned.
THEOREM RepliesStayWithQueries == ClientSpec => []RepliesMatchQueries
<1>1. ClientIInv /\ RepliesInv => RepliesMatchQueries
  BY MatchingIsOwn DEF ClientIInv
<1>2. ClientSpec => []RepliesInv
  BY InitReplies, NextReplies, SpecClientIInv, PTL DEF ClientSpec
<1> QED
  BY <1>1, <1>2, SpecClientIInv, PTL
=============================================================================
