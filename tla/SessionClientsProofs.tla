------------------------ MODULE SessionClientsProofs ------------------------
(***************************************************************************)
(* For any connections and any number of events, as long as ids are not    *)
(* used again (MaxConns < LastId: fewer connections than ClientId has      *)
(* values): nothing of a client outlives it (NothingLeftBehind), and       *)
(* nobody is dropped in silence (KeptOrTold).                              *)
(*                                                                         *)
(* The argument: a connection's router is there, or the removal it asked   *)
(* for is (Cared), until the main loop takes that removal; and the step    *)
(* that takes it removes the client from the session state and either      *)
(* tells Screen and the plugins in the same step, or removes a watcher.    *)
(* So what a thread still has, or is still to be told, of a client is      *)
(* followed by its removal. For Screen this takes more than its clients:   *)
(* a layout may give a tab to whomever a message on its way mentions, and  *)
(* whoever was removed before is told from one that is new by the highest  *)
(* id seen (PlacedInv).                                                    *)
(*                                                                         *)
(* The steps are described first by what they do to the routers and the    *)
(* main loop's inbox (Effect); the rest follows from that and from what    *)
(* they do to the session state and to the threads' queues.                *)
(***************************************************************************)
EXTENDS SessionClients, ClientSender, TLAPS, SequenceTheorems, WellFoundedInduction

\* A set of naturals that is not empty has a least element.
LEMMA LeastNatural ==
  ASSUME NEW S, S \subseteq Nat, S # {}
  PROVE  \E m \in S : \A k \in S : m <= k
<1>1. PICK m \in S : \A k \in S : ~(<<k, m>> \in OpToRel(<, Nat))
  BY NatLessThanWellFounded, WFMin
<1>2. \A k \in S : ~(k < m)
  BY <1>1 DEF OpToRel
<1> QED
  BY <1>2

-----------------------------------------------------------------------------
(* Queues and functions *)

Slides(q, p, k) ==
  /\ Len(q) <= Len(p) + k
  /\ \A n \in 1 .. Len(q) : n > k => p[n - k] = q[n]

Behind(q, n, i) == \E l \in 1 .. Len(q) : l > n /\ q[l].op = "remove" /\ q[l].id = i

\* An appended queue is the same queue and one more message.
LEMMA AppendSlides ==
  ASSUME NEW M, NEW q \in Seq(M), NEW m \in M
  PROVE  /\ Append(q, m) \in Seq(M)
         /\ Len(Append(q, m)) = Len(q) + 1
         /\ Append(q, m)[Len(q) + 1] = m
         /\ Slides(q, Append(q, m), 0)
  BY DEF Slides

\* Taking the first message moves all others up.
LEMMA TailSlides ==
  ASSUME NEW M, NEW q \in Seq(M), q # <<>>
  PROVE  /\ Tail(q) \in Seq(M)
         /\ Len(Tail(q)) = Len(q) - 1
         /\ Slides(q, Tail(q), 1)
         /\ Head(q) = q[1] /\ Len(q) \in Nat \ {0}
  BY DEF Slides

\* Two changes of a queue in one step.
LEMMA SlidesTwice ==
  ASSUME NEW M, NEW q \in Seq(M), NEW r \in Seq(M), NEW p \in Seq(M), NEW k \in {0, 1},
         Slides(q, r, k), Slides(r, p, 0)
  PROVE  Slides(q, p, k)
<1> DEFINE a == Len(q)
           b == Len(r)
           d == Len(p)
<1>1. a \in Nat /\ b \in Nat /\ d \in Nat
  OBVIOUS
<1>2. a <= b + k /\ b <= d
  BY DEF Slides
<1> SUFFICES ASSUME NEW n \in 1 .. a, n > k PROVE p[n - k] = q[n]
  BY <1>1, <1>2 DEF Slides
<1>3. r[n - k] = q[n]
  BY DEF Slides
<1>4. n - k \in 1 .. b
  BY <1>1, <1>2
<1>5. p[n - k - 0] = r[n - k]
  BY <1>4 DEF Slides
<1> QED
  BY <1>3, <1>5, <1>4

\* A message that is not taken is still there.
LEMMA AmongSlides ==
  ASSUME NEW M, NEW q \in Seq(M), NEW p \in Seq(M), NEW k \in {0, 1}, Slides(q, p, k),
         NEW op, NEW i, Among(op, i, q), k = 0 \/ q[1].op # op \/ q[1].id # i
  PROVE  Among(op, i, p)
<1>1. PICK n \in 1 .. Len(q) : q[n].op = op /\ q[n].id = i
  BY DEF Among
<1>2. n > k
  BY <1>1
<1>3. p[n - k] = q[n] /\ n - k \in 1 .. Len(p)
  BY <1>2 DEF Slides
<1> QED
  BY <1>1, <1>3 DEF Among

\* What is behind a message that is not taken stays so.
LEMMA BehindSlides ==
  ASSUME NEW M, NEW q \in Seq(M), NEW p \in Seq(M), NEW k \in {0, 1}, Slides(q, p, k),
         NEW n \in 1 .. Len(q), NEW i, Behind(q, n, i)
  PROVE  /\ Behind(p, n - k, i)
         /\ Among("remove", i, p)
<1>1. PICK l \in 1 .. Len(q) : l > n /\ q[l].op = "remove" /\ q[l].id = i
  BY DEF Behind
<1>2. l > k
  BY <1>1
<1>3. p[l - k] = q[l] /\ l - k \in 1 .. Len(p)
  BY <1>2 DEF Slides
<1>4. l - k > n - k
  BY <1>1
<1> QED
  BY <1>1, <1>3, <1>4 DEF Among, Behind

\* What is appended is there, and behind all others.
LEMMA AmongNew ==
  ASSUME NEW M, NEW q \in Seq(M), NEW m \in M
  PROVE  /\ Among(m.op, m.id, Append(q, m))
         /\ m.op = "remove" => \A n \in 1 .. Len(q) : Behind(Append(q, m), n, m.id)
<1>1. Len(q) + 1 \in 1 .. Len(Append(q, m)) /\ Append(q, m)[Len(q) + 1] = m
  BY AppendSlides
<1>2. \A n \in 1 .. Len(q) : Len(q) + 1 > n
  OBVIOUS
<1> QED
  BY <1>1, <1>2 DEF Among, Behind

\* What is in a queue was there, or has been appended.
LEMMA AmongAppended ==
  ASSUME NEW M, NEW q \in Seq(M), NEW m \in M, NEW op, NEW i, Among(op, i, Append(q, m))
  PROVE  Among(op, i, q) \/ (m.op = op /\ m.id = i)
BY DEF Among

\* What is left was there.
LEMMA AmongTail ==
  ASSUME NEW M, NEW q \in Seq(M), q # <<>>, NEW op, NEW i, Among(op, i, Tail(q))
  PROVE  Among(op, i, q)
<1>1. PICK n \in 1 .. Len(Tail(q)) : Tail(q)[n].op = op /\ Tail(q)[n].id = i
  BY DEF Among
<1>2. n + 1 \in 1 .. Len(q) /\ q[n + 1] = Tail(q)[n]
  OBVIOUS
<1> QED
  BY <1>1, <1>2 DEF Among

\* With adds a key, and keeps what the others have.
LEMMA WithDomain ==
  ASSUME NEW f, NEW k, NEW v
  PROVE  /\ DOMAIN With(f, k, v) = DOMAIN f \cup {k}
         /\ With(f, k, v)[k] = v
         /\ \A x \in DOMAIN f : x # k => With(f, k, v)[x] = f[x]
  BY DEF With

\* Without removes keys.
LEMMA WithoutDomain ==
  ASSUME NEW f, NEW S
  PROVE  /\ DOMAIN Without(f, S) = DOMAIN f \ S
         /\ \A x \in DOMAIN f \ S : Without(f, S)[x] = f[x]
  BY DEF Without, Restrict

-----------------------------------------------------------------------------
(* Connections, routers and the main loop's inbox *)

\* As ids are not used again, a connection's id is its number.
Here(i) == i \in Conns /\ router[i] \in Live
Watches(i) == i \in Conns /\ kind[i] = "watch"
Cared(i) == Here(i) \/ Among("remove", i, inbox)

Ops == Kinds \cup {"forbid", "remove", "exit", "detach", "others", "kill", "lastpane", "pipe",
                   "unshare", "newtab", "layout", "add", "unwatch"}

Types ==
  /\ inbox \in Seq(Message(Ops))
  /\ screenQ \in Seq(Message(Ops))
  /\ pluginQ \in Seq(Message(Ops))
  /\ ptyQ \in Seq(Message({"layout"}))
  /\ told \in [Conns -> BOOLEAN]
  /\ server \in {"starting", "up", "ended", "crashed"}
  /\ lastActive \in Nat
  /\ highest \in Nat
  /\ active \subseteq Nat
  /\ plugged \subseteq Nat

IdsInv ==
  /\ kind \in [Conns -> Kinds \cup {"none"}]
  /\ router \in [Conns -> Live \cup {"none", "ended"}]
  /\ id = [c \in Conns |-> IF router[c] = "none" THEN None ELSE c]
  /\ nextId \in Nat \ {0}
  /\ \A c \in Conns : /\ router[c] # "none" <=> c < nextId
                      /\ router[c] = "none" <=> kind[c] = "none"
                      /\ router[c] = "opening" => kind[c] # "cli"

\* What a message of a connection says of it, as long as it is to be believed.
Words == {"first", "attach", "watch", "pipe"}
Speaks(op) == IF op = "pipe" THEN "cli" ELSE op
MessagesInv ==
  Running =>
    \A n \in 1 .. Len(inbox) :
      inbox[n].op \in Words =>
        LET i == inbox[n].id IN
          i \in Conns /\ kind[i] = Speaks(inbox[n].op) /\ (Here(i) \/ Behind(inbox, n, i))

RouterInv == Types /\ IdsInv /\ MessagesInv

\* What a step does to the inbox: it may take the first message (k = 1), and
\* what it adds is said by a connection that is there.
InboxStep(k) ==
  /\ inbox' \in Seq(Message(Ops))
  /\ Slides(inbox, inbox', k)
  /\ \A n \in 1 .. Len(inbox') :
       n + k > Len(inbox) /\ inbox'[n].op \in Words =>
         LET i == inbox'[n].id IN
           i \in Conns /\ kind[i] = Speaks(inbox'[n].op) /\ router'[i] \in Live

RouterStep ==
  /\ IdsInv'
  /\ \A c \in Conns : router[c] # "none" => kind'[c] = kind[c] /\ router'[c] # "none"
  /\ \A c \in Conns :
       \/ router[c] \in Live => router'[c] \in Live
       \/ /\ Len(inbox') > Len(inbox)
          /\ inbox'[Len(inbox')] = Msg("remove", c)

Said(m) ==
  m.op \in Words => m.id \in Conns /\ kind[m.id] = Speaks(m.op) /\ router'[m.id] \in Live

\* A step that leaves the inbox alone.
LEMMA InboxKept ==
  ASSUME Types, inbox' = inbox
  PROVE  InboxStep(0)
BY DEF InboxStep, Types, Slides

\* A step that appends a message to the inbox.
LEMMA InboxAdded ==
  ASSUME Types, NEW m \in Message(Ops), Said(m), inbox' = Append(inbox, m)
  PROVE  InboxStep(0) /\ Len(inbox') > Len(inbox) /\ inbox'[Len(inbox')] = m
<1>1. /\ inbox' \in Seq(Message(Ops)) /\ Len(inbox') = Len(inbox) + 1
      /\ inbox'[Len(inbox) + 1] = m /\ Slides(inbox, inbox', 0) /\ Len(inbox) \in Nat
  BY AppendSlides DEF Types
<1>2. \A n \in 1 .. Len(inbox') : n + 0 > Len(inbox) => n = Len(inbox) + 1
  BY <1>1
<1>3. \A n \in 1 .. Len(inbox') : n + 0 > Len(inbox) => inbox'[n] = m
  BY <1>1, <1>2
<1> QED
  BY <1>1, <1>3 DEF InboxStep, Said

\* A step that takes the first message.
LEMMA InboxTaken ==
  ASSUME Types, inbox # <<>>, inbox' = Tail(inbox)
  PROVE  InboxStep(1)
<1>1. /\ inbox' \in Seq(Message(Ops)) /\ Len(inbox') = Len(inbox) - 1
      /\ Slides(inbox, inbox', 1) /\ Len(inbox) \in Nat
  BY TailSlides DEF Types
<1>2. \A n \in 1 .. Len(inbox') : ~(n + 1 > Len(inbox))
  BY <1>1
<1> QED
  BY <1>1, <1>2 DEF InboxStep

\* A step that appends a second message, that says nothing of a connection.
LEMMA InboxTwice ==
  ASSUME Types, NEW q \in Seq(Message(Ops)), NEW k \in {0, 1}, Slides(inbox, q, k),
         Len(q) = (Len(inbox) - k) \/ (Len(q) = Len(inbox) - k + 1 /\ q[Len(q)].op \notin Words),
         NEW m \in Message(Ops), m.op \notin Words, inbox' = Append(q, m)
  PROVE  InboxStep(k) /\ (k = 0 => Len(inbox') > Len(inbox)) /\ inbox'[Len(inbox')] = m
<1>1. /\ inbox' \in Seq(Message(Ops)) /\ Len(inbox') = Len(q) + 1
      /\ inbox'[Len(q) + 1] = m /\ Slides(q, inbox', 0) /\ Len(q) \in Nat /\ Len(inbox) \in Nat
  BY AppendSlides DEF Types
<1>2. Slides(inbox, inbox', k)
  BY <1>1, SlidesTwice DEF Types
<1>3. \A n \in 1 .. Len(inbox') : n + k > Len(inbox) => n = Len(q) + 1 \/ n = Len(q)
  BY <1>1
<1>4. \A n \in 1 .. Len(q) : inbox'[n] = q[n]
  BY <1>1 DEF Slides
<1>5. \A n \in 1 .. Len(inbox') : n + k > Len(inbox) /\ n = Len(q) => inbox'[n].op \notin Words
  BY <1>1, <1>4
<1> QED
  BY <1>1, <1>2, <1>3, <1>5 DEF InboxStep

\* A step that leaves connections and routers alone.
LEMMA RouterKept ==
  ASSUME IdsInv, UNCHANGED <<kind, id, router, nextId>>
  PROVE  RouterStep
BY DEF RouterStep, IdsInv

\* A connection's router ends with its removal in the main loop's inbox.
LEMMA RouterOver ==
  ASSUME IdsInv, NEW c \in Conns, router[c] = "running",
         router' = [router EXCEPT ![c] = "ended"],
         UNCHANGED <<kind, id, nextId>>,
         Len(inbox') > Len(inbox), inbox'[Len(inbox')] = Msg("remove", id[c])
  PROVE  RouterStep
BY DEF RouterStep, IdsInv, Live, None

\* A router that goes on.
LEMMA RouterGoesOn ==
  ASSUME IdsInv, NEW c \in Conns, router[c] \in Live,
         NEW s \in Live, s = "opening" => kind[c] # "cli", router' = [router EXCEPT ![c] = s],
         UNCHANGED <<kind, id, nextId>>
  PROVE  RouterStep
BY DEF RouterStep, IdsInv, Live, None

\* Messages are of their type.
LEMMA MessageIn ==
  ASSUME NEW op \in Ops, NEW i \in Nat
  PROVE  /\ Msg(op, i) \in Message(Ops)
         /\ Msg(op, i).op = op /\ Msg(op, i).id = i
         /\ op \notin Words => Said(Msg(op, i))
BY DEF Msg, Message, Said

\* A connection's id is its number.
LEMMA IdIsNumber ==
  ASSUME IdsInv, NEW c \in Conns
  PROVE  /\ id[c] \in Nat
         /\ router[c] # "none" => id[c] = c
         /\ c \in Nat \ {0}
BY DEF IdsInv, None, Conns

Effect ==
  /\ Running
  /\ RouterStep
  /\ \/ InboxStep(0)
     \/ InboxStep(1) /\ inbox # <<>> /\ (Head(inbox).op = "remove" => RemoveClient)

\* A connection gets an id that is its number, as no id is used again.
LEMMA AcceptEffect ==
  ASSUME MaxConns < LastId, RouterInv, NEW c \in Conns, Accept(c)
  PROVE  Effect /\ InboxStep(0) /\ NewId = c /\ id'[c] = c
<1> USE ClientsAssumption DEF RouterInv
<1>1. c = nextId
  <2>1. c >= nextId
    BY DEF Accept, IdsInv, Conns
  <2>2. CASE c = 1
    BY <2>1, <2>2 DEF IdsInv
  <2>3. CASE c # 1
    <3>1. c - 1 \in 1 .. c - 1 /\ c - 1 \in Conns
      BY <2>3 DEF Conns
    <3>2. router[c - 1] # "none"
      BY <3>1 DEF Accept
    <3> QED
      BY <3>1, <3>2, <2>1 DEF IdsInv, Conns
  <2> QED
    BY <2>2, <2>3
<1>2. nextId + 1 <= LastId /\ nextId \in Nat
  BY <1>1 DEF Conns
<1>3. NewId = c
  BY <1>1, <1>2 DEF NewId
<1>4. nextId' = c + 1 /\ router[c] = "none"
  BY <1>1, <1>2 DEF Accept
<1>5. \A d \in Conns : (d < c + 1) <=> (d < c \/ d = c)
  BY DEF Conns
<1>6. RouterStep
  <2>1. PICK k \in Kinds : kind' = [kind EXCEPT ![c] = k]
    BY DEF Accept, Kinds
  <2>2. id' = [id EXCEPT ![c] = c] /\ router' = [router EXCEPT ![c] = "accepted"]
    BY <1>3 DEF Accept
  <2>3. c # None /\ "accepted" \in Live /\ k # "none"
    BY DEF None, Conns, Live, Kinds
  <2>4. IdsInv'
    <3>1. /\ kind' \in [Conns -> Kinds \cup {"none"}]
          /\ router' \in [Conns -> Live \cup {"none", "ended"}]
      BY <2>1, <2>2, <2>3 DEF IdsInv
    <3>2. id' = [d \in Conns |-> IF router'[d] = "none" THEN None ELSE d]
      BY <2>2, <2>3 DEF IdsInv
    <3>3. nextId' \in Nat \ {0}
      BY <1>4 DEF Conns
    <3>4. ASSUME NEW d \in Conns
          PROVE  /\ router'[d] # "none" <=> d < nextId'
                 /\ router'[d] = "none" <=> kind'[d] = "none"
                 /\ router'[d] = "opening" => kind'[d] # "cli"
      <4>1. CASE d = c
        BY <4>1, <2>1, <2>2, <2>3, <1>4, <1>5 DEF IdsInv
      <4>2. CASE d # c
        BY <4>2, <2>1, <2>2, <2>3, <1>4, <1>5, <1>1 DEF IdsInv
      <4> QED
        BY <4>1, <4>2
    <3> QED
      BY <3>1, <3>2, <3>3, <3>4 DEF IdsInv
  <2>5. \A d \in Conns : router[d] # "none" => kind'[d] = kind[d] /\ router'[d] # "none"
    BY <2>1, <2>2, <1>4 DEF IdsInv
  <2>6. \A d \in Conns : router[d] \in Live => router'[d] \in Live
    BY <2>2, <1>4 DEF IdsInv, Live
  <2> QED
    BY <2>4, <2>5, <2>6 DEF RouterStep
<1>7. inbox' = inbox /\ Running
  BY DEF Accept
<1>8. id'[c] = c
  BY <1>3 DEF Accept, IdsInv
<1> QED
  BY <1>3, <1>6, <1>7, <1>8, InboxKept DEF Effect

\* What the routers' own steps do.
LEMMA RouterEffect ==
  ASSUME RouterInv, NEW c \in Conns,
         Register(c) \/ Open(c) \/ RouterEnds(c) \/ WatcherQuits(c) \/ Detach(c) \/ DetachOthers(c)
  PROVE  Effect /\ InboxStep(0)
<1> USE DEF RouterInv
<1>0. Types /\ IdsInv /\ id[c] \in Nat
  BY IdIsNumber
<1>1. CASE Register(c)
  <2>1. inbox' = inbox /\ Running
    BY <1>1 DEF Register
  <2> DEFINE s == IF kind[c] = "cli" THEN "running" ELSE "opening"
  <2>2. s \in Live /\ (s = "opening" => kind[c] # "cli") /\ router[c] \in Live
    BY <1>1 DEF Register, Live
  <2>3. router' = [router EXCEPT ![c] = s] /\ UNCHANGED <<kind, id, nextId>>
    BY <1>1 DEF Register
  <2>4. RouterStep
    <3> HIDE DEF s
    <3> QED BY <2>2, <2>3, <1>0, RouterGoesOn
  <2> QED
    BY <1>0, <2>1, <2>4, InboxKept DEF Effect
<1>2. CASE Open(c)
  <2>1. router' = [router EXCEPT ![c] = "running"] /\ UNCHANGED <<kind, id, nextId>> /\ Running
        /\ router[c] = "opening"
    BY <1>2 DEF Open
  <2>2. RouterStep
    <3>1. router[c] \in Live /\ "running" \in Live /\ "running" # "opening"
      BY <2>1 DEF Live
    <3> QED
      BY <2>1, <3>1, <1>0, RouterGoesOn
  <2>3. PICK op \in {"forbid", kind[c]} : inbox' = Append(inbox, Msg(op, id[c]))
    BY <1>2 DEF Open
  <2>4. kind[c] \in {"first", "attach", "watch"} /\ id[c] = c /\ router'[c] = "running"
    BY <2>1, <1>0 DEF IdsInv, Kinds
  <2>5. op \in Ops
    BY <2>4 DEF Ops, Kinds
  <2>6. Msg(op, id[c]) \in Message(Ops) /\ Said(Msg(op, id[c]))
    <3>1. Msg(op, id[c]) \in Message(Ops) /\ Msg(op, id[c]).op = op /\ Msg(op, id[c]).id = id[c]
      BY <2>5, <1>0, MessageIn
    <3>2. op \in Words => op = kind[c] /\ Speaks(op) = op
      BY <2>4 DEF Words, Speaks
    <3> QED
      BY <3>1, <3>2, <2>4 DEF Said, Live
  <2> QED
    BY <1>0, <2>1, <2>2, <2>3, <2>6, InboxAdded DEF Effect
<1>3. CASE \/ RouterEnds(c) \/ WatcherQuits(c) \/ Detach(c) \/ DetachOthers(c)
  <2>1. /\ router' = [router EXCEPT ![c] = "ended"] /\ UNCHANGED <<kind, id, nextId>>
        /\ Running /\ router[c] = "running"
    BY <1>3 DEF RouterEnds, WatcherQuits, Detach, DetachOthers, Request, EndRouter
  <2>2. Msg("remove", id[c]) \in Message(Ops) /\ "remove" \notin Words
        /\ Msg("remove", id[c]).op = "remove" /\ Said(Msg("remove", id[c]))
    <3>1. "remove" \notin Words
      BY DEF Words
    <3> QED
      BY <1>0, <3>1 DEF Msg, Message, Said, Ops
  <2>3. /\ InboxStep(0) /\ Len(inbox') > Len(inbox)
        /\ inbox'[Len(inbox')] = Msg("remove", id[c])
    <3>1. CASE RouterEnds(c) \/ WatcherQuits(c)
      <4>1. inbox' = Append(inbox, Msg("remove", id[c]))
        BY <3>1 DEF RouterEnds, WatcherQuits, EndRouter
      <4> QED
        BY <1>0, <2>2, <4>1, InboxAdded
    <3>2. CASE Detach(c) \/ DetachOthers(c)
      <4>1. Target(c) \in Nat
        BY <1>0 DEF Target, Types
      <4>2. PICK m \in Message(Ops) : /\ m.op \notin Words
                  /\ inbox' = Append(Append(inbox, m), Msg("remove", id[c]))
        <5>1. "detach" \notin Words /\ "others" \notin Words
          BY DEF Words
        <5>2. Msg("detach", Target(c)) \in Message(Ops) /\ Msg("detach", Target(c)).op \notin Words
          BY <4>1, <5>1 DEF Msg, Message, Ops
        <5>3. Msg("others", id[c]) \in Message(Ops) /\ Msg("others", id[c]).op \notin Words
          BY <1>0, <5>1 DEF Msg, Message, Ops
        <5> QED
          BY <3>2, <5>2, <5>3 DEF Detach, DetachOthers, EndRouter
      <4>3. /\ Append(inbox, m) \in Seq(Message(Ops)) /\ Slides(inbox, Append(inbox, m), 0)
            /\ Len(Append(inbox, m)) = Len(inbox) + 1 /\ Append(inbox, m)[Len(inbox) + 1] = m
            /\ Len(inbox) \in Nat
        BY <1>0, AppendSlides DEF Types
      <4>4. Append(inbox, m)[Len(Append(inbox, m))].op \notin Words
        BY <4>2, <4>3
      <4>5. Len(Append(inbox, m)) = Len(inbox) - 0 + 1
        BY <4>3
      <4> HIDE <4>3
      <4> QED
        BY <1>0, <2>2, <4>2, <4>3, <4>4, <4>5, InboxTwice
    <3> QED
      BY <1>3, <3>1, <3>2
  <2>4. RouterStep
    BY <1>0, <2>1, <2>3, RouterOver
  <2> QED
    BY <2>1, <2>3, <2>4 DEF Effect
<1> QED
  BY <1>1, <1>2, <1>3

\* What the steps of clients do whose router goes on.
LEMMA ClientEffect ==
  ASSUME RouterInv, NEW c \in Conns,
         Leave(c) \/ Key(c) \/ Resize(c) \/ NewTab(c) \/ KillSession(c) \/ AssociatePipe(c)
  PROVE  Effect /\ InboxStep(0)
<1> USE DEF RouterInv
<1>0. Types /\ IdsInv /\ id[c] \in Nat
  BY IdIsNumber
<1>1. RouterStep /\ Running
  <2>1. UNCHANGED <<kind, id, router, nextId>> /\ Running
    BY DEF Leave, Key, Resize, NewTab, KillSession, AssociatePipe, Request, connVars
  <2> QED
    BY <1>0, <2>1, RouterKept
<1>2. CASE Leave(c) \/ Key(c) \/ Resize(c) \/ NewTab(c)
  <2>1. inbox' = inbox
    BY <1>2 DEF Leave, Key, Resize, NewTab
  <2> QED
    BY <1>0, <1>1, <2>1, InboxKept DEF Effect
<1>3. CASE KillSession(c)
  <2>1. inbox' = Append(inbox, Msg("kill", id[c]))
    BY <1>3 DEF KillSession
  <2>2. Msg("kill", id[c]) \in Message(Ops) /\ Said(Msg("kill", id[c]))
    BY <1>0 DEF Msg, Message, Ops, Said, Words
  <2> QED
    BY <1>0, <1>1, <2>1, <2>2, InboxAdded DEF Effect
<1>4. CASE AssociatePipe(c)
  <2>1. inbox' = Append(inbox, Msg("pipe", id[c])) /\ kind[c] = "cli" /\ router[c] = "running"
        /\ router' = router
    BY <1>4 DEF AssociatePipe, Request, connVars
  <2>2. Msg("pipe", id[c]) \in Message(Ops)
    BY <1>0 DEF Msg, Message, Ops
  <2>3. id[c] = c /\ router'[c] \in Live
    BY <2>1, <1>0 DEF IdsInv, Live
  <2>4. Said(Msg("pipe", id[c]))
    BY <2>1, <2>3 DEF Said, Msg, Words, Speaks
  <2> QED
    BY <1>0, <1>1, <2>1, <2>2, <2>4, InboxAdded DEF Effect
<1> QED
  BY <1>2, <1>3, <1>4

\* What the main loop does.
LEMMA MainLoopEffect ==
  ASSUME RouterInv, MainLoop
  PROVE  Effect
<1> USE DEF RouterInv
<1>0. Types /\ IdsInv
  OBVIOUS
<1>1. UNCHANGED <<kind, id, router, nextId>> /\ Running /\ inbox # <<>>
  BY DEF MainLoop, FirstClientConnected, AttachClient, TurnAway, AttachWatcherClient,
    ClientExit, RemoveClient, DetachSession, DisconnectAllClientsExcept, EndSession, StopSharing,
    AssociatePipeWithClient, connVars, Take
<1>2. RouterStep
  BY <1>0, <1>1, RouterKept
<1>3. Head(inbox).op = "remove" => RemoveClient
  BY DEF MainLoop, FirstClientConnected, AttachClient, TurnAway, AttachWatcherClient,
    ClientExit, RemoveClient, DetachSession, DisconnectAllClientsExcept, EndSession, StopSharing,
    AssociatePipeWithClient, Take
<1>4. InboxStep(1)
  <2>1. CASE inbox' = Tail(inbox)
    BY <1>0, <1>1, <2>1, InboxTaken
  <2>2. CASE AttachClient /\ inbox' # Tail(inbox)
    <3>1. inbox' = Append(Tail(inbox), Msg("others", ClientOfHead))
      BY <2>2 DEF AttachClient
    <3>2. /\ Tail(inbox) \in Seq(Message(Ops)) /\ Slides(inbox, Tail(inbox), 1)
          /\ Len(Tail(inbox)) = Len(inbox) - 1 /\ Head(inbox) \in Message(Ops)
      BY <1>0, <1>1, TailSlides DEF Types
    <3>3. /\ Msg("others", ClientOfHead) \in Message(Ops)
          /\ Msg("others", ClientOfHead).op \notin Words
      BY <3>2 DEF Msg, Message, Words, Ops, ClientOfHead
    <3> QED
      BY <1>0, <3>1, <3>2, <3>3, InboxTwice
  <2>3. inbox' = Tail(inbox) \/ AttachClient
    BY DEF MainLoop, FirstClientConnected, AttachClient, TurnAway, AttachWatcherClient,
      ClientExit, RemoveClient, DetachSession, DisconnectAllClientsExcept, EndSession,
      StopSharing, AssociatePipeWithClient
  <2> QED
    BY <2>1, <2>2, <2>3
<1> QED
  BY <1>1, <1>2, <1>3, <1>4 DEF Effect

OtherSteps ==
  \/ \E i \in DOMAIN senders : GiveUp(i)
  \/ \E i \in active, op \in {"exit", "detach", "kill", "lastpane"} : ScreenAsks(op, i)
  \/ PluginStopsSharing
  \/ ScreenStep \/ PluginStep \/ PtyStep

\* What the other steps do.
LEMMA ThreadEffect ==
  ASSUME RouterInv, OtherSteps
  PROVE  Effect /\ InboxStep(0)
<1> USE DEF RouterInv
<1>0. Types /\ IdsInv
  OBVIOUS
<1>1. UNCHANGED <<kind, id, router, nextId>> /\ Running
  BY DEF OtherSteps, GiveUp, ScreenAsks, PluginStopsSharing, ScreenStep, PluginStep, PtyStep,
    connVars, Running
<1>2. RouterStep
  BY <1>0, <1>1, RouterKept
<1>3. InboxStep(0)
  <2>1. CASE inbox' = inbox
    BY <1>0, <2>1, InboxKept
  <2>2. CASE \E i \in active, op \in {"exit", "detach", "kill", "lastpane"} : ScreenAsks(op, i)
    <3>1. PICK i \in active, op \in {"exit", "detach", "kill", "lastpane"} : ScreenAsks(op, i)
      BY <2>2
    <3>2. PICK j \in Nat : inbox' = Append(inbox, Msg(op, j))
      BY <1>0, <3>1 DEF ScreenAsks, Types, None
    <3>3. Msg(op, j) \in Message(Ops) /\ Said(Msg(op, j))
      BY DEF Msg, Message, Ops, Said, Words
    <3> QED
      BY <1>0, <3>2, <3>3, InboxAdded
  <2>3. CASE PluginStopsSharing
    <3>1. inbox' = Append(inbox, Msg("unshare", None))
      BY <2>3 DEF PluginStopsSharing
    <3>2. Msg("unshare", None) \in Message(Ops) /\ Said(Msg("unshare", None))
      BY DEF Msg, Message, Ops, Said, Words, None
    <3> QED
      BY <1>0, <3>1, <3>2, InboxAdded
  <2> QED
    BY <2>1, <2>2, <2>3 DEF OtherSteps, GiveUp, ScreenStep, PluginStep, PtyStep
<1> QED
  BY <1>1, <1>2, <1>3 DEF Effect

\* All steps.
LEMMA EveryEffect ==
  ASSUME MaxConns < LastId, RouterInv, Next
  PROVE  Effect
<1>1. CASE \E c \in Conns : Router(c) \/ ClientActs(c)
  BY <1>1, AcceptEffect, RouterEffect, ClientEffect DEF Router, ClientActs
<1>2. CASE MainLoop
  BY <1>2, MainLoopEffect
<1>3. CASE OtherSteps
  BY <1>3, ThreadEffect
<1> QED
  BY <1>1, <1>2, <1>3 DEF Next, OtherSteps

\* What messages say of connections goes on being true.
LEMMA MessagesStep ==
  ASSUME RouterInv, Effect
  PROVE  MessagesInv'
<1>0. Types /\ IdsInv /\ MessagesInv /\ Running /\ IdsInv'
  BY DEF RouterInv, Effect, RouterStep
<1>1. PICK k \in {0, 1} : InboxStep(k)
  BY DEF Effect
<1>2. SUFFICES ASSUME NEW n \in 1 .. Len(inbox'), inbox'[n].op \in Words
               PROVE  /\ inbox'[n].id \in Conns
                      /\ kind'[inbox'[n].id] = Speaks(inbox'[n].op)
                      /\ router'[inbox'[n].id] \in Live \/ Behind(inbox', n, inbox'[n].id)
  BY DEF MessagesInv, Here
<1>3. PICK i : i = inbox'[n].id
  OBVIOUS
<1>4. PICK o : o = inbox'[n].op
  OBVIOUS
<1>5. \A d \in Conns : kind[d] = Speaks(o) => kind'[d] = Speaks(o)
  <2>1. Speaks(o) # "none"
    BY <1>2, <1>4 DEF Speaks, Words
  <2> QED
    BY <2>1, <1>0 DEF Effect, RouterStep, IdsInv
<1>6. CASE n + k > Len(inbox)
  <2>1. i \in Conns /\ kind[i] = Speaks(o) /\ router'[i] \in Live
    BY <1>1, <1>2, <1>3, <1>4, <1>6 DEF InboxStep
  <2> QED
    BY <2>1, <1>3, <1>4, <1>5 DEF Here
<1>7. CASE ~(n + k > Len(inbox))
  <2>1. n + k \in 1 .. Len(inbox) /\ n + k > k /\ n + k - k = n /\ n < Len(inbox') + 1
    BY <1>0, <1>7 DEF Types
  <2>2. inbox'[n] = inbox[n + k]
    BY <1>1, <2>1 DEF InboxStep, Slides
  <2>3. i \in Conns /\ kind[i] = Speaks(o) /\ (Here(i) \/ Behind(inbox, n + k, i))
    BY <1>0, <1>2, <1>3, <1>4, <2>1, <2>2 DEF MessagesInv
  <2>4. CASE Behind(inbox, n + k, i)
    <3>1. PICK l \in 1 .. Len(inbox) : l = n + k /\ l - k = n
      BY <2>1
    <3>2. Behind(inbox, l, i)
      BY <2>4, <3>1
    <3>3. Behind(inbox', l - k, i)
      BY <1>0, <1>1, <3>2, BehindSlides DEF InboxStep, Types
    <3> QED
      BY <3>1, <3>3, <2>3, <1>3, <1>4, <1>5
  <2>5. CASE Here(i)
    <3>1. CASE router'[i] \in Live
      BY <3>1, <2>3, <1>3, <1>4, <1>5 DEF Here
    <3>2. CASE router'[i] \notin Live
      <4>1. Len(inbox') > Len(inbox) /\ inbox'[Len(inbox')] = Msg("remove", i)
        BY <3>2, <2>5, <2>3 DEF Effect, RouterStep, Here
      <4>2. Len(inbox') \in 1 .. Len(inbox') /\ Len(inbox') > n
        <5>1. Len(inbox') \in Nat /\ Len(inbox) \in Nat /\ n <= Len(inbox)
          BY <1>1, <1>0, <2>1 DEF InboxStep, Types
        <5> QED
          BY <5>1, <4>1
      <4>3. Behind(inbox', n, i)
        BY <4>1, <4>2 DEF Behind, Msg
      <4> QED
        BY <4>3, <2>3, <1>3, <1>4, <1>5
    <3> QED
      BY <3>1, <3>2
  <2> QED
    BY <2>3, <2>4, <2>5
<1> QED
  BY <1>6, <1>7

\* Whoever is cared for stays so, until its removal is taken from the inbox.
LEMMA CaredStays ==
  ASSUME RouterInv, Effect, NEW i, Cared(i)
  PROVE  Cared(i)' \/ (RemoveClient /\ i = ClientOfHead)
<1>0. Types /\ IdsInv /\ IdsInv'
  BY DEF RouterInv, Effect, RouterStep
<1>1. PICK k \in {0, 1} :
        InboxStep(k) /\ (k = 1 => inbox # <<>> /\ (Head(inbox).op = "remove" => RemoveClient))
  BY DEF Effect
<1>2. CASE Here(i)
  <2>1. CASE router'[i] \in Live
    BY <1>2, <2>1 DEF Here, Cared
  <2>2. CASE router'[i] \notin Live
    <3>1. Len(inbox') > Len(inbox) /\ inbox'[Len(inbox')] = Msg("remove", i)
      BY <1>2, <2>2 DEF Here, Effect, RouterStep
    <3>2. Len(inbox') \in 1 .. Len(inbox')
      BY <3>1, <1>0, <1>1 DEF Types, InboxStep
    <3>3. Among("remove", i, inbox')
      BY <3>1, <3>2, <1>1 DEF Among, Msg, InboxStep
    <3> QED
      BY <3>3 DEF Cared
  <2> QED
    BY <2>1, <2>2
<1>3. CASE Among("remove", i, inbox)
  <2>1. CASE k = 0 \/ inbox[1].op # "remove" \/ inbox[1].id # i
    <3>1. Among("remove", i, inbox')
      BY <1>0, <1>1, <1>3, <2>1, AmongSlides DEF InboxStep, Types
    <3> QED
      BY <3>1 DEF Cared
  <2>2. CASE k = 1 /\ inbox[1].op = "remove" /\ inbox[1].id = i
    <3>1. Head(inbox) = inbox[1]
      BY <1>0, <1>1, <2>2, TailSlides DEF Types
    <3> QED
      BY <3>1, <2>2, <1>1 DEF ClientOfHead
  <2> QED
    BY <2>1, <2>2
<1> QED
  BY <1>2, <1>3 DEF Cared

-----------------------------------------------------------------------------
(* The session state *)

Known == DOMAIN clients \cup DOMAIN watchers \cup DOMAIN senders \cup pipes

StateInv ==
  Running =>
    /\ \A i \in Known : Cared(i)
    /\ \A i \in DOMAIN watchers : Watches(i)
    /\ \A i \in pipes : i \in Conns /\ kind[i] = "cli"
    /\ DOMAIN clients \cap DOMAIN watchers = {}
    /\ lastActive # None => Watches(lastActive) \/ Cared(lastActive)

\* A connection remains what its first message made of it.
LEMMA KindsStay ==
  ASSUME RouterInv, Effect, NEW i \in Conns, kind[i] # "none"
  PROVE  kind'[i] = kind[i]
BY DEF RouterInv, IdsInv, Effect, RouterStep

\* The client of a message taken by the main loop is cared for after the step.
LEMMA HeadSpeaks ==
  ASSUME RouterInv, Effect, inbox # <<>>, Head(inbox).op \in Words
  PROVE  /\ ClientOfHead \in Conns
         /\ kind[ClientOfHead] = Speaks(Head(inbox).op)
         /\ Cared(ClientOfHead)
<1>1. Head(inbox) = inbox[1] /\ 1 \in 1 .. Len(inbox)
  BY TailSlides DEF RouterInv, Types
<1>2. /\ ClientOfHead \in Conns /\ kind[ClientOfHead] = Speaks(Head(inbox).op)
      /\ Here(ClientOfHead) \/ Behind(inbox, 1, ClientOfHead)
  BY <1>1 DEF RouterInv, MessagesInv, Effect, ClientOfHead
<1>3. Behind(inbox, 1, ClientOfHead) => Among("remove", ClientOfHead, inbox)
  BY DEF Behind, Among, RouterInv, Types
<1> QED
  BY <1>2, <1>3 DEF Cared

Shrinks ==
  /\ DOMAIN clients' \subseteq DOMAIN clients
  /\ DOMAIN watchers' \subseteq DOMAIN watchers
  /\ DOMAIN senders' \subseteq DOMAIN senders
  /\ pipes' \subseteq pipes
  /\ lastActive' \in {lastActive, None}

\* A step that only removes from the session state.
LEMMA ShrunkState ==
  ASSUME RouterInv, Effect, StateInv, ~RemoveClient, Shrinks
  PROVE  StateInv'
<1>1. \A i : Cared(i) => Cared(i)'
  BY CaredStays
<1>2. \A i \in Conns : kind[i] # "none" => kind'[i] = kind[i]
  BY KindsStay
<1>3. \A i \in DOMAIN watchers : Watches(i)'
  BY <1>2 DEF StateInv, Effect, Watches
<1>4. \A i \in pipes : i \in Conns /\ kind'[i] = "cli"
  BY <1>2 DEF StateInv, Effect
<1>5. lastActive # None => Watches(lastActive) \/ Cared(lastActive)
  BY DEF StateInv, Effect
<1>6. lastActive' # None => lastActive' = lastActive /\ (Watches(lastActive') \/ Cared(lastActive'))
  BY <1>5 DEF Shrinks
<1>7. \A i : Watches(i) => Watches(i)'
  BY <1>2 DEF Watches
<1>8. \A i \in Known' : Cared(i)'
  BY <1>1 DEF StateInv, Effect, Shrinks, Known
<1> QED
  BY <1>1, <1>3, <1>4, <1>6, <1>7, <1>8 DEF StateInv, Effect, Shrinks

\* A removal is one of a client, and leaves nothing of it, or of a watcher.
LEMMA RemovedState ==
  ASSUME RouterInv, Effect, StateInv, RemoveClient
  PROVE  /\ StateInv'
         /\ ClientOfHead \notin Known'
<1> DEFINE r == ClientOfHead
<1>1. \A i : Cared(i) /\ i # r => Cared(i)'
  BY CaredStays
<1>2. \A i : Watches(i) => Watches(i)'
  BY KindsStay DEF Watches
<1>3. UNCHANGED <<kind, id, server>> /\ Running
  BY DEF RemoveClient, connVars, Take
<1>4. /\ DOMAIN clients' = DOMAIN clients \ {r} /\ DOMAIN watchers' = DOMAIN watchers \ {r}
      /\ DOMAIN senders' = DOMAIN senders \ {r} /\ pipes' = pipes \ {r}
      /\ lastActive' = lastActive
         \/ lastActive' = None
      /\ lastActive' = r /\ r # None => Watches(r)
  <2>1. CASE r \in DOMAIN watchers
    <3>1. /\ watchers' = Without(watchers, {r}) /\ senders' = Without(senders, {r})
          /\ UNCHANGED <<clients, pipes, lastActive>>
      BY <2>1 DEF RemoveClient, ForgetWatcher
    <3>2. Watches(r) /\ r \notin pipes /\ r \notin DOMAIN clients
      BY <2>1, <1>3 DEF StateInv, Watches
    <3> QED
      BY <3>1, <3>2, WithoutDomain
  <2>2. CASE r \notin DOMAIN watchers
    <3>1. Forget({r}) /\ watchers' = watchers
      BY <2>2 DEF RemoveClient
    <3> QED
      BY <3>1, <2>2, WithoutDomain DEF Forget
  <2> QED
    BY <2>1, <2>2
<1>5. \A i \in Known' : Cared(i)'
  BY <1>1, <1>3, <1>4 DEF StateInv, Known
<1>6. lastActive' # None => (Watches(lastActive') \/ Cared(lastActive)) /\ lastActive' = lastActive
  BY <1>3, <1>4 DEF StateInv
<1>7. Watches(lastActive') => Watches(lastActive)'
  BY <1>3 DEF Watches
<1>8. lastActive' # None => Watches(lastActive)' \/ Cared(lastActive)'
  <2>1. CASE lastActive' = r
    BY <2>1, <1>4, <1>7
  <2>2. CASE lastActive' # r
    <3>1. PICK a : a = lastActive
      OBVIOUS
    <3>2. SUFFICES ASSUME lastActive' # None PROVE Watches(lastActive)' \/ Cared(lastActive)'
      OBVIOUS
    <3>3. a = lastActive' /\ (Watches(a) \/ Cared(a)) /\ a # r
      BY <1>6, <3>1, <3>2, <2>2
    <3>4. Watches(a)' \/ Cared(a)'
      BY <1>1, <1>2, <3>3
    <3>5. Watches(a)' => Watches(lastActive)'
      BY <3>3 DEF Watches
    <3>6. Cared(a)' => Cared(lastActive)'
      BY <3>3 DEF Cared, Here, Among
    <3> QED
      BY <3>4, <3>5, <3>6
  <2> QED
    BY <2>1, <2>2
<1>9. /\ \A i \in DOMAIN watchers' : Watches(i)'
      /\ \A i \in pipes' : i \in Conns /\ kind'[i] = "cli"
      /\ DOMAIN clients' \cap DOMAIN watchers' = {}
  BY <1>2, <1>3, <1>4 DEF StateInv
<1>10. StateInv'
  BY <1>5, <1>8, <1>9 DEF StateInv
<1> QED
  BY <1>4, <1>10 DEF Known

\* A step that adds a client, a sender, a watcher or a pipe that is cared for.
LEMMA GrownState ==
  ASSUME RouterInv, Effect, StateInv, ~RemoveClient, NEW i \in Conns, Cared(i)',
         \/ /\ UNCHANGED <<watchers, senders, pipes>>
            /\ DOMAIN clients' = DOMAIN clients \cup {i} /\ ~Watches(i)'
         \/ /\ UNCHANGED <<watchers, senders, pipes>>
            /\ DOMAIN clients' = DOMAIN clients \cup {i} /\ i \notin DOMAIN watchers
         \/ /\ UNCHANGED <<clients, watchers, pipes>>
            /\ DOMAIN senders' = DOMAIN senders \cup {i}
         \/ /\ UNCHANGED <<senders, pipes>>
            /\ DOMAIN clients' = DOMAIN clients \ {i}
            /\ DOMAIN watchers' = DOMAIN watchers \cup {i} /\ Watches(i)
         \/ /\ UNCHANGED <<clients, watchers, senders>>
            /\ pipes' = pipes \cup {i} /\ kind[i] = "cli"
         \/ UNCHANGED <<clients, watchers, senders, pipes>>,
         lastActive' = lastActive \/ lastActive' = i
  PROVE  StateInv'
<1>0. Running
  BY DEF Effect
<1>1. \A j : Cared(j) => Cared(j)'
  BY CaredStays
<1>2. \A j \in Conns : kind[j] # "none" => kind'[j] = kind[j]
  BY KindsStay
<1>3. \A j : Watches(j) => Watches(j)'
  BY <1>2 DEF Watches
<1>4. \A j \in DOMAIN watchers' : Watches(j)'
  BY <1>0, <1>3 DEF StateInv
<1>5. \A j \in pipes' : j \in Conns /\ kind'[j] = "cli"
  BY <1>0, <1>2 DEF StateInv
<1>6. DOMAIN clients' \cap DOMAIN watchers' = {}
  BY <1>0, <1>4 DEF StateInv
<1>7. \A j \in Known' : Cared(j)'
  BY <1>0, <1>1 DEF StateInv, Known
<1>8. lastActive' # None => Watches(lastActive)' \/ Cared(lastActive)'
  <2>1. CASE lastActive' = i
    <3>1. Cared(lastActive)'
      BY <2>1 DEF Cared, Here, Among
    <3> QED
      BY <3>1
  <2>2. CASE lastActive' = lastActive
    <3>1. lastActive # None => Watches(lastActive) \/ Cared(lastActive)
      BY <1>0 DEF StateInv
    <3>2. PICK j : j = lastActive
      OBVIOUS
    <3>3. j # None => Watches(j)' \/ Cared(j)'
      BY <1>1, <1>3, <3>1, <3>2
    <3>4. /\ Watches(j)' => Watches(lastActive)'
          /\ Cared(j)' => Cared(lastActive)'
      BY <3>2, <2>2 DEF Watches, Cared, Here, Among
    <3> QED
      BY <3>2, <3>3, <3>4, <2>2
  <2> QED
    BY <2>1, <2>2
<1> QED
  BY <1>4, <1>5, <1>6, <1>7, <1>8 DEF StateInv

Shrinking ==
  \/ TurnAway \/ ClientExit \/ DetachSession \/ DisconnectAllClientsExcept
  \/ EndSession \/ StopSharing
  \/ \E i \in DOMAIN senders : GiveUp(i)

Growing(c) == Accept(c) \/ Register(c) \/ Resize(c) \/ Key(c)
Joining == FirstClientConnected \/ AttachClient \/ AttachWatcherClient \/ AssociatePipeWithClient

Elsewhere ==
  \/ \E c \in Conns : \/ Open(c) \/ RouterEnds(c) \/ Leave(c) \/ NewTab(c) \/ Detach(c)
                      \/ DetachOthers(c) \/ KillSession(c) \/ AssociatePipe(c) \/ WatcherQuits(c)
  \/ \E i \in active, op \in {"exit", "detach", "kill", "lastpane"} : ScreenAsks(op, i)
  \/ PluginStopsSharing
  \/ ScreenStep \/ PluginStep \/ PtyStep

\* The steps by what they do to the session state.
LEMMA NextSplit ==
  ASSUME Next
  PROVE  Elsewhere \/ Shrinking \/ RemoveClient \/ (\E c \in Conns : Growing(c)) \/ Joining
BY DEF Next, Router, ClientActs, MainLoop, Elsewhere, Shrinking, Growing, Joining

\* Most steps leave the session state alone.
LEMMA ElsewhereKeeps ==
  ASSUME Elsewhere
  PROVE  UNCHANGED <<clients, watchers, senders, pipes, lastActive>>
BY DEF Elsewhere, Open, RouterEnds, Leave, NewTab, Detach, DetachOthers, KillSession, AssociatePipe,
   WatcherQuits, ScreenAsks, PluginStopsSharing, ScreenStep, PluginStep, PtyStep, stateVars

\* Forgetting removes.
LEMMA ForgetShrinks ==
  ASSUME NEW S, Forget(S), DOMAIN watchers' \subseteq DOMAIN watchers
  PROVE  Shrinks
<1>1. /\ DOMAIN clients' = DOMAIN clients \ S /\ DOMAIN senders' = DOMAIN senders \ S
      /\ pipes' = pipes \ S /\ lastActive' \in {lastActive, None}
  BY DEF Forget, Without, Restrict
<1> QED
  BY <1>1 DEF Shrinks

\* Those that end, forbid, detach or give up clients remove.
LEMMA ShrinkingShrinks ==
  ASSUME Shrinking
  PROVE  Shrinks
<1>1. CASE TurnAway
  BY <1>1, ForgetShrinks DEF TurnAway
<1>2. CASE ClientExit
  <2>1. CASE \E i : ForgetWatcher(i)
    BY <2>1 DEF ForgetWatcher, Shrinks, Without, Restrict
  <2>2. CASE \E S : Forget(S) /\ watchers' = watchers
    BY <2>2, ForgetShrinks
  <2> QED
    BY <1>2, <2>1, <2>2 DEF ClientExit
<1>3. CASE DetachSession
  BY <1>3, ForgetShrinks DEF DetachSession
<1>4. CASE DisconnectAllClientsExcept
  BY <1>4, ForgetShrinks DEF DisconnectAllClientsExcept
<1>5. CASE EndSession
  BY <1>5, ForgetShrinks DEF EndSession, EndFor
<1>6. CASE StopSharing
  <2>1. CASE sharing
    <3>1. PICK S, W : Forget(S) /\ watchers' = Without(watchers, W)
      BY <1>6, <2>1 DEF StopSharing
    <3>2. DOMAIN watchers' \subseteq DOMAIN watchers
      BY <3>1 DEF Without, Restrict
    <3> QED
      BY <3>1, <3>2, ForgetShrinks
  <2>2. CASE ~sharing
    BY <1>6, <2>2 DEF StopSharing, stateVars, Shrinks
  <2> QED
    BY <2>1, <2>2
<1>7. CASE \E i \in DOMAIN senders : GiveUp(i)
  BY <1>7, ForgetShrinks DEF GiveUp
<1> QED
  BY <1>1, <1>2, <1>3, <1>4, <1>5, <1>6, <1>7 DEF Shrinking

\* The steps of connections that add to the session state.
LEMMA GrowingState ==
  ASSUME MaxConns < LastId, RouterInv, Effect, StateInv, ~RemoveClient,
         NEW c \in Conns, Growing(c)
  PROVE  StateInv'
<1>0. IdsInv
  BY DEF RouterInv
<1>1. CASE Accept(c)
  <2>1. NewId = c /\ clients' = With(clients, c, "bare") /\ router'[c] = "accepted"
        /\ router[c] = "none"
        /\ UNCHANGED <<watchers, senders, pipes, lastActive>>
    BY <1>1, AcceptEffect DEF Accept, stateVars, IdsInv, RouterInv
  <2>2. Cared(c)'
    BY <2>1 DEF Cared, Here, Live
  <2>3. DOMAIN clients' = DOMAIN clients \cup {c}
    BY <2>1 DEF With
  <2>4. c \notin DOMAIN watchers
    BY <2>1, <1>0 DEF StateInv, Effect, Watches, IdsInv
  <2> QED
    BY <2>1, <2>2, <2>3, <2>4, GrownState
<1>2. CASE Register(c)
  <2>1. id[c] = c /\ senders' = With(senders, c, c) /\ router'[c] \in {"opening", "running"}
        /\ UNCHANGED <<clients, watchers, pipes, lastActive>>
    BY <1>2, <1>0 DEF Register, stateVars, IdsInv
  <2>2. Cared(c)'
    BY <2>1 DEF Cared, Here, Live
  <2>3. DOMAIN senders' = DOMAIN senders \cup {c}
    BY <2>1, WithDomain
  <2> QED
    BY <2>1, <2>2, <2>3, GrownState
<1>3. CASE Resize(c) \/ Key(c)
  <2>1. id[c] = c /\ router'[c] = "running" /\ c \notin DOMAIN watchers
    BY <1>3, <1>0 DEF Resize, Key, Request, IdsInv, connVars, IsWatcher
  <2>2. Cared(c)'
    BY <2>1 DEF Cared, Here, Live
  <2>3. CASE Resize(c)
    <3>1. clients' = With(clients, c, "bare") /\ UNCHANGED <<watchers, senders, pipes, lastActive>>
      BY <2>1, <2>3 DEF Resize
    <3>2. DOMAIN clients' = DOMAIN clients \cup {c}
      BY <3>1, WithDomain
    <3> QED
      BY <2>1, <2>2, <3>1, <3>2, GrownState
  <2>4. CASE Key(c)
    <3>1. lastActive' = c /\ UNCHANGED <<clients, watchers, senders, pipes>>
      BY <2>1, <2>4 DEF Key
    <3> QED
      BY <2>2, <3>1, GrownState
  <2> QED
    BY <1>3, <2>3, <2>4
<1> QED
  BY <1>1, <1>2, <1>3 DEF Growing

\* The steps of the main loop that do.
LEMMA JoiningState ==
  ASSUME RouterInv, Effect, StateInv, ~RemoveClient, Joining
  PROVE  StateInv'
<1> DEFINE h == ClientOfHead
<1>1. inbox # <<>> /\ Head(inbox).op \in Words
  BY DEF Joining, FirstClientConnected, AttachClient, AttachWatcherClient, AssociatePipeWithClient,
    Take, Words
<1>2. h \in Conns /\ kind[h] = Speaks(Head(inbox).op) /\ Cared(h)
  BY <1>1, HeadSpeaks
<1>3. PICK i : i = h
  OBVIOUS
<1>4. i \in Conns /\ kind[i] = Speaks(Head(inbox).op) /\ Cared(i)'
  BY <1>2, <1>3, CaredStays
<1>5. CASE FirstClientConnected \/ AttachClient
  <2>1. /\ DOMAIN clients' = DOMAIN clients \cup {i}
        /\ UNCHANGED <<watchers, senders, pipes, lastActive, kind>>
    BY <1>3, <1>5, WithDomain DEF FirstClientConnected, AttachClient, connVars
  <2>2. ~Watches(i)'
    BY <1>4, <1>5, <2>1 DEF Watches, Speaks, FirstClientConnected, AttachClient, Take
  <2> QED
    BY <1>4, <2>1, <2>2, GrownState
<1>6. CASE AttachWatcherClient
  <2>1. /\ DOMAIN clients' = DOMAIN clients \ {i} /\ DOMAIN watchers' = DOMAIN watchers \cup {i}
        /\ UNCHANGED <<senders, pipes, lastActive>>
    BY <1>3, <1>6 DEF AttachWatcherClient, With, Without, Restrict
  <2>2. Watches(i)
    BY <1>4, <1>6 DEF Watches, Speaks, AttachWatcherClient, Take
  <2> QED
    BY <1>4, <2>1, <2>2, GrownState
<1>7. CASE AssociatePipeWithClient
  <2>1. pipes' = pipes \cup {i} /\ UNCHANGED <<clients, watchers, senders, lastActive>>
    BY <1>3, <1>7 DEF AssociatePipeWithClient
  <2>2. kind[i] = "cli"
    BY <1>4, <1>7 DEF Speaks, AssociatePipeWithClient, Take
  <2> QED
    BY <1>4, <2>1, <2>2, GrownState
<1> QED
  BY <1>5, <1>6, <1>7 DEF Joining

\* Everybody the session knows of is cared for, whatever the step.
LEMMA StateStep ==
  ASSUME MaxConns < LastId, RouterInv, Effect, StateInv, Next
  PROVE  StateInv'
<1>1. CASE RemoveClient
  BY <1>1, RemovedState
<1>2. CASE ~RemoveClient /\ (Elsewhere \/ Shrinking)
  <2>1. Shrinks
    BY <1>2, ElsewhereKeeps, ShrinkingShrinks DEF Shrinks
  <2> QED
    BY <1>2, <2>1, ShrunkState
<1>3. CASE ~RemoveClient /\ \E c \in Conns : Growing(c)
  BY <1>3, GrowingState
<1>4. CASE ~RemoveClient /\ Joining
  BY <1>4, JoiningState
<1> QED
  BY <1>1, <1>2, <1>3, <1>4, NextSplit

-----------------------------------------------------------------------------
(* Who has been told *)

\* A connection that has a router and has not been told has its sender.
SendersInv ==
  Running =>
    /\ \A c \in Conns : router[c] \in {"opening", "running"} /\ ~told[c] => c \in DOMAIN senders
    /\ \A i \in DOMAIN senders : senders[i] = i

\* A client's first message is handled, and it has not been told to go.
Settled(c) ==
  /\ kind[c] # "cli" /\ router[c] = "running"
  /\ ~Among(kind[c], c, inbox) /\ ~Among("forbid", c, inbox)
  /\ ~told[c]

KeptInv ==
  server # "crashed" =>
    \A c \in Conns :
      Settled(c) => c \in DOMAIN watchers \cup (IF Running THEN DOMAIN clients ELSE {})

\* Who has a sender and is told has been told; and that stays so.
LEMMA TellTells ==
  ASSUME Types, NEW S, Tell(S), NEW c \in Conns
  PROVE  /\ told[c] => told'[c]
         /\ c \in S /\ c \in DOMAIN senders /\ senders[c] = c => told'[c]
<1>1. told'[c] = (told[c] \/ \E i \in S \cap DOMAIN senders : senders[i] = c)
  BY DEF Tell
<1> QED
  BY <1>1 DEF Types

\* A message for the main loop stays until it is taken.
LEMMA MessageStays ==
  ASSUME RouterInv, Effect, NEW op, NEW i, Among(op, i, inbox),
         InboxStep(0) \/ Head(inbox).op # op \/ Head(inbox).id # i
  PROVE  Among(op, i, inbox')
<1>0. Types
  BY DEF RouterInv
<1>1. PICK k \in {0, 1} :
        /\ InboxStep(k)
        /\ k = 0 \/ (inbox # <<>> /\ (Head(inbox).op # op \/ Head(inbox).id # i))
  BY DEF Effect
<1>2. k = 0 \/ Head(inbox) = inbox[1]
  BY <1>0, <1>1, TailSlides DEF Types
<1> QED
  BY <1>0, <1>1, <1>2, AmongSlides DEF InboxStep, Types

\* Clients, watchers and senders that a step removes are told in it.
Leaving(S) ==
  /\ Tell(S)
  /\ DOMAIN clients \ DOMAIN clients' \subseteq S
  /\ DOMAIN watchers \ DOMAIN watchers' \subseteq S
  /\ DOMAIN senders \ DOMAIN senders' \subseteq S
  /\ \A i \in DOMAIN senders' : i \in DOMAIN senders /\ senders'[i] = senders[i]
  /\ router' = router /\ kind' = kind
  /\ Running' \/ DOMAIN clients \subseteq S

\* Whoever such a step removes need not be known to the session: it has been told.
LEMMA LeavingKeeps ==
  ASSUME RouterInv, Effect, SendersInv, KeptInv, NEW S, Leaving(S),
         \/ InboxStep(0)
         \/ Head(inbox).op \notin {"first", "attach", "watch", "forbid"}
         \/ S = {ClientOfHead}
  PROVE  SendersInv' /\ KeptInv'
<1>0. Types /\ Running /\ server # "crashed"
  BY DEF RouterInv, Effect, Running
<1>1. /\ \A c \in Conns : router[c] \in {"opening", "running"} /\ ~told[c] => c \in DOMAIN senders
      /\ \A i \in DOMAIN senders : senders[i] = i
  BY <1>0 DEF SendersInv
<1>2. \A c \in Conns : ~told'[c] => ~told[c] /\ ~(c \in S /\ c \in DOMAIN senders)
  BY <1>0, <1>1, TellTells DEF Leaving
<1>3. \A c \in Conns :
        router[c] \in {"opening", "running"} /\ ~told'[c] => c \notin S /\ c \in DOMAIN senders'
  BY <1>1, <1>2 DEF Leaving
<1>4. SendersInv'
  BY <1>1, <1>3 DEF SendersInv, Leaving
<1>5. ASSUME NEW c \in Conns, Settled(c)'
      PROVE  c \in DOMAIN watchers' \cup (IF Running' THEN DOMAIN clients' ELSE {})
  <2>1. kind[c] # "cli" /\ router[c] = "running" /\ ~told'[c] /\ ~told[c] /\ c \notin S
    BY <1>2, <1>3, <1>5 DEF Settled, Leaving
  <2>2. ~Among(kind[c], c, inbox') /\ ~Among("forbid", c, inbox')
    BY <1>5 DEF Settled, Leaving
  <2>3. PICK o : o = kind[c]
    OBVIOUS
  <2>4. o \in {"first", "attach", "watch"}
    BY <2>1, <2>3 DEF RouterInv, IdsInv, Kinds
  <2>5. ASSUME NEW op \in {o, "forbid"} PROVE ~Among(op, c, inbox)
    <3>1. InboxStep(0) \/ Head(inbox).op # op \/ Head(inbox).id # c
      BY <2>1, <2>4 DEF ClientOfHead
    <3>2. ~Among(op, c, inbox')
      BY <2>2, <2>3
    <3> QED
      BY <3>1, <3>2, MessageStays
  <2>6. Settled(c)
    BY <2>1, <2>3, <2>5 DEF Settled
  <2>7. c \in DOMAIN watchers \cup DOMAIN clients
    BY <1>0, <2>6 DEF KeptInv
  <2> QED
    BY <2>1, <2>7 DEF Leaving
<1> QED
  BY <1>4, <1>5 DEF KeptInv

\* Forgetting those who are told.
LEMMA ForgetLeaves ==
  ASSUME NEW S, NEW R, NEW W, R \subseteq S, W \subseteq S, Tell(S), Forget(R),
         router' = router, kind' = kind,
         watchers' = watchers \/ watchers' = Without(watchers, W),
         Running' \/ DOMAIN clients \subseteq S
  PROVE  Leaving(S)
<1>1. /\ DOMAIN clients' = DOMAIN clients \ R /\ DOMAIN senders' = DOMAIN senders \ R
      /\ \A i \in DOMAIN senders' : senders'[i] = senders[i]
  BY DEF Forget, Without, Restrict
<1>2. DOMAIN watchers \ DOMAIN watchers' \subseteq S
  BY DEF Without, Restrict
<1> QED
  BY <1>1, <1>2 DEF Leaving

\* All steps that remove somebody tell it, or remove nothing.
LEMMA ShrinkingLeaves ==
  ASSUME RouterInv, Effect, Shrinking \/ RemoveClient, ~(StopSharing /\ ~sharing)
  PROVE  \E S : /\ Leaving(S)
                /\ \/ InboxStep(0)
                   \/ Head(inbox).op \notin {"first", "attach", "watch", "forbid"}
                   \/ S = {ClientOfHead}
<1>0. Running
  BY DEF Effect
<1>1. CASE TurnAway
  <2>1. Leaving({ClientOfHead})
    <3>1. /\ Tell({ClientOfHead}) /\ Forget({ClientOfHead}) /\ router' = router /\ kind' = kind
          /\ watchers' = watchers /\ server' = server
      BY <1>1 DEF TurnAway, connVars
    <3> QED
      BY <1>0, <3>1, ForgetLeaves DEF Running
  <2> QED
    BY <2>1
<1>2. CASE ClientExit \/ RemoveClient
  <2>1. Head(inbox).op \in {"exit", "remove"} /\ router' = router /\ kind' = kind
    BY <1>2 DEF ClientExit, RemoveClient, Take, connVars
  <2>2. CASE Tell({ClientOfHead}) /\ ForgetWatcher(ClientOfHead) /\ server' = server
    <3>1. Leaving({ClientOfHead})
      BY <1>0, <2>1, <2>2 DEF Leaving, ForgetWatcher, Without, Restrict, Running
    <3> QED
      BY <3>1, <2>1
  <2>3. CASE /\ Tell({ClientOfHead}) /\ Forget({ClientOfHead}) /\ watchers' = watchers
             /\ server' = server
    <3>1. Leaving({ClientOfHead})
      BY <1>0, <2>1, <2>3, ForgetLeaves DEF Running
    <3> QED
      BY <3>1, <2>1
  <2>4. CASE /\ Tell(DOMAIN clients \cup DOMAIN watchers \cup {ClientOfHead})
             /\ Forget(DOMAIN clients \cup {ClientOfHead}) /\ watchers' = watchers
    <3>1. Leaving(DOMAIN clients \cup DOMAIN watchers \cup {ClientOfHead})
      BY <2>1, <2>4, ForgetLeaves
    <3> QED
      BY <3>1, <2>1
  <2> QED
    BY <1>2, <2>2, <2>3, <2>4 DEF ClientExit, RemoveClient
<1>3. CASE DetachSession \/ DisconnectAllClientsExcept
  <2>1. PICK S : /\ Tell(S) /\ Forget(S) /\ watchers' = watchers /\ server' = server
                 /\ Head(inbox).op \in {"detach", "others"} /\ router' = router /\ kind' = kind
    BY <1>3 DEF DetachSession, DisconnectAllClientsExcept, connVars, Take
  <2>2. Leaving(S)
    BY <1>0, <2>1, ForgetLeaves DEF Running
  <2> QED
    BY <2>1, <2>2
<1>4. CASE EndSession
  <2>1. PICK S : /\ Tell(S) /\ Forget(S) /\ watchers' = watchers /\ DOMAIN clients \subseteq S
                 /\ Head(inbox).op \in {"kill", "lastpane"} /\ router' = router /\ kind' = kind
    BY <1>4 DEF EndSession, EndFor, ClientsAndWatchers, connVars, Take
  <2>2. Leaving(S)
    BY <1>0, <2>1, ForgetLeaves
  <2> QED
    BY <2>1, <2>2
<1>5. CASE StopSharing /\ sharing
  <2>1. PICK S, W : /\ Tell(S) /\ Forget(S) /\ W \subseteq S /\ watchers' = Without(watchers, W)
                    /\ server' = server
                    /\ Head(inbox).op = "unshare" /\ router' = router /\ kind' = kind
    BY <1>5 DEF StopSharing, connVars, Take
  <2>2. Leaving(S)
    BY <1>0, <2>1, ForgetLeaves DEF Running
  <2> QED
    BY <2>1, <2>2
<1>6. CASE \E i \in DOMAIN senders : GiveUp(i)
  <2>1. InboxStep(0)
    BY <1>6, ThreadEffect DEF OtherSteps
  <2>2. PICK i : /\ Tell({i}) /\ Forget({i}) /\ watchers' = watchers /\ server' = server
                 /\ router' = router /\ kind' = kind
    BY <1>6 DEF GiveUp, connVars
  <2>3. Leaving({i})
    BY <1>0, <2>2, ForgetLeaves DEF Running
  <2> QED
    BY <2>1, <2>3
<1> QED
  BY <1>1, <1>2, <1>3, <1>4, <1>5, <1>6 DEF Shrinking

\* A step that removes nobody keeps what is said of the others.
Staying(c) ==
  /\ DOMAIN clients \cup DOMAIN watchers \subseteq DOMAIN clients' \cup DOMAIN watchers'
  /\ DOMAIN senders' = DOMAIN senders \/ DOMAIN senders' = DOMAIN senders \cup {c}
  /\ \A i \in DOMAIN senders' : senders'[i] = (IF i \in DOMAIN senders THEN senders[i] ELSE i)
  /\ \A d \in Conns : told[d] => told'[d]
  /\ \A d \in Conns :
       d # c /\ router[d] # "none" => router'[d] \in {router[d], "ended"} /\ kind'[d] = kind[d]
  /\ \A d \in Conns : d # c /\ router[d] = "none" => router'[d] = "none"
  /\ Running' \/ server' = "crashed"

\* Whoever stays is known to the session as before.
LEMMA StayingKeeps ==
  ASSUME RouterInv, Effect, SendersInv, KeptInv, NEW c, Staying(c),
         \A d \in Conns :
           d # c => InboxStep(0) \/ Head(inbox).id # d
                      \/ Head(inbox).op \notin {"first", "attach", "watch", "forbid"},
         c \in Conns /\ router'[c] \in {"opening", "running"} => c \in DOMAIN senders' \/ told'[c],
         c \in Conns /\ Settled(c)' => c \in DOMAIN clients' \cup DOMAIN watchers'
  PROVE  SendersInv' /\ KeptInv'
<1>0. Types /\ Running /\ server # "crashed"
  BY DEF RouterInv, Effect, Running
<1>1. /\ \A d \in Conns : router[d] \in {"opening", "running"} /\ ~told[d] => d \in DOMAIN senders
      /\ \A i \in DOMAIN senders : senders[i] = i
  BY <1>0 DEF SendersInv
<1>2. \A d \in Conns : router'[d] \in {"opening", "running"} /\ ~told'[d] => d \in DOMAIN senders'
  BY <1>1 DEF Staying
<1>3. \A i \in DOMAIN senders' : senders'[i] = i
  BY <1>1 DEF Staying
<1>4. ASSUME NEW d \in Conns, Settled(d)', d # c
      PROVE  d \in DOMAIN watchers' \cup DOMAIN clients'
  <2>1. kind[d] = kind'[d] /\ kind[d] # "cli" /\ router[d] = "running" /\ ~told[d]
    BY <1>4 DEF Settled, Staying
  <2>2. ~Among(kind[d], d, inbox') /\ ~Among("forbid", d, inbox')
    BY <1>4, <2>1 DEF Settled
  <2>3. PICK o : o = kind[d]
    OBVIOUS
  <2>4. o \in {"first", "attach", "watch"}
    BY <2>1, <2>3 DEF RouterInv, IdsInv, Kinds
  <2>5. ASSUME NEW op \in {o, "forbid"} PROVE ~Among(op, d, inbox)
    <3>1. InboxStep(0) \/ Head(inbox).op # op \/ Head(inbox).id # d
      BY <1>4, <2>4
    <3>2. ~Among(op, d, inbox')
      BY <2>2, <2>3
    <3> QED
      BY <3>1, <3>2, MessageStays
  <2>6. Settled(d)
    BY <2>1, <2>3, <2>5 DEF Settled
  <2>7. d \in DOMAIN watchers \cup DOMAIN clients
    BY <1>0, <2>6 DEF KeptInv
  <2> QED
    BY <2>7 DEF Staying
<1>5. \A d \in Conns : Settled(d)' => d \in DOMAIN watchers' \cup DOMAIN clients'
  BY <1>4
<1>6. KeptInv'
  BY <1>5 DEF KeptInv, Staying
<1> QED
  BY <1>2, <1>3, <1>6 DEF SendersInv

ThreadsOnly ==
  \/ \E i \in active, op \in {"exit", "detach", "kill", "lastpane"} : ScreenAsks(op, i)
  \/ PluginStopsSharing
  \/ ScreenStep \/ PluginStep \/ PtyStep

\* Steps that concern no connection.
LEMMA UnmovedKeeps ==
  ASSUME RouterInv, Effect, SendersInv, KeptInv,
         ThreadsOnly \/ (StopSharing /\ ~sharing)
                     \/ \E c \in Conns : \/ Leave(c) \/ NewTab(c) \/ KillSession(c)
                                         \/ AssociatePipe(c) \/ Key(c)
  PROVE  SendersInv' /\ KeptInv'
<1>1. InboxStep(0) \/ Head(inbox).op = "unshare"
  BY ThreadEffect, ClientEffect DEF ThreadsOnly, OtherSteps, StopSharing, Take
<1>2. UNCHANGED <<kind, router, told, server, clients, watchers, senders>>
  BY DEF ThreadsOnly, StopSharing, Leave, NewTab, KillSession, AssociatePipe, Key, ScreenAsks,
    PluginStopsSharing, ScreenStep, PluginStep, PtyStep, connVars, stateVars
<1>3. Staying(0) /\ 0 \notin Conns
  BY <1>2 DEF Staying, Conns, Effect, Running
<1> QED
  BY <1>1, <1>3, StayingKeeps

\* The steps of a connection.
LEMMA ConnectionKeeps ==
  ASSUME MaxConns < LastId, RouterInv, Effect, SendersInv, KeptInv, NEW c \in Conns,
         \/ Accept(c) \/ Register(c) \/ Open(c) \/ Resize(c)
         \/ RouterEnds(c) \/ WatcherQuits(c) \/ Detach(c) \/ DetachOthers(c)
  PROVE  SendersInv' /\ KeptInv'
<1>0. /\ IdsInv /\ Types /\ Running /\ router \in [Conns -> Live \cup {"none", "ended"}]
      /\ (router[c] \in {"opening", "running"} => c \in DOMAIN senders \/ told[c])
  BY DEF RouterInv, Effect, IdsInv, SendersInv
<1>1. InboxStep(0)
  BY AcceptEffect, RouterEffect, ClientEffect
<1>2. CASE Accept(c)
  <2>1. /\ clients' = With(clients, c, "bare") /\ router[c] = "none"
        /\ router' = [router EXCEPT ![c] = "accepted"]
        /\ UNCHANGED <<told, server, watchers, senders>>
        /\ \A d \in Conns : d # c => kind'[d] = kind[d]
    BY <1>2, AcceptEffect DEF Accept, IdsInv, RouterInv, stateVars
  <2>2. Staying(c)
    BY <1>0, <2>1 DEF Staying, With, Running
  <2>3. ~(router'[c] \in {"opening", "running"})
    BY <1>0, <2>1
  <2> QED
    BY <1>1, <2>2, <2>3, StayingKeeps DEF Settled
<1>3. CASE Register(c)
  <2>1. /\ senders' = With(senders, c, c) /\ UNCHANGED <<told, server, clients, watchers, kind>>
        /\ router' = [router EXCEPT ![c] = IF kind[c] = "cli" THEN "running" ELSE "opening"]
    BY <1>3, <1>0 DEF Register, IdsInv, stateVars
  <2>2. Staying(c)
    <3>1. \A i \in DOMAIN senders : senders[i] = i
      BY <1>0 DEF SendersInv
    <3>2. /\ DOMAIN senders' = DOMAIN senders \cup {c}
          /\ \A i \in DOMAIN senders' :
               senders'[i] = (IF i \in DOMAIN senders THEN senders[i] ELSE i)
      BY <2>1, <3>1 DEF With
    <3> QED
      BY <1>0, <2>1, <3>2 DEF Staying, Running
  <2>3. c \in DOMAIN senders'
    BY <2>1 DEF With
  <2>4. ~Settled(c)'
    BY <1>0, <2>1 DEF Settled
  <2> QED
    BY <1>1, <2>2, <2>3, <2>4, StayingKeeps
<1>4. CASE Open(c)
  <2>1. /\ UNCHANGED <<told, server, clients, watchers, senders, kind>> /\ router[c] = "opening"
        /\ router' = [router EXCEPT ![c] = "running"]
    BY <1>4 DEF Open, stateVars
  <2>2. Staying(c)
    BY <1>0, <2>1 DEF Staying, Running
  <2>3. PICK op \in {"forbid", kind[c]} : inbox' = Append(inbox, Msg(op, c))
    BY <1>4, <1>0, <2>1 DEF Open, IdsInv
  <2>4. Msg(op, c) \in Message(Ops)
    <3>1. kind[c] \in Kinds
      BY <1>0, <2>1 DEF IdsInv
    <3> QED
      BY <3>1 DEF Msg, Message, Ops, Conns
  <2>5. Among(op, c, inbox')
    BY <1>0, <2>3, <2>4, AmongNew DEF Types, Msg
  <2>6. ~Settled(c)'
    BY <2>1, <2>5 DEF Settled
  <2> QED
    BY <1>0, <1>1, <2>1, <2>2, <2>6, StayingKeeps
<1>5. CASE Resize(c)
  <2>1. /\ clients' = With(clients, c, "bare")
        /\ UNCHANGED <<told, server, watchers, senders, kind, router>>
    BY <1>5, <1>0 DEF Resize, Request, IdsInv, connVars
  <2>2. Staying(c) /\ c \in DOMAIN clients'
    BY <1>0, <2>1 DEF Staying, Running, With
  <2> QED
    BY <1>0, <1>1, <2>1, <2>2, StayingKeeps
<1>6. CASE RouterEnds(c) \/ WatcherQuits(c) \/ Detach(c) \/ DetachOthers(c)
  <2>1. /\ UNCHANGED <<server, clients, watchers, senders, kind>>
        /\ router' = [router EXCEPT ![c] = "ended"]
    BY <1>6 DEF RouterEnds, WatcherQuits, Detach, DetachOthers, EndRouter, stateVars
  <2>2. \A d \in Conns : told[d] => told'[d]
    BY <1>6, <1>0, TellTells DEF RouterEnds, WatcherQuits, Detach, DetachOthers
  <2>3. Staying(c)
    BY <1>0, <2>1, <2>2 DEF Staying, Running
  <2>4. ~(router'[c] \in {"opening", "running"})
    BY <1>0, <2>1
  <2> QED
    BY <1>1, <2>3, <2>4, StayingKeeps DEF Settled
<1> QED
  BY <1>2, <1>3, <1>4, <1>5, <1>6

\* The main loop's handling of a first message.
LEMMA JoiningKeeps ==
  ASSUME RouterInv, Effect, SendersInv, KeptInv, Joining
  PROVE  SendersInv' /\ KeptInv'
<1>0. Types /\ Running
  BY DEF RouterInv, Effect
<1>1. PICK h : h = ClientOfHead
  OBVIOUS
<1>2. UNCHANGED <<told, senders, kind, router>>
  BY DEF Joining, FirstClientConnected, AttachClient, AttachWatcherClient, AssociatePipeWithClient,
    connVars
<1>3. Running' \/ server' = "crashed"
  BY <1>0 DEF Joining, FirstClientConnected, AttachClient, AttachWatcherClient,
    AssociatePipeWithClient, Running
<1>4. DOMAIN clients \cup DOMAIN watchers \subseteq DOMAIN clients' \cup DOMAIN watchers'
  BY <1>1 DEF Joining, FirstClientConnected, AttachClient, AttachWatcherClient,
    AssociatePipeWithClient, With, Without, Restrict
<1>5. router[h] \in {"opening", "running"} /\ h \in Conns => h \in DOMAIN senders \/ told[h]
  BY <1>0 DEF SendersInv
<1>6. CASE AssociatePipeWithClient
  <2>1. Head(inbox).op = "pipe"
    BY <1>6 DEF AssociatePipeWithClient, Take
  <2>2. Staying(0) /\ 0 \notin Conns
    BY <1>2, <1>3, <1>4 DEF Staying, Conns
  <2> QED
    BY <2>1, <2>2, StayingKeeps
<1>7. CASE ~AssociatePipeWithClient
  <2>1. h \in DOMAIN clients' \cup DOMAIN watchers'
    BY <1>1, <1>7 DEF Joining, FirstClientConnected, AttachClient, AttachWatcherClient, With
  <2>2. Staying(h)
    BY <1>2, <1>3, <1>4 DEF Staying
  <2> QED
    BY <1>1, <1>2, <1>5, <2>1, <2>2, StayingKeeps DEF ClientOfHead
<1> QED
  BY <1>6, <1>7

\* Nobody is dropped in silence, whatever the step.
LEMMA KeptStep ==
  ASSUME MaxConns < LastId, RouterInv, Effect, SendersInv, KeptInv, Next
  PROVE  SendersInv' /\ KeptInv'
<1>1. CASE (Shrinking \/ RemoveClient) /\ ~(StopSharing /\ ~sharing)
  BY <1>1, ShrinkingLeaves, LeavingKeeps
<1>2. CASE Joining
  BY <1>2, JoiningKeeps
<1>3. CASE StopSharing /\ ~sharing
  BY <1>3, UnmovedKeeps
<1>4. CASE Elsewhere \/ \E c \in Conns : Growing(c)
  <2>1. \/ ThreadsOnly
        \/ \E c \in Conns : \/ Leave(c) \/ NewTab(c) \/ KillSession(c) \/ AssociatePipe(c) \/ Key(c)
        \/ \E c \in Conns : \/ Accept(c) \/ Register(c) \/ Open(c) \/ Resize(c)
                            \/ RouterEnds(c) \/ WatcherQuits(c) \/ Detach(c) \/ DetachOthers(c)
    BY <1>4 DEF Elsewhere, Growing, ThreadsOnly
  <2> QED
    BY <2>1, UnmovedKeeps, ConnectionKeeps
<1> QED
  BY <1>1, <1>2, <1>3, <1>4, NextSplit

-----------------------------------------------------------------------------
(* Screen and the plugin thread *)

Client(i) == i \in Conns /\ kind[i] \in {"first", "attach"}

\* Who may have a tab, or be the one for whom a tab is made: a client that is
\* cared for, or whose removal comes, or that Screen knows to have been there.
Placed(i) ==
  Cared(i) \/ Among("remove", i, screenQ) \/ i <= highest \/ Watches(i)

StartInv ==
  server = "starting" =>
    screenQ = <<>> /\ pluginQ = <<>> /\ ptyQ = <<>> /\ active = {} /\ plugged = {}

\* A client that is still to be added is cared for, or its removal comes behind.
Adds(q) ==
  \A n \in 1 .. Len(q), i \in Nat :
    q[n].op = "add" /\ q[n].id = i => Client(i) /\ (Cared(i) \/ Behind(q, n, i))

Mentioned(i) ==
  \/ i \in plugged \/ Among("add", i, pluginQ) \/ Among("newtab", i, pluginQ)
  \/ Among("newtab", i, screenQ) \/ Among("layout", i, screenQ) \/ Among("layout", i, ptyQ)

ActiveInv == Running => \A i \in active : Watches(i) \/ Cared(i) \/ Among("remove", i, screenQ)
PluggedInv == Running => \A i \in plugged : Client(i) /\ (Cared(i) \/ Among("remove", i, pluginQ))
AddsInv == Running => Adds(screenQ) /\ Adds(pluginQ)
PlacedInv == Running => \A i \in Nat : Mentioned(i) => Placed(i)

ThreadsInv == StartInv /\ ActiveInv /\ PluggedInv /\ AddsInv /\ PlacedInv

ForScreen == Message({"newtab", "add", "remove", "watch", "unwatch"})
ForPlugins == Message({"add", "remove"})
Fit(m) ==
  /\ m.op = "newtab" => Placed(m.id)
  /\ m.op = "add" => Client(m.id) /\ Cared(m.id)

\* What the routers and the main loop do to the threads.
Enqueues ==
  /\ ptyQ' = ptyQ /\ UNCHANGED screenVars
  /\ screenQ' = screenQ \/ \E m \in ForScreen : Fit(m) /\ screenQ' = Append(screenQ, m)
  /\ pluginQ' = pluginQ \/ \E m \in ForPlugins : Fit(m) /\ pluginQ' = Append(pluginQ, m)
  /\ server' = "starting" => server = "starting" /\ UNCHANGED <<screenQ, pluginQ>>

ThreadStep == ScreenStep \/ PluginStep \/ PtyStep

\* Steps that leave the threads alone.
LEMMA QuietQueues ==
  ASSUME UNCHANGED <<queueVars, screenVars>>, server' = "starting" => server = "starting"
  PROVE  Enqueues
BY DEF Enqueues, queueVars, screenVars

\* All steps but those of the threads only add to their queues.
LEMMA EnqueuesSplit ==
  ASSUME MaxConns < LastId, RouterInv, Effect, StateInv, Next, ~ThreadStep
  PROVE  Enqueues
<1>0. Types /\ IdsInv /\ Running
  BY DEF RouterInv, Effect
<1>h. inbox # <<>> => ClientOfHead \in Nat
  <2>1. inbox # <<>> => Head(inbox) \in Message(Ops)
    BY <1>0 DEF Types
  <2> QED
    BY <2>1 DEF ClientOfHead, Message
<1>1. CASE \E c \in Conns : \/ Register(c) \/ Open(c) \/ RouterEnds(c) \/ Accept(c) \/ Leave(c)
                            \/ Key(c) \/ Resize(c) \/ Detach(c) \/ DetachOthers(c)
                            \/ KillSession(c) \/ AssociatePipe(c)
  BY <1>1, QuietQueues DEF Register, Open, RouterEnds, Accept, Leave, Key, Resize, Detach,
    DetachOthers,
    KillSession, AssociatePipe
<1>2. CASE \E c \in Conns : NewTab(c)
  <2>1. PICK c \in Conns : NewTab(c)
    BY <1>2
  <2>2. /\ screenQ' = Append(screenQ, Msg("newtab", Target(c))) /\ server = "up"
        /\ UNCHANGED <<server, pluginQ, ptyQ, screenVars>> /\ router[c] = "running"
    BY <2>1 DEF NewTab, Request
  <2>3. id[c] = c /\ Cared(c) /\ c \in Nat
    BY <2>2, <1>0 DEF IdsInv, Cared, Here, Live, Conns
  <2>4. Target(c) = c \/ (Target(c) = lastActive /\ lastActive # None)
    BY <2>3 DEF Target
  <2>5. Target(c) \in Nat /\ (Watches(Target(c)) \/ Cared(Target(c)))
    BY <2>3, <2>4, <1>0 DEF StateInv, Types
  <2>6. PICK t : t = Target(c)
    OBVIOUS
  <2>7. Msg("newtab", t) \in ForScreen /\ Fit(Msg("newtab", t))
    BY <2>5, <2>6 DEF ForScreen, Fit, Msg, Message, Placed
  <2> QED
    BY <2>2, <2>6, <2>7 DEF Enqueues
<1>3. CASE \E c \in Conns : WatcherQuits(c)
  <2>1. PICK c \in Conns : WatcherQuits(c)
    BY <1>3
  <2>2. /\ screenQ' = IF server = "up" THEN Append(screenQ, Msg("unwatch", id[c])) ELSE screenQ
        /\ UNCHANGED <<server, pluginQ, ptyQ, screenVars>>
    BY <2>1 DEF WatcherQuits
  <2>3. Msg("unwatch", id[c]) \in ForScreen /\ Fit(Msg("unwatch", id[c]))
    BY <1>0, IdIsNumber DEF ForScreen, Fit, Msg, Message
  <2> QED
    BY <2>2, <2>3 DEF Enqueues
<1>4. CASE FirstClientConnected \/ AttachClient
  <2>1. Head(inbox).op \in {"first", "attach"} /\ inbox # <<>>
    BY <1>4 DEF FirstClientConnected, AttachClient, Take
  <2>2. PICK h : h = ClientOfHead
    OBVIOUS
  <2>3. Client(h) /\ Cared(h) /\ h \in Nat
    BY <2>1, <2>2, <1>h, HeadSpeaks DEF Client, Words, Speaks
  <2>4. PICK op \in {"newtab", "add"} : screenQ' = Append(screenQ, Msg(op, h))
    BY <1>4, <2>2 DEF FirstClientConnected, AttachClient
  <2>5. /\ pluginQ' = Append(pluginQ, Msg("add", h)) /\ server' = "up"
        /\ UNCHANGED <<ptyQ, screenVars>>
    BY <1>4, <2>2 DEF FirstClientConnected, AttachClient
  <2>6. /\ Msg(op, h) \in ForScreen /\ Fit(Msg(op, h))
        /\ Msg("add", h) \in ForPlugins /\ Fit(Msg("add", h))
    BY <2>3 DEF ForScreen, ForPlugins, Fit, Msg, Message, Placed
  <2> QED
    BY <2>4, <2>5, <2>6 DEF Enqueues
<1>5. CASE AttachWatcherClient
  <2>1. /\ inbox # <<>> /\ UNCHANGED <<pluginQ, ptyQ, screenVars>>
        /\ \/ /\ server' = server /\ server = "up"
              /\ screenQ' = Append(screenQ, Msg("watch", ClientOfHead))
           \/ server' = "crashed" /\ screenQ' = screenQ
    BY <1>5 DEF AttachWatcherClient, Take
  <2>2. Msg("watch", ClientOfHead) \in ForScreen /\ Fit(Msg("watch", ClientOfHead))
    BY <2>1, <1>h DEF ForScreen, Fit, Msg, Message
  <2> QED
    BY <2>1, <2>2 DEF Enqueues
<1>6. CASE ClientExit \/ RemoveClient \/ DetachSession
  <2>1. inbox # <<>> /\ UNCHANGED <<ptyQ, screenVars>> /\ server' \in {server, "ended"}
    BY <1>6 DEF ClientExit, RemoveClient, DetachSession, Take
  <2>2. \/ UNCHANGED <<screenQ, pluginQ>>
        \/ /\ server = "up" /\ pluginQ' = pluginQ
           /\ screenQ' = Append(screenQ, Msg("unwatch", ClientOfHead))
        \/ /\ server = "up" /\ pluginQ' = Append(pluginQ, Msg("remove", ClientOfHead))
           /\ screenQ' = Append(screenQ, Msg("remove", ClientOfHead))
    BY <1>6 DEF ClientExit, RemoveClient, DetachSession, ForgetWatcher, ForgetInThreads
  <2>3. /\ Msg("unwatch", ClientOfHead) \in ForScreen /\ Fit(Msg("unwatch", ClientOfHead))
        /\ Msg("remove", ClientOfHead) \in ForScreen /\ Fit(Msg("remove", ClientOfHead))
        /\ Msg("remove", ClientOfHead) \in ForPlugins
    BY <2>1, <1>h DEF ForScreen, ForPlugins, Fit, Msg, Message
  <2> QED
    BY <2>1, <2>2, <2>3 DEF Enqueues
<1>7. CASE \/ TurnAway \/ DisconnectAllClientsExcept \/ EndSession \/ StopSharing
           \/ AssociatePipeWithClient
  BY <1>7, QuietQueues DEF TurnAway, DisconnectAllClientsExcept, EndSession, StopSharing,
    AssociatePipeWithClient
<1>8. CASE \/ \E i \in DOMAIN senders : GiveUp(i)
           \/ \E i \in active, op \in {"exit", "detach", "kill", "lastpane"} : ScreenAsks(op, i)
           \/ PluginStopsSharing
  BY <1>8, QuietQueues DEF GiveUp, ScreenAsks, PluginStopsSharing
<1> QED
  BY <1>1, <1>2, <1>3, <1>4, <1>5, <1>6, <1>7, <1>8 DEF Next, Router, ClientActs, MainLoop,
    ThreadStep

\* What the threads are sent are messages.
LEMMA ForThreads ==
  /\ ForScreen \subseteq Message(Ops)
  /\ ForPlugins \subseteq Message(Ops)
  /\ Message({"layout"}) \subseteq Message(Ops)
BY DEF ForScreen, ForPlugins, Message, Ops, Kinds

\* The last active client's id, the exits told, and the server's state are what they are.
LEMMA SharedTypes ==
  ASSUME RouterInv, Effect, Next
  PROVE  /\ told' \in [Conns -> BOOLEAN]
         /\ server' \in {"starting", "up", "ended", "crashed"}
         /\ lastActive' \in Nat
         /\ inbox' \in Seq(Message(Ops))
<1>0. Types
  BY DEF RouterInv
<1>1. inbox' \in Seq(Message(Ops))
  BY DEF Effect, InboxStep
<1>t. ASSUME NEW S, Tell(S) PROVE told' \in [Conns -> BOOLEAN]
  BY <1>0, <1>t DEF Tell, Types
<1>f. ASSUME NEW S, Forget(S) PROVE lastActive' \in Nat
  BY <1>0, <1>f DEF Forget, Types, None
<1>2. CASE Elsewhere \/ Joining
  <2>1. lastActive' = lastActive
    BY <1>2, ElsewhereKeeps DEF Joining, FirstClientConnected, AttachClient, AttachWatcherClient,
      AssociatePipeWithClient
  <2>2. server' \in {server, "up", "crashed"}
    BY <1>2 DEF Elsewhere, Joining, FirstClientConnected, AttachClient, AttachWatcherClient,
      AssociatePipeWithClient, Open, RouterEnds, Leave, NewTab, Detach, DetachOthers, KillSession,
      AssociatePipe, WatcherQuits, ScreenAsks, PluginStopsSharing, ScreenStep, PluginStep, PtyStep
  <2>3. told' = told \/ \E S : Tell(S)
    BY <1>2 DEF Elsewhere, Joining, FirstClientConnected, AttachClient, AttachWatcherClient,
      AssociatePipeWithClient, Open, RouterEnds, Leave, NewTab, Detach, DetachOthers, KillSession,
      AssociatePipe, WatcherQuits, ScreenAsks, PluginStopsSharing, ScreenStep, PluginStep, PtyStep
  <2> QED
    BY <2>1, <2>2, <2>3, <1>0, <1>1, <1>t DEF Types
<1>3. CASE Shrinking \/ RemoveClient
  <2>1. told' = told \/ \E S : Tell(S)
    BY <1>3 DEF Shrinking, TurnAway, ClientExit, RemoveClient, DetachSession,
      DisconnectAllClientsExcept,
      EndSession, EndFor, StopSharing, GiveUp
  <2>2. lastActive' \in {lastActive, None}
    <3>1. CASE RemoveClient
      BY <3>1 DEF RemoveClient, ForgetWatcher, Forget
    <3>2. CASE Shrinking
      BY <3>2, ShrinkingShrinks DEF Shrinks
    <3> QED
      BY <1>3, <3>1, <3>2
  <2>3. server' \in {server, "ended"}
    BY <1>3 DEF Shrinking, TurnAway, ClientExit, RemoveClient, DetachSession,
      DisconnectAllClientsExcept,
      EndSession, EndFor, StopSharing, GiveUp
  <2> QED
    BY <2>1, <2>2, <2>3, <1>0, <1>1, <1>t DEF Types, None
<1>4. CASE \E c \in Conns : Growing(c)
  <2>1. /\ told' = told /\ server' = server
        /\ lastActive' = lastActive \/ \E c \in Conns : lastActive' = id[c]
    BY <1>4 DEF Growing, Accept, Register, Resize, Key, stateVars
  <2> QED
    BY <2>1, <1>0, <1>1, IdIsNumber DEF Types, RouterInv
<1> QED
  BY <1>2, <1>3, <1>4, NextSplit

\* What the threads have keeps its type.
LEMMA ThreadTypes ==
  ASSUME RouterInv, Enqueues \/ ThreadStep
  PROVE  /\ screenQ' \in Seq(Message(Ops)) /\ pluginQ' \in Seq(Message(Ops))
         /\ ptyQ' \in Seq(Message({"layout"}))
         /\ highest' \in Nat /\ active' \subseteq Nat /\ plugged' \subseteq Nat
<1>0. Types
  BY DEF RouterInv
<1>1. CASE Enqueues
  <2>1. screenQ' \in Seq(Message(Ops))
    <3>1. screenQ' = screenQ \/ \E m \in Message(Ops) : screenQ' = Append(screenQ, m)
      BY <1>1, ForThreads DEF Enqueues
    <3>2. screenQ \in Seq(Message(Ops))
      BY <1>0 DEF Types
    <3>3. ASSUME NEW m \in Message(Ops) PROVE Append(screenQ, m) \in Seq(Message(Ops))
      BY <3>2, AppendSlides
    <3> QED
      BY <3>1, <3>2, <3>3
  <2>2. pluginQ' \in Seq(Message(Ops))
    <3>1. pluginQ' = pluginQ \/ \E m \in Message(Ops) : pluginQ' = Append(pluginQ, m)
      BY <1>1, ForThreads DEF Enqueues
    <3>2. pluginQ \in Seq(Message(Ops))
      BY <1>0 DEF Types
    <3>3. ASSUME NEW m \in Message(Ops) PROVE Append(pluginQ, m) \in Seq(Message(Ops))
      BY <3>2, AppendSlides
    <3> QED
      BY <3>1, <3>2, <3>3
  <2> QED
    BY <2>1, <2>2, <1>0, <1>1 DEF Enqueues, screenVars, Types
<1>2. CASE ScreenStep
  <2>1. screenQ # <<>> /\ screenQ' = Tail(screenQ) /\ ptyQ' = ptyQ
    BY <1>2 DEF ScreenStep
  <2>2. Head(screenQ) \in Message(Ops) /\ screenQ' \in Seq(Message(Ops))
    BY <1>0, <2>1 DEF Types
  <2>3. pluginQ' \in Seq(Message(Ops))
    BY <1>0, <1>2, <2>2, AppendSlides DEF ScreenStep, Types, screenVars
  <2>4. Head(screenQ).id \in Nat
    BY <2>2 DEF Message
  <2>5. LayoutClient(Head(screenQ).id) \in Nat
    <3>1. CASE active = {}
      BY <2>4, <3>1 DEF LayoutClient
    <3>2. CASE active # {}
      <4>1. Lowest(active) \in Nat
        BY <3>2, <1>0, LeastNatural DEF Types, Lowest
      <4> QED
        BY <2>4, <4>1 DEF LayoutClient
    <3> QED
      BY <3>1, <3>2
  <2>6. highest' \in Nat /\ active' \subseteq Nat /\ plugged' = plugged
    <3>1. highest \in Nat /\ active \subseteq Nat
      BY <1>0 DEF Types
    <3> HIDE <1>0
    <3> QED
      BY <1>2, <2>4, <2>5, <3>1 DEF ScreenStep, ApplyLayout, AddToScreen, RemoveFromScreen,
        Larger, screenVars
  <2> QED
    BY <1>0, <2>1, <2>2, <2>3, <2>6 DEF Types
<1>3. CASE PluginStep
  <2>1. pluginQ # <<>> /\ pluginQ' = Tail(pluginQ)
        /\ UNCHANGED <<screenQ, active, highest>>
    BY <1>3 DEF PluginStep
  <2>2. Head(pluginQ) \in Message(Ops) /\ pluginQ' \in Seq(Message(Ops))
    BY <1>0, <2>1 DEF Types
  <2>3. plugged' \subseteq Nat
    BY <1>0, <1>3, <2>2 DEF PluginStep, Types, Message
  <2>4. ptyQ' \in Seq(Message({"layout"}))
    <3>1. ptyQ' = ptyQ \/ \E i \in Nat : ptyQ' = Append(ptyQ, Msg("layout", i))
      <4>1. Head(pluginQ).id \in Nat /\ plugged \subseteq Nat
        BY <1>0, <2>2 DEF Message, Types
      <4> QED
        BY <1>3, <4>1 DEF PluginStep
    <3>2. \A i \in Nat : Msg("layout", i) \in Message({"layout"})
      BY DEF Msg, Message
    <3> QED
      BY <1>0, <3>1, <3>2, AppendSlides DEF Types
  <2> QED
    BY <1>0, <2>1, <2>2, <2>3, <2>4 DEF Types
<1>4. CASE PtyStep
  <2>1. /\ ptyQ # <<>> /\ ptyQ' = Tail(ptyQ) /\ screenQ' = Append(screenQ, Head(ptyQ))
        /\ UNCHANGED <<pluginQ, active, highest, plugged>>
    BY <1>4 DEF PtyStep, screenVars
  <2>2. Head(ptyQ) \in Message(Ops) /\ ptyQ' \in Seq(Message({"layout"}))
    <3>1. Head(ptyQ) \in Message({"layout"}) /\ ptyQ' \in Seq(Message({"layout"}))
      BY <1>0, <2>1 DEF Types
    <3> QED
      BY <3>1, ForThreads
  <2>3. screenQ' \in Seq(Message(Ops))
    BY <1>0, <2>1, <2>2, AppendSlides DEF Types
  <2> QED
    BY <1>0, <2>1, <2>2, <2>3 DEF Types
<1> QED
  BY <1>1, <1>2, <1>3, <1>4 DEF ThreadStep

\* The routers' part of the invariant.
LEMMA RouterInvStep ==
  ASSUME MaxConns < LastId, RouterInv, StateInv, Next
  PROVE  RouterInv'
<1>1. Effect
  BY EveryEffect
<1>2. Enqueues \/ ThreadStep
  BY <1>1, EnqueuesSplit
<1>3. Types'
  BY <1>1, <1>2, SharedTypes, ThreadTypes DEF Types
<1>4. IdsInv'
  BY <1>1 DEF Effect, RouterStep
<1>5. MessagesInv'
  BY <1>1, MessagesStep
<1> QED
  BY <1>3, <1>4, <1>5 DEF RouterInv

\* Whose removal is taken is a watcher, or is removed on Screen and by the plugins as well.
LEMMA Followed ==
  ASSUME RouterInv, Effect, StateInv, server = "up" \/ server' # server, NEW i, Cared(i)
  PROVE  \/ Cared(i)'
         \/ Watches(i)
         \/ /\ screenQ' = Append(screenQ, Msg("remove", i))
            /\ pluginQ' = Append(pluginQ, Msg("remove", i))
<1>1. SUFFICES ASSUME RemoveClient, i = ClientOfHead, ~Watches(i)
               PROVE  /\ screenQ' = Append(screenQ, Msg("remove", i))
                      /\ pluginQ' = Append(pluginQ, Msg("remove", i))
  BY CaredStays
<1>2. i \notin DOMAIN watchers
  BY <1>1 DEF StateInv, Effect
<1>3. server = "up"
  BY <1>1 DEF RemoveClient
<1> QED
  BY <1>1, <1>2, <1>3 DEF RemoveClient, ForgetInThreads

\* A queue that is left alone or appended to.
LEMMA QueueGrows ==
  ASSUME NEW M, NEW q \in Seq(M), NEW p, p = q \/ \E m \in M : p = Append(q, m)
  PROVE  /\ p \in Seq(M) /\ Slides(q, p, 0) /\ Len(q) \in Nat
         /\ \A n \in 1 .. Len(p) : n > Len(q) => n = Len(p) /\ p = Append(q, p[n])
<1>1. CASE p = q
  BY <1>1 DEF Slides
<1>2. CASE \E m \in M : p = Append(q, m)
  <2>1. PICK m \in M : p = Append(q, m)
    BY <1>2
  <2>2. /\ p \in Seq(M) /\ Slides(q, p, 0) /\ Len(p) = Len(q) + 1
        /\ p[Len(q) + 1] = m /\ Len(q) \in Nat
    BY <2>1, AppendSlides
  <2> QED
    BY <2>1, <2>2
<1> QED
  BY <1>1, <1>2

\* What is in such a queue stays there.
LEMMA AmongGrows ==
  ASSUME NEW M, NEW q \in Seq(M), NEW p, p = q \/ \E m \in M : p = Append(q, m),
         NEW op, NEW i, Among(op, i, q)
  PROVE  Among(op, i, p)
<1>1. p \in Seq(M) /\ Slides(q, p, 0)
  BY QueueGrows
<1> QED
  BY <1>1, AmongSlides

\* The threads' queues are such queues, but for a thread's own steps.
LEMMA EnqueuedQueues ==
  ASSUME RouterInv, Enqueues
  PROVE  /\ screenQ \in Seq(Message(Ops)) /\ pluginQ \in Seq(Message(Ops))
         /\ screenQ' = screenQ \/ \E m \in Message(Ops) : screenQ' = Append(screenQ, m)
         /\ pluginQ' = pluginQ \/ \E m \in Message(Ops) : pluginQ' = Append(pluginQ, m)
BY ForThreads DEF RouterInv, Types, Enqueues

\* Who may have a tab may have one after a step of the routers or the main loop.
LEMMA PlacedFollows ==
  ASSUME RouterInv, Effect, StateInv, Enqueues, server = "up" \/ server' # server,
         NEW i \in Nat, Placed(i)
  PROVE  Placed(i)'
<1>1. CASE Cared(i)
  <2>1. CASE Cared(i)'
    BY <2>1 DEF Placed
  <2>2. CASE Watches(i)
    BY <2>2, KindsStay DEF Placed, Watches
  <2>3. CASE screenQ' = Append(screenQ, Msg("remove", i))
    <3>1. /\ Msg("remove", i) \in Message(Ops) /\ Msg("remove", i).op = "remove"
          /\ Msg("remove", i).id = i
      BY DEF Msg, Message, Ops
    <3>2. Among("remove", i, screenQ')
      BY <2>3, <3>1, EnqueuedQueues, AmongNew
    <3> QED
      BY <3>2 DEF Placed
  <2> QED
    BY <1>1, <2>1, <2>2, <2>3, Followed
<1>2. CASE Among("remove", i, screenQ)
  <2>1. Among("remove", i, screenQ')
    BY <1>2, EnqueuedQueues, AmongGrows
  <2> QED
    BY <2>1 DEF Placed
<1>3. CASE i <= highest
  BY <1>3 DEF Enqueues, screenVars, Placed
<1>4. CASE Watches(i)
  BY <1>4, KindsStay DEF Placed, Watches
<1> QED
  BY <1>1, <1>2, <1>3, <1>4 DEF Placed

\* What holds of a queue that grows, whoever is lost being removed at its end.
LEMMA AddsGrow ==
  ASSUME NEW q \in Seq(Message(Ops)), NEW p, p = q \/ \E m \in Message(Ops) : p = Append(q, m),
         Adds(q),
         \A i : Client(i) => Client(i)',
         \A i \in Nat : Client(i) /\ Cared(i) => Cared(i)' \/ p = Append(q, Msg("remove", i)),
         \A m \in Message(Ops) : p = Append(q, m) /\ m.op = "add" => Client(m.id) /\ Cared(m.id)
  PROVE  \A n \in 1 .. Len(p), i \in Nat :
           p[n].op = "add" /\ p[n].id = i => Client(i)' /\ (Cared(i)' \/ Behind(p, n, i))
<1>1. /\ p \in Seq(Message(Ops)) /\ Slides(q, p, 0) /\ Len(q) \in Nat
      /\ \A n \in 1 .. Len(p) : n > Len(q) => n = Len(p) /\ p = Append(q, p[n])
  BY QueueGrows
<1>2. SUFFICES ASSUME NEW n \in 1 .. Len(p), NEW i \in Nat, p[n].op = "add", p[n].id = i
               PROVE  Client(i)' /\ (Cared(i)' \/ Behind(p, n, i))
  OBVIOUS
<1>3. CASE n > Len(q)
  <2>1. p[n] \in Message(Ops) /\ p = Append(q, p[n]) /\ n = Len(p)
    BY <1>1, <1>3
  <2>2. Client(i) /\ Cared(i)
    BY <1>2, <2>1
  <2>3. p # Append(q, Msg("remove", i))
    <3>1. Msg("remove", i) \in Message(Ops) /\ Msg("remove", i).op = "remove"
      BY DEF Msg, Message, Ops
    <3>2. Append(q, Msg("remove", i))[Len(q) + 1] = Msg("remove", i) /\ Len(p) = Len(q) + 1
      BY <2>1, <3>1, AppendSlides
    <3> QED
      BY <2>1, <3>1, <3>2, <1>2
  <2> QED
    BY <2>2, <2>3
<1>4. CASE ~(n > Len(q))
  <2>1. n \in 1 .. Len(q) /\ p[n - 0] = q[n] /\ n - 0 = n
    BY <1>1, <1>4 DEF Slides
  <2>2. Client(i) /\ (Cared(i) \/ Behind(q, n, i))
    BY <1>2, <2>1 DEF Adds
  <2>3. CASE Behind(q, n, i)
    <3>1. Behind(p, n - 0, i)
      BY <1>1, <2>1, <2>3, BehindSlides
    <3> QED
      BY <2>1, <2>2, <3>1
  <2>4. CASE Cared(i) /\ p = Append(q, Msg("remove", i))
    <3>1. /\ Msg("remove", i) \in Message(Ops) /\ Msg("remove", i).op = "remove"
          /\ Msg("remove", i).id = i
      BY DEF Msg, Message, Ops
    <3>2. Behind(p, n, i)
      BY <2>1, <2>4, <3>1, AmongNew
    <3> QED
      BY <2>2, <3>2
  <2> QED
    BY <2>2, <2>3, <2>4
<1> QED
  BY <1>3, <1>4

\* The threads' part, for the steps of the routers and the main loop.
LEMMA EnqueuesThreads ==
  ASSUME RouterInv, Effect, StateInv, ThreadsInv, Enqueues
  PROVE  ThreadsInv'
<1>0. Types /\ IdsInv /\ Running
  BY DEF RouterInv, Effect
<1>1. CASE server' = "starting"
  <2>1. /\ screenQ' = <<>> /\ pluginQ' = <<>> /\ ptyQ' = <<>> /\ active' = {} /\ plugged' = {}
    BY <1>1 DEF Enqueues, ThreadsInv, StartInv, screenVars
  <2> QED
    BY <2>1 DEF ThreadsInv, StartInv, ActiveInv, PluggedInv, AddsInv, PlacedInv, Adds, Among,
      Mentioned
<1>2. CASE server' # "starting"
  <2>1. server = "up" \/ server' # server
    BY <1>0, <1>2 DEF Running
  <2>2. /\ screenQ \in Seq(Message(Ops)) /\ pluginQ \in Seq(Message(Ops))
        /\ screenQ' = screenQ \/ \E m \in Message(Ops) : screenQ' = Append(screenQ, m)
        /\ pluginQ' = pluginQ \/ \E m \in Message(Ops) : pluginQ' = Append(pluginQ, m)
    BY EnqueuedQueues
  <2>3. \A i : /\ (Client(i) => Client(i)') /\ (Watches(i) => Watches(i)')
              /\ ~(Client(i) /\ Watches(i))
    BY KindsStay DEF Client, Watches
  <2>4. \A i \in Nat : Cared(i) => \/ Cared(i)' \/ Watches(i)
                                   \/ /\ screenQ' = Append(screenQ, Msg("remove", i))
                                      /\ pluginQ' = Append(pluginQ, Msg("remove", i))
    BY <2>1, Followed
  <2>5. \A i \in Nat : Msg("remove", i) \in Message(Ops) /\ Msg("remove", i).op = "remove"
                       /\ Msg("remove", i).id = i
    BY DEF Msg, Message, Ops
  <2>6. /\ UNCHANGED <<active, plugged, highest, ptyQ>>
        /\ active \subseteq Nat /\ plugged \subseteq Nat
    BY <1>0 DEF Enqueues, screenVars, Types
  <2>7. ActiveInv'
    <3>1. ASSUME NEW i \in active PROVE Watches(i)' \/ Cared(i)' \/ Among("remove", i, screenQ')
      <4>1. i \in Nat /\ (Watches(i) \/ Cared(i) \/ Among("remove", i, screenQ))
        BY <1>0, <2>6 DEF ThreadsInv, ActiveInv
      <4>2. Among("remove", i, screenQ) => Among("remove", i, screenQ')
        BY <2>2, AmongGrows
      <4>3. screenQ' = Append(screenQ, Msg("remove", i)) => Among("remove", i, screenQ')
        BY <2>2, <2>5, <4>1, AmongNew
      <4> QED
        BY <4>1, <4>2, <4>3, <2>3, <2>4
    <3> QED
      BY <3>1, <2>6 DEF ActiveInv
  <2>8. PluggedInv'
    <3>1. ASSUME NEW i \in plugged PROVE Client(i)' /\ (Cared(i)' \/ Among("remove", i, pluginQ'))
      <4>1. i \in Nat /\ Client(i) /\ (Cared(i) \/ Among("remove", i, pluginQ))
        BY <1>0, <2>6 DEF ThreadsInv, PluggedInv
      <4>2. Among("remove", i, pluginQ) => Among("remove", i, pluginQ')
        BY <2>2, AmongGrows
      <4>3. pluginQ' = Append(pluginQ, Msg("remove", i)) => Among("remove", i, pluginQ')
        BY <2>2, <2>5, <4>1, AmongNew
      <4> QED
        BY <4>1, <4>2, <4>3, <2>3, <2>4
    <3> QED
      BY <3>1, <2>6 DEF PluggedInv
  <2>9. AddsInv'
    <3>1. Adds(screenQ) /\ Adds(pluginQ)
      BY <1>0 DEF ThreadsInv, AddsInv
    <3>2. /\ \A m \in Message(Ops) :
               screenQ' = Append(screenQ, m) /\ m.op = "add" => Client(m.id) /\ Cared(m.id)
          /\ \A m \in Message(Ops) :
               pluginQ' = Append(pluginQ, m) /\ m.op = "add" => Client(m.id) /\ Cared(m.id)
      <4>1. ASSUME NEW q \in Seq(Message(Ops)), NEW m \in Message(Ops), NEW o \in Message(Ops),
                   Append(q, m) = Append(q, o)
            PROVE  m = o
        BY <4>1, AppendSlides
      <4>2. ASSUME NEW q \in Seq(Message(Ops)), NEW m \in Message(Ops)
            PROVE  Append(q, m) # q
        <5>1. Len(Append(q, m)) = Len(q) + 1 /\ Len(q) \in Nat
          BY AppendSlides
        <5> QED
          BY <5>1
      <4>3. /\ screenQ' = screenQ \/ \E o \in Message(Ops) : Fit(o) /\ screenQ' = Append(screenQ, o)
            /\ pluginQ' = pluginQ \/ \E o \in Message(Ops) : Fit(o) /\ pluginQ' = Append(pluginQ, o)
        BY ForThreads DEF Enqueues
      <4>4. \A m \in Message(Ops) : screenQ' = Append(screenQ, m) => Fit(m)
        BY <4>1, <4>2, <4>3, <2>2
      <4>5. \A m \in Message(Ops) : pluginQ' = Append(pluginQ, m) => Fit(m)
        BY <4>1, <4>2, <4>3, <2>2
      <4> QED
        BY <4>4, <4>5 DEF Fit
    <3>3. Adds(screenQ)'
      <4>1. \A n \in 1 .. Len(screenQ'), i \in Nat :
              screenQ'[n].op = "add" /\ screenQ'[n].id = i =>
                Client(i)' /\ (Cared(i)' \/ Behind(screenQ', n, i))
        BY <2>2, <2>3, <2>4, <3>1, <3>2, AddsGrow
      <4> QED
        BY <4>1 DEF Adds
    <3>4. Adds(pluginQ)'
      <4>1. \A n \in 1 .. Len(pluginQ'), i \in Nat :
              pluginQ'[n].op = "add" /\ pluginQ'[n].id = i =>
                Client(i)' /\ (Cared(i)' \/ Behind(pluginQ', n, i))
        BY <2>2, <2>3, <2>4, <3>1, <3>2, AddsGrow
      <4> QED
        BY <4>1 DEF Adds
    <3> QED
      BY <3>3, <3>4 DEF AddsInv
  <2>10. PlacedInv'
    <3>1. ASSUME NEW i \in Nat, Mentioned(i)' PROVE Placed(i)'
      <4>1. Placed(i)
        <5>1. CASE Mentioned(i)
          BY <5>1, <1>0 DEF ThreadsInv, PlacedInv
        <5>2. CASE ~Mentioned(i)
          <6>1. \/ Among("add", i, pluginQ') /\ ~Among("add", i, pluginQ)
                \/ Among("newtab", i, pluginQ') /\ ~Among("newtab", i, pluginQ)
                \/ Among("newtab", i, screenQ') /\ ~Among("newtab", i, screenQ)
                \/ Among("layout", i, screenQ') /\ ~Among("layout", i, screenQ)
            BY <3>1, <5>2, <2>6 DEF Mentioned
          <6>2. PICK m \in Message(Ops) : m.id = i /\ m.op \in {"add", "newtab"} /\ Fit(m)
            <7>1. CASE Among("add", i, pluginQ') /\ ~Among("add", i, pluginQ)
              <8>1. PICK m \in ForPlugins : Fit(m) /\ pluginQ' = Append(pluginQ, m)
                BY <7>1 DEF Enqueues
              <8>2. m.op = "add" /\ m.id = i /\ m \in Message(Ops)
                BY <7>1, <8>1, <2>2, ForThreads, AmongAppended
              <8> QED
                BY <8>1, <8>2
            <7>2. CASE Among("newtab", i, pluginQ') /\ ~Among("newtab", i, pluginQ)
              <8>1. PICK m \in ForPlugins : Fit(m) /\ pluginQ' = Append(pluginQ, m)
                BY <7>2 DEF Enqueues
              <8>2. m.op = "newtab" /\ m.id = i /\ m \in Message(Ops)
                BY <7>2, <8>1, <2>2, ForThreads, AmongAppended
              <8> QED
                BY <8>1, <8>2
            <7>3. CASE Among("newtab", i, screenQ') /\ ~Among("newtab", i, screenQ)
              <8>1. PICK m \in ForScreen : Fit(m) /\ screenQ' = Append(screenQ, m)
                BY <7>3 DEF Enqueues
              <8>2. m.op = "newtab" /\ m.id = i /\ m \in Message(Ops)
                BY <7>3, <8>1, <2>2, ForThreads, AmongAppended
              <8> QED
                BY <8>1, <8>2
            <7>4. CASE Among("layout", i, screenQ') /\ ~Among("layout", i, screenQ)
              <8>1. PICK m \in ForScreen : Fit(m) /\ screenQ' = Append(screenQ, m)
                BY <7>4 DEF Enqueues
              <8>2. m.op = "layout" /\ m \in Message(Ops)
                BY <7>4, <8>1, <2>2, ForThreads, AmongAppended
              <8> QED
                BY <8>1, <8>2 DEF ForScreen, Message
            <7> QED
              BY <6>1, <7>1, <7>2, <7>3, <7>4
          <6> QED
            BY <6>2 DEF Fit, Placed
        <5> QED
          BY <5>1, <5>2
      <4> QED
        BY <4>1, <2>1, PlacedFollows
    <3> QED
      BY <3>1 DEF PlacedInv
  <2>11. StartInv'
    BY <1>2 DEF StartInv
  <2> QED
    BY <2>7, <2>8, <2>9, <2>10, <2>11 DEF ThreadsInv
<1> QED
  BY <1>1, <1>2

\* A thread's step changes nothing of the connections.
LEMMA ThreadStepKeeps ==
  ASSUME ThreadStep
  PROVE  /\ UNCHANGED <<kind, id, router, inbox, server>> /\ server = "up" /\ Running
         /\ \A i : /\ (Cared(i)' <=> Cared(i)) /\ (Client(i)' <=> Client(i))
                   /\ (Watches(i)' <=> Watches(i))
<1>1. UNCHANGED <<kind, id, router, inbox, server>> /\ server = "up"
  BY DEF ThreadStep, ScreenStep, PluginStep, PtyStep, connVars
<1> QED
  BY <1>1 DEF Cared, Here, Among, Client, Watches, Running

\* What holds of a queue whose first message is taken.
LEMMA AddsTail ==
  ASSUME NEW q \in Seq(Message(Ops)), q # <<>>, Adds(q),
         \A i : (Cared(i)' <=> Cared(i)) /\ (Client(i)' <=> Client(i))
  PROVE  /\ \A n \in 1 .. Len(Tail(q)), i \in Nat :
              Tail(q)[n].op = "add" /\ Tail(q)[n].id = i =>
                Client(i)' /\ (Cared(i)' \/ Behind(Tail(q), n, i))
         /\ Head(q).op = "add" =>
              Client(Head(q).id) /\ (Cared(Head(q).id) \/ Among("remove", Head(q).id, Tail(q)))
<1>1. /\ Tail(q) \in Seq(Message(Ops)) /\ Slides(q, Tail(q), 1) /\ Head(q) = q[1]
      /\ Len(Tail(q)) = Len(q) - 1 /\ Len(q) \in Nat \ {0} /\ Head(q) \in Message(Ops)
  BY TailSlides
<1>2. ASSUME NEW n \in 1 .. Len(Tail(q)), NEW i \in Nat, Tail(q)[n].op = "add", Tail(q)[n].id = i
      PROVE  Client(i)' /\ (Cared(i)' \/ Behind(Tail(q), n, i))
  <2>1. PICK l \in 1 .. Len(q) : l = n + 1 /\ l - 1 = n /\ l > 1
    BY <1>1
  <2>2. q[l] = Tail(q)[n]
    BY <1>1, <2>1 DEF Slides
  <2>3. Client(i) /\ (Cared(i) \/ Behind(q, l, i))
    BY <1>2, <2>2 DEF Adds
  <2>4. Behind(q, l, i) => Behind(Tail(q), l - 1, i)
    BY <1>1, BehindSlides
  <2> QED
    BY <2>1, <2>3, <2>4
<1>3. ASSUME Head(q).op = "add"
      PROVE  Client(Head(q).id) /\ (Cared(Head(q).id) \/ Among("remove", Head(q).id, Tail(q)))
  <2>1. PICK i \in Nat : i = Head(q).id
    BY <1>1 DEF Message
  <2>2. Client(i) /\ (Cared(i) \/ Behind(q, 1, i)) /\ 1 \in 1 .. Len(q)
    BY <1>1, <1>3, <2>1 DEF Adds
  <2>3. Behind(q, 1, i) => Among("remove", i, Tail(q))
    BY <1>1, <2>2, BehindSlides
  <2> QED
    BY <2>1, <2>2, <2>3
<1> QED
  BY <1>2, <1>3

\* The PTY thread passes a layout on.
LEMMA PtyThreads ==
  ASSUME RouterInv, ThreadsInv, PtyStep
  PROVE  ThreadsInv'
<1>0. Types /\ Running /\ UNCHANGED server
      /\ \A i : /\ (Cared(i)' <=> Cared(i)) /\ (Client(i)' <=> Client(i))
                /\ (Watches(i)' <=> Watches(i))
  BY ThreadStepKeeps DEF RouterInv, ThreadStep
<1>1. /\ ptyQ # <<>> /\ ptyQ' = Tail(ptyQ) /\ screenQ' = Append(screenQ, Head(ptyQ))
      /\ UNCHANGED <<pluginQ, active, highest, plugged, server>> /\ server = "up"
  BY DEF PtyStep, screenVars
<1>2. Head(ptyQ) \in Message(Ops) /\ Head(ptyQ).op = "layout" /\ Head(ptyQ) \in Message({"layout"})
  <2>1. Head(ptyQ) \in Message({"layout"})
    BY <1>0, <1>1 DEF Types
  <2> QED
    BY <2>1, ForThreads DEF Message
<1>3. /\ screenQ \in Seq(Message(Ops))
      /\ screenQ' = screenQ \/ \E m \in Message(Ops) : screenQ' = Append(screenQ, m)
  BY <1>0, <1>1, <1>2 DEF Types
<1>4. \A i, op : Among(op, i, screenQ) => Among(op, i, screenQ')
  BY <1>3, AmongGrows
<1>5. ActiveInv' /\ PluggedInv' /\ StartInv'
  BY <1>0, <1>1, <1>4 DEF ThreadsInv, ActiveInv, PluggedInv, StartInv
<1>6. AddsInv'
  <2>1. Adds(screenQ) /\ Adds(pluginQ)
    BY <1>0 DEF ThreadsInv, AddsInv
  <2>2. \A m \in Message(Ops) : screenQ' = Append(screenQ, m) => m = Head(ptyQ)
    <3>1. ASSUME NEW m \in Message(Ops), screenQ' = Append(screenQ, m) PROVE m = Head(ptyQ)
      <4>1. screenQ'[Len(screenQ) + 1] = m
        BY <1>3, <3>1, AppendSlides
      <4>2. screenQ'[Len(screenQ) + 1] = Head(ptyQ)
        BY <1>1, <1>2, <1>3, AppendSlides
      <4> QED
        BY <4>1, <4>2
    <3> QED
      BY <3>1
  <2>3. \A n \in 1 .. Len(screenQ'), i \in Nat :
          screenQ'[n].op = "add" /\ screenQ'[n].id = i =>
            Client(i)' /\ (Cared(i)' \/ Behind(screenQ', n, i))
    BY <1>0, <1>2, <1>3, <2>1, <2>2, AddsGrow
  <2>4. Adds(screenQ)'
    BY <2>3 DEF Adds
  <2>5. Adds(pluginQ)'
    BY <1>0, <1>1, <2>1 DEF Adds, Behind
  <2> QED
    BY <2>4, <2>5 DEF AddsInv
<1>7. PlacedInv'
  <2>1. ASSUME NEW i \in Nat, Mentioned(i)' PROVE Placed(i)'
    <3>1. Mentioned(i)
      <4>1. CASE Among("layout", i, ptyQ')
        BY <1>0, <1>1, <4>1, AmongTail DEF Mentioned, Types
      <4>2. CASE Among("layout", i, screenQ') /\ ~Among("layout", i, screenQ)
        <5>1. Head(ptyQ).id = i
          BY <1>1, <1>2, <1>3, <4>2, AmongAppended
        <5>2. 1 \in 1 .. Len(ptyQ) /\ Head(ptyQ) = ptyQ[1]
          BY <1>0, <1>1, TailSlides DEF Types
        <5>3. Among("layout", i, ptyQ)
          BY <1>2, <5>1, <5>2 DEF Among
        <5> QED
          BY <5>3 DEF Mentioned
      <4>3. CASE Among("newtab", i, screenQ')
        <5>1. Among("newtab", i, screenQ)
          BY <1>1, <1>2, <1>3, <4>3, AmongAppended
        <5> QED
          BY <5>1 DEF Mentioned
      <4> QED
        BY <2>1, <4>1, <4>2, <4>3, <1>1 DEF Mentioned
    <3>2. Placed(i)
      BY <3>1, <1>0 DEF ThreadsInv, PlacedInv
    <3> QED
      BY <3>2, <1>0, <1>1, <1>4 DEF Placed
  <2> QED
    BY <2>1 DEF PlacedInv
<1> QED
  BY <1>5, <1>6, <1>7 DEF ThreadsInv

\* The plugin thread adds and removes clients, and passes tabs on.
LEMMA PluginThreads ==
  ASSUME RouterInv, ThreadsInv, PluginStep
  PROVE  ThreadsInv'
<1>0. Types /\ Running /\ UNCHANGED server
      /\ \A i : /\ (Cared(i)' <=> Cared(i)) /\ (Client(i)' <=> Client(i))
                /\ (Watches(i)' <=> Watches(i))
  BY ThreadStepKeeps DEF RouterInv, ThreadStep
<1> DEFINE m == Head(pluginQ)
<1>1. /\ pluginQ # <<>> /\ pluginQ' = Tail(pluginQ) /\ server = "up"
      /\ UNCHANGED <<screenQ, active, highest>>
      /\ \/ m.op = "add" /\ plugged' = plugged \cup {m.id} /\ ptyQ' = ptyQ
         \/ m.op = "remove" /\ plugged' = plugged \ {m.id} /\ ptyQ' = ptyQ
         \/ /\ m.op = "newtab" /\ plugged' = plugged
            /\ \E i \in IF m.id \in plugged \/ plugged = {} THEN {m.id} ELSE plugged :
                 ptyQ' = Append(ptyQ, Msg("layout", i))
  BY DEF PluginStep
<1>2. /\ pluginQ' \in Seq(Message(Ops)) /\ Slides(pluginQ, pluginQ', 1) /\ m = pluginQ[1]
      /\ Len(pluginQ) \in Nat \ {0} /\ m \in Message(Ops) /\ pluginQ \in Seq(Message(Ops))
  BY <1>0, <1>1, TailSlides DEF Types
<1>3. m.id \in Nat /\ Among(m.op, m.id, pluginQ)
  BY <1>2 DEF Message, Among
<1>4. Adds(screenQ) /\ Adds(pluginQ)
  BY <1>0 DEF ThreadsInv, AddsInv
<1>5. /\ \A n \in 1 .. Len(pluginQ'), i \in Nat :
           pluginQ'[n].op = "add" /\ pluginQ'[n].id = i =>
             Client(i)' /\ (Cared(i)' \/ Behind(pluginQ', n, i))
      /\ m.op = "add" => Client(m.id) /\ (Cared(m.id) \/ Among("remove", m.id, pluginQ'))
  BY <1>0, <1>1, <1>2, <1>4, AddsTail
<1>6. AddsInv'
  <2>1. Adds(pluginQ)'
    BY <1>5 DEF Adds
  <2>2. Adds(screenQ)'
    BY <1>0, <1>1, <1>4 DEF Adds, Behind
  <2> QED
    BY <2>1, <2>2 DEF AddsInv
<1>7. \A i, op : Among(op, i, pluginQ) /\ (m.op # op \/ m.id # i) => Among(op, i, pluginQ')
  BY <1>2, AmongSlides
<1>8. PluggedInv'
  <2>1. ASSUME NEW i \in plugged' PROVE Client(i) /\ (Cared(i) \/ Among("remove", i, pluginQ'))
    <3>1. CASE i \in plugged /\ (m.op # "remove" \/ m.id # i)
      BY <3>1, <1>0, <1>7 DEF ThreadsInv, PluggedInv
    <3>2. CASE m.op = "add" /\ m.id = i
      BY <3>2, <1>5
    <3> QED
      BY <3>1, <3>2, <1>1, <2>1
  <2> QED
    BY <2>1, <1>0 DEF PluggedInv
<1>9. ActiveInv' /\ StartInv'
  BY <1>0, <1>1 DEF ThreadsInv, ActiveInv, StartInv
<1>10. PlacedInv'
  <2>1. ASSUME NEW i \in Nat, Mentioned(i)' PROVE Placed(i)'
    <3>1. Mentioned(i)
      <4>1. CASE i \in plugged'
        BY <4>1, <1>1, <1>3 DEF Mentioned
      <4>2. CASE Among("add", i, pluginQ') \/ Among("newtab", i, pluginQ')
        BY <4>2, <1>1, <1>2, AmongTail DEF Mentioned
      <4>3. CASE Among("layout", i, ptyQ') /\ ~Among("layout", i, ptyQ)
        <5>1. PICK j \in IF m.id \in plugged \/ plugged = {} THEN {m.id} ELSE plugged :
                m.op = "newtab" /\ ptyQ' = Append(ptyQ, Msg("layout", j))
          BY <1>1, <4>3
        <5>2. j \in Nat
          BY <5>1, <1>0, <1>3 DEF Types
        <5>3. Msg("layout", j) \in Message({"layout"}) /\ Msg("layout", j).id = j
          BY <5>2 DEF Msg, Message
        <5>4. i = j
          BY <1>0, <4>3, <5>1, <5>3, AmongAppended DEF Types
        <5> QED
          BY <5>1, <5>4, <1>3 DEF Mentioned
      <4> QED
        BY <2>1, <4>1, <4>2, <4>3, <1>1 DEF Mentioned
    <3>2. Placed(i)
      BY <3>1, <1>0 DEF ThreadsInv, PlacedInv
    <3> QED
      BY <3>2, <1>0, <1>1 DEF Placed
  <2> QED
    BY <2>1 DEF PlacedInv
<1> QED
  BY <1>6, <1>8, <1>9, <1>10 DEF ThreadsInv

\* The layout of one that has no tab is for it, unless some client has one.
LEMMA LayoutClientIs ==
  ASSUME active \subseteq Nat, NEW i, LayoutClient(i) \notin active
  PROVE  LayoutClient(i) = i
<1>1. CASE active = {}
  BY <1>1 DEF LayoutClient
<1>2. CASE active # {}
  <2>1. Lowest(active) \in active
    BY <1>2, LeastNatural DEF Lowest
  <2> QED
    BY <2>1 DEF LayoutClient
<1> QED
  BY <1>1, <1>2

\* Screen adds and removes clients, and gives them tabs.
LEMMA ScreenThreads ==
  ASSUME RouterInv, ThreadsInv, ScreenStep
  PROVE  ThreadsInv'
<1>0. Types /\ Running /\ UNCHANGED server
      /\ \A i : /\ (Cared(i)' <=> Cared(i)) /\ (Client(i)' <=> Client(i))
                /\ (Watches(i)' <=> Watches(i))
  BY ThreadStepKeeps DEF RouterInv, ThreadStep
<1> DEFINE m == Head(screenQ)
<1>1. /\ screenQ # <<>> /\ screenQ' = Tail(screenQ) /\ server = "up" /\ UNCHANGED <<ptyQ, plugged>>
      /\ pluginQ' = pluginQ \/ (m.op = "newtab" /\ pluginQ' = Append(pluginQ, m))
  BY DEF ScreenStep, ApplyLayout, screenVars
<1>2. /\ screenQ' \in Seq(Message(Ops)) /\ Slides(screenQ, screenQ', 1) /\ m = screenQ[1]
      /\ Len(screenQ) \in Nat \ {0} /\ m \in Message(Ops) /\ screenQ \in Seq(Message(Ops))
  BY <1>0, <1>1, TailSlides DEF Types
<1>3. m.id \in Nat /\ Among(m.op, m.id, screenQ)
  BY <1>2 DEF Message, Among
<1>4. Adds(screenQ) /\ Adds(pluginQ)
  BY <1>0 DEF ThreadsInv, AddsInv
<1>5. /\ \A n \in 1 .. Len(screenQ'), i \in Nat :
           screenQ'[n].op = "add" /\ screenQ'[n].id = i =>
             Client(i)' /\ (Cared(i)' \/ Behind(screenQ', n, i))
      /\ m.op = "add" => Client(m.id) /\ (Cared(m.id) \/ Among("remove", m.id, screenQ'))
  BY <1>0, <1>1, <1>2, <1>4, AddsTail
<1>6. /\ pluginQ \in Seq(Message(Ops))
      /\ pluginQ' = pluginQ \/ \E o \in Message(Ops) : pluginQ' = Append(pluginQ, o)
  BY <1>0, <1>1, <1>2 DEF Types
<1>7. \A i, op : Among(op, i, screenQ) /\ (m.op # op \/ m.id # i) => Among(op, i, screenQ')
  BY <1>2, AmongSlides
<1>8. \A i, op : Among(op, i, pluginQ) => Among(op, i, pluginQ')
  BY <1>6, AmongGrows
<1>9. AddsInv'
  <2>1. Adds(screenQ)'
    BY <1>5 DEF Adds
  <2>2. \A o \in Message(Ops) : pluginQ' = Append(pluginQ, o) => o.op # "add"
    <3>1. ASSUME NEW o \in Message(Ops), pluginQ' = Append(pluginQ, o) PROVE o.op # "add"
      <4>1. /\ pluginQ'[Len(pluginQ) + 1] = o /\ Len(pluginQ') = Len(pluginQ) + 1
            /\ Len(pluginQ) \in Nat
        BY <1>6, <3>1, AppendSlides
      <4>2. pluginQ' # pluginQ
        BY <4>1
      <4>3. m.op = "newtab" /\ pluginQ' = Append(pluginQ, m)
        BY <1>1, <4>2
      <4>4. pluginQ'[Len(pluginQ) + 1] = m
        BY <1>2, <1>6, <4>3, AppendSlides
      <4> QED
        BY <4>1, <4>3, <4>4
    <3> QED
      BY <3>1
  <2>3. \A n \in 1 .. Len(pluginQ'), i \in Nat :
          pluginQ'[n].op = "add" /\ pluginQ'[n].id = i =>
            Client(i)' /\ (Cared(i)' \/ Behind(pluginQ', n, i))
    BY <1>0, <1>4, <1>6, <2>2, AddsGrow
  <2>4. Adds(pluginQ)'
    BY <2>3 DEF Adds
  <2> QED
    BY <2>1, <2>4 DEF AddsInv
<1>10. PluggedInv' /\ StartInv'
  BY <1>0, <1>1, <1>8 DEF ThreadsInv, PluggedInv, StartInv
<1>11. /\ ActiveInv' /\ highest' \in Nat /\ highest' >= highest
       /\ (m.op = "remove" => highest' >= m.id)
  <2>1. \A i \in active : Watches(i) \/ Cared(i) \/ Among("remove", i, screenQ)
    BY <1>0 DEF ThreadsInv, ActiveInv
  <2>2. active \subseteq Nat /\ highest \in Nat
    BY <1>0 DEF Types
  <2>3. CASE /\ active' \subseteq active /\ (m.op = "remove" => m.id \notin active')
             /\ highest' \in Nat /\ highest' >= highest /\ (m.op = "remove" => highest' >= m.id)
    <3>1. \A i \in active' : Watches(i) \/ Cared(i) \/ Among("remove", i, screenQ')
      BY <2>1, <2>3, <1>7
    <3> QED
      BY <3>1, <2>3, <1>0 DEF ActiveInv
  <2>4. CASE /\ m.op \in {"add", "layout"} /\ active' = active \cup {m.id}
             /\ highest' = Larger(highest, m.id)
             /\ m.op = "layout" => ~(m.id <= highest)
    <3>1. Watches(m.id) \/ Cared(m.id) \/ Among("remove", m.id, screenQ')
      <4>1. CASE m.op = "add"
        BY <4>1, <1>5
      <4>2. CASE m.op = "layout"
        <5>1. Placed(m.id)
          BY <4>2, <1>3, <1>0 DEF ThreadsInv, PlacedInv, Mentioned
        <5> QED
          BY <5>1, <4>2, <2>4, <1>7 DEF Placed
      <4> QED
        BY <4>1, <4>2, <2>4
    <3>2. \A i \in active' : Watches(i) \/ Cared(i) \/ Among("remove", i, screenQ')
      BY <2>1, <2>4, <3>1, <1>7
    <3>3. highest' \in Nat /\ highest' >= highest
      BY <2>2, <2>4, <1>3 DEF Larger
    <3> QED
      BY <3>2, <3>3, <2>4, <1>0 DEF ActiveInv
  <2>5. CASE m.op = "layout" /\ ApplyLayout(m.id)
    <3> DEFINE c == LayoutClient(m.id)
    <3>1. CASE UNCHANGED <<active, highest>>
      BY <3>1, <2>2, <2>3, <2>5
    <3>2. CASE c \notin active /\ ~(c <= highest) /\ AddToScreen(c, connected \cup {c})
      <4>1. c = m.id
        BY <3>2, <2>2, LayoutClientIs
      <4> QED
        BY <3>2, <4>1, <2>4, <2>5 DEF AddToScreen
    <3> QED
      BY <2>5, <3>1, <3>2 DEF ApplyLayout, HasSinceDisconnected, screenVars
  <2>6. CASE m.op = "add" /\ AddToScreen(m.id, connected)
    BY <2>6, <2>4 DEF AddToScreen
  <2>7. CASE m.op = "remove" /\ RemoveFromScreen(m.id)
    <3>1. active' \subseteq active /\ m.id \notin active' /\ highest' = Larger(highest, m.id)
      BY <2>7 DEF RemoveFromScreen
    <3>2. highest' \in Nat /\ highest' >= highest /\ highest' >= m.id
      BY <3>1, <2>2, <1>3 DEF Larger
    <3> QED
      BY <3>1, <3>2, <2>3
  <2>8. CASE m.op \in {"newtab", "watch", "unwatch"}
    <3>1. UNCHANGED <<active, highest>>
      BY <2>8 DEF ScreenStep, screenVars
    <3> QED
      BY <3>1, <2>2, <2>3, <2>8
  <2> QED
    BY <2>5, <2>6, <2>7, <2>8 DEF ScreenStep
<1>12. PlacedInv'
  <2>1. ASSUME NEW i \in Nat, Mentioned(i)' PROVE Placed(i)'
    <3>1. Mentioned(i)
      <4>1. CASE Among("newtab", i, screenQ') \/ Among("layout", i, screenQ')
        BY <4>1, <1>1, <1>2, AmongTail DEF Mentioned
      <4>2. CASE Among("add", i, pluginQ') /\ ~Among("add", i, pluginQ)
        BY <4>2, <1>1, <1>2, <1>6, AmongAppended
      <4>3. CASE Among("newtab", i, pluginQ') /\ ~Among("newtab", i, pluginQ)
        <5>0. pluginQ' = Append(pluginQ, m) /\ m.op = "newtab"
          BY <4>3, <1>1
        <5>1. m.id = i
          BY <4>3, <5>0, <1>2, <1>6, AmongAppended
        <5> QED
          BY <5>0, <5>1, <1>3 DEF Mentioned
      <4> QED
        BY <2>1, <4>1, <4>2, <4>3, <1>1 DEF Mentioned
    <3>2. Placed(i)
      BY <3>1, <1>0 DEF ThreadsInv, PlacedInv
    <3>3. i <= highest => i <= highest'
      BY <1>11, <1>0 DEF Types
    <3>4. Among("remove", i, screenQ) => Among("remove", i, screenQ') \/ i <= highest'
      BY <1>7, <1>11
    <3> QED
      BY <3>2, <3>3, <3>4, <1>0 DEF Placed
  <2> QED
    BY <2>1 DEF PlacedInv
<1> QED
  BY <1>9, <1>10, <1>11, <1>12 DEF ThreadsInv

-----------------------------------------------------------------------------

Inv == RouterInv /\ StateInv /\ SendersInv /\ KeptInv /\ ThreadsInv

\* The invariant holds at first,
LEMMA InvInit ==
  ASSUME Init
  PROVE  Inv
<1>1. RouterInv
  BY ClientsAssumption DEF Init, RouterInv, Types, IdsInv, MessagesInv, None, Live, Kinds, Conns
<1>2. StateInv /\ SendersInv
  BY DEF Init, StateInv, SendersInv, Known
<1>3. KeptInv
  BY DEF Init, KeptInv, Settled
<1>4. ThreadsInv
  BY DEF Init, ThreadsInv, StartInv, ActiveInv, PluggedInv, AddsInv, PlacedInv, Adds, Among,
    Mentioned
<1> QED
  BY <1>1, <1>2, <1>3, <1>4 DEF Inv

\* and after every step,
LEMMA InvNext ==
  ASSUME MaxConns < LastId, Inv, Next
  PROVE  Inv'
<1>0. RouterInv /\ StateInv /\ SendersInv /\ KeptInv /\ ThreadsInv
  BY DEF Inv
<1>1. Effect
  BY <1>0, EveryEffect
<1>2. RouterInv'
  BY <1>0, RouterInvStep
<1>3. StateInv'
  BY <1>0, <1>1, StateStep
<1>4. SendersInv' /\ KeptInv'
  BY <1>0, <1>1, KeptStep
<1>5. ThreadsInv'
  BY <1>0, <1>1, EnqueuesSplit, EnqueuesThreads, ScreenThreads, PluginThreads,
    PtyThreads DEF ThreadStep
<1> QED
  BY <1>2, <1>3, <1>4, <1>5 DEF Inv

\* and when nothing happens.
LEMMA InvStutter ==
  ASSUME Inv, UNCHANGED vars
  PROVE  Inv'
<1>1. UNCHANGED <<kind, id, told, router, server, inbox, clients, watchers, pipes, lastActive,
                  nextId, senders, screenQ, active, highest, pluginQ, plugged, ptyQ>>
  BY DEF vars
<1>2. RouterInv'
  BY <1>1 DEF Inv, RouterInv, Types, IdsInv, MessagesInv, Here, Behind, Running
<1>3. \A i : (Cared(i)' <=> Cared(i)) /\ (Watches(i)' <=> Watches(i)) /\ (Client(i)' <=> Client(i))
  BY <1>1 DEF Cared, Here, Among, Watches, Client
<1>4. StateInv'
  BY <1>1 DEF Inv, StateInv, Known, Running, Cared, Here, Among, Watches
<1>5. SendersInv' /\ KeptInv'
  BY <1>1 DEF Inv, SendersInv, KeptInv, Running, Settled, Among
<1>6. StartInv' /\ ActiveInv' /\ PluggedInv'
  BY <1>1, <1>3 DEF Inv, ThreadsInv, StartInv, ActiveInv, PluggedInv, Running, Among
<1>7. AddsInv'
  BY <1>1, <1>3 DEF Inv, ThreadsInv, AddsInv, Adds, Behind, Running
<1>8. PlacedInv'
  BY <1>1, <1>3 DEF Inv, ThreadsInv, PlacedInv, Mentioned, Placed, Among, Running
<1> QED
  BY <1>2, <1>4, <1>5, <1>6, <1>7, <1>8 DEF Inv, ThreadsInv

\* The invariant, for any values of the constants that leave every id to one connection.
THEOREM InvariantHolds ==
  ASSUME MaxConns < LastId
  PROVE  Spec => []Inv
<1>1. Init => Inv
  BY InvInit
<1>2. Inv /\ [Next]_vars => Inv'
  BY InvNext, InvStutter
<1> QED
  BY <1>1, <1>2, PTL DEF Spec

\* What the invariant says of those the session and its threads know of.
LEMMA NothingLeft ==
  ASSUME Inv
  PROVE  NothingLeftBehind
<1>1. IdsInv
  BY DEF Inv, RouterInv
<1>2. ASSUME NEW i, Cared(i) PROVE Attended(i)
  <2>1. CASE Here(i)
    <3>1. i \in Conns /\ router[i] \in Live /\ id[i] = i
      BY <2>1, <1>1 DEF Here, IdsInv, Live
    <3> QED
      BY <3>1 DEF Attended
  <2> QED
    BY <1>2, <2>1 DEF Cared, Attended
<1>3. ASSUME NEW i, Watches(i) PROVE i \in Watchers
  <2>1. i \in Conns /\ kind[i] = "watch" /\ id[i] = i
    BY <1>1, <1>3 DEF Watches, IdsInv
  <2> QED
    BY <2>1 DEF Watchers
<1>4. SUFFICES ASSUME server = "up" PROVE NothingLeftBehind
  BY DEF NothingLeftBehind
<1>5. Running
  BY <1>4 DEF Running
<1>6. \A i \in Known : Attended(i)
  BY <1>2, <1>5 DEF Inv, StateInv
<1>7. \A i \in active \ Watchers : Attended(i) \/ Among("remove", i, screenQ)
  BY <1>2, <1>3, <1>5 DEF Inv, ThreadsInv, ActiveInv
<1>8. \A i \in plugged : Attended(i) \/ Among("remove", i, pluginQ)
  BY <1>2, <1>5 DEF Inv, ThreadsInv, PluggedInv
<1> QED
  BY <1>6, <1>7, <1>8 DEF NothingLeftBehind, Known

\* What it says of those who have not been told.
LEMMA KeptOrElseTold ==
  ASSUME Inv
  PROVE  KeptOrTold
<1>1. \A c \in Conns : router[c] = "running" => id[c] = c
  BY DEF Inv, RouterInv, IdsInv
<1> QED
  BY <1>1 DEF Inv, KeptInv, KeptOrTold, Settled

\* Nothing of a client outlives it: whoever the session state, Screen or the plugins
\* have is there, or its removal is on its way to whoever has it.
THEOREM NobodyLeftBehind ==
  ASSUME MaxConns < LastId
  PROVE  Spec => []NothingLeftBehind
<1>1. Inv => NothingLeftBehind
  BY NothingLeft
<1> QED
  BY <1>1, InvariantHolds, PTL

\* A client whose first message has been handled and that was not sent an Exit is one
\* the session knows of.
THEOREM NobodyDropped ==
  ASSUME MaxConns < LastId
  PROVE  Spec => []KeptOrTold
<1>1. Inv => KeptOrTold
  BY KeptOrElseTold
<1> QED
  BY <1>1, InvariantHolds, PTL

-----------------------------------------------------------------------------
(* ClientSender: what holds of the buffer and the thread of one of those   *)
(* clients, for every number of callers and every limit: the counter is    *)
(* exact, and what was accepted is written in order with one Exit at the   *)
(* end (ClientStream). Both rest on the lock of client_senders: at most    *)
(* one caller is between its lookup and its outcome, and the entry it has  *)
(* found stays until then.                                                 *)

Locking == {"count", "push", "uncount"}

\* One caller at a time, and the entry is not removed under it.
LockInv ==
  /\ \A c, d \in Callers : at[c] \in Locking /\ at[d] \in Locking => c = d
  /\ \A c \in Callers : at[c] \in Locking => entry

\* A caller that has found room still has it: the thread only makes more.
RoomInv == \A c \in Callers : at[c] = "push" => Len(queue) + InHand < Limit

\* How many messages the thread has taken and not yet written.
Taken == IF thread \in {"uncount", "write"} THEN 1 ELSE 0

\* While the client listens, what was accepted is what was written, what the
\* thread has in hand and what is in the channel, in this order.
StreamInv ==
  listening =>
    /\ Len(accepted) = Len(written) + Taken + Len(queue)
    /\ Taken = 1 => hand = accepted[Len(written) + 1]
    /\ \A n \in 1 .. Len(queue) : queue[n] = accepted[Len(written) + Taken + n]
    /\ \A n \in 1 .. Len(written) : written[n] = accepted[n]

\* The Exit is written once, when the thread ends; it ends when all is written.
ExitInv ==
  /\ thread # "ended" => exits = 0
  /\ thread = "ended" => ~entry /\ queue = <<>> /\ exits <= 1

SenderInv == SenderTypeOK /\ LockInv /\ CountExact /\ RoomInv /\ StreamInv /\ ExitInv
-----------------------------------------------------------------------------

\* What Append does to a sequence of messages.
LEMMA AppendFacts ==
  ASSUME NEW s \in Seq(Nat), NEW m \in Nat
  PROVE  /\ Append(s, m) \in Seq(Nat)
         /\ Len(Append(s, m)) = Len(s) + 1
         /\ \A n \in 1 .. Len(s) : Append(s, m)[n] = s[n]
         /\ Append(s, m)[Len(s) + 1] = m
  OBVIOUS

\* What Head and Tail make of one that is not empty.
LEMMA TailFacts ==
  ASSUME NEW s \in Seq(Nat), s # <<>>
  PROVE  /\ Tail(s) \in Seq(Nat)
         /\ Len(Tail(s)) = Len(s) - 1
         /\ Head(s) \in Nat /\ Head(s) = s[1]
         /\ \A n \in 1 .. Len(s) - 1 : Tail(s)[n] = s[n + 1]
  OBVIOUS

\* The initial states satisfy the invariant.
LEMMA InitSenderInv == SenderInit => SenderInv
  BY SMT, SenderAssumption
  DEF SenderInit, SenderInv, SenderTypeOK, LockInv, CountExact, RoomInv, StreamInv, ExitInv, Pending, InHand,
      Taken, Locking

\* No caller is under way while the lock is free, so nothing is pending.
LEMMA NothingPending ==
  ASSUME Unlocked
  PROVE  Pending = 0
  BY DEF Unlocked, Pending

\* The caller that counts is alone, so nothing else is pending.
LEMMA AloneCounting ==
  ASSUME LockInv, NEW c \in Callers, at[c] = "count"
  PROVE  Pending = 0
  BY DEF LockInv, Pending, Locking

\* Every step keeps the invariant.
LEMMA NextSenderInv == SenderInv /\ [SenderNext]_senderVars => SenderInv'
<1> SUFFICES ASSUME SenderInv, [SenderNext]_senderVars
             PROVE  SenderInv'
  OBVIOUS
<1> USE SenderAssumption DEF SenderInv, SenderTypeOK, Locking
<1>1. ASSUME NEW c \in Callers, Lookup(c)
      PROVE  SenderInv'
  <2> USE <1>1 DEF Lookup, bufferVars, historyVars
  <2>1. SenderTypeOK' OBVIOUS
  <2>2. LockInv' BY DEF LockInv, Unlocked
  <2>3. Pending = 0 /\ Pending' = 0 BY NothingPending DEF Pending, Unlocked
  <2>4. CountExact' /\ RoomInv' BY <2>3 DEF CountExact, RoomInv, InHand
  <2>5. StreamInv' /\ ExitInv' BY DEF StreamInv, ExitInv, Taken
  <2> QED BY <2>1, <2>2, <2>4, <2>5
<1>2. ASSUME NEW c \in Callers, Count(c)
      PROVE  SenderInv'
  <2> USE <1>2 DEF Count, historyVars
  <2>1. SenderTypeOK' OBVIOUS
  <2>2. LockInv' BY DEF LockInv
  <2>3. Pending = 0 BY AloneCounting
  <2>4. Pending' = 1 BY DEF Pending
  <2>5. CountExact' BY <2>3, <2>4 DEF CountExact, InHand
  <2>6. RoomInv'
    <3> SUFFICES ASSUME NEW d \in Callers, at'[d] = "push"
                 PROVE  Len(queue) + InHand < Limit
      BY DEF RoomInv, InHand
    <3>1. CASE d = c BY <3>1, <2>3 DEF CountExact, HasRoom, InHand
    <3>2. CASE d # c BY <3>2 DEF RoomInv
    <3> QED BY <3>1, <3>2
  <2>7. StreamInv' /\ ExitInv' BY DEF StreamInv, ExitInv, Taken
  <2> QED BY <2>1, <2>2, <2>5, <2>6, <2>7
<1>3. ASSUME NEW c \in Callers, Push(c)
      PROVE  SenderInv'
  <2> USE <1>3 DEF Push
  <2>1. SenderTypeOK' OBVIOUS
  <2>2. LockInv' BY DEF LockInv
  <2>3. Pending = 1 /\ Pending' = 0 BY DEF Pending, LockInv
  <2>4. CountExact' BY <2>3 DEF CountExact, RoomInv, InHand
  <2>5. RoomInv' BY DEF RoomInv, LockInv
  <2>6. StreamInv'
    <3> SUFFICES ASSUME listening
                 PROVE  StreamInv'
      BY DEF StreamInv
    <3>1. /\ Len(accepted) = Len(written) + Taken + Len(queue)
          /\ Len(written) \in Nat /\ Len(queue) \in Nat /\ Taken \in {0, 1} /\ Taken' = Taken
      BY DEF StreamInv, Taken
    <3>2. Len(accepted') = Len(written') + Taken' + Len(queue')
      BY <3>1, AppendFacts
    <3>3. Taken' = 1 => hand' = accepted'[Len(written') + 1]
      BY <3>1, AppendFacts DEF StreamInv
    <3>4. ASSUME NEW n \in 1 .. Len(queue')
          PROVE  queue'[n] = accepted'[Len(written') + Taken' + n]
      <4>1. CASE n = Len(queue) + 1
        <5>1. queue'[n] = attempts BY <4>1, AppendFacts
        <5>2. accepted'[Len(accepted) + 1] = attempts BY AppendFacts
        <5>3. Len(written') + Taken' + n = Len(accepted) + 1 BY <4>1, <3>1
        <5> QED BY <5>1, <5>2, <5>3
      <4>2. CASE n # Len(queue) + 1
        <5>1. n \in 1 .. Len(queue) BY <4>2, <3>1, AppendFacts
        <5>2. Len(written) + Taken + n \in 1 .. Len(accepted) BY <5>1, <3>1
        <5>3. queue'[n] = queue[n] BY <5>1, AppendFacts
        <5>4. accepted'[Len(written) + Taken + n] = accepted[Len(written) + Taken + n]
          BY <5>2, AppendFacts
        <5>5. queue[n] = accepted[Len(written) + Taken + n] BY <5>1 DEF StreamInv
        <5> QED BY <5>3, <5>4, <5>5, <3>1
      <4> QED BY <4>1, <4>2
    <3>5. \A n \in 1 .. Len(written') : written'[n] = accepted'[n]
      BY <3>1, AppendFacts DEF StreamInv
    <3> QED BY <3>2, <3>3, <3>4, <3>5 DEF StreamInv
  <2>7. ExitInv' BY DEF ExitInv, LockInv
  <2> QED BY <2>1, <2>2, <2>4, <2>5, <2>6, <2>7
<1>4. ASSUME NEW c \in Callers, Uncount(c)
      PROVE  SenderInv'
  <2> USE <1>4 DEF Uncount
  <2>1. Pending = 1 BY DEF Pending
  <2>2. Pending' = 0 BY DEF Pending, LockInv
  <2>3. SenderTypeOK' BY <2>1 DEF CountExact, InHand
  <2>4. LockInv' BY DEF LockInv
  <2>5. CountExact' BY <2>1, <2>2 DEF CountExact, InHand
  <2>6. RoomInv' BY DEF RoomInv, InHand
  <2>7. StreamInv' /\ ExitInv' BY DEF StreamInv, ExitInv, Taken
  <2> QED BY <2>2, <2>3, <2>4, <2>5, <2>6, <2>7
<1>5. ASSUME NEW c \in Callers, GiveUpClient(c)
      PROVE  SenderInv'
  <2> USE <1>5 DEF GiveUpClient, bufferVars, historyVars
  <2>1. SenderTypeOK' OBVIOUS
  <2>2. LockInv' BY DEF LockInv, Unlocked
  <2>3. Pending = 0 /\ Pending' = 0 BY NothingPending DEF Pending, Unlocked
  <2>4. CountExact' /\ RoomInv' BY <2>3 DEF CountExact, RoomInv, InHand
  <2>5. StreamInv' /\ ExitInv' BY DEF StreamInv, ExitInv, Taken
  <2> QED BY <2>1, <2>2, <2>4, <2>5
<1>6. ASSUME RemoveSender
      PROVE  SenderInv'
  <2> USE <1>6 DEF RemoveSender, bufferVars, historyVars
  <2>1. SenderTypeOK' OBVIOUS
  <2>2. LockInv' BY DEF LockInv, Unlocked
  <2>3. Pending' = Pending BY DEF Pending
  <2>4. CountExact' /\ RoomInv' BY <2>3 DEF CountExact, RoomInv, InHand
  <2>5. StreamInv' /\ ExitInv' BY DEF StreamInv, ExitInv, Taken
  <2> QED BY <2>1, <2>2, <2>4, <2>5
<1>7. ASSUME Receive
      PROVE  SenderInv'
  <2> USE <1>7 DEF Receive, historyVars
  <2>1. SenderTypeOK' OBVIOUS
  <2>2. LockInv' BY DEF LockInv
  <2>3. Pending' = Pending BY DEF Pending
  <2>4. Len(queue') = Len(queue) - 1 /\ InHand = 0 /\ InHand' = 1 BY DEF InHand
  <2>5. CountExact'
    <3>1. Pending \in {0, 1} /\ Len(queue) \in Nat BY DEF Pending
    <3> QED BY <2>3, <2>4, <3>1 DEF CountExact
  <2>6. RoomInv' BY <2>4 DEF RoomInv
  <2>7. StreamInv'
    <3> SUFFICES ASSUME listening
                 PROVE  StreamInv'
      BY DEF StreamInv
    <3>1. /\ Len(accepted) = Len(written) + Len(queue)
          /\ Len(written) \in Nat /\ Len(queue) \in Nat /\ Taken = 0 /\ Taken' = 1
      BY DEF StreamInv, Taken
    <3>2. hand' = accepted[Len(written) + 1] BY <3>1, TailFacts DEF StreamInv
    <3>3. ASSUME NEW n \in 1 .. Len(queue')
          PROVE  queue'[n] = accepted[Len(written) + 1 + n]
      <4>1. n + 1 \in 1 .. Len(queue) BY <2>4, <3>1
      <4>2. queue'[n] = queue[n + 1] BY <2>4, TailFacts
      <4>3. queue[n + 1] = accepted[Len(written) + Taken + (n + 1)]
        BY <4>1 DEF StreamInv
      <4> QED BY <4>2, <4>3, <3>1
    <3> QED BY <2>4, <3>1, <3>2, <3>3 DEF StreamInv
  <2>8. ExitInv' BY DEF ExitInv
  <2> QED BY <2>1, <2>2, <2>5, <2>6, <2>7, <2>8
<1>8. ASSUME CountOff
      PROVE  SenderInv'
  <2> USE <1>8 DEF CountOff, historyVars
  <2>1. Pending' = Pending /\ Pending \in {0, 1} BY DEF Pending
  <2>2. SenderTypeOK' BY <2>1 DEF CountExact, InHand
  <2>3. LockInv' BY DEF LockInv
  <2>4. CountExact' BY <2>1 DEF CountExact, InHand
  <2>5. RoomInv' BY DEF RoomInv, InHand
  <2>6. StreamInv' /\ ExitInv' BY DEF StreamInv, ExitInv, Taken
  <2> QED BY <2>2, <2>3, <2>4, <2>5, <2>6
<1>9. ASSUME Write
      PROVE  SenderInv'
  <2> USE <1>9 DEF Write, bufferVars
  <2>1. SenderTypeOK'
    <3>1. CASE listening BY <3>1, AppendFacts
    <3>2. CASE ~listening BY <3>2
    <3> QED BY <3>1, <3>2
  <2>2. LockInv' BY DEF LockInv
  <2>3. Pending' = Pending BY DEF Pending
  <2>4. CountExact' /\ RoomInv' BY <2>3 DEF CountExact, RoomInv, InHand
  <2>5. StreamInv'
    <3> SUFFICES ASSUME listening
                 PROVE  StreamInv'
      BY DEF StreamInv
    <3>1. /\ Len(written') = Len(written) + 1 /\ Len(written) \in Nat
          /\ Taken = 1 /\ Taken' = 0
      BY AppendFacts DEF Taken
    <3>2. Len(accepted) = Len(written') + Taken' + Len(queue)
      BY <3>1 DEF StreamInv
    <3>3. \A n \in 1 .. Len(queue) : queue[n] = accepted[Len(written') + Taken' + n]
      BY <3>1 DEF StreamInv
    <3>4. ASSUME NEW n \in 1 .. Len(written')
          PROVE  written'[n] = accepted[n]
      <4>1. CASE n = Len(written) + 1 BY <4>1, <3>1, AppendFacts DEF StreamInv
      <4>2. CASE n # Len(written) + 1
        <5>1. n \in 1 .. Len(written) BY <4>2, <3>1
        <5>2. written' = Append(written, hand) OBVIOUS
        <5>3. written'[n] = written[n] BY <5>1, <5>2, AppendFacts
        <5>4. written[n] = accepted[n] BY <5>1 DEF StreamInv
        <5> QED BY <5>3, <5>4
      <4> QED BY <4>1, <4>2
    <3> QED BY <3>1, <3>2, <3>3, <3>4 DEF StreamInv
  <2>6. ExitInv' BY DEF ExitInv
  <2> QED BY <2>1, <2>2, <2>4, <2>5, <2>6
<1>10. ASSUME LastExit
       PROVE  SenderInv'
  <2> USE <1>10 DEF LastExit, bufferVars
  <2>1. SenderTypeOK' OBVIOUS
  <2>2. LockInv' BY DEF LockInv
  <2>3. Pending' = Pending BY DEF Pending
  <2>4. CountExact' /\ RoomInv' BY <2>3 DEF CountExact, RoomInv, InHand
  <2>5. StreamInv' /\ ExitInv' BY DEF StreamInv, ExitInv, Taken
  <2> QED BY <2>1, <2>2, <2>4, <2>5
<1>11. ASSUME HangUp
       PROVE  SenderInv'
  <2> USE <1>11 DEF HangUp, bufferVars, historyVars
  <2>1. SenderTypeOK' /\ LockInv' BY DEF LockInv
  <2>2. Pending' = Pending BY DEF Pending
  <2>3. CountExact' /\ RoomInv' BY <2>2 DEF CountExact, RoomInv, InHand
  <2>4. StreamInv' /\ ExitInv' BY DEF StreamInv, ExitInv
  <2> QED BY <2>1, <2>3, <2>4
<1>12. CASE UNCHANGED senderVars
  <2> USE <1>12 DEF senderVars
  <2>1. SenderTypeOK' /\ LockInv' BY DEF LockInv
  <2>2. Pending' = Pending BY DEF Pending
  <2>3. CountExact' /\ RoomInv' BY <2>2 DEF CountExact, RoomInv, InHand
  <2>4. StreamInv' /\ ExitInv' BY DEF StreamInv, ExitInv, Taken
  <2> QED BY <2>1, <2>3, <2>4
<1> QED
  BY <1>1, <1>2, <1>3, <1>4, <1>5, <1>6, <1>7, <1>8, <1>9, <1>10, <1>11, <1>12
  DEF SenderNext, Caller, Thread

\* The invariant holds in every reachable state.
LEMMA SpecSenderInv == SenderSpec => []SenderInv
  BY InitSenderInv, NextSenderInv, PTL DEF SenderSpec

-----------------------------------------------------------------------------

\* Every variable keeps its type; in particular the counter stays a natural
\* number though two threads decrement it.
THEOREM SenderTypeCorrect == SenderSpec => []SenderTypeOK
<1>1. SenderInv => SenderTypeOK BY DEF SenderInv
<1> QED BY <1>1, SpecSenderInv, PTL

\* The counter is exact at every step, and the channel never holds more than
\* the limit.
THEOREM CountIsExact == SenderSpec => []CountExact
<1>1. SenderInv => CountExact BY DEF SenderInv
<1> QED BY <1>1, SpecSenderInv, PTL

\* The thread ends only when there is nobody left who could send, with an
\* empty channel and one Exit at most.
THEOREM ThreadOutlivesSenders == SenderSpec => []SenderGone
<1>1. SenderInv => SenderGone
  BY DEF SenderInv, SenderTypeOK, ExitInv, LockInv, SenderGone, Unlocked, Locking
<1> QED BY <1>1, SpecSenderInv, PTL

-----------------------------------------------------------------------------
(* The buffer and its thread implement ClientStream *)

\* The initial states are initial states of the abstract stream.
LEMMA InitStream == SenderInit => Stream!Init
  BY DEF SenderInit, Stream!Init

\* Every step is a step of the abstract stream, or one it does not see: a
\* message is accepted when it is put into the channel and delivered when it is
\* written.
LEMMA NextStream == SenderInv /\ [SenderNext]_senderVars => [Stream!Next]_(Stream!vars)
<1> SUFFICES ASSUME SenderInv, [SenderNext]_senderVars
             PROVE  [Stream!Next]_(Stream!vars)
  OBVIOUS
<1> USE DEF SenderInv, SenderTypeOK
<1>1. ASSUME NEW c \in Callers, Push(c)
      PROVE  Stream!Accept
  BY <1>1 DEF Push, Stream!Accept, LockInv, Locking
<1>2. ASSUME NEW c \in Callers, GiveUpClient(c)
      PROVE  Stream!Remove
  BY <1>2 DEF GiveUpClient, Stream!Remove, bufferVars, historyVars
<1>3. ASSUME RemoveSender
      PROVE  Stream!Remove
  BY <1>3 DEF RemoveSender, Stream!Remove, bufferVars, historyVars
<1>4. ASSUME Write, listening
      PROVE  Stream!Deliver
  BY <1>4 DEF Write, Stream!Deliver, StreamInv, Taken
<1>5. ASSUME LastExit, listening
      PROVE  Stream!Exit
  <2>1. Len(written) = Len(accepted) BY <1>5 DEF LastExit, StreamInv, Taken
  <2>2. written = accepted BY <2>1, <1>5 DEF StreamInv
  <2>3. exits = 0 /\ exits' = 1 BY <1>5 DEF LastExit, ExitInv
  <2> QED BY <1>5, <2>2, <2>3 DEF LastExit, Stream!Exit
<1>6. ASSUME HangUp
      PROVE  Stream!HangUp
  BY <1>6 DEF HangUp, Stream!HangUp, bufferVars, historyVars
<1>7. ASSUME NEW c \in Callers, Lookup(c) \/ Count(c) \/ Uncount(c)
      PROVE  UNCHANGED Stream!vars
  BY <1>7 DEF Lookup, Count, Uncount, Stream!vars, historyVars
<1>8. ASSUME Receive \/ CountOff \/ UNCHANGED senderVars
      PROVE  UNCHANGED Stream!vars
  BY <1>8 DEF Receive, CountOff, senderVars, Stream!vars, historyVars
<1>9. ASSUME Write \/ LastExit, ~listening
      PROVE  UNCHANGED Stream!vars
  BY <1>9 DEF Write, LastExit, Stream!vars
<1> QED
  BY <1>1, <1>2, <1>3, <1>4, <1>5, <1>6, <1>7, <1>8, <1>9
  DEF SenderNext, Caller, Thread, Stream!Next

\* What was accepted is written in order, and one Exit comes last.
THEOREM SenderImplementsStream == SenderSpec => InOrder
  BY InitStream, NextStream, SpecSenderInv, PTL DEF SenderSpec, InOrder, Stream!Spec
=============================================================================
