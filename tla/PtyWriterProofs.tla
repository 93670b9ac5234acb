--------------------------- MODULE PtyWriterProofs ---------------------------
(***************************************************************************)
(* PtyWriter, and NestedSessions, whose frames it writes to the guests.    *)
(*                                                                         *)
(* For any terminals, limits and numbers of instructions, on every system: *)
(* the thread keeps no more than it may (TypeOK), programs get their bytes *)
(* in order (ReceivedInOrder), the last resize wins (LastResizeWins), and  *)
(* on Windows a chunk that is begun is finished (HeadKept).                *)
(*                                                                         *)
(* The argument for the order: what was sent to a terminal and has not     *)
(* been received is, without a loss, exactly what is pending and in the    *)
(* inbox; and as chunks are numbered as they are sent, the next byte to be *)
(* written is the least of those.                                          *)
(*                                                                         *)
(* NestedSessions, for any clients, panes, budget and room: keys pass only *)
(* to guests that are there and were chosen, for clients that see a dimmed *)
(* host (KeysAsShown), and a guest that gets keys knows it                 *)
(* (GuestKnowsFocus).                                                      *)
(*                                                                         *)
(* The argument for the first is about where a client's keys will go when  *)
(* the main loop has handled what Screen has sent it (Ends): Screen makes  *)
(* every change that concerns it in the step that sends the news of it. A  *)
(* pane that is gone is an exception until the end of its program is       *)
(* handled; then the choices made for it must still be known, which takes  *)
(* that its output has no two announcements but with a goodbye between.    *)
(*                                                                         *)
(* For the second: once a guest knows that it has the focus, it does as    *)
(* long as somebody's keys go to it, since the main loop tells it of the   *)
(* first that come and the last that go (KnowsInv). A guest that starts    *)
(* announces itself, and when Screen answers either a client has descended *)
(* and it is told so, or nobody's keys end with it.                        *)
(***************************************************************************)
EXTENDS PtyWriter, NestedSessions, SequenceTheorems, FiniteSetTheorems, WellFoundedInduction, TLAPS

Bytes == Ids \X (1 .. MaxLength)
Kept == {c \in Chunk : c.offset < c.length}
Whole == {c \in Chunk : c.offset = 0}
Instructions ==
  [kind : {"write"}, terminal : Terminals, chunk : Whole]
  \cup [kind : {"resize"}, terminal : Terminals, size : Ids]
  \cup [kind : {"cancel"}, terminal : Terminals]
  \cup [kind : {"start_caching", "apply_cached", "exit"}]

\* TypeOK, but that the chunks on their way are whole.
Types ==
  /\ windows \in BOOLEAN
  /\ inbox \in Seq(Instructions)
  /\ pending \in [Terminals -> Seq(Kept)]
  /\ pc \in {"recv", "drain", "exited"}
  /\ to_visit \subseteq Terminals
  /\ room \in [Terminals -> 0 .. KernelRoom]
  /\ alive \subseteq Terminals
  /\ caching \in BOOLEAN
  /\ cached \in [Terminals -> Ids \cup {0}]
  /\ size \in [Terminals -> Ids \cup {0}]
  /\ sends \in 0 .. MaxSends
  /\ sent \in [Terminals -> Seq(Bytes)]
  /\ received \in [Terminals -> Seq(Bytes)]
  /\ lossy \subseteq Terminals
  /\ wanted \in [Terminals -> Ids \cup {0}]

WithinLimit == \A t \in Terminals : Queued(t) <= MaxPending

ResizeAt(i, t) == inbox[i].kind = "resize" /\ inbox[i].terminal = t

LastIsWanted(t) ==
  \E i \in 1 .. Len(inbox) :
    /\ ResizeAt(i, t) /\ inbox[i].size = wanted[t]
    /\ \A j \in i + 1 .. Len(inbox) : ~ResizeAt(j, t)
NoResize(t) == \A i \in 1 .. Len(inbox) : ~ResizeAt(i, t)

\* The size last asked for is that of the last resize on its way, or else the one
\* that is held back, or else the terminal's.
SizesInv ==
  \A t \in Terminals :
    /\ ~caching => cached[t] = 0
    /\ \/ LastIsWanted(t)
       \/ NoResize(t) /\ wanted[t] = IF cached[t] # 0 THEN cached[t] ELSE size[t]

Before(a, b) == a[1] < b[1] \/ (a[1] = b[1] /\ a[2] < b[2])
Increasing(q) == \A j, k \in 1 .. Len(q) : j < k => Before(q[j], q[k])

WriteAt(i) == inbox[i].kind = "write"

\* Chunks are numbered in the order in which they are sent: those in the inbox follow
\* each other and all that is pending or received.
InboxNumbers ==
  \A i \in 1 .. Len(inbox) : WriteAt(i) =>
    /\ inbox[i].chunk.n <= sends
    /\ \A j \in 1 .. Len(inbox) : WriteAt(j) /\ i < j => inbox[i].chunk.n < inbox[j].chunk.n
    /\ \A t \in Terminals :
         /\ \A k \in 1 .. Len(pending[t]) : pending[t][k].n < inbox[i].chunk.n
         /\ \A k \in 1 .. Len(received[t]) : received[t][k][1] < inbox[i].chunk.n

\* Those pending follow each other and all that is received.
QueueNumbers ==
  \A t \in Terminals :
    /\ \A k \in 1 .. Len(sent[t]) : sent[t][k][1] <= sends
    /\ \A k \in 1 .. Len(received[t]) : received[t][k][1] <= sends
    /\ \A k \in 1 .. Len(pending[t]) :
         /\ pending[t][k].n <= sends
         /\ \A j \in 1 .. Len(pending[t]) : k < j => pending[t][k].n < pending[t][j].n
         /\ \A j \in 1 .. Len(received[t]) :
              \/ received[t][j][1] < pending[t][k].n
              \/ received[t][j][1] = pending[t][k].n /\ received[t][j][2] <= pending[t][k].offset

\* The bytes sent are in order, those of a chunk next to each other; the bytes received
\* are in order.
OrderInv ==
  \A t \in Terminals :
    /\ Increasing(sent[t])
    /\ \A j, k \in 1 .. Len(sent[t]) :
         sent[t][j][1] = sent[t][k][1] => sent[t][j][2] - sent[t][k][2] = j - k
    /\ Increasing(received[t])

Holds(c, b) == b[1] = c.n /\ c.offset < b[2] /\ b[2] <= c.length
IsPending(t, b) == \E k \in 1 .. Len(pending[t]) : Holds(pending[t][k], b)
IsComing(t, b) ==
  \E i \in 1 .. Len(inbox) : WriteAt(i) /\ inbox[i].terminal = t /\ Holds(inbox[i].chunk, b)
Outstanding(t, b) == IsPending(t, b) \/ IsComing(t, b)

\* Without a loss, what was received is the beginning of what was sent, and the rest
\* is pending or on its way.
NothingMissing ==
  \A t \in Terminals \ lossy :
    /\ Len(received[t]) <= Len(sent[t])
    /\ \A j \in 1 .. Len(received[t]) : received[t][j] = sent[t][j]
    /\ \A j \in Len(received[t]) + 1 .. Len(sent[t]) :
         Outstanding(t, sent[t][j])
    /\ \A b \in Bytes : Outstanding(t, b) =>
         \E j \in Len(received[t]) + 1 .. Len(sent[t]) : sent[t][j] = b

IInv == Types /\ WithinLimit /\ SizesInv /\ InboxNumbers /\ QueueNumbers /\ OrderInv /\ NothingMissing

-----------------------------------------------------------------------------
(* The sum of what is to be written *)

\* A set of naturals has a least element.
LEMMA LeastNatural ==
  ASSUME NEW S, S \subseteq Nat, S # {}
  PROVE  \E m \in S : \A k \in S : m <= k
<1>1. PICK m \in S : \A k \in S : ~(<<k, m>> \in OpToRel(<, Nat))
  BY NatLessThanWellFounded, WFMin
<1>2. \A k \in S : ~(k < m)
  BY <1>1 DEF OpToRel
<1> QED
  BY <1>2

Weight(c) == c.length - c.offset
IsSum(f, q, n) == f = [i \in 0 .. n |-> IF i = 0 THEN 0 ELSE f[i - 1] + q[i].length - q[i].offset]

\* The recursive function in Unwritten exists.
LEMMA SumExists ==
  ASSUME NEW q, NEW n \in Nat
  PROVE  \E f : IsSum(f, q, n)
<1> DEFINE T == {k \in Nat : ~\E f : IsSum(f, q, k)}
<1> SUFFICES ASSUME T # {} PROVE FALSE
  OBVIOUS
<1>1. PICK m \in T : \A k \in T : m <= k
  BY LeastNatural
<1>2. CASE m = 0
  <2>1. IsSum([i \in 0 .. 0 |-> 0], q, 0)
    BY DEF IsSum
  <2> QED
    BY <1>2, <2>1
<1>3. CASE m # 0
  <2>1. m - 1 \in Nat /\ m - 1 \notin T
    BY <1>1, <1>3
  <2>2. PICK g : IsSum(g, q, m - 1)
    BY <2>1
  <2> DEFINE f == [i \in 0 .. m |->
                     IF i = m THEN g[m - 1] + q[m].length - q[m].offset ELSE g[i]]
  <2>3. \A i \in 0 .. m - 1 : f[i] = g[i]
    BY <2>1
  <2>4. \A i \in 0 .. m - 1 : g[i] = IF i = 0 THEN 0 ELSE g[i - 1] + q[i].length - q[i].offset
    BY <2>2 DEF IsSum
  <2>5. \A i \in 0 .. m : f[i] = IF i = 0 THEN 0 ELSE f[i - 1] + q[i].length - q[i].offset
    <3> SUFFICES ASSUME NEW i \in 0 .. m
                 PROVE  f[i] = IF i = 0 THEN 0 ELSE f[i - 1] + q[i].length - q[i].offset
      OBVIOUS
    <3>1. CASE i = m
      <4>1. f[i] = g[m - 1] + q[m].length - q[m].offset /\ f[m - 1] = g[m - 1]
        BY <2>1, <2>3, <3>1
      <4> QED
        BY <1>3, <3>1, <4>1
    <3>2. CASE i # m
      <4>1. i \in 0 .. m - 1 /\ (i # 0 => i - 1 \in 0 .. m - 1)
        BY <3>2
      <4> QED
        BY <2>3, <2>4, <4>1
    <3> QED
      BY <3>1, <3>2
  <2>6. IsSum(f, q, m)
    <3>1. f = [i \in 0 .. m |-> f[i]]
      OBVIOUS
    <3> HIDE DEF f
    <3> QED
      BY <2>5, <3>1, Zenon DEF IsSum
  <2> QED
    BY <2>6
<1> QED
  BY <1>2, <1>3

\* What Unwritten is: the last of the partial sums.
LEMMA SumFacts ==
  ASSUME NEW q \in Seq(Kept)
  PROVE  \E f \in [0 .. Len(q) -> Int] :
           /\ f[0] = 0
           /\ \A i \in 1 .. Len(q) : f[i] = f[i - 1] + Weight(q[i])
           /\ Unwritten(q) = f[Len(q)]
<1> DEFINE f == CHOOSE f : IsSum(f, q, Len(q))
<1>1. Len(q) \in Nat /\ \A i \in 1 .. Len(q) : Weight(q[i]) \in Int
  <2>1. \A i \in 1 .. Len(q) : q[i] \in Kept
    BY ElementOfSeq
  <2>2. \A c \in Kept : c.length \in Int /\ c.offset \in Int
    BY DEF Kept, Chunk
  <2> QED
    BY <2>1, <2>2 DEF Weight
<1>2. IsSum(f, q, Len(q))
  BY <1>1, SumExists
<1>3. Unwritten(q) = f[Len(q)]
  BY DEF Unwritten, IsSum
<1> HIDE DEF f
<1>4. f[0] = 0 /\ \A i \in 1 .. Len(q) : f[i] = f[i - 1] + q[i].length - q[i].offset
  BY <1>1, <1>2 DEF IsSum
<1>5. \A i \in 0 .. Len(q) : f[i] \in Int
  <2> DEFINE T == {i \in 0 .. Len(q) : f[i] \notin Int}
  <2> SUFFICES ASSUME T # {} PROVE FALSE
    OBVIOUS
  <2>0. T \subseteq Nat
    BY <1>1
  <2>1. PICK m \in T : \A k \in T : m <= k
    BY <2>0, LeastNatural
  <2>2. m # 0 /\ m \in 1 .. Len(q) /\ m - 1 \in 0 .. Len(q) /\ m - 1 \notin T
    BY <1>1, <1>4, <2>1
  <2>3. q[m] \in Kept
    BY <2>2, ElementOfSeq
  <2>4. q[m].length \in Int /\ q[m].offset \in Int
    BY <2>3 DEF Kept, Chunk
  <2> QED
    BY <1>4, <2>2, <2>4
<1>6. \A i \in 1 .. Len(q) : f[i] = f[i - 1] + Weight(q[i])
  <2> SUFFICES ASSUME NEW i \in 1 .. Len(q) PROVE f[i] = f[i - 1] + Weight(q[i])
    OBVIOUS
  <2>1. q[i] \in Kept
    BY ElementOfSeq
  <2>2. q[i].length \in Int /\ q[i].offset \in Int /\ f[i - 1] \in Int
    BY <1>1, <1>5, <2>1 DEF Kept, Chunk
  <2> QED
    BY <1>4, <2>2 DEF Weight
<1>7. f \in [0 .. Len(q) -> Int]
  <2>1. f = [i \in 0 .. Len(q) |-> f[i]]
    BY <1>2 DEF IsSum
  <2> QED
    BY <1>5, <2>1
<1> QED
  BY <1>3, <1>4, <1>6, <1>7

\* Sums of the same terms from different beginnings stay the same distance apart.
LEMMA SameTerms ==
  ASSUME NEW n \in Nat, NEW f, NEW g,
         \A i \in 0 .. n : f[i] \in Int /\ g[i] \in Int,
         \A i \in 1 .. n : f[i] - f[i - 1] = g[i] - g[i - 1]
  PROVE  f[n] - g[n] = f[0] - g[0]
<1> DEFINE T == {i \in 0 .. n : f[i] - g[i] # f[0] - g[0]}
<1> SUFFICES ASSUME T # {} PROVE FALSE
  OBVIOUS
<1>0. T \subseteq Nat
  OBVIOUS
<1>1. PICK m \in T : \A k \in T : m <= k
  BY <1>0, LeastNatural
<1>2. m \in 1 .. n /\ m - 1 \in 0 .. n /\ m - 1 \notin T
  BY <1>1
<1>3. f[m - 1] - g[m - 1] = f[0] - g[0] /\ f[m] - f[m - 1] = g[m] - g[m - 1]
  BY <1>2
<1>4. f[m] \in Int /\ g[m] \in Int /\ f[m - 1] \in Int /\ g[m - 1] \in Int
      /\ f[0] \in Int /\ g[0] \in Int
  BY <1>2
<1> QED
  BY <1>1, <1>3, <1>4

LEMMA UnwrittenEmpty == Unwritten(<<>>) = 0
<1>1. <<>> \in Seq(Kept) /\ Len(<<>>) = 0
  BY EmptySeq
<1> QED
  BY <1>1, SumFacts

LEMMA UnwrittenAppend ==
  ASSUME NEW q \in Seq(Kept), NEW c \in Kept
  PROVE  Unwritten(Append(q, c)) = Unwritten(q) + Weight(c) /\ Unwritten(q) \in Int
<1> DEFINE n == Len(q)
           r == Append(q, c)
<1>1. r \in Seq(Kept) /\ n \in Nat /\ Len(r) = n + 1 /\ r[n + 1] = c
      /\ \A i \in 1 .. n : r[i] = q[i]
  BY AppendProperties, LenProperties
<1>2. PICK f \in [0 .. Len(r) -> Int] :
        /\ f[0] = 0
        /\ \A i \in 1 .. Len(r) : f[i] = f[i - 1] + Weight(r[i])
        /\ Unwritten(r) = f[Len(r)]
  BY <1>1, SumFacts
<1>3. PICK g \in [0 .. n -> Int] :
        /\ g[0] = 0
        /\ \A i \in 1 .. n : g[i] = g[i - 1] + Weight(q[i])
        /\ Unwritten(q) = g[n]
  BY SumFacts
<1> HIDE DEF r
<1>4. \A i \in 1 .. n : f[i] - f[i - 1] = g[i] - g[i - 1]
  <2> SUFFICES ASSUME NEW i \in 1 .. n PROVE f[i] - f[i - 1] = g[i] - g[i - 1]
    OBVIOUS
  <2>0. i \in 0 .. n /\ i - 1 \in 0 .. n /\ i \in 0 .. Len(r) /\ i - 1 \in 0 .. Len(r)
    BY <1>1
  <2>1. f[i] \in Int /\ f[i - 1] \in Int /\ g[i] \in Int /\ g[i - 1] \in Int
    BY <1>2, <1>3, <2>0
  <2>2. i \in 1 .. Len(r)
    BY <1>1
  <2>3. f[i] = f[i - 1] + Weight(q[i]) /\ g[i] = g[i - 1] + Weight(q[i])
    BY <1>1, <1>2, <1>3, <2>2
  <2>4. Weight(q[i]) \in Int
    <3>1. q[i] \in Kept
      BY ElementOfSeq
    <3> QED
      BY <3>1 DEF Kept, Chunk, Weight
  <2> QED
    BY <2>1, <2>3, <2>4
<1>5. f[n] = g[n]
  <2>0. \A i \in 0 .. n : i \in 0 .. Len(r)
    BY <1>1
  <2>1. \A i \in 0 .. n : f[i] \in Int /\ g[i] \in Int
    BY <1>2, <1>3, <2>0
  <2>2. f[n] - g[n] = f[0] - g[0]
    <3>1. n \in Nat
      BY <1>1
    <3> HIDE DEF n
    <3> QED
      BY <1>4, <2>1, <3>1, SameTerms
  <2>3. n \in 0 .. n
    BY <1>1
  <2>4. f[n] \in Int /\ g[n] \in Int /\ f[0] = 0 /\ g[0] = 0
    BY <1>2, <1>3, <2>1, <2>3
  <2> HIDE DEF n
  <2> QED
    BY <2>2, <2>4
<1>6. f[n + 1] = f[n] + Weight(c)
  BY <1>1, <1>2
<1> QED
  BY <1>1, <1>2, <1>3, <1>5, <1>6

\* A queue whose head is taken, or is written in part.
LEMMA UnwrittenHead ==
  ASSUME NEW q \in Seq(Kept), q # <<>>
  PROVE  /\ Unwritten(Tail(q)) = Unwritten(q) - Weight(Head(q))
         /\ \A c \in Kept :
              Unwritten(<<c>> \o Tail(q)) = Unwritten(q) - Weight(Head(q)) + Weight(c)
         /\ Unwritten(q) \in Int
<1> DEFINE n == Len(q) - 1
           r == Tail(q)
<1>1. /\ r \in Seq(Kept) /\ n \in Nat /\ Len(r) = n /\ Len(q) = n + 1 /\ Head(q) = q[1]
      /\ \A i \in 1 .. n : r[i] = q[i + 1]
  BY HeadTailProperties, EmptySeq, LenProperties
<1>2. \A i \in 1 .. Len(q) : Weight(q[i]) \in Int
  <2>1. \A i \in 1 .. Len(q) : q[i] \in Kept
    BY ElementOfSeq
  <2> QED
    BY <2>1 DEF Kept, Chunk, Weight
<1>3. PICK f \in [0 .. Len(q) -> Int] :
        /\ f[0] = 0
        /\ \A i \in 1 .. Len(q) : f[i] = f[i - 1] + Weight(q[i])
        /\ Unwritten(q) = f[Len(q)]
  BY SumFacts
<1> HIDE DEF r
<1> DEFINE h == [i \in 0 .. n |-> f[i + 1]]
<1>4. /\ \A i \in 0 .. n : h[i] = f[i + 1] /\ h[i] \in Int
      /\ \A i \in 1 .. n : h[i] - h[i - 1] = Weight(q[i + 1])
      /\ h[0] = Weight(q[1])
  <2>1. \A i \in 0 .. n : h[i] = f[i + 1] /\ h[i] \in Int
    BY <1>1
  <2>2. \A i \in 1 .. n : i + 1 \in 1 .. Len(q) /\ i - 1 \in 0 .. n /\ i \in 0 .. n
    BY <1>1
  <2>3. \A i \in 1 .. n : h[i] - h[i - 1] = Weight(q[i + 1])
    <3> SUFFICES ASSUME NEW i \in 1 .. n PROVE h[i] - h[i - 1] = Weight(q[i + 1])
      OBVIOUS
    <3>1. h[i] = f[i + 1] /\ h[i - 1] = f[(i - 1) + 1] /\ (i - 1) + 1 = i
      BY <2>1, <2>2
    <3>3. h[i] \in Int /\ h[i - 1] \in Int
      BY <2>1, <2>2
    <3>2. f[i + 1] = f[i] + Weight(q[i + 1]) /\ Weight(q[i + 1]) \in Int
      BY <1>1, <1>2, <1>3, <2>2
    <3> QED
      BY <3>1, <3>2, <3>3
  <2>4. h[0] = Weight(q[1])
    BY <1>1, <1>2, <1>3, <2>1
  <2> QED
    BY <2>1, <2>3, <2>4
<1>5. Unwritten(q) = h[n] /\ Unwritten(q) \in Int
  BY <1>1, <1>3, <1>4
<1> HIDE DEF h
<1>6. Unwritten(r) = Unwritten(q) - Weight(q[1])
  <2>1. PICK g \in [0 .. n -> Int] :
          /\ g[0] = 0
          /\ \A i \in 1 .. n : g[i] = g[i - 1] + Weight(r[i])
          /\ Unwritten(r) = g[n]
    BY <1>1, SumFacts
  <2>2. \A i \in 1 .. n : h[i] - h[i - 1] = g[i] - g[i - 1]
    <3> SUFFICES ASSUME NEW i \in 1 .. n PROVE h[i] - h[i - 1] = g[i] - g[i - 1]
      OBVIOUS
    <3>1. i \in 0 .. n /\ i - 1 \in 0 .. n /\ i + 1 \in 1 .. Len(q)
      BY <1>1
    <3>2. g[i] \in Int /\ g[i - 1] \in Int /\ Weight(q[i + 1]) \in Int
      BY <1>2, <3>1
    <3> QED
      BY <1>1, <1>4, <2>1, <3>1, <3>2
  <2>3. Weight(q[1]) \in Int
    BY <1>1, <1>2
  <2>4. \A i \in 0 .. n : h[i] \in Int /\ g[i] \in Int
    BY <1>4, <2>1
  <2>5. h[n] - g[n] = h[0] - g[0]
    <3>1. n \in Nat
      BY <1>1
    <3> HIDE DEF n
    <3> QED
      BY <2>2, <2>4, <3>1, SameTerms
  <2>6. h[n] \in Int /\ g[n] \in Int /\ h[0] = Weight(q[1]) /\ g[0] = 0
    BY <1>1, <1>4, <2>1, <2>4
  <2> QED
    BY <1>5, <2>1, <2>3, <2>5, <2>6
<1>7. ASSUME NEW c \in Kept
      PROVE  Unwritten(<<c>> \o r) = Unwritten(q) - Weight(q[1]) + Weight(c)
  <2> DEFINE s == <<c>> \o r
  <2>1. s \in Seq(Kept) /\ Len(s) = n + 1 /\ s[1] = c /\ \A i \in 1 .. n : s[i + 1] = r[i]
    <3>1. <<c>> \in Seq(Kept) /\ Len(<<c>>) = 1 /\ <<c>>[1] = c
      OBVIOUS
    <3>2. \A i \in 1 .. n : i + 1 \in 1 .. n + 1 /\ ~(i + 1 <= 1) /\ (i + 1) - 1 = i
      BY <1>1
    <3> QED
      BY <1>1, <3>1, <3>2, ConcatProperties
  <2>2. Weight(c) \in Int /\ Weight(q[1]) \in Int
    BY <1>1, <1>2 DEF Kept, Chunk, Weight
  <2> HIDE DEF s
  <2>3. PICK e \in [0 .. n + 1 -> Int] :
          /\ e[0] = 0
          /\ \A i \in 1 .. n + 1 : e[i] = e[i - 1] + Weight(s[i])
          /\ Unwritten(s) = e[n + 1]
    BY <2>1, SumFacts
  <2> DEFINE g == [i \in 0 .. n |-> e[i + 1]]
  <2>4. /\ \A i \in 0 .. n : g[i] = e[i + 1] /\ g[i] \in Int
        /\ g[0] = Weight(c)
    <3>1. \A i \in 0 .. n : i + 1 \in 0 .. n + 1
      BY <1>1
    <3>2. 0 \in 0 .. n /\ 1 \in 1 .. n + 1
      BY <1>1
    <3>3. \A i \in 0 .. n : g[i] = e[i + 1]
      OBVIOUS
    <3>4. \A i \in 0 .. n : g[i] \in Int
      BY <2>3, <3>1, <3>3
    <3>5. g[0] = e[0] + Weight(s[1])
      BY <2>3, <3>2, <3>3
    <3> QED
      BY <2>1, <2>2, <2>3, <3>3, <3>4, <3>5
  <2>5. \A i \in 1 .. n : h[i] - h[i - 1] = g[i] - g[i - 1]
    <3> SUFFICES ASSUME NEW i \in 1 .. n PROVE h[i] - h[i - 1] = g[i] - g[i - 1]
      OBVIOUS
    <3>1. i \in 0 .. n /\ i - 1 \in 0 .. n /\ i + 1 \in 1 .. Len(q) /\ i + 1 \in 1 .. n + 1
      BY <1>1
    <3>2. Weight(q[i + 1]) \in Int /\ e[i] \in Int /\ e[i + 1] \in Int
      BY <1>2, <1>1, <2>3, <3>1
    <3>3. e[i + 1] = e[i] + Weight(q[i + 1])
      BY <1>1, <2>1, <2>3, <3>1
    <3>4. g[i] = e[i + 1] /\ g[i - 1] = e[i]
      BY <2>4, <3>1
    <3> QED
      BY <1>4, <3>2, <3>3, <3>4
  <2> HIDE DEF g
  <2>6. \A i \in 0 .. n : h[i] \in Int /\ g[i] \in Int
    BY <1>4, <2>4
  <2>7. h[n] - g[n] = h[0] - g[0]
    <3>1. n \in Nat
      BY <1>1
    <3> HIDE DEF n
    <3> QED
      BY <2>5, <2>6, <3>1, SameTerms
  <2>8. g[n] \in Int /\ h[n] \in Int /\ Unwritten(s) = g[n]
    BY <1>1, <2>3, <2>4, <2>6
  <2>9. Unwritten(s) = Unwritten(q) - Weight(q[1]) + Weight(c)
    <3>1. h[0] = Weight(q[1]) /\ g[0] = Weight(c) /\ Unwritten(q) = h[n]
      BY <1>4, <1>5, <2>4
    <3> HIDE DEF n
    <3> QED
      BY <2>2, <2>7, <2>8, <3>1
  <2> QED
    BY <2>9 DEF s
<1> QED
  BY <1>1, <1>5, <1>6, <1>7 DEF r

-----------------------------------------------------------------------------
(* What a step does to the instructions, the queues and the bytes *)

SendsWrite(t, c) ==
  /\ c \in Whole
  /\ c.n = sends + 1
  /\ inbox' = Append(inbox, Write(t, c))
  /\ sends' = sends + 1
  /\ sent' = [sent EXCEPT ![t] = @ \o BytesOf(c)]
  /\ UNCHANGED <<pending, received, lossy>>

SendsOther(i) ==
  /\ i \in Instructions
  /\ i.kind # "write"
  /\ sends < MaxSends
  /\ inbox' = Append(inbox, i)
  /\ sends' = sends + 1
  /\ UNCHANGED <<sent, pending, received, lossy>>

Consumes == inbox # <<>> /\ inbox' = Tail(inbox)

Ignores ==
  /\ Consumes
  /\ Head(inbox).kind # "write"
  /\ UNCHANGED <<sends, sent, pending, received, lossy>>

Queues(t, c) ==
  /\ Consumes
  /\ c \in Whole
  /\ Head(inbox).kind = "write" /\ Head(inbox).terminal = t /\ Head(inbox).chunk = c
  /\ Fits(t, c)
  /\ pending' = [pending EXCEPT ![t] = Append(@, c)]
  /\ UNCHANGED <<sends, sent, received, lossy>>

Loses(t) ==
  /\ \/ inbox' = inbox
     \/ Consumes /\ (Head(inbox).kind = "write" => Head(inbox).terminal = t)
  /\ pending' = pending \/ pending' = [pending EXCEPT ![t] = <<>>]
  /\ lossy' = lossy \cup {t}
  /\ UNCHANGED <<sends, sent, received>>

WritesSome(t, taken) ==
  /\ pending[t] # <<>>
  /\ taken \in 1 .. Weight(Head(pending[t]))
  /\ received' = [received EXCEPT ![t] = @ \o SubSeq(BytesOf(Head(pending[t])), 1, taken)]
  /\ pending' = [pending EXCEPT ![t] =
                    IF WrittenUp(Head(pending[t]), taken)
                      THEN Tail(@) ELSE <<Advanced(Head(pending[t]), taken)>> \o Tail(@)]
  /\ UNCHANGED <<inbox, sends, sent, lossy>>

Rests == UNCHANGED <<inbox, sends, sent, pending, received, lossy>>

LEMMA TailFacts ==
  ASSUME NEW S, NEW q \in Seq(S), q # <<>>
  PROVE  /\ Len(q) \in Nat /\ Len(q) >= 1
         /\ Head(q) = q[1] /\ Head(q) \in S
         /\ Tail(q) \in Seq(S) /\ Len(Tail(q)) = Len(q) - 1
         /\ \A i \in 1 .. Len(q) - 1 : Tail(q)[i] = q[i + 1] /\ i + 1 \in 1 .. Len(q)
<1>1. Len(q) \in Nat /\ Len(q) >= 1
  BY EmptySeq
<1>2. Head(q) = q[1] /\ Head(q) \in S
  BY HeadTailProperties
<1>3. Tail(q) \in Seq(S) /\ Len(Tail(q)) = Len(q) - 1
  BY HeadTailProperties
<1>4. \A i \in 1 .. Len(q) - 1 : Tail(q)[i] = q[i + 1]
  BY <1>3, HeadTailProperties
<1>5. \A i \in 1 .. Len(q) - 1 : i + 1 \in 1 .. Len(q)
  BY <1>1
<1> QED
  BY <1>1, <1>2, <1>3, <1>4, <1>5

LEMMA AppendFacts ==
  ASSUME NEW S, NEW q \in Seq(S), NEW e \in S
  PROVE  /\ Append(q, e) \in Seq(S) /\ Len(q) \in Nat
         /\ Len(Append(q, e)) = Len(q) + 1
         /\ \A i \in 1 .. Len(q) + 1 : i \in 1 .. Len(q) \/ i = Len(q) + 1
         /\ \A i \in 1 .. Len(q) : Append(q, e)[i] = q[i] /\ i \in 1 .. Len(q) + 1
         /\ Append(q, e)[Len(q) + 1] = e
<1>1. Len(q) \in Nat
  BY LenProperties
<1>2. /\ Append(q, e) \in Seq(S) /\ Len(Append(q, e)) = Len(q) + 1
      /\ \A i \in 1 .. Len(q) : Append(q, e)[i] = q[i]
      /\ Append(q, e)[Len(q) + 1] = e
  BY AppendProperties
<1>3. \A i \in 1 .. Len(q) + 1 : i \in 1 .. Len(q) \/ i = Len(q) + 1
  BY <1>1
<1>4. \A i \in 1 .. Len(q) : i \in 1 .. Len(q) + 1
  BY <1>1
<1> QED
  BY <1>1, <1>2, <1>3, <1>4

LEMMA ChunkTypes ==
  ASSUME NEW c \in Kept \cup Whole
  PROVE  /\ c.n \in Ids /\ c.n \in Nat
         /\ c.length \in Nat /\ c.length <= MaxLength
         /\ c.offset \in Nat /\ c.offset < c.length
         /\ c \in Kept
BY WriterAssumption DEF Kept, Whole, Chunk, Ids

LEMMA BytesOfFacts ==
  ASSUME NEW c \in Kept
  PROVE  /\ BytesOf(c) \in Seq(Bytes)
         /\ Len(BytesOf(c)) = Weight(c) /\ Weight(c) \in Nat /\ Weight(c) >= 1
         /\ \A k \in 1 .. Weight(c) : BytesOf(c)[k] = <<c.n, c.offset + k>>
         /\ \A k \in 1 .. Weight(c) : <<c.n, c.offset + k>> \in Bytes
<1>1. /\ c.n \in Ids /\ c.length \in Nat /\ c.length <= MaxLength
      /\ c.offset \in Nat /\ c.offset < c.length
  BY ChunkTypes
<1>2. Weight(c) \in Nat /\ Weight(c) >= 1
  BY <1>1 DEF Weight
<1>3. \A k \in 1 .. Weight(c) : c.offset + k \in 1 .. MaxLength
  BY <1>1, WriterAssumption DEF Weight
<1>4. \A k \in 1 .. Weight(c) : <<c.n, c.offset + k>> \in Bytes
  BY <1>1, <1>3 DEF Bytes
<1>5. BytesOf(c) = [k \in 1 .. Weight(c) |-> <<c.n, c.offset + k>>]
  BY DEF BytesOf, Weight
<1>6. BytesOf(c) \in [1 .. Weight(c) -> Bytes]
  BY <1>4, <1>5
<1>7. BytesOf(c) \in Seq(Bytes)
  BY <1>2, <1>6, SeqDef
<1>8. Len(BytesOf(c)) = Weight(c)
  BY <1>2, <1>5, <1>7, LenProperties
<1> QED
  BY <1>2, <1>4, <1>5, <1>7, <1>8

LEMMA InstructionKinds ==
  ASSUME NEW i \in Instructions
  PROVE  /\ i.kind \in {"write", "resize", "cancel", "start_caching", "apply_cached", "exit"}
         /\ i.kind = "write" => i.terminal \in Terminals /\ i.chunk \in Whole
         /\ i.kind = "resize" => i.terminal \in Terminals /\ i.size \in Ids
         /\ i.kind = "cancel" =>
              i.terminal \in Terminals /\ i = [kind |-> "cancel", terminal |-> i.terminal]
<1>1. CASE i \in [kind : {"write"}, terminal : Terminals, chunk : Whole]
  BY <1>1
<1>2. CASE i \in [kind : {"resize"}, terminal : Terminals, size : Ids]
  BY <1>2
<1>3. CASE i \in [kind : {"cancel"}, terminal : Terminals]
  BY <1>3
<1>4. CASE i \in [kind : {"start_caching", "apply_cached", "exit"}]
  BY <1>4
<1> QED
  BY <1>1, <1>2, <1>3, <1>4 DEF Instructions

\* Whatever the kernel takes is a write of some bytes of the head.
LEMMA SomeWritten ==
  ASSUME Types, NEW t \in Terminals, WriteSome(t)
  PROVE  \E taken \in Nat : WritesSome(t, taken)
<1>1. PICK taken \in 1 .. room[t] :
        /\ taken <= Head(pending[t]).length - Head(pending[t]).offset
        /\ received' = [received EXCEPT ![t] = @ \o SubSeq(BytesOf(Head(pending[t])), 1, taken)]
        /\ pending' = [pending EXCEPT ![t] =
                          IF WrittenUp(Head(pending[t]), taken)
                            THEN Tail(@) ELSE <<Advanced(Head(pending[t]), taken)>> \o Tail(@)]
  BY DEF WriteSome
<1>2. pending[t] \in Seq(Kept) /\ pending[t] # <<>> /\ room[t] \in Nat
  BY WriterAssumption DEF WriteSome, Types
<1>3. Head(pending[t]) \in Kept
  BY <1>2, TailFacts
<1>4. taken \in 1 .. Weight(Head(pending[t])) /\ taken \in Nat
  BY <1>1, <1>2, <1>3, ChunkTypes DEF Weight
<1>5. WritesSome(t, taken)
  BY <1>1, <1>2, <1>4 DEF WriteSome, WritesSome
<1> QED
  BY <1>4, <1>5

\* Every step of the specification is one of these.
LEMMA StepCases ==
  ASSUME Types, [Next]_vars
  PROVE  \/ \E t \in Terminals, c \in Whole : SendsWrite(t, c)
         \/ \E i \in Instructions : SendsOther(i)
         \/ Ignores
         \/ \E t \in Terminals, c \in Whole : Queues(t, c)
         \/ \E t \in Terminals : Loses(t)
         \/ \E t \in Terminals, taken \in Nat : WritesSome(t, taken)
         \/ Rests
<1>1. ASSUME NEW t \in Terminals, NEW length \in 1 .. MaxLength, SendWrite(t, length)
      PROVE  \E c \in Whole : SendsWrite(t, c)
  <2> DEFINE c == [n |-> sends + 1, length |-> length, offset |-> 0]
  <2>1. sends + 1 \in Ids
    BY <1>1, WriterAssumption DEF SendWrite, Send, Types, Ids
  <2>2. c \in Whole /\ c.n = sends + 1
    BY <2>1, WriterAssumption DEF Whole, Chunk
  <2>3. SendsWrite(t, c)
    BY <1>1, <2>2 DEF SendWrite, Send, SendsWrite, writeVars
  <2> QED
    BY <2>2, <2>3
<1>2. ASSUME NEW t \in Terminals, SendResize(t)
      PROVE  \E i \in Instructions : SendsOther(i)
  <2>1. sends + 1 \in Ids
    BY <1>2, WriterAssumption DEF SendResize, Send, Types, Ids
  <2>2. Resize(t, sends + 1) \in Instructions /\ Resize(t, sends + 1).kind # "write"
    BY <2>1 DEF Resize, Instructions
  <2>3. SendsOther(Resize(t, sends + 1))
    BY <1>2, <2>2 DEF SendResize, Send, SendsOther, writeVars
  <2> QED
    BY <2>2, <2>3
<1>3. ASSUME NEW t \in Terminals, SendCancel(t)
      PROVE  \E i \in Instructions : SendsOther(i)
  <2> DEFINE i == [kind |-> "cancel", terminal |-> t]
  <2>1. i \in Instructions /\ i.kind # "write"
    BY DEF Instructions
  <2>2. SendsOther(i)
    BY <1>3, <2>1 DEF SendCancel, Send, SendsOther, writeVars
  <2> QED
    BY <2>1, <2>2
<1>4. ASSUME NEW kind \in {"start_caching", "apply_cached", "exit"}, SendPlain(kind)
      PROVE  \E i \in Instructions : SendsOther(i)
  <2>1. Plain(kind) \in Instructions /\ Plain(kind).kind # "write"
    BY DEF Plain, Instructions
  <2>2. SendsOther(Plain(kind))
    BY <1>4, <2>1 DEF SendPlain, Send, SendsOther, writeVars
  <2> QED
    BY <2>1, <2>2
<1>5. ASSUME NEW t \in Terminals, ProgramReads(t) \/ ProgramExits(t) \/ NextTerminal(t)
      PROVE  Rests
  BY <1>5 DEF ProgramReads, ProgramExits, NextTerminal, Rests, writeVars
<1>6. ASSUME Timeout \/ EndDrain \/ UNCHANGED vars
      PROVE  Rests
  BY <1>6 DEF Timeout, EndDrain, vars, Rests, writeVars
<1>7. ASSUME Receive
      PROVE  \/ Ignores
             \/ \E t \in Terminals, c \in Whole : Queues(t, c)
             \/ \E t \in Terminals : Loses(t)
  <2> DEFINE i == Head(inbox)
  <2>1. i \in Instructions /\ Consumes /\ UNCHANGED <<sends, sent, received>>
    BY <1>7, TailFacts DEF Receive, Types, Consumes
  <2>2. \/ i.kind = "write" /\ OnWrite(i.terminal, i.chunk)
        \/ i.kind = "cancel" /\ OnCancel(i.terminal)
        \/ i.kind = "resize" /\ OnResize(i.terminal, i.size)
        \/ i.kind = "start_caching" /\ OnStartCaching
        \/ i.kind = "apply_cached" /\ OnApplyCached
    BY <1>7 DEF Receive
  <2> HIDE DEF i
  <2>3. CASE i.kind = "write" /\ OnWrite(i.terminal, i.chunk)
    <3>1. i.terminal \in Terminals /\ i.chunk \in Whole
      BY <2>1, <2>3, InstructionKinds
    <3>2. CASE Fits(i.terminal, i.chunk)
      <4>1. Queues(i.terminal, i.chunk)
        BY <2>1, <2>3, <3>1, <3>2 DEF OnWrite, Queues, i
      <4> QED
        BY <3>1, <4>1
    <3>3. CASE ~Fits(i.terminal, i.chunk)
      <4>1. pending' = [pending EXCEPT ![i.terminal] = KeptOnOverflow(i.terminal)]
            /\ lossy' = lossy \cup {i.terminal}
        BY <2>3, <3>3 DEF OnWrite
      <4>2. pending' = pending \/ pending' = [pending EXCEPT ![i.terminal] = <<>>]
        BY <3>1, <4>1 DEF KeptOnOverflow, Types
      <4>3. Loses(i.terminal)
        BY <2>1, <4>1, <4>2 DEF Loses, i
      <4> QED
        BY <3>1, <4>3
    <3> QED
      BY <3>2, <3>3
  <2>4. CASE i.kind = "cancel" /\ OnCancel(i.terminal)
    <3>1. i.terminal \in Terminals
      BY <2>1, <2>4, InstructionKinds
    <3>2. CASE pending[i.terminal] = <<>>
      <4>1. pending' = pending /\ lossy' = lossy
        BY <2>4, <3>1, <3>2 DEF OnCancel, Types
      <4> QED
        BY <2>1, <2>4, <4>1 DEF Ignores, i
    <3>3. CASE pending[i.terminal] # <<>>
      <4>1. Loses(i.terminal)
        BY <2>1, <2>4, <3>3 DEF OnCancel, Loses, i
      <4> QED
        BY <3>1, <4>1
    <3> QED
      BY <3>2, <3>3
  <2>5. CASE i.kind \notin {"write", "cancel"}
    BY <2>1, <2>2, <2>5 DEF OnResize, OnStartCaching, OnApplyCached, Ignores, i
  <2> QED
    BY <2>2, <2>3, <2>4, <2>5
<1>8. ASSUME Exit
      PROVE  Ignores
  BY <1>8 DEF Exit, Ignores, Consumes, writeVars
<1>9. ASSUME NEW t \in Terminals, WriteSome(t)
      PROVE  \E taken \in Nat : WritesSome(t, taken)
  BY <1>9, SomeWritten
<1>10. ASSUME NEW t \in Terminals, WriteFails(t)
       PROVE  Loses(t)
  BY <1>10 DEF WriteFails, Loses
<1> QED
  BY <1>1, <1>2, <1>3, <1>4, <1>5, <1>6, <1>7, <1>8, <1>9, <1>10 DEF Next, ThreadStep

\* What a write leaves: the bytes taken follow those received, and the head c of the
\* queue is gone if it is written up and further on if not.
Written(t, taken, c) ==
  /\ c \in Kept /\ Len(pending[t]) \in Nat /\ Len(pending[t]) >= 1
  /\ taken >= 1 /\ c.offset + taken <= c.length
  /\ received'[t] \in Seq(Bytes) /\ Len(received'[t]) = Len(received[t]) + taken
  /\ \A j \in 1 .. Len(received[t]) : received'[t][j] = received[t][j]
  /\ \A m \in 1 .. taken : received'[t][Len(received[t]) + m] = <<c.n, c.offset + m>>
  /\ pending'[t] \in Seq(Kept)
  /\ \/ /\ c.offset + taken = c.length
        /\ pending'[t] = Tail(pending[t])
        /\ Len(pending'[t]) = Len(pending[t]) - 1
        /\ \A k \in 1 .. Len(pending'[t]) : pending'[t][k] = pending[t][k + 1]
     \/ /\ c.offset + taken < c.length
        /\ pending'[t] = <<Advanced(c, taken)>> \o Tail(pending[t])
        /\ Advanced(c, taken) \in Kept
        /\ Len(pending'[t]) = Len(pending[t])
        /\ pending'[t][1] = Advanced(c, taken)
        /\ \A k \in 2 .. Len(pending'[t]) : pending'[t][k] = pending[t][k]
  /\ \A u \in Terminals : u # t => received'[u] = received[u] /\ pending'[u] = pending[u]

LEMMA WritesFacts ==
  ASSUME Types, NEW t \in Terminals, NEW taken \in Nat, WritesSome(t, taken)
  PROVE  Written(t, taken, pending[t][1])
<1> DEFINE c == pending[t][1]
<1> DEFINE q == pending[t]
<1>1. q \in Seq(Kept) /\ q # <<>> /\ received[t] \in Seq(Bytes)
  BY DEF WritesSome, Types
<1>2. /\ Len(q) \in Nat /\ Len(q) >= 1 /\ Head(q) = c /\ c \in Kept
      /\ Tail(q) \in Seq(Kept) /\ Len(Tail(q)) = Len(q) - 1
      /\ \A i \in 1 .. Len(q) - 1 : Tail(q)[i] = q[i + 1]
  BY <1>1, TailFacts
<1>3. /\ c.length \in Nat /\ c.offset \in Nat /\ c.offset < c.length
  BY <1>2, ChunkTypes
<1>4. taken \in 1 .. Weight(c) /\ taken >= 1 /\ c.offset + taken <= c.length
  BY <1>2, <1>3 DEF WritesSome, Weight
<1>5. /\ received'[t] = received[t] \o SubSeq(BytesOf(c), 1, taken)
      /\ \A u \in Terminals : u # t => received'[u] = received[u] /\ pending'[u] = pending[u]
      /\ pending'[t] = IF WrittenUp(c, taken) THEN Tail(q) ELSE <<Advanced(c, taken)>> \o Tail(q)
  BY <1>2 DEF WritesSome, Types
<1>6. /\ received'[t] \in Seq(Bytes) /\ Len(received'[t]) = Len(received[t]) + taken
      /\ \A j \in 1 .. Len(received[t]) : received'[t][j] = received[t][j]
      /\ \A m \in 1 .. taken : received'[t][Len(received[t]) + m] = <<c.n, c.offset + m>>
  <2> DEFINE b == SubSeq(BytesOf(c), 1, taken)
             L == Len(received[t])
  <2>1. \A k \in 1 .. taken : k \in 1 .. Weight(c) /\ 1 + k - 1 = k /\ taken - 1 + 1 = taken
    BY <1>2, <1>4, BytesOfFacts
  <2>2. \A k \in 1 .. taken : BytesOf(c)[k] \in Bytes
    BY <1>2, <2>1, BytesOfFacts
  <2>3. b \in Seq(Bytes) /\ Len(b) = taken /\ \A k \in 1 .. taken : b[k] = BytesOf(c)[1 + k - 1]
    BY <1>4, <2>1, <2>2, SubSeqProperties
  <2>4. \A k \in 1 .. taken : b[k] = <<c.n, c.offset + k>>
    BY <1>2, <2>1, <2>3, BytesOfFacts
  <2>5. L \in Nat
    BY <1>1, LenProperties
  <2> HIDE DEF b, L
  <2>6. /\ \A j \in 1 .. L : j \in 1 .. L + taken /\ j <= L
        /\ \A m \in 1 .. taken : L + m \in 1 .. L + taken /\ ~(L + m <= L) /\ (L + m) - L = m
    BY <2>5
  <2>7. /\ received'[t] \in Seq(Bytes) /\ Len(received'[t]) = L + taken
        /\ \A i \in 1 .. L + taken :
             received'[t][i] = IF i <= L THEN received[t][i] ELSE b[i - L]
    <3>1. received'[t] = received[t] \o b
      BY <1>5 DEF b
    <3>2. /\ received[t] \o b \in Seq(Bytes)
          /\ Len(received[t] \o b) = Len(received[t]) + Len(b)
          /\ \A i \in 1 .. Len(received[t]) + Len(b) :
               (received[t] \o b)[i] =
                 IF i <= Len(received[t]) THEN received[t][i] ELSE b[i - Len(received[t])]
      BY <1>1, <2>3, ConcatProperties, Zenon
    <3> QED
      BY <2>3, <3>1, <3>2 DEF L
  <2>8. \A m \in 1 .. taken : received'[t][L + m] = b[m]
    BY <2>6, <2>7
  <2>9. \A j \in 1 .. L : received'[t][j] = received[t][j]
    BY <2>6, <2>7
  <2> QED
    BY <2>4, <2>7, <2>8, <2>9 DEF L
<1>7. CASE WrittenUp(c, taken)
  <2>1. c.offset + taken = c.length
    BY <1>3, <1>4, <1>7 DEF WrittenUp
  <2> QED
    BY <1>2, <1>4, <1>5, <1>6, <1>7, <2>1 DEF Written
<1>8. CASE ~WrittenUp(c, taken)
  <2> DEFINE a == Advanced(c, taken)
  <2>1. c.offset + taken < c.length
    BY <1>3, <1>4, <1>8 DEF WrittenUp
  <2>2. a \in Kept
    <3>1. c.length <= MaxLength /\ c.offset + taken \in 0 .. MaxLength
      BY <1>2, <1>3, <2>1, WriterAssumption, ChunkTypes
    <3>2. a \in Chunk /\ a.offset = c.offset + taken /\ a.length = c.length
      BY <1>2, <3>1 DEF Advanced, Kept, Chunk
    <3> QED
      BY <2>1, <3>2 DEF Kept
  <2> HIDE DEF a
  <2>3. /\ <<a>> \o Tail(q) \in Seq(Kept) /\ Len(<<a>> \o Tail(q)) = Len(q)
        /\ (<<a>> \o Tail(q))[1] = a
        /\ \A k \in 2 .. Len(q) : (<<a>> \o Tail(q))[k] = q[k]
    <3>1. <<a>> \in Seq(Kept) /\ Len(<<a>>) = 1 /\ <<a>>[1] = a
      BY <2>2
    <3>2. \A k \in 2 .. Len(q) : /\ k - 1 \in 1 .. Len(q) - 1 /\ (k - 1) + 1 = k
                                /\ k \in 1 .. Len(q) /\ ~(k <= 1)
      BY <1>2
    <3>3. 1 \in 1 .. Len(q) /\ 1 + (Len(q) - 1) = Len(q)
      BY <1>2
    <3>4. /\ <<a>> \o Tail(q) \in Seq(Kept) /\ Len(<<a>> \o Tail(q)) = Len(q)
          /\ \A k \in 1 .. Len(q) :
               (<<a>> \o Tail(q))[k] = IF k <= 1 THEN <<a>>[k] ELSE Tail(q)[k - 1]
      BY <1>2, <3>1, <3>3, ConcatProperties
    <3> QED
      BY <1>2, <3>1, <3>2, <3>3, <3>4
  <2> QED
    BY <1>2, <1>4, <1>5, <1>6, <1>8, <2>1, <2>2, <2>3 DEF a, Written
<1> QED
  BY <1>7, <1>8

LEMMA InitHolds == Init => IInv
<1> SUFFICES ASSUME Init PROVE IInv
  OBVIOUS
<1>1. \A t \in Terminals :
        /\ pending[t] = <<>> /\ sent[t] = <<>> /\ received[t] = <<>>
        /\ cached[t] = 0 /\ size[t] = 0 /\ wanted[t] = 0
  BY DEF Init
<1>2. inbox = <<>> /\ Len(<<>>) = 0 /\ 1 .. 0 = {}
  BY DEF Init
<1>3. Types
  <2>1. <<>> \in Seq(Instructions) /\ <<>> \in Seq(Kept) /\ <<>> \in Seq(Bytes)
    OBVIOUS
  <2>2. 0 \in 0 .. MaxSends /\ KernelRoom \in 0 .. KernelRoom
    BY WriterAssumption
  <2>3. inbox \in Seq(Instructions)
    BY <1>2, <2>1
  <2>4. /\ pending \in [Terminals -> Seq(Kept)]
        /\ sent \in [Terminals -> Seq(Bytes)] /\ received \in [Terminals -> Seq(Bytes)]
    BY <2>1 DEF Init
  <2> QED
    BY <2>2, <2>3, <2>4 DEF Init, Types
<1>4. WithinLimit
  BY <1>1, UnwrittenEmpty, WriterAssumption DEF WithinLimit, Queued
<1>5. SizesInv
  BY <1>1, <1>2 DEF SizesInv, NoResize
<1>6. InboxNumbers /\ QueueNumbers /\ OrderInv
  BY <1>1, <1>2 DEF InboxNumbers, QueueNumbers, OrderInv, Increasing
<1>7. NothingMissing
  BY <1>1, <1>2 DEF NothingMissing, Outstanding, IsPending, IsComing
<1> QED
  BY <1>3, <1>4, <1>5, <1>6, <1>7 DEF IInv

-----------------------------------------------------------------------------
(* What each part of the invariant is kept by *)

LEMMA TypesKept ==
  ASSUME Types, [Next]_vars
  PROVE  Types'
<1> DEFINE InstructionTypes ==
             /\ inbox' \in Seq(Instructions) /\ pending' \in [Terminals -> Seq(Kept)]
             /\ sends' \in 0 .. MaxSends /\ lossy' \subseteq Terminals
             /\ sent' \in [Terminals -> Seq(Bytes)] /\ received' \in [Terminals -> Seq(Bytes)]
           ThreadTypes ==
             /\ windows' \in BOOLEAN /\ pc' \in {"recv", "drain", "exited"}
             /\ to_visit' \subseteq Terminals /\ room' \in [Terminals -> 0 .. KernelRoom]
             /\ alive' \subseteq Terminals
           SizeTypes ==
             /\ caching' \in BOOLEAN /\ cached' \in [Terminals -> Ids \cup {0}]
             /\ size' \in [Terminals -> Ids \cup {0}] /\ wanted' \in [Terminals -> Ids \cup {0}]
<1>1. InstructionTypes
  <2>1. ASSUME NEW t \in Terminals, NEW c \in Whole, SendsWrite(t, c)
        PROVE  InstructionTypes
    <3>1. Write(t, c) \in Instructions
      BY DEF Write, Instructions
    <3>2. inbox' \in Seq(Instructions)
      BY <2>1, <3>1, AppendFacts DEF SendsWrite, Types
    <3>3. sends' \in 0 .. MaxSends
      <4>1. c.n \in Ids
        BY ChunkTypes
      <4> QED
        BY <2>1, <4>1, WriterAssumption DEF SendsWrite, Types, Ids
    <3>4. sent[t] \o BytesOf(c) \in Seq(Bytes)
      <4>1. BytesOf(c) \in Seq(Bytes)
        BY ChunkTypes, BytesOfFacts
      <4>2. sent[t] \in Seq(Bytes)
        BY DEF Types
      <4> QED
        BY <4>1, <4>2, ConcatProperties
    <3> QED
      BY <2>1, <3>2, <3>3, <3>4 DEF SendsWrite, Types
  <2>2. ASSUME NEW i \in Instructions, SendsOther(i)
        PROVE  InstructionTypes
    <3>1. inbox' \in Seq(Instructions)
      BY <2>2, AppendFacts DEF SendsOther, Types
    <3> QED
      BY <2>2, <3>1, WriterAssumption DEF SendsOther, Types
  <2>3. Consumes => inbox' \in Seq(Instructions)
    BY TailFacts DEF Consumes, Types
  <2>4. ASSUME Ignores
        PROVE  InstructionTypes
    BY <2>3, <2>4 DEF Ignores, Types
  <2>5. ASSUME NEW t \in Terminals, NEW c \in Whole, Queues(t, c)
        PROVE  InstructionTypes
    <3>1. Append(pending[t], c) \in Seq(Kept)
      <4>1. pending[t] \in Seq(Kept) /\ c \in Kept
        BY ChunkTypes DEF Types
      <4> QED
        BY <4>1, AppendFacts
    <3> QED
      BY <2>3, <2>5, <3>1 DEF Queues, Types
  <2>6. ASSUME NEW t \in Terminals, Loses(t)
        PROVE  InstructionTypes
    <3>1. pending' \in [Terminals -> Seq(Kept)]
      <4>1. <<>> \in Seq(Kept)
        OBVIOUS
      <4> QED
        BY <2>6, <4>1 DEF Loses, Types
    <3> QED
      BY <2>3, <2>6, <3>1 DEF Loses, Types
  <2>7. ASSUME NEW t \in Terminals, NEW taken \in Nat, WritesSome(t, taken)
        PROVE  InstructionTypes
    <3>1. received'[t] \in Seq(Bytes) /\ pending'[t] \in Seq(Kept)
      BY <2>7, WritesFacts DEF Written
    <3>2. /\ received' = [received EXCEPT ![t] = received'[t]]
          /\ pending' = [pending EXCEPT ![t] = pending'[t]]
      BY <2>7 DEF WritesSome, Types
    <3>3. /\ received' \in [Terminals -> Seq(Bytes)]
          /\ pending' \in [Terminals -> Seq(Kept)]
      BY <3>1, <3>2 DEF Types
    <3> QED
      BY <2>7, <3>3 DEF WritesSome, Types
  <2>8. ASSUME Rests
        PROVE  InstructionTypes
    BY <2>8 DEF Rests, Types
  <2> QED
    BY <2>1, <2>2, <2>4, <2>5, <2>6, <2>7, <2>8, StepCases
<1>2. ThreadTypes
  <2>1. ASSUME NEW t \in Terminals, NEW length \in 1 .. MaxLength, SendWrite(t, length)
        PROVE  ThreadTypes
    BY <2>1 DEF SendWrite, Send, Types, writeVars
  <2>2. ASSUME NEW t \in Terminals, SendResize(t) \/ SendCancel(t)
        PROVE  ThreadTypes
    BY <2>2 DEF SendResize, SendCancel, Send, Types, writeVars
  <2>3. ASSUME NEW kind \in {"start_caching", "apply_cached", "exit"}, SendPlain(kind)
        PROVE  ThreadTypes
    BY <2>3 DEF SendPlain, Send, Types, writeVars
  <2>4. ASSUME NEW t \in Terminals, ProgramReads(t) \/ ProgramExits(t)
        PROVE  ThreadTypes
    <3>1. KernelRoom \in 0 .. KernelRoom
      BY WriterAssumption
    <3> QED
      BY <2>4, <3>1 DEF ProgramReads, ProgramExits, Types, writeVars
  <2>5. ASSUME Timeout \/ Receive
        PROVE  ThreadTypes
    BY <2>5 DEF Timeout, Receive, StartDrain, Types
  <2>6. ASSUME Exit \/ EndDrain \/ UNCHANGED vars
        PROVE  ThreadTypes
    BY <2>6 DEF Exit, EndDrain, vars, writeVars, Types
  <2>7. ASSUME NEW t \in Terminals, WriteSome(t)
        PROVE  ThreadTypes
    <3>1. PICK taken \in 1 .. room[t] : room' = [room EXCEPT ![t] = @ - taken]
      BY <2>7 DEF WriteSome
    <3>2. room[t] \in 0 .. KernelRoom
      BY DEF Types
    <3>3. room[t] - taken \in 0 .. KernelRoom
      BY <3>1, <3>2, WriterAssumption
    <3> QED
      BY <2>7, <3>1, <3>3 DEF WriteSome, Types
  <2>8. ASSUME NEW t \in Terminals, NextTerminal(t) \/ WriteFails(t)
        PROVE  ThreadTypes
    BY <2>8 DEF NextTerminal, StillToVisit, WriteFails, Types
  <2> QED
    BY <2>1, <2>2, <2>3, <2>4, <2>5, <2>6, <2>7, <2>8 DEF Next, ThreadStep
<1>3. SizeTypes
  <2>1. ASSUME NEW t \in Terminals, NEW length \in 1 .. MaxLength, SendWrite(t, length)
        PROVE  SizeTypes
    BY <2>1 DEF SendWrite, Send, Types, resizeVars
  <2>2. ASSUME NEW t \in Terminals, SendResize(t)
        PROVE  SizeTypes
    <3>1. sends + 1 \in Ids
      BY <2>2, WriterAssumption DEF SendResize, Send, Types, Ids
    <3> QED
      BY <2>2, <3>1 DEF SendResize, Send, Types, resizeVars
  <2>3. ASSUME NEW t \in Terminals, SendCancel(t)
        PROVE  SizeTypes
    BY <2>3 DEF SendCancel, Send, Types, resizeVars
  <2>4. ASSUME NEW kind \in {"start_caching", "apply_cached", "exit"}, SendPlain(kind)
        PROVE  SizeTypes
    BY <2>4 DEF SendPlain, Send, Types, resizeVars
  <2>5. ASSUME Receive
        PROVE  SizeTypes
    <3> DEFINE i == Head(inbox)
    <3>1. i \in Instructions /\ UNCHANGED wanted
      BY <2>5, TailFacts DEF Receive, Types
    <3>2. \/ i.kind = "write" /\ OnWrite(i.terminal, i.chunk)
          \/ i.kind = "cancel" /\ OnCancel(i.terminal)
          \/ i.kind = "resize" /\ OnResize(i.terminal, i.size)
          \/ i.kind = "start_caching" /\ OnStartCaching
          \/ i.kind = "apply_cached" /\ OnApplyCached
      BY <2>5 DEF Receive
    <3> HIDE DEF i
    <3>3. CASE i.kind = "resize" /\ OnResize(i.terminal, i.size)
      <4>1. i.size \in Ids
        BY <3>1, <3>3, InstructionKinds
      <4> QED
        BY <3>1, <3>3, <4>1 DEF OnResize, Cached, Types
    <3>4. CASE \/ OnWrite(i.terminal, i.chunk) \/ OnCancel(i.terminal)
               \/ OnStartCaching \/ OnApplyCached
      BY <3>1, <3>4 DEF OnWrite, OnCancel, OnStartCaching, OnApplyCached, Types, resizeVars
    <3> QED
      BY <3>2, <3>3, <3>4
  <2>6. ASSUME \/ Timeout \/ Exit \/ EndDrain \/ UNCHANGED vars
               \/ \E t \in Terminals : \/ ProgramReads(t) \/ ProgramExits(t) \/ WriteSome(t)
                                        \/ NextTerminal(t) \/ WriteFails(t)
        PROVE  SizeTypes
    BY <2>6 DEF Timeout, Exit, EndDrain, ProgramReads, ProgramExits, WriteSome, NextTerminal,
                WriteFails, vars, resizeVars, Types
  <2> QED
    BY <2>1, <2>2, <2>3, <2>4, <2>5, <2>6 DEF Next, ThreadStep
<1> QED
  BY <1>1, <1>2, <1>3 DEF Types

LEMMA LimitKept ==
  ASSUME Types, WithinLimit, [Next]_vars
  PROVE  WithinLimit'
<1>0. \A t \in Terminals : pending[t] \in Seq(Kept) /\ Queued(t) <= MaxPending
  BY DEF Types, WithinLimit
<1> SUFFICES ASSUME NEW u \in Terminals PROVE Unwritten(pending'[u]) <= MaxPending
  BY DEF WithinLimit, Queued
<1>1. ASSUME pending'[u] = pending[u] \/ pending'[u] = <<>>
      PROVE  Unwritten(pending'[u]) <= MaxPending
  BY <1>0, <1>1, UnwrittenEmpty, WriterAssumption DEF Queued
<1>2. ASSUME NEW t \in Terminals, NEW c \in Whole, Queues(t, c)
      PROVE  Unwritten(pending'[u]) <= MaxPending
  <2>1. CASE u = t
    <3>1. pending'[u] = Append(pending[t], c)
      BY <1>2, <2>1 DEF Queues, Types
    <3>2. c \in Kept /\ Weight(c) = c.length
      BY ChunkTypes DEF Whole, Weight
    <3> QED
      BY <1>0, <1>2, <3>1, <3>2, UnwrittenAppend DEF Queues, Fits, Queued
  <2>2. CASE u # t
    BY <1>1, <1>2, <2>2 DEF Queues, Types
  <2> QED
    BY <2>1, <2>2
<1>3. ASSUME NEW t \in Terminals, NEW taken \in Nat, WritesSome(t, taken)
      PROVE  Unwritten(pending'[u]) <= MaxPending
  <2> DEFINE c == pending[t][1]
  <2>1. CASE u = t
    <3>1. pending[t] \in Seq(Kept) /\ pending[t] # <<>> /\ Unwritten(pending[t]) <= MaxPending
      BY <1>0, <1>3 DEF WritesSome, Queued
    <3>2. Head(pending[t]) = c /\ c \in Kept
      BY <3>1, TailFacts
    <3>3. c.length \in Nat /\ c.offset \in Nat /\ c.offset < c.length
      BY <3>2, ChunkTypes
    <3>4. /\ c.offset + taken <= c.length
          /\ \/ pending'[t] = Tail(pending[t])
             \/ pending'[t] = <<Advanced(c, taken)>> \o Tail(pending[t]) /\ Advanced(c, taken) \in Kept
      BY <1>3, WritesFacts DEF Written
    <3>5. Advanced(c, taken).length = c.length /\ Advanced(c, taken).offset = c.offset + taken
      BY <3>2 DEF Advanced, Kept, Chunk
    <3>6. /\ Unwritten(pending[t]) \in Int
          /\ Unwritten(Tail(pending[t])) = Unwritten(pending[t]) - Weight(c)
          /\ Advanced(c, taken) \in Kept =>
               Unwritten(<<Advanced(c, taken)>> \o Tail(pending[t]))
                 = Unwritten(pending[t]) - Weight(c) + Weight(Advanced(c, taken))
      BY <3>1, <3>2, UnwrittenHead
    <3>7. Weight(c) = c.length - c.offset
          /\ Weight(Advanced(c, taken)) = c.length - (c.offset + taken)
      BY <3>5 DEF Weight
    <3> HIDE DEF c
    <3>8. /\ Unwritten(pending[t]) - Weight(c) <= MaxPending
          /\ Unwritten(pending[t]) - Weight(c) + Weight(Advanced(c, taken)) <= MaxPending
      BY <3>1, <3>3, <3>4, <3>6, <3>7, WriterAssumption
    <3> QED
      BY <2>1, <3>4, <3>6, <3>8
  <2>2. CASE u # t
    BY <1>1, <1>3, <2>2 DEF WritesSome, Types
  <2> QED
    BY <2>1, <2>2
<1>4. ASSUME NEW t \in Terminals, Loses(t)
      PROVE  Unwritten(pending'[u]) <= MaxPending
  BY <1>1, <1>4 DEF Loses, Types
<1>5. ASSUME \/ \E t \in Terminals, c \in Whole : SendsWrite(t, c)
             \/ \E i \in Instructions : SendsOther(i)
             \/ Ignores \/ Rests
      PROVE  Unwritten(pending'[u]) <= MaxPending
  BY <1>1, <1>5 DEF SendsWrite, SendsOther, Ignores, Rests
<1> QED
  BY <1>2, <1>3, <1>4, <1>5, StepCases

\* An instruction that does not resize t leaves the last resize of t the last.
LEMMA NoResizeSent ==
  ASSUME Types, NEW t \in Terminals, NEW i \in Instructions, inbox' = Append(inbox, i),
         ~(i.kind = "resize" /\ i.terminal = t), wanted'[t] = wanted[t]
  PROVE  (LastIsWanted(t) => LastIsWanted(t)') /\ (NoResize(t) => NoResize(t)')
<1>1. /\ Len(inbox) \in Nat /\ Len(inbox') = Len(inbox) + 1
      /\ \A k \in 1 .. Len(inbox) + 1 : k \in 1 .. Len(inbox) \/ k = Len(inbox) + 1
      /\ \A k \in 1 .. Len(inbox) : inbox'[k] = inbox[k] /\ k \in 1 .. Len(inbox) + 1
      /\ inbox'[Len(inbox) + 1] = i
  BY AppendFacts DEF Types
<1>2. \A k \in 1 .. Len(inbox) + 1 : ResizeAt(k, t)' => ResizeAt(k, t) /\ k \in 1 .. Len(inbox)
  BY <1>1 DEF ResizeAt
<1>3. ASSUME LastIsWanted(t) PROVE LastIsWanted(t)'
  <2>1. PICK k \in 1 .. Len(inbox) :
          /\ ResizeAt(k, t) /\ inbox[k].size = wanted[t]
          /\ \A j \in k + 1 .. Len(inbox) : ~ResizeAt(j, t)
    BY <1>3 DEF LastIsWanted
  <2>2. ResizeAt(k, t)' /\ inbox'[k].size = wanted'[t] /\ k \in 1 .. Len(inbox')
    BY <1>1, <2>1 DEF ResizeAt
  <2>3. ASSUME NEW j \in k + 1 .. Len(inbox'), ResizeAt(j, t)' PROVE FALSE
    <3>1. j \in 1 .. Len(inbox) + 1 /\ (j \in 1 .. Len(inbox) => j \in k + 1 .. Len(inbox))
      BY <1>1, <2>1
    <3> QED
      BY <1>2, <2>1, <2>3, <3>1
  <2> QED
    BY <2>2, <2>3 DEF LastIsWanted
<1>4. NoResize(t) => NoResize(t)'
  BY <1>1, <1>2 DEF NoResize
<1> QED
  BY <1>3, <1>4

\* Once an instruction is consumed, the last resize of t is still to come unless it was
\* that one.
LEMMA Consumed ==
  ASSUME Types, NEW t \in Terminals, Consumes, wanted'[t] = wanted[t]
  PROVE  /\ NoResize(t) => NoResize(t)' /\ ~ResizeAt(1, t)
         /\ LastIsWanted(t) =>
              LastIsWanted(t)' \/ (NoResize(t)' /\ ResizeAt(1, t) /\ Head(inbox).size = wanted[t])
<1>1. /\ Len(inbox) \in Nat /\ Len(inbox) >= 1 /\ Head(inbox) = inbox[1]
      /\ Len(inbox') = Len(inbox) - 1
      /\ \A i \in 1 .. Len(inbox) - 1 : inbox'[i] = inbox[i + 1] /\ i + 1 \in 1 .. Len(inbox)
  BY TailFacts DEF Consumes, Types
<1>2. \A i \in 1 .. Len(inbox') : ResizeAt(i, t)' => ResizeAt(i + 1, t)
  BY <1>1 DEF ResizeAt
<1>3. 1 \in 1 .. Len(inbox)
  BY <1>1
<1>4. NoResize(t) => NoResize(t)' /\ ~ResizeAt(1, t)
  BY <1>1, <1>2, <1>3 DEF NoResize
<1>5. ASSUME NEW k \in 1 .. Len(inbox), ResizeAt(k, t), inbox[k].size = wanted[t],
             \A j \in k + 1 .. Len(inbox) : ~ResizeAt(j, t)
      PROVE  LastIsWanted(t)' \/ (NoResize(t)' /\ ResizeAt(1, t) /\ Head(inbox).size = wanted[t])
  <2>1. \A i \in 1 .. Len(inbox') : i + 1 > k => ~ResizeAt(i, t)'
    <3> SUFFICES ASSUME NEW i \in 1 .. Len(inbox'), i + 1 > k PROVE ~ResizeAt(i, t)'
      OBVIOUS
    <3>1. i + 1 \in k + 1 .. Len(inbox)
      BY <1>1
    <3> QED
      BY <1>2, <1>5, <3>1
  <2>2. CASE k = 1
    <3>1. \A i \in 1 .. Len(inbox') : i + 1 > k
      BY <1>1, <2>2
    <3> QED
      BY <1>1, <1>5, <2>1, <2>2, <3>1 DEF NoResize
  <2>3. CASE k # 1
    <3>1. k - 1 \in 1 .. Len(inbox') /\ (k - 1) + 1 = k /\ k - 1 \in 1 .. Len(inbox) - 1
      BY <1>1, <2>3
    <3>2. ResizeAt(k - 1, t)' /\ inbox'[k - 1].size = wanted'[t]
      BY <1>1, <1>5, <3>1 DEF ResizeAt
    <3>3. \A j \in (k - 1) + 1 .. Len(inbox') : j \in 1 .. Len(inbox') /\ j + 1 > k
      BY <1>1, <3>1
    <3> QED
      BY <2>1, <3>1, <3>2, <3>3 DEF LastIsWanted
  <2> QED
    BY <2>2, <2>3
<1>6. LastIsWanted(t) =>
        LastIsWanted(t)' \/ (NoResize(t)' /\ ResizeAt(1, t) /\ Head(inbox).size = wanted[t])
  BY <1>5 DEF LastIsWanted
<1> QED
  BY <1>4, <1>6

LEMMA SizesKept ==
  ASSUME Types, SizesInv, [Next]_vars
  PROVE  SizesInv'
<1> SUFFICES ASSUME NEW t \in Terminals
             PROVE  /\ ~caching' => cached'[t] = 0
                    /\ \/ LastIsWanted(t)'
                       \/ /\ NoResize(t)'
                          /\ wanted'[t] = IF cached'[t] # 0 THEN cached'[t] ELSE size'[t]
  BY DEF SizesInv
<1> DEFINE Goal == /\ ~caching' => cached'[t] = 0
                   /\ \/ LastIsWanted(t)'
                      \/ /\ NoResize(t)'
                         /\ wanted'[t] = IF cached'[t] # 0 THEN cached'[t] ELSE size'[t]
<1>0. /\ ~caching => cached[t] = 0
      /\ \/ LastIsWanted(t)
         \/ NoResize(t) /\ wanted[t] = IF cached[t] # 0 THEN cached[t] ELSE size[t]
  BY DEF SizesInv
<1>1. ASSUME NEW i \in Instructions, inbox' = Append(inbox, i), UNCHANGED <<caching, cached, size>>,
             ~(i.kind = "resize" /\ i.terminal = t), wanted'[t] = wanted[t]
      PROVE  Goal
  BY <1>0, <1>1, NoResizeSent
<1>2. ASSUME NEW u \in Terminals, NEW length \in 1 .. MaxLength, SendWrite(u, length)
      PROVE  Goal
  <2> DEFINE c == [n |-> sends + 1, length |-> length, offset |-> 0]
  <2>1. sends + 1 \in Ids
    BY <1>2, WriterAssumption DEF SendWrite, Send, Types, Ids
  <2>2. c \in Whole
    BY <2>1, WriterAssumption DEF Whole, Chunk
  <2>3. Write(u, c) \in Instructions /\ Write(u, c).kind # "resize"
    BY <2>2 DEF Write, Instructions
  <2> QED
    BY <1>1, <1>2, <2>3 DEF SendWrite, Send, resizeVars
<1>3. ASSUME NEW u \in Terminals, SendResize(u)
      PROVE  Goal
  <2> DEFINE i == Resize(u, sends + 1)
  <2>1. sends + 1 \in Ids
    BY <1>3, WriterAssumption DEF SendResize, Send, Types, Ids
  <2>2. i \in Instructions /\ i.kind = "resize" /\ i.terminal = u /\ i.size = sends + 1
    BY <2>1 DEF Resize, Instructions
  <2>3. inbox' = Append(inbox, i) /\ UNCHANGED <<caching, cached, size>>
    BY <1>3 DEF SendResize, Send, resizeVars
  <2>4. CASE u = t
    <3>1. wanted'[t] = sends + 1
      BY <1>3, <2>4 DEF SendResize, Types
    <3> HIDE DEF i
    <3>2. Len(inbox) \in Nat /\ Len(inbox') = Len(inbox) + 1 /\ inbox'[Len(inbox) + 1] = i
      BY <2>2, <2>3, AppendFacts DEF Types
    <3>3. Len(inbox) + 1 \in 1 .. Len(inbox') /\ (Len(inbox) + 1) + 1 .. Len(inbox') = {}
      BY <3>2
    <3>4. LastIsWanted(t)'
      BY <2>2, <2>4, <3>1, <3>2, <3>3 DEF LastIsWanted, ResizeAt
    <3> QED
      BY <1>0, <2>3, <3>4
  <2>5. CASE u # t
    <3>1. wanted'[t] = wanted[t]
      BY <1>3, <2>5 DEF SendResize, Types
    <3> QED
      BY <1>1, <2>2, <2>3, <2>5, <3>1
  <2> QED
    BY <2>4, <2>5
<1>4. ASSUME NEW u \in Terminals, SendCancel(u)
      PROVE  Goal
  <2>1. [kind |-> "cancel", terminal |-> u] \in Instructions
    BY DEF Instructions
  <2> QED
    BY <1>1, <1>4, <2>1 DEF SendCancel, Send, resizeVars
<1>5. ASSUME NEW kind \in {"start_caching", "apply_cached", "exit"}, SendPlain(kind)
      PROVE  Goal
  <2>1. Plain(kind) \in Instructions /\ Plain(kind).kind # "resize"
    BY DEF Plain, Instructions
  <2> QED
    BY <1>1, <1>5, <2>1 DEF SendPlain, Send, resizeVars
<1>6. ASSUME Receive
      PROVE  Goal
  <2> DEFINE i == Head(inbox)
  <2>1. i \in Instructions /\ Consumes /\ UNCHANGED wanted /\ i = inbox[1]
    BY <1>6, TailFacts DEF Receive, Consumes, Types
  <2>2. \/ i.kind = "write" /\ OnWrite(i.terminal, i.chunk)
        \/ i.kind = "cancel" /\ OnCancel(i.terminal)
        \/ i.kind = "resize" /\ OnResize(i.terminal, i.size)
        \/ i.kind = "start_caching" /\ OnStartCaching
        \/ i.kind = "apply_cached" /\ OnApplyCached
    BY <1>6 DEF Receive
  <2>3. /\ NoResize(t) => NoResize(t)' /\ ~ResizeAt(1, t)
        /\ LastIsWanted(t) =>
             LastIsWanted(t)' \/ (NoResize(t)' /\ ResizeAt(1, t) /\ i.size = wanted[t])
    BY <2>1, Consumed
  <2>4. ResizeAt(1, t) <=> i.kind = "resize" /\ i.terminal = t
    BY <2>1 DEF ResizeAt
  <2> HIDE DEF i
  <2>5. CASE i.kind = "resize" /\ OnResize(i.terminal, i.size)
    <3>1. i.terminal \in Terminals /\ i.size \in Ids /\ i.size # 0
      BY <2>1, <2>5, InstructionKinds DEF Ids
    <3>2. caching' = caching
      BY <2>5 DEF OnResize
    <3>3. CASE caching
      <4>1. /\ cached' = [cached EXCEPT ![i.terminal] = i.size] /\ size' = size
        BY <2>5, <3>3 DEF OnResize, Cached
      <4>2. cached'[t] = (IF t = i.terminal THEN i.size ELSE cached[t]) /\ size'[t] = size[t]
        BY <4>1 DEF Types
      <4> QED
        BY <1>0, <2>1, <2>3, <2>4, <2>5, <3>1, <3>2, <3>3, <4>2
    <3>4. CASE ~caching
      <4>1. /\ size' = [size EXCEPT ![i.terminal] = i.size] /\ cached' = cached
        BY <2>5, <3>4 DEF OnResize
      <4>2. size'[t] = (IF t = i.terminal THEN i.size ELSE size[t]) /\ cached'[t] = cached[t]
        BY <4>1 DEF Types
      <4> QED
        BY <1>0, <2>1, <2>3, <2>4, <2>5, <3>1, <3>2, <3>4, <4>2
    <3> QED
      BY <3>3, <3>4
  <2>6. CASE i.kind = "apply_cached" /\ OnApplyCached
    <3>1. /\ cached'[t] = 0 /\ size'[t] = IF cached[t] # 0 THEN cached[t] ELSE size[t]
      BY <2>6 DEF OnApplyCached
    <3> QED
      BY <1>0, <2>1, <2>3, <2>4, <2>6, <3>1
  <2>7. CASE i.kind = "start_caching" /\ OnStartCaching
    BY <1>0, <2>1, <2>3, <2>4, <2>7 DEF OnStartCaching
  <2>8. CASE \/ i.kind = "write" /\ OnWrite(i.terminal, i.chunk)
             \/ i.kind = "cancel" /\ OnCancel(i.terminal)
    <3>1. UNCHANGED <<caching, cached, size>> /\ i.kind # "resize"
      BY <2>8 DEF OnWrite, OnCancel, resizeVars
    <3> QED
      BY <1>0, <2>1, <2>3, <2>4, <3>1
  <2> QED
    BY <2>2, <2>5, <2>6, <2>7, <2>8
<1>7. ASSUME Exit
      PROVE  Goal
  <2>1. Consumes /\ UNCHANGED <<wanted, caching, cached, size>>
    BY <1>7 DEF Exit, Consumes, resizeVars
  <2>2. Head(inbox) = inbox[1]
    BY <2>1, TailFacts DEF Consumes, Types
  <2>3. ~ResizeAt(1, t)
    BY <1>7, <2>2 DEF Exit, ResizeAt
  <2> QED
    BY <1>0, <2>1, <2>3, Consumed
<1>8. ASSUME UNCHANGED <<inbox, wanted, caching, cached, size>>
      PROVE  Goal
  BY <1>0, <1>8 DEF LastIsWanted, NoResize, ResizeAt
<1>9. ASSUME \/ Timeout \/ EndDrain \/ UNCHANGED vars
             \/ \E u \in Terminals : \/ ProgramReads(u) \/ ProgramExits(u) \/ WriteSome(u)
                                      \/ NextTerminal(u) \/ WriteFails(u)
      PROVE  Goal
  BY <1>8, <1>9 DEF Timeout, EndDrain, ProgramReads, ProgramExits, WriteSome, NextTerminal,
                    WriteFails, vars, resizeVars
<1> QED
  BY <1>2, <1>3, <1>4, <1>5, <1>6, <1>7, <1>9 DEF Next, ThreadStep

LEMMA ElementTypes ==
  ASSUME Types
  PROVE  /\ Len(inbox) \in Nat /\ sends \in Nat
         /\ \A i \in 1 .. Len(inbox) : inbox[i] \in Instructions
         /\ \A i \in 1 .. Len(inbox) : WriteAt(i) =>
              /\ inbox[i].terminal \in Terminals /\ inbox[i].chunk \in Kept
              /\ inbox[i].chunk.n \in Nat /\ inbox[i].chunk.offset = 0
         /\ \A t \in Terminals :
              /\ Len(pending[t]) \in Nat /\ Len(sent[t]) \in Nat /\ Len(received[t]) \in Nat
              /\ \A k \in 1 .. Len(pending[t]) :
                   /\ pending[t][k] \in Kept /\ pending[t][k].n \in Nat
                   /\ pending[t][k].offset \in Nat /\ pending[t][k].length \in Nat
              /\ \A k \in 1 .. Len(sent[t]) : sent[t][k] \in Bytes
              /\ \A k \in 1 .. Len(received[t]) : received[t][k] \in Bytes
         /\ \A b \in Bytes : b[1] \in Nat /\ b[2] \in Nat /\ b = <<b[1], b[2]>>
<1>1. Len(inbox) \in Nat /\ sends \in Nat
      /\ \A i \in 1 .. Len(inbox) : inbox[i] \in Instructions
  BY LenProperties, ElementOfSeq, WriterAssumption DEF Types
<1>2. ASSUME NEW i \in 1 .. Len(inbox), WriteAt(i)
      PROVE  /\ inbox[i].terminal \in Terminals /\ inbox[i].chunk \in Kept
             /\ inbox[i].chunk.n \in Nat /\ inbox[i].chunk.offset = 0
  <2>1. inbox[i].terminal \in Terminals /\ inbox[i].chunk \in Whole
    BY <1>1, <1>2, InstructionKinds DEF WriteAt
  <2> QED
    BY <2>1, ChunkTypes DEF Whole
<1>3. ASSUME NEW t \in Terminals
      PROVE  /\ Len(pending[t]) \in Nat /\ Len(sent[t]) \in Nat /\ Len(received[t]) \in Nat
             /\ \A k \in 1 .. Len(pending[t]) : pending[t][k] \in Kept
             /\ \A k \in 1 .. Len(sent[t]) : sent[t][k] \in Bytes
             /\ \A k \in 1 .. Len(received[t]) : received[t][k] \in Bytes
  <2>1. pending[t] \in Seq(Kept) /\ sent[t] \in Seq(Bytes) /\ received[t] \in Seq(Bytes)
    BY DEF Types
  <2> QED
    BY <2>1, LenProperties, ElementOfSeq
<1>4. \A b \in Bytes : b[1] \in Nat /\ b[2] \in Nat /\ b = <<b[1], b[2]>>
  BY WriterAssumption DEF Bytes, Ids
<1> QED
  BY <1>1, <1>2, <1>3, <1>4, ChunkTypes

LEMMA InboxNumbersKept ==
  ASSUME Types, InboxNumbers, QueueNumbers, [Next]_vars
  PROVE  InboxNumbers'
<1>0. Len(inbox) \in Nat /\ sends \in Nat
      /\ \A i \in 1 .. Len(inbox) : WriteAt(i) => inbox[i].chunk.n \in Nat
  BY ElementTypes
<1>1. ASSUME NEW t \in Terminals, NEW c \in Whole, SendsWrite(t, c)
      PROVE  InboxNumbers'
  <2> DEFINE e == Write(t, c)
  <2>1. e \in Instructions /\ e.chunk = c /\ c.n = sends + 1
    BY <1>1 DEF SendsWrite, Write, Instructions
  <2>2. inbox' = Append(inbox, e) /\ sends' = sends + 1 /\ pending' = pending /\ received' = received
    BY <1>1 DEF SendsWrite
  <2> HIDE DEF e
  <2>3. /\ Len(inbox') = Len(inbox) + 1
        /\ \A i \in 1 .. Len(inbox) + 1 : i \in 1 .. Len(inbox) \/ i = Len(inbox) + 1
        /\ \A i \in 1 .. Len(inbox) : inbox'[i] = inbox[i]
        /\ inbox'[Len(inbox) + 1] = e
    BY <2>1, <2>2, AppendFacts DEF Types
  <2>4. ASSUME NEW i \in 1 .. Len(inbox'), WriteAt(i)'
        PROVE  /\ inbox'[i].chunk.n <= sends'
               /\ \A j \in 1 .. Len(inbox') :
                    WriteAt(j)' /\ i < j => inbox'[i].chunk.n < inbox'[j].chunk.n
               /\ \A u \in Terminals :
                    /\ \A k \in 1 .. Len(pending'[u]) : pending'[u][k].n < inbox'[i].chunk.n
                    /\ \A k \in 1 .. Len(received'[u]) : received'[u][k][1] < inbox'[i].chunk.n
    <3>1. CASE i = Len(inbox) + 1
      <4>1. inbox'[i].chunk.n = sends + 1
        BY <2>1, <2>3, <3>1
      <4>2. \A j \in 1 .. Len(inbox') : ~(i < j)
        BY <1>0, <2>3, <3>1
      <4>3. \A u \in Terminals :
              /\ \A k \in 1 .. Len(pending[u]) : pending[u][k].n < sends + 1
              /\ \A k \in 1 .. Len(received[u]) : received[u][k][1] < sends + 1
        <5>1. \A u \in Terminals :
                /\ \A k \in 1 .. Len(pending[u]) : pending[u][k].n \in Nat /\ pending[u][k].n <= sends
                /\ \A k \in 1 .. Len(received[u]) :
                     received[u][k][1] \in Nat /\ received[u][k][1] <= sends
          BY ElementTypes DEF QueueNumbers
        <5> QED
          BY <1>0, <5>1
      <4> QED
        BY <1>0, <2>2, <4>1, <4>2, <4>3
    <3>2. CASE i \in 1 .. Len(inbox)
      <4>1. inbox'[i] = inbox[i] /\ WriteAt(i) /\ inbox[i].chunk.n \in Nat
        BY <1>0, <2>3, <2>4, <3>2 DEF WriteAt
      <4>2. /\ inbox[i].chunk.n <= sends
            /\ \A j \in 1 .. Len(inbox) : WriteAt(j) /\ i < j => inbox[i].chunk.n < inbox[j].chunk.n
            /\ \A u \in Terminals :
                 /\ \A k \in 1 .. Len(pending[u]) : pending[u][k].n < inbox[i].chunk.n
                 /\ \A k \in 1 .. Len(received[u]) : received[u][k][1] < inbox[i].chunk.n
        BY <3>2, <4>1 DEF InboxNumbers
      <4>3. ASSUME NEW j \in 1 .. Len(inbox'), WriteAt(j)', i < j
            PROVE  inbox[i].chunk.n < inbox'[j].chunk.n
        <5>1. CASE j \in 1 .. Len(inbox)
          BY <2>3, <4>2, <4>3, <5>1 DEF WriteAt
        <5>2. CASE j = Len(inbox) + 1
          <6>1. inbox'[j].chunk.n = sends + 1
            BY <2>1, <2>3, <5>2
          <6> QED
            BY <1>0, <4>1, <4>2, <6>1
        <5> QED
          BY <2>3, <5>1, <5>2
      <4> QED
        BY <1>0, <2>2, <4>1, <4>2, <4>3
    <3> QED
      BY <2>3, <3>1, <3>2
  <2> QED
    BY <2>4 DEF InboxNumbers
<1>2. ASSUME NEW e \in Instructions, SendsOther(e)
      PROVE  InboxNumbers'
  <2>1. inbox' = Append(inbox, e) /\ sends' = sends + 1 /\ pending' = pending /\ received' = received
    BY <1>2 DEF SendsOther
  <2>2. /\ Len(inbox') = Len(inbox) + 1
        /\ \A i \in 1 .. Len(inbox) + 1 : i \in 1 .. Len(inbox) \/ i = Len(inbox) + 1
        /\ \A i \in 1 .. Len(inbox) : inbox'[i] = inbox[i]
        /\ inbox'[Len(inbox) + 1] = e
    BY <2>1, AppendFacts DEF Types
  <2>3. \A i \in 1 .. Len(inbox') : WriteAt(i)' =>
          i \in 1 .. Len(inbox) /\ WriteAt(i) /\ inbox'[i] = inbox[i]
    BY <1>2, <2>2 DEF SendsOther, WriteAt
  <2>4. \A i \in 1 .. Len(inbox) : WriteAt(i) => inbox[i].chunk.n <= sends'
    BY <1>0, <2>1 DEF InboxNumbers
  <2> QED
    BY <2>1, <2>3, <2>4 DEF InboxNumbers
<1>3. ASSUME Consumes
      PROVE  /\ Len(inbox) >= 1 /\ Head(inbox) = inbox[1] /\ 1 \in 1 .. Len(inbox)
             /\ \A i \in 1 .. Len(inbox') :
                  i + 1 \in 1 .. Len(inbox) /\ inbox'[i] = inbox[i + 1] /\ 1 < i + 1
                  /\ (WriteAt(i)' => WriteAt(i + 1))
             /\ \A i, j \in 1 .. Len(inbox') : i < j => i + 1 < j + 1
  <2>1. /\ Len(inbox) >= 1 /\ Head(inbox) = inbox[1] /\ Len(inbox') = Len(inbox) - 1
        /\ \A i \in 1 .. Len(inbox) - 1 : inbox'[i] = inbox[i + 1] /\ i + 1 \in 1 .. Len(inbox)
    BY <1>3, TailFacts DEF Consumes, Types
  <2> QED
    BY <1>0, <2>1 DEF WriteAt
<1>4. ASSUME Consumes, sends' = sends, received' = received,
             \A t \in Terminals : pending'[t] = pending[t] \/ pending'[t] = <<>>
      PROVE  InboxNumbers'
  <2>1. ASSUME NEW i \in 1 .. Len(inbox'), WriteAt(i)'
        PROVE  /\ inbox'[i].chunk.n <= sends'
               /\ \A j \in 1 .. Len(inbox') :
                    WriteAt(j)' /\ i < j => inbox'[i].chunk.n < inbox'[j].chunk.n
               /\ \A t \in Terminals :
                    /\ \A k \in 1 .. Len(pending'[t]) : pending'[t][k].n < inbox'[i].chunk.n
                    /\ \A k \in 1 .. Len(received'[t]) : received'[t][k][1] < inbox'[i].chunk.n
    <3>1. i + 1 \in 1 .. Len(inbox) /\ WriteAt(i + 1) /\ inbox'[i] = inbox[i + 1]
      BY <1>3, <1>4, <2>1
    <3>2. /\ inbox'[i].chunk.n <= sends
          /\ \A j \in 1 .. Len(inbox) :
               WriteAt(j) /\ i + 1 < j => inbox'[i].chunk.n < inbox[j].chunk.n
          /\ \A t \in Terminals :
               /\ \A k \in 1 .. Len(pending[t]) : pending[t][k].n < inbox'[i].chunk.n
               /\ \A k \in 1 .. Len(received[t]) : received[t][k][1] < inbox'[i].chunk.n
      BY <3>1 DEF InboxNumbers
    <3>3. \A j \in 1 .. Len(inbox') : WriteAt(j)' /\ i < j => inbox'[i].chunk.n < inbox'[j].chunk.n
      BY <1>3, <1>4, <3>2
    <3>4. \A t \in Terminals : \A k \in 1 .. Len(pending'[t]) :
            k \in 1 .. Len(pending[t]) /\ pending'[t] = pending[t]
      BY <1>4
    <3> QED
      BY <1>4, <3>2, <3>3, <3>4
  <2> QED
    BY <2>1 DEF InboxNumbers
<1>5. ASSUME Ignores
      PROVE  InboxNumbers'
  BY <1>4, <1>5 DEF Ignores
<1>6. ASSUME NEW t \in Terminals, NEW c \in Whole, Queues(t, c)
      PROVE  InboxNumbers'
  <2>1. /\ pending'[t] = Append(pending[t], c) /\ \A u \in Terminals : u # t => pending'[u] = pending[u]
        /\ Consumes /\ sends' = sends /\ received' = received
    BY <1>6 DEF Queues, Types
  <2>2. WriteAt(1) /\ inbox[1].chunk = c
    BY <1>3, <1>6, <2>1 DEF Queues, WriteAt
  <2>3. \A i \in 1 .. Len(inbox') : WriteAt(i)' => c.n < inbox'[i].chunk.n
    BY <1>3, <2>1, <2>2 DEF InboxNumbers
  <2>4. \A k \in 1 .. Len(pending'[t]) :
          \/ k \in 1 .. Len(pending[t]) /\ pending'[t][k] = pending[t][k]
          \/ pending'[t][k] = c
    <3>1. pending[t] \in Seq(Kept) /\ c \in Kept
      BY ChunkTypes DEF Types
    <3> QED
      BY <2>1, <3>1, AppendFacts
  <2>5. \A i \in 1 .. Len(inbox') : WriteAt(i)' =>
          \A u \in Terminals : \A k \in 1 .. Len(pending'[u]) : pending'[u][k].n < inbox'[i].chunk.n
    <3> SUFFICES ASSUME NEW i \in 1 .. Len(inbox'), WriteAt(i)', NEW u \in Terminals,
                        NEW k \in 1 .. Len(pending'[u])
                 PROVE  pending'[u][k].n < inbox'[i].chunk.n
      OBVIOUS
    <3>1. i + 1 \in 1 .. Len(inbox) /\ WriteAt(i + 1) /\ inbox'[i] = inbox[i + 1]
      BY <1>3, <2>1
    <3>2. \A j \in 1 .. Len(pending[u]) : pending[u][j].n < inbox'[i].chunk.n
      BY <3>1 DEF InboxNumbers
    <3>3. CASE u = t
      BY <2>3, <2>4, <3>2, <3>3
    <3>4. CASE u # t
      BY <2>1, <3>2, <3>4
    <3> QED
      BY <3>3, <3>4
  <2>6. ASSUME NEW i \in 1 .. Len(inbox'), WriteAt(i)'
        PROVE  /\ inbox'[i].chunk.n <= sends'
               /\ \A j \in 1 .. Len(inbox') :
                    WriteAt(j)' /\ i < j => inbox'[i].chunk.n < inbox'[j].chunk.n
               /\ \A u \in Terminals :
                    \A k \in 1 .. Len(received'[u]) : received'[u][k][1] < inbox'[i].chunk.n
    <3>1. i + 1 \in 1 .. Len(inbox) /\ WriteAt(i + 1) /\ inbox'[i] = inbox[i + 1]
      BY <1>3, <2>1, <2>6
    <3> QED
      BY <1>3, <2>1, <3>1 DEF InboxNumbers
  <2> QED
    BY <2>5, <2>6 DEF InboxNumbers
<1>7. ASSUME NEW t \in Terminals, Loses(t)
      PROVE  InboxNumbers'
  <2>1. /\ \A u \in Terminals : pending'[u] = pending[u] \/ pending'[u] = <<>>
        /\ sends' = sends /\ received' = received
    BY <1>7 DEF Loses, Types
  <2>2. CASE inbox' = inbox
    BY <2>1, <2>2 DEF InboxNumbers, WriteAt
  <2> QED
    BY <1>4, <1>7, <2>1, <2>2 DEF Loses
<1>8. ASSUME NEW t \in Terminals, NEW taken \in Nat, WritesSome(t, taken)
      PROVE  InboxNumbers'
  <2> DEFINE c == pending[t][1]
  <2>1. inbox' = inbox /\ sends' = sends
    BY <1>8 DEF WritesSome
  <2>2. /\ \A k \in 1 .. Len(received'[t]) :
             \/ k \in 1 .. Len(received[t]) /\ received'[t][k] = received[t][k]
             \/ received'[t][k][1] = c.n
        /\ \A k \in 1 .. Len(pending'[t]) : \E j \in 1 .. Len(pending[t]) : pending'[t][k].n = pending[t][j].n
        /\ \A u \in Terminals : u # t => received'[u] = received[u] /\ pending'[u] = pending[u]
        /\ 1 \in 1 .. Len(pending[t])
    <3>1. /\ c \in Kept /\ Len(pending[t]) \in Nat /\ Len(pending[t]) >= 1
          /\ Len(received'[t]) = Len(received[t]) + taken
          /\ \A j \in 1 .. Len(received[t]) : received'[t][j] = received[t][j]
          /\ \A m \in 1 .. taken : received'[t][Len(received[t]) + m] = <<c.n, c.offset + m>>
          /\ \/ /\ Len(pending'[t]) = Len(pending[t]) - 1
                /\ \A k \in 1 .. Len(pending'[t]) : pending'[t][k] = pending[t][k + 1]
             \/ /\ Len(pending'[t]) = Len(pending[t])
                /\ pending'[t][1] = Advanced(c, taken)
                /\ \A k \in 2 .. Len(pending'[t]) : pending'[t][k] = pending[t][k]
          /\ \A u \in Terminals : u # t => received'[u] = received[u] /\ pending'[u] = pending[u]
      BY <1>8, WritesFacts DEF Written
    <3>2. Advanced(c, taken).n = c.n
      BY <3>1 DEF Advanced, Kept, Chunk
    <3> HIDE DEF c
    <3>3. \A k \in 1 .. Len(received'[t]) :
             \/ k \in 1 .. Len(received[t]) /\ received'[t][k] = received[t][k]
             \/ received'[t][k][1] = c.n
      <4> SUFFICES ASSUME NEW k \in 1 .. Len(received'[t]), k \notin 1 .. Len(received[t])
                   PROVE  received'[t][k][1] = c.n
        BY <3>1
      <4>1. k - Len(received[t]) \in 1 .. taken /\ Len(received[t]) + (k - Len(received[t])) = k
        BY <3>1, ElementTypes
      <4>2. \A m \in 1 .. taken :
              received'[t][Len(received[t]) + m] = <<c.n, c.offset + m>>
        BY <3>1
      <4> DEFINE m == k - Len(received[t])
      <4>3. received'[t][Len(received[t]) + m] = <<c.n, c.offset + m>>
        BY <4>1, <4>2, Zenon
      <4> QED
        BY <4>1, <4>3
    <3>4. \A k \in 1 .. Len(pending'[t]) :
            \E j \in 1 .. Len(pending[t]) : pending'[t][k].n = pending[t][j].n
      <4> SUFFICES ASSUME NEW k \in 1 .. Len(pending'[t])
                   PROVE  \E j \in 1 .. Len(pending[t]) : pending'[t][k].n = pending[t][j].n
        OBVIOUS
      <4>1. CASE /\ Len(pending'[t]) = Len(pending[t]) - 1
                 /\ \A i \in 1 .. Len(pending'[t]) : pending'[t][i] = pending[t][i + 1]
        <5>1. k + 1 \in 1 .. Len(pending[t])
          BY <3>1, <4>1
        <5> QED
          BY <4>1, <5>1
      <4>2. CASE /\ Len(pending'[t]) = Len(pending[t])
                 /\ pending'[t][1] = Advanced(c, taken)
                 /\ \A i \in 2 .. Len(pending'[t]) : pending'[t][i] = pending[t][i]
        <5>1. k \in 1 .. Len(pending[t]) /\ (k = 1 \/ k \in 2 .. Len(pending'[t]))
          BY <3>1, <4>2
        <5> QED
          BY <3>2, <4>2, <5>1 DEF c
      <4> QED
        BY <3>1, <4>1, <4>2
    <3>5. 1 \in 1 .. Len(pending[t])
      BY <3>1
    <3> QED
      BY <3>1, <3>3, <3>4, <3>5
  <2>3. ASSUME NEW i \in 1 .. Len(inbox), WriteAt(i), NEW u \in Terminals
        PROVE  /\ \A k \in 1 .. Len(pending'[u]) : pending'[u][k].n < inbox[i].chunk.n
               /\ \A k \in 1 .. Len(received'[u]) : received'[u][k][1] < inbox[i].chunk.n
    <3>1. /\ \A k \in 1 .. Len(pending[u]) : pending[u][k].n < inbox[i].chunk.n
          /\ \A k \in 1 .. Len(received[u]) : received[u][k][1] < inbox[i].chunk.n
          /\ c.n < inbox[i].chunk.n
      BY <2>2, <2>3 DEF InboxNumbers
    <3>2. CASE u = t
      BY <2>2, <3>1, <3>2
    <3>3. CASE u # t
      BY <2>2, <3>1, <3>3
    <3> QED
      BY <3>2, <3>3
  <2> QED
    BY <2>1, <2>3 DEF InboxNumbers, WriteAt
<1>9. ASSUME Rests
      PROVE  InboxNumbers'
  BY <1>9 DEF Rests, InboxNumbers, WriteAt
<1> QED
  BY <1>1, <1>2, <1>5, <1>6, <1>7, <1>8, <1>9, StepCases

\* The bytes of a chunk that is sent follow those sent before.
LEMMA SentFacts ==
  ASSUME Types, NEW t \in Terminals, NEW c \in Whole, SendsWrite(t, c)
  PROVE  /\ Len(sent[t]) \in Nat /\ c.n = sends + 1 /\ c.length \in Nat /\ c \in Kept
         /\ Len(sent'[t]) = Len(sent[t]) + c.length
         /\ \A j \in 1 .. Len(sent[t]) : sent'[t][j] = sent[t][j]
         /\ \A m \in 1 .. c.length :
              sent'[t][Len(sent[t]) + m] = <<c.n, m>> /\ <<c.n, m>> \in Bytes
         /\ \A j \in 1 .. Len(sent'[t]) :
              \/ j \in 1 .. Len(sent[t])
              \/ j - Len(sent[t]) \in 1 .. c.length /\ Len(sent[t]) + (j - Len(sent[t])) = j
         /\ \A u \in Terminals : u # t => sent'[u] = sent[u]
<1> DEFINE b == BytesOf(c)
           L == Len(sent[t])
<1>1. /\ sent[t] \in Seq(Bytes) /\ L \in Nat
  BY ElementTypes DEF Types
<1>2. c \in Kept /\ c.length \in Nat /\ c.offset = 0 /\ Weight(c) = c.length
  BY ChunkTypes DEF Whole, Weight
<1>3. /\ b \in Seq(Bytes) /\ Len(b) = c.length
      /\ \A k \in 1 .. c.length : b[k] = <<c.n, 0 + k>> /\ <<c.n, 0 + k>> \in Bytes
  BY <1>2, BytesOfFacts
<1>4. \A k \in 1 .. c.length : b[k] = <<c.n, k>> /\ <<c.n, k>> \in Bytes
  <2>1. \A k \in 1 .. c.length : 0 + k = k
    BY <1>2
  <2> QED
    BY <1>3, <2>1
<1>5. /\ sent'[t] = sent[t] \o b /\ c.n = sends + 1
      /\ \A u \in Terminals : u # t => sent'[u] = sent[u]
  BY DEF SendsWrite, Types
<1> HIDE DEF b
<1>6. /\ Len(sent'[t]) = Len(sent[t]) + Len(b)
      /\ \A i \in 1 .. Len(sent[t]) + Len(b) :
           sent'[t][i] = IF i <= Len(sent[t]) THEN sent[t][i] ELSE b[i - Len(sent[t])]
  <2>1. /\ Len(sent[t] \o b) = Len(sent[t]) + Len(b)
        /\ \A i \in 1 .. Len(sent[t]) + Len(b) :
             (sent[t] \o b)[i] = IF i <= Len(sent[t]) THEN sent[t][i] ELSE b[i - Len(sent[t])]
    BY <1>1, <1>3, ConcatProperties, Zenon
  <2> QED
    BY <1>5, <2>1
<1> HIDE DEF L
<1>7. /\ \A j \in 1 .. L : j \in 1 .. L + c.length /\ j <= L
      /\ \A m \in 1 .. c.length : L + m \in 1 .. L + c.length /\ ~(L + m <= L) /\ (L + m) - L = m
      /\ \A j \in 1 .. L + c.length :
           j \in 1 .. L \/ (j - L \in 1 .. c.length /\ L + (j - L) = j)
  BY <1>1, <1>2
<1>8. /\ \A j \in 1 .. L : sent'[t][j] = sent[t][j]
      /\ \A m \in 1 .. c.length : sent'[t][L + m] = <<c.n, m>>
  BY <1>3, <1>4, <1>6, <1>7 DEF L
<1> QED
  BY <1>1, <1>2, <1>3, <1>4, <1>5, <1>6, <1>7, <1>8 DEF L

LEMMA QueueNumbersKept ==
  ASSUME Types, InboxNumbers, QueueNumbers, [Next]_vars
  PROVE  QueueNumbers'
<1> DEFINE SentBelow(u) == \A k \in 1 .. Len(sent'[u]) : sent'[u][k][1] <= sends'
           ReceivedBelow(u) == \A k \in 1 .. Len(received'[u]) : received'[u][k][1] <= sends'
           InOrder(u, k) ==
             /\ pending'[u][k].n <= sends'
             /\ \A j \in 1 .. Len(pending'[u]) : k < j => pending'[u][k].n < pending'[u][j].n
             /\ \A j \in 1 .. Len(received'[u]) :
                  \/ received'[u][j][1] < pending'[u][k].n
                  \/ /\ received'[u][j][1] = pending'[u][k].n
                     /\ received'[u][j][2] <= pending'[u][k].offset
<1> SUFFICES ASSUME NEW u \in Terminals
             PROVE  /\ SentBelow(u) /\ ReceivedBelow(u)
                    /\ \A k \in 1 .. Len(pending'[u]) : InOrder(u, k)
  BY DEF QueueNumbers
<1> DEFINE Goal == /\ SentBelow(u) /\ ReceivedBelow(u)
                   /\ \A k \in 1 .. Len(pending'[u]) : InOrder(u, k)
<1>1. /\ \A k \in 1 .. Len(sent[u]) : sent[u][k][1] <= sends /\ sent[u][k][1] \in Nat
      /\ \A k \in 1 .. Len(received[u]) : received[u][k][1] <= sends /\ received[u][k][1] \in Nat
      /\ \A k \in 1 .. Len(pending[u]) :
           /\ pending[u][k].n <= sends /\ pending[u][k].n \in Nat
           /\ \A j \in 1 .. Len(pending[u]) : k < j => pending[u][k].n < pending[u][j].n
           /\ \A j \in 1 .. Len(received[u]) :
                \/ received[u][j][1] < pending[u][k].n
                \/ received[u][j][1] = pending[u][k].n /\ received[u][j][2] <= pending[u][k].offset
      /\ sends \in Nat
  BY ElementTypes DEF QueueNumbers
<1>2. ASSUME sent'[u] = sent[u], received'[u] = received[u],
             pending'[u] = pending[u] \/ pending'[u] = <<>>, sends' = sends \/ sends' = sends + 1
      PROVE  Goal
  <2>1. \A m \in Nat : m <= sends => m <= sends'
    BY <1>1, <1>2
  <2>2. SentBelow(u) /\ ReceivedBelow(u)
    BY <1>1, <1>2, <2>1
  <2>3. CASE pending'[u] = pending[u]
    BY <1>1, <1>2, <2>1, <2>2, <2>3
  <2>4. CASE pending'[u] = <<>>
    BY <2>2, <2>4
  <2> QED
    BY <1>2, <2>3, <2>4
<1>3. ASSUME NEW t \in Terminals, NEW c \in Whole, SendsWrite(t, c)
      PROVE  Goal
  <2>1. sends' = sends + 1 /\ received' = received /\ pending' = pending
    BY <1>3 DEF SendsWrite
  <2>2. CASE u = t
    <3>1. \A m \in Nat : m <= sends => m <= sends'
      BY <1>1, <2>1
    <3>2. SentBelow(u)
      <4> SUFFICES ASSUME NEW k \in 1 .. Len(sent'[u]) PROVE sent'[u][k][1] <= sends'
        OBVIOUS
      <4>1. CASE k \in 1 .. Len(sent[u])
        BY <1>1, <1>3, <2>2, <3>1, <4>1, SentFacts
      <4>2. CASE k \notin 1 .. Len(sent[u])
        <5>1. k - Len(sent[u]) \in 1 .. c.length /\ Len(sent[u]) + (k - Len(sent[u])) = k
          BY <1>3, <2>2, <4>2, SentFacts
        <5>2. \A m \in 1 .. c.length : sent'[u][Len(sent[u]) + m] = <<c.n, m>>
          BY <1>3, <2>2, SentFacts
        <5>3. sent'[u][k] = <<c.n, k - Len(sent[u])>>
          BY <5>1, <5>2
        <5>4. c.n = sends + 1
          BY <1>3 DEF SendsWrite
        <5> QED
          BY <1>1, <2>1, <5>3, <5>4
      <4> QED
        BY <4>1, <4>2
    <3> QED
      BY <1>1, <2>1, <3>1, <3>2
  <2>3. CASE u # t
    <3>1. sent'[u] = sent[u]
      BY <1>3, <2>3, SentFacts
    <3> QED
      BY <1>2, <2>1, <3>1
  <2> QED
    BY <2>2, <2>3
<1>4. ASSUME NEW t \in Terminals, NEW c \in Whole, Queues(t, c)
      PROVE  Goal
  <2>1. /\ pending'[t] = Append(pending[t], c)
        /\ u # t => pending'[u] = pending[u]
        /\ Consumes /\ sends' = sends /\ received' = received /\ sent' = sent
    BY <1>4 DEF Queues, Types
  <2>2. CASE u = t
    <3>1. WriteAt(1) /\ inbox[1].chunk = c /\ 1 \in 1 .. Len(inbox) /\ c.n \in Nat
      <4>1. Head(inbox) = inbox[1] /\ Len(inbox) \in Nat /\ Len(inbox) >= 1
        BY <2>1, TailFacts DEF Consumes, Types
      <4> QED
        BY <1>4, <4>1, ChunkTypes DEF Queues, WriteAt
    <3>2. /\ c.n <= sends
          /\ \A k \in 1 .. Len(pending[u]) : pending[u][k].n < c.n
          /\ \A k \in 1 .. Len(received[u]) : received[u][k][1] < c.n
      BY <3>1 DEF InboxNumbers
    <3>3. /\ Len(pending'[u]) = Len(pending[u]) + 1 /\ Len(pending[u]) \in Nat
          /\ \A k \in 1 .. Len(pending[u]) + 1 : k \in 1 .. Len(pending[u]) \/ k = Len(pending[u]) + 1
          /\ \A k \in 1 .. Len(pending[u]) : pending'[u][k] = pending[u][k]
          /\ pending'[u][Len(pending[u]) + 1] = c
      <4>1. pending[t] \in Seq(Kept) /\ c \in Kept
        BY ChunkTypes DEF Types
      <4>2. /\ Len(Append(pending[t], c)) = Len(pending[t]) + 1 /\ Len(pending[t]) \in Nat
            /\ \A k \in 1 .. Len(pending[t]) + 1 : k \in 1 .. Len(pending[t]) \/ k = Len(pending[t]) + 1
            /\ \A k \in 1 .. Len(pending[t]) : Append(pending[t], c)[k] = pending[t][k]
            /\ Append(pending[t], c)[Len(pending[t]) + 1] = c
        BY <4>1, AppendFacts
      <4> QED
        BY <2>1, <2>2, <4>2
    <3>4. ASSUME NEW k \in 1 .. Len(pending'[u])
          PROVE  InOrder(u, k)
      <4>1. CASE k \in 1 .. Len(pending[u])
        <5>1. pending'[u][k] = pending[u][k] /\ pending[u][k].n < c.n
          BY <3>2, <3>3, <4>1
        <5>2. \A j \in 1 .. Len(pending'[u]) : k < j => pending[u][k].n < pending'[u][j].n
          BY <1>1, <3>3, <4>1, <5>1
        <5> QED
          BY <1>1, <2>1, <4>1, <5>1, <5>2
      <4>2. CASE k = Len(pending[u]) + 1
        <5>1. pending'[u][k] = c /\ \A j \in 1 .. Len(pending'[u]) : ~(k < j)
          BY <3>3, <4>2
        <5> QED
          BY <2>1, <3>2, <5>1
      <4> QED
        BY <3>3, <4>1, <4>2
    <3> QED
      BY <1>1, <2>1, <3>4
  <2>3. CASE u # t
    <3>1. /\ sent'[u] = sent[u] /\ received'[u] = received[u] /\ pending'[u] = pending[u]
          /\ sends' = sends
      BY <2>1, <2>3
    <3> QED
      BY <1>2, <3>1
  <2> QED
    BY <2>2, <2>3
<1>5. ASSUME NEW t \in Terminals, NEW taken \in Nat, WritesSome(t, taken)
      PROVE  Goal
  <2>1. sends' = sends /\ sent' = sent
    BY <1>5 DEF WritesSome
  <2>2. CASE u = t
    <3> DEFINE c == pending[u][1]
    <3>1. Written(u, taken, c)
      BY <1>5, <2>2, WritesFacts
    <3>2. /\ c \in Kept /\ Len(pending[u]) \in Nat /\ Len(pending[u]) >= 1 /\ Len(received[u]) \in Nat
          /\ 1 \in 1 .. Len(pending[u])
          /\ c.offset \in Nat /\ c.n \in Nat
      <4>1. c \in Kept /\ Len(pending[u]) \in Nat /\ Len(pending[u]) >= 1
        BY <3>1 DEF Written
      <4>2. Len(received[u]) \in Nat
        BY ElementTypes
      <4> HIDE DEF c
      <4> QED
        BY <4>1, <4>2, ChunkTypes
    <3>3. /\ Advanced(c, taken).n = c.n /\ Advanced(c, taken).offset = c.offset + taken
      BY <3>2 DEF Advanced, Kept, Chunk
    <3>4. /\ c.n <= sends
          /\ \A k \in 2 .. Len(pending[u]) : c.n < pending[u][k].n
      <4>1. \A k \in 2 .. Len(pending[u]) : k \in 1 .. Len(pending[u]) /\ 1 < k
        BY <3>2
      <4> QED
        BY <1>1, <3>2, <4>1
    <3> HIDE DEF c
    <3>5. \A j \in 1 .. Len(received'[u]) :
            \/ j \in 1 .. Len(received[u]) /\ received'[u][j] = received[u][j]
            \/ /\ received'[u][j][1] = c.n
               /\ received'[u][j][2] <= c.offset + taken
      <4> SUFFICES ASSUME NEW j \in 1 .. Len(received'[u]), j \notin 1 .. Len(received[u])
                   PROVE  received'[u][j][1] = c.n /\ received'[u][j][2] <= c.offset + taken
        BY <3>1 DEF Written
      <4>1. /\ j - Len(received[u]) \in 1 .. taken /\ Len(received[u]) + (j - Len(received[u])) = j
        <5>1. Len(received'[u]) = Len(received[u]) + taken
          BY <3>1 DEF Written
        <5>2. Len(received[u]) \in Nat
          BY ElementTypes
        <5> QED
          BY <5>1, <5>2
      <4> DEFINE m == j - Len(received[u])
      <4>2. received'[u][j] = <<c.n, c.offset + (j - Len(received[u]))>>
        <5>1. \A i \in 1 .. taken :
                received'[u][Len(received[u]) + i] = <<c.n, c.offset + i>>
          BY <3>1 DEF Written
        <5>2. received'[u][Len(received[u]) + m] = <<c.n, c.offset + m>>
          BY <4>1, <5>1, Zenon
        <5> QED
          BY <4>1, <5>2
      <4> QED
        BY <3>2, <4>1, <4>2
    <3>6. ReceivedBelow(u)
      BY <1>1, <2>1, <3>4, <3>5
    <3>7. \A k \in 2 .. Len(pending[u]) : \A j \in 1 .. Len(received'[u]) :
            \/ received'[u][j][1] < pending[u][k].n
            \/ /\ received'[u][j][1] = pending[u][k].n
               /\ received'[u][j][2] <= pending[u][k].offset
      <4>1. \A k \in 2 .. Len(pending[u]) : k \in 1 .. Len(pending[u])
        BY <3>2
      <4> QED
        BY <1>1, <3>4, <3>5, <4>1
    <3>8. CASE /\ Len(pending'[u]) = Len(pending[u]) - 1
               /\ \A k \in 1 .. Len(pending'[u]) : pending'[u][k] = pending[u][k + 1]
      <4>1. \A k \in 1 .. Len(pending'[u]) : k + 1 \in 2 .. Len(pending[u]) /\ k + 1 \in 1 .. Len(pending[u])
        BY <3>2, <3>8
      <4>2. \A j, k \in 1 .. Len(pending'[u]) : k < j => k + 1 < j + 1
        BY <3>2, <3>8
      <4>3. ASSUME NEW k \in 1 .. Len(pending'[u])
            PROVE  InOrder(u, k)
        <5>1. pending'[u][k] = pending[u][k + 1] /\ pending[u][k + 1].n <= sends
          BY <1>1, <3>8, <4>1
        <5>2. \A j \in 1 .. Len(pending'[u]) : k < j => pending'[u][k].n < pending'[u][j].n
          BY <1>1, <3>8, <4>1, <4>2
        <5>3. \A j \in 1 .. Len(received'[u]) :
                 \/ received'[u][j][1] < pending[u][k + 1].n
                 \/ /\ received'[u][j][1] = pending[u][k + 1].n
                    /\ received'[u][j][2] <= pending[u][k + 1].offset
          BY <3>7, <4>1
        <5> QED
          BY <2>1, <5>1, <5>2, <5>3
      <4> QED
        BY <1>1, <2>1, <3>6, <4>3
    <3>9. CASE /\ Len(pending'[u]) = Len(pending[u])
               /\ pending'[u][1] = Advanced(c, taken)
               /\ \A k \in 2 .. Len(pending'[u]) : pending'[u][k] = pending[u][k]
      <4>1. \A k \in 1 .. Len(pending[u]) : k = 1 \/ k \in 2 .. Len(pending[u])
        BY <3>2
      <4>2. ASSUME NEW k \in 2 .. Len(pending[u])
            PROVE  InOrder(u, k)
        <5>1. k \in 1 .. Len(pending[u]) /\ pending'[u][k] = pending[u][k]
          BY <3>2, <3>9
        <5>2. \A j \in 1 .. Len(pending'[u]) : k < j => j \in 2 .. Len(pending[u])
          BY <3>2, <3>9
        <5>3. \A j \in 1 .. Len(pending'[u]) : k < j => pending'[u][k].n < pending'[u][j].n
          BY <1>1, <3>9, <5>1, <5>2
        <5> QED
          BY <1>1, <2>1, <3>7, <5>1, <5>3
      <4>3. InOrder(u, 1)
        <5>1. \A j \in 1 .. Len(pending'[u]) : 1 < j => j \in 2 .. Len(pending[u])
          BY <3>2, <3>9
        <5>2. \A j \in 1 .. Len(pending'[u]) : 1 < j => c.n < pending'[u][j].n
          BY <3>4, <3>9, <5>1
        <5>3. \A j \in 1 .. Len(received'[u]) :
                 \/ received'[u][j][1] < c.n
                 \/ received'[u][j][1] = c.n /\ received'[u][j][2] <= c.offset + taken
          <6> SUFFICES ASSUME NEW j \in 1 .. Len(received'[u]),
                              j \in 1 .. Len(received[u]), received'[u][j] = received[u][j]
                       PROVE  \/ received'[u][j][1] < c.n
                              \/ /\ received'[u][j][1] = c.n
                                 /\ received'[u][j][2] <= c.offset + taken
            BY <3>5
          <6>1. \/ received[u][j][1] < c.n
                \/ received[u][j][1] = c.n /\ received[u][j][2] <= c.offset
            BY <1>1, <3>2 DEF c
          <6>2. received[u][j][2] \in Nat
            BY ElementTypes
          <6> QED
            BY <3>2, <6>1, <6>2
        <5> QED
          BY <2>1, <3>3, <3>4, <3>9, <5>2, <5>3
      <4> QED
        BY <1>1, <2>1, <3>6, <3>9, <4>1, <4>2, <4>3
    <3> QED
      BY <3>1, <3>8, <3>9 DEF Written
  <2>3. CASE u # t
    <3>1. received'[u] = received[u] /\ pending'[u] = pending[u]
      BY <1>5, <2>3, WritesFacts DEF Written
    <3> QED
      BY <1>2, <2>1, <3>1
  <2> QED
    BY <2>2, <2>3
<1>6. ASSUME NEW t \in Terminals, Loses(t)
      PROVE  Goal
  BY <1>2, <1>6 DEF Loses, Types
<1>7. ASSUME (\E i \in Instructions : SendsOther(i)) \/ Ignores \/ Rests
      PROVE  Goal
  BY <1>2, <1>7 DEF SendsOther, Ignores, Rests
<1> QED
  BY <1>3, <1>4, <1>5, <1>6, <1>7, StepCases

LEMMA OrderKept ==
  ASSUME Types, QueueNumbers, OrderInv, [Next]_vars
  PROVE  OrderInv'
<1> SUFFICES ASSUME NEW u \in Terminals
             PROVE  /\ Increasing(sent'[u])
                    /\ \A j, k \in 1 .. Len(sent'[u]) :
                         sent'[u][j][1] = sent'[u][k][1] => sent'[u][j][2] - sent'[u][k][2] = j - k
                    /\ Increasing(received'[u])
  BY DEF OrderInv
<1> DEFINE SentOk == /\ Increasing(sent'[u])
                     /\ \A j, k \in 1 .. Len(sent'[u]) :
                          sent'[u][j][1] = sent'[u][k][1] => sent'[u][j][2] - sent'[u][k][2] = j - k
<1>0. /\ Increasing(sent[u])
      /\ \A j, k \in 1 .. Len(sent[u]) :
           sent[u][j][1] = sent[u][k][1] => sent[u][j][2] - sent[u][k][2] = j - k
      /\ Increasing(received[u])
  BY DEF OrderInv
<1>1. ASSUME sent'[u] = sent[u]
      PROVE  SentOk
  BY <1>0, <1>1
<1>2. ASSUME received'[u] = received[u]
      PROVE  Increasing(received'[u])
  BY <1>0, <1>2
<1>3. ASSUME NEW t \in Terminals, NEW c \in Whole, SendsWrite(t, c)
      PROVE  SentOk /\ Increasing(received'[u])
  <2>1. received'[u] = received[u]
    BY <1>3 DEF SendsWrite
  <2>2. CASE u = t
    <3> DEFINE L == Len(sent[u])
    <3>1. /\ L \in Nat /\ c.n = sends + 1 /\ c.length \in Nat
          /\ \A j \in 1 .. L : sent'[u][j] = sent[u][j]
          /\ \A m \in 1 .. c.length : sent'[u][L + m] = <<c.n, m>>
          /\ \A j \in 1 .. Len(sent'[u]) :
               j \in 1 .. L \/ (j - L \in 1 .. c.length /\ L + (j - L) = j)
      BY <1>3, <2>2, SentFacts
    <3>2. \A j \in 1 .. L : /\ sent[u][j][1] <= sends /\ sent[u][j][1] \in Nat /\ sent[u][j][2] \in Nat
                            /\ sends \in Nat
      BY ElementTypes DEF QueueNumbers
    <3> HIDE DEF L
    <3>3. \A j \in 1 .. Len(sent'[u]) :
            \/ j \in 1 .. L /\ sent'[u][j] = sent[u][j] /\ sent'[u][j][1] # c.n
                            /\ sent'[u][j][1] < c.n
            \/ j - L \in 1 .. c.length /\ sent'[u][j] = <<c.n, j - L>> /\ j \notin 1 .. L
      <4> SUFFICES ASSUME NEW j \in 1 .. Len(sent'[u])
                   PROVE  \/ /\ j \in 1 .. L /\ sent'[u][j] = sent[u][j]
                             /\ sent'[u][j][1] # c.n /\ sent'[u][j][1] < c.n
                          \/ /\ j - L \in 1 .. c.length /\ sent'[u][j] = <<c.n, j - L>>
                             /\ j \notin 1 .. L
        OBVIOUS
      <4>1. CASE j \in 1 .. L
        BY <3>1, <3>2, <4>1
      <4>2. CASE j - L \in 1 .. c.length /\ L + (j - L) = j
        <5>1. sent'[u][L + (j - L)] = <<c.n, j - L>>
          BY <3>1, <4>2
        <5>2. j \notin 1 .. L
          BY <3>1, <4>2
        <5> QED
          BY <4>2, <5>1, <5>2
      <4> QED
        BY <3>1, <4>1, <4>2
    <3>4. ASSUME NEW j \in 1 .. Len(sent'[u]), NEW k \in 1 .. Len(sent'[u])
          PROVE  /\ j < k => Before(sent'[u][j], sent'[u][k])
                 /\ sent'[u][j][1] = sent'[u][k][1] => sent'[u][j][2] - sent'[u][k][2] = j - k
      <4>1. CASE j \in 1 .. L /\ k \in 1 .. L
        <5>1. sent'[u][j] = sent[u][j] /\ sent'[u][k] = sent[u][k]
          BY <3>1, <4>1
        <5> QED
          BY <1>0, <4>1, <5>1 DEF Increasing, L
      <4>2. CASE j \in 1 .. L /\ k \notin 1 .. L
        BY <3>3, <4>2 DEF Before
      <4>3. CASE j \notin 1 .. L /\ k \in 1 .. L
        <5>1. ~(j < k)
          BY <3>1, <4>3
        <5>2. sent'[u][j][1] # sent'[u][k][1]
          BY <3>3, <4>3
        <5> QED
          BY <5>1, <5>2
      <4>4. CASE j \notin 1 .. L /\ k \notin 1 .. L
        <5>1. /\ sent'[u][j] = <<c.n, j - L>> /\ sent'[u][k] = <<c.n, k - L>>
          BY <3>3, <4>4
        <5>2. (j < k => j - L < k - L) /\ (j - L) - (k - L) = j - k
          BY <3>1
        <5> QED
          BY <5>1, <5>2 DEF Before
      <4> QED
        BY <4>1, <4>2, <4>3, <4>4
    <3> QED
      BY <1>2, <2>1, <3>4 DEF Increasing
  <2>3. CASE u # t
    <3>1. sent'[u] = sent[u]
      BY <1>3, <2>3, SentFacts
    <3> QED
      BY <1>1, <1>2, <2>1, <3>1
  <2> QED
    BY <2>2, <2>3
<1>4. ASSUME NEW t \in Terminals, NEW taken \in Nat, WritesSome(t, taken)
      PROVE  SentOk /\ Increasing(received'[u])
  <2>1. sent'[u] = sent[u]
    BY <1>4 DEF WritesSome
  <2>2. CASE u = t
    <3> DEFINE c == pending[u][1]
               L == Len(received[u])
    <3>1. Written(u, taken, c)
      BY <1>4, <2>2, WritesFacts
    <3>2. c \in Kept /\ L \in Nat /\ 1 \in 1 .. Len(pending[u])
      <4>1. c \in Kept /\ Len(pending[u]) \in Nat /\ Len(pending[u]) >= 1
        BY <3>1 DEF Written
      <4> QED
        BY <4>1, ElementTypes
    <3>3. c.offset \in Nat /\ c.n \in Nat
      BY <3>2, ChunkTypes
    <3>4. \A j \in 1 .. L :
            /\ received[u][j][1] \in Nat /\ received[u][j][2] \in Nat
            /\ \/ received[u][j][1] < c.n
               \/ received[u][j][1] = c.n /\ received[u][j][2] <= c.offset
      BY <3>2, ElementTypes DEF QueueNumbers
    <3>5. /\ Len(received'[u]) = L + taken
          /\ \A j \in 1 .. L : received'[u][j] = received[u][j]
          /\ \A m \in 1 .. taken : received'[u][L + m] = <<c.n, c.offset + m>>
      BY <3>1 DEF Written
    <3> HIDE DEF c, L
    <3>6. \A k \in 1 .. Len(received'[u]) : k \notin 1 .. L =>
            k - L \in 1 .. taken /\ received'[u][k] = <<c.n, c.offset + (k - L)>>
      <4> SUFFICES ASSUME NEW k \in 1 .. Len(received'[u]), k \notin 1 .. L
                   PROVE  k - L \in 1 .. taken /\ received'[u][k] = <<c.n, c.offset + (k - L)>>
        OBVIOUS
      <4>1. k - L \in 1 .. taken /\ L + (k - L) = k
        BY <3>2, <3>5
      <4>2. received'[u][L + (k - L)] = <<c.n, c.offset + (k - L)>>
        BY <3>5, <4>1
      <4> QED
        BY <4>1, <4>2
    <3>7. ASSUME NEW j \in 1 .. Len(received'[u]), NEW k \in 1 .. Len(received'[u]), j < k
          PROVE  Before(received'[u][j], received'[u][k])
      <4>1. CASE j \in 1 .. L /\ k \in 1 .. L
        <5>1. received'[u][j] = received[u][j] /\ received'[u][k] = received[u][k]
          BY <3>5, <4>1
        <5> QED
          BY <1>0, <3>7, <4>1, <5>1 DEF Increasing, L
      <4>2. CASE j \in 1 .. L /\ k \notin 1 .. L
        <5>1. received'[u][j] = received[u][j] /\ received'[u][k] = <<c.n, c.offset + (k - L)>>
          BY <3>5, <3>6, <4>2
        <5>2. k - L >= 1 /\ k - L \in Nat
          BY <3>2, <3>6, <4>2
        <5>3. c.offset < c.offset + (k - L) /\ c.offset + (k - L) \in Nat
          BY <3>3, <5>2
        <5>4. /\ received[u][j][2] \in Nat /\ received[u][j][1] \in Nat
              /\ \/ received[u][j][1] < c.n
                 \/ received[u][j][1] = c.n /\ received[u][j][2] < c.offset + (k - L)
          BY <3>3, <3>4, <4>2, <5>3
        <5> QED
          BY <5>1, <5>4 DEF Before
      <4>3. CASE j \notin 1 .. L
        <5>1. k \notin 1 .. L
          BY <3>2, <3>7, <4>3
        <5>2. /\ received'[u][j] = <<c.n, c.offset + (j - L)>>
              /\ received'[u][k] = <<c.n, c.offset + (k - L)>>
          BY <3>6, <4>3, <5>1
        <5>3. c.offset + (j - L) < c.offset + (k - L)
          BY <3>2, <3>3, <3>7
        <5> QED
          BY <5>2, <5>3 DEF Before
      <4> QED
        BY <4>1, <4>2, <4>3
    <3> QED
      BY <1>1, <2>1, <3>7 DEF Increasing
  <2>3. CASE u # t
    <3>1. received'[u] = received[u]
      BY <1>4, <2>3, WritesFacts DEF Written
    <3> QED
      BY <1>1, <1>2, <2>1, <3>1
  <2> QED
    BY <2>2, <2>3
<1>5. ASSUME \/ \E i \in Instructions : SendsOther(i)
             \/ Ignores \/ Rests
             \/ \E t \in Terminals, c \in Whole : Queues(t, c)
             \/ \E t \in Terminals : Loses(t)
      PROVE  SentOk /\ Increasing(received'[u])
  <2>1. sent'[u] = sent[u] /\ received'[u] = received[u]
    BY <1>5 DEF SendsOther, Ignores, Rests, Queues, Loses
  <2> QED
    BY <1>1, <1>2, <2>1
<1> QED
  BY <1>3, <1>4, <1>5, StepCases

\* An instruction that is sent is on its way, with those before it.
LEMMA ComingAppended ==
  ASSUME Types, NEW u \in Terminals, NEW b, NEW e \in Instructions, inbox' = Append(inbox, e)
  PROVE  IsComing(u, b)' <=>
           IsComing(u, b) \/ (e.kind = "write" /\ e.terminal = u /\ Holds(e.chunk, b))
<1>1. /\ Len(inbox') = Len(inbox) + 1 /\ Len(inbox) \in Nat
      /\ \A i \in 1 .. Len(inbox) + 1 : i \in 1 .. Len(inbox) \/ i = Len(inbox) + 1
      /\ \A i \in 1 .. Len(inbox) : inbox'[i] = inbox[i] /\ i \in 1 .. Len(inbox) + 1
      /\ inbox'[Len(inbox) + 1] = e
  BY AppendFacts DEF Types
<1>2. Len(inbox) + 1 \in 1 .. Len(inbox')
  BY <1>1
<1>3. ASSUME IsComing(u, b)'
      PROVE  IsComing(u, b) \/ (e.kind = "write" /\ e.terminal = u /\ Holds(e.chunk, b))
  <2>1. PICK i \in 1 .. Len(inbox') :
          inbox'[i].kind = "write" /\ inbox'[i].terminal = u /\ Holds(inbox'[i].chunk, b)
    BY <1>3 DEF IsComing, WriteAt
  <2>2. CASE i \in 1 .. Len(inbox)
    BY <1>1, <2>1, <2>2 DEF IsComing, WriteAt
  <2>3. CASE i = Len(inbox) + 1
    BY <1>1, <2>1, <2>3
  <2> QED
    BY <1>1, <2>2, <2>3
<1>4. ASSUME IsComing(u, b) PROVE IsComing(u, b)'
  <2>1. PICK i \in 1 .. Len(inbox) :
          inbox[i].kind = "write" /\ inbox[i].terminal = u /\ Holds(inbox[i].chunk, b)
    BY <1>4 DEF IsComing, WriteAt
  <2>2. i \in 1 .. Len(inbox') /\ inbox'[i] = inbox[i]
    BY <1>1
  <2> QED
    BY <2>1, <2>2 DEF IsComing, WriteAt
<1>5. e.kind = "write" /\ e.terminal = u /\ Holds(e.chunk, b) => IsComing(u, b)'
  BY <1>1, <1>2 DEF IsComing, WriteAt
<1> QED
  BY <1>3, <1>4, <1>5

\* The instruction that is consumed was on its way.
LEMMA ComingConsumed ==
  ASSUME Types, NEW u \in Terminals, NEW b, Consumes
  PROVE  IsComing(u, b) <=>
           \/ IsComing(u, b)'
           \/ Head(inbox).kind = "write" /\ Head(inbox).terminal = u /\ Holds(Head(inbox).chunk, b)
<1>1. /\ Len(inbox) \in Nat /\ Len(inbox) >= 1 /\ Head(inbox) = inbox[1]
      /\ Len(inbox') = Len(inbox) - 1
      /\ \A i \in 1 .. Len(inbox) - 1 : inbox'[i] = inbox[i + 1] /\ i + 1 \in 1 .. Len(inbox)
  BY TailFacts DEF Consumes, Types
<1>2. 1 \in 1 .. Len(inbox)
  BY <1>1
<1>3. ASSUME IsComing(u, b)
      PROVE  \/ IsComing(u, b)'
             \/ Head(inbox).kind = "write" /\ Head(inbox).terminal = u /\ Holds(Head(inbox).chunk, b)
  <2>1. PICK i \in 1 .. Len(inbox) :
          inbox[i].kind = "write" /\ inbox[i].terminal = u /\ Holds(inbox[i].chunk, b)
    BY <1>3 DEF IsComing, WriteAt
  <2>2. CASE i = 1
    BY <1>1, <2>1, <2>2
  <2>3. CASE i # 1
    <3>1. i - 1 \in 1 .. Len(inbox') /\ i - 1 \in 1 .. Len(inbox) - 1 /\ (i - 1) + 1 = i
      BY <1>1, <2>3
    <3>2. inbox'[i - 1] = inbox[i]
      BY <1>1, <3>1
    <3> QED
      BY <2>1, <3>1, <3>2 DEF IsComing, WriteAt
  <2> QED
    BY <2>2, <2>3
<1>4. ASSUME IsComing(u, b)' PROVE IsComing(u, b)
  <2>1. PICK i \in 1 .. Len(inbox') :
          inbox'[i].kind = "write" /\ inbox'[i].terminal = u /\ Holds(inbox'[i].chunk, b)
    BY <1>4 DEF IsComing, WriteAt
  <2>2. i + 1 \in 1 .. Len(inbox) /\ inbox'[i] = inbox[i + 1]
    BY <1>1
  <2> QED
    BY <2>1, <2>2 DEF IsComing, WriteAt
<1>5. Head(inbox).kind = "write" /\ Head(inbox).terminal = u /\ Holds(Head(inbox).chunk, b)
        => IsComing(u, b)
  BY <1>1, <1>2 DEF IsComing, WriteAt
<1> QED
  BY <1>3, <1>4, <1>5

\* A chunk that is queued is pending, with those before it.
LEMMA PendingAppended ==
  ASSUME Types, NEW u \in Terminals, NEW b, NEW c \in Kept, pending'[u] = Append(pending[u], c)
  PROVE  IsPending(u, b)' <=> IsPending(u, b) \/ Holds(c, b)
<1>1. /\ Len(pending'[u]) = Len(pending[u]) + 1 /\ Len(pending[u]) \in Nat
      /\ \A i \in 1 .. Len(pending[u]) + 1 : i \in 1 .. Len(pending[u]) \/ i = Len(pending[u]) + 1
      /\ \A i \in 1 .. Len(pending[u]) :
           pending'[u][i] = pending[u][i] /\ i \in 1 .. Len(pending[u]) + 1
      /\ pending'[u][Len(pending[u]) + 1] = c
  <2>1. pending[u] \in Seq(Kept)
    BY DEF Types
  <2> QED
    BY <2>1, AppendFacts
<1>2. Len(pending[u]) + 1 \in 1 .. Len(pending'[u])
  BY <1>1
<1>3. ASSUME IsPending(u, b)' PROVE IsPending(u, b) \/ Holds(c, b)
  <2>1. PICK i \in 1 .. Len(pending'[u]) : Holds(pending'[u][i], b)
    BY <1>3 DEF IsPending
  <2>2. CASE i \in 1 .. Len(pending[u])
    BY <1>1, <2>1, <2>2 DEF IsPending
  <2>3. CASE i = Len(pending[u]) + 1
    BY <1>1, <2>1, <2>3
  <2> QED
    BY <1>1, <2>2, <2>3
<1>4. ASSUME IsPending(u, b) PROVE IsPending(u, b)'
  <2>1. PICK i \in 1 .. Len(pending[u]) : Holds(pending[u][i], b)
    BY <1>4 DEF IsPending
  <2>2. i \in 1 .. Len(pending'[u]) /\ pending'[u][i] = pending[u][i]
    BY <1>1
  <2> QED
    BY <2>1, <2>2 DEF IsPending
<1>5. Holds(c, b) => IsPending(u, b)'
  BY <1>1, <1>2 DEF IsPending
<1> QED
  BY <1>3, <1>4, <1>5

\* Without a loss, the bytes about to be written are the next of those sent: the first
\* of them is the least of what is outstanding, and a chunk's bytes are sent together.
LEMMA NextBytes ==
  ASSUME Types, InboxNumbers, QueueNumbers, OrderInv, NothingMissing,
         NEW t \in Terminals, t \notin lossy, NEW taken \in Nat, WritesSome(t, taken),
         NEW m \in 1 .. taken
  PROVE  /\ Len(received[t]) + m \in 1 .. Len(sent[t])
         /\ sent[t][Len(received[t]) + m] = <<pending[t][1].n, pending[t][1].offset + m>>
<1> DEFINE c == pending[t][1]
           L == Len(received[t])
           S == sent[t]
<1>1. /\ c \in Kept /\ Len(pending[t]) \in Nat /\ Len(pending[t]) >= 1
      /\ taken >= 1 /\ c.offset + taken <= c.length
  BY WritesFacts DEF Written
<1>2. L \in Nat /\ Len(S) \in Nat /\ \A j \in 1 .. Len(S) : S[j] \in Bytes
  BY ElementTypes
<1>3. /\ \A j \in L + 1 .. Len(S) : Outstanding(t, S[j])
      /\ \A b \in Bytes : Outstanding(t, b) => \E j \in L + 1 .. Len(S) : S[j] = b
  BY DEF NothingMissing
<1>4. /\ Increasing(S)
      /\ \A j, k \in 1 .. Len(S) : S[j][1] = S[k][1] => S[j][2] - S[k][2] = j - k
  BY DEF OrderInv
<1>5. 1 \in 1 .. Len(pending[t]) /\ \A k \in 1 .. Len(pending[t]) : k # 1 => 1 < k
  BY <1>1
<1>6. \A b \in Bytes : Outstanding(t, b) => ~Before(b, <<c.n, c.offset + 1>>)
  <2> SUFFICES ASSUME NEW b \in Bytes, Outstanding(t, b)
               PROVE  ~Before(b, <<c.n, c.offset + 1>>)
    OBVIOUS
  <2>1. b[1] \in Nat /\ b[2] \in Nat /\ c.n \in Nat /\ c.offset \in Nat
    <3>1. b[1] \in Nat /\ b[2] \in Nat
      BY ElementTypes
    <3> QED
      BY <1>1, <3>1, ChunkTypes
  <2>2. CASE IsPending(t, b)
    <3>1. PICK k \in 1 .. Len(pending[t]) : Holds(pending[t][k], b)
      BY <2>2 DEF IsPending
    <3>2. CASE k = 1
      <4>1. b[1] = c.n /\ c.offset < b[2]
        BY <3>1, <3>2 DEF Holds
      <4> HIDE DEF c
      <4> QED
        BY <2>1, <4>1 DEF Before
    <3>3. CASE k # 1
      <4>1. c.n < b[1]
        BY <1>5, <3>1, <3>3 DEF Holds, QueueNumbers
      <4> HIDE DEF c
      <4> QED
        BY <2>1, <4>1 DEF Before
    <3> QED
      BY <3>2, <3>3
  <2>3. CASE IsComing(t, b)
    <3>1. PICK i \in 1 .. Len(inbox) : WriteAt(i) /\ Holds(inbox[i].chunk, b)
      BY <2>3 DEF IsComing
    <3>2. c.n < b[1]
      BY <1>5, <3>1 DEF Holds, InboxNumbers
    <3> HIDE DEF c
    <3> QED
      BY <2>1, <3>2 DEF Before
  <2> QED
    BY <2>2, <2>3 DEF Outstanding
<1>7. \A k \in 1 .. taken : \E j \in L + 1 .. Len(S) : S[j] = <<c.n, c.offset + k>>
  <2> SUFFICES ASSUME NEW k \in 1 .. taken
               PROVE  \E j \in L + 1 .. Len(S) : S[j] = <<c.n, c.offset + k>>
    OBVIOUS
  <2> DEFINE b == <<c.n, c.offset + k>>
  <2>1. k \in 1 .. Weight(c) /\ c.offset < c.offset + k /\ c.offset + k <= c.length
    <3>1. c.offset \in Nat /\ c.length \in Nat
      BY <1>1, ChunkTypes
    <3> HIDE DEF c
    <3> QED
      BY <1>1, <3>1 DEF Weight
  <2>2. b \in Bytes
    BY <1>1, <2>1, BytesOfFacts
  <2>3. Holds(c, b)
    BY <2>1 DEF Holds
  <2>4. Outstanding(t, b)
    BY <1>5, <2>3 DEF Outstanding, IsPending
  <2> QED
    BY <1>3, <2>2, <2>4
<1>8. c.n \in Nat /\ c.offset \in Nat
  BY <1>1, ChunkTypes
<1> HIDE DEF c, L, S
<1>9. PICK p \in L + 1 .. Len(S) : S[p] = <<c.n, c.offset + 1>>
  <2>1. 1 \in 1 .. taken
    BY <1>1
  <2> QED
    BY <1>7, <2>1
<1>10. p = L + 1
  <2> SUFFICES ASSUME p # L + 1 PROVE FALSE
    OBVIOUS
  <2>1. L + 1 \in L + 1 .. Len(S) /\ L + 1 \in 1 .. Len(S) /\ p \in 1 .. Len(S) /\ L + 1 < p
    BY <1>2, <1>9
  <2>2. Before(S[L + 1], S[p])
    BY <1>4, <2>1 DEF Increasing
  <2> QED
    BY <1>2, <1>3, <1>6, <1>9, <2>1, <2>2
<1>11. PICK j \in L + 1 .. Len(S) : S[j] = <<c.n, c.offset + m>>
  BY <1>7
<1>12. j = L + m
  <2>1. j \in 1 .. Len(S) /\ p \in 1 .. Len(S)
    BY <1>2, <1>9, <1>11
  <2>2. S[j][1] = S[p][1] /\ S[j][2] = c.offset + m /\ S[p][2] = c.offset + 1
    BY <1>9, <1>11
  <2>3. S[j][2] - S[p][2] = j - p
    BY <1>4, <2>1, <2>2
  <2> QED
    BY <1>2, <1>8, <1>10, <2>1, <2>2, <2>3
<1> QED
  BY <1>2, <1>11, <1>12 DEF c, L, S

LEMMA MissingKept ==
  ASSUME Types, InboxNumbers, QueueNumbers, OrderInv, NothingMissing, [Next]_vars
  PROVE  NothingMissing'
<1> SUFFICES ASSUME NEW u \in Terminals, u \notin lossy'
             PROVE  /\ Len(received'[u]) <= Len(sent'[u])
                    /\ \A j \in 1 .. Len(received'[u]) : received'[u][j] = sent'[u][j]
                    /\ \A j \in Len(received'[u]) + 1 .. Len(sent'[u]) :
                         Outstanding(u, sent[u][j])'
                    /\ \A b \in Bytes : Outstanding(u, b)' =>
                         \E j \in Len(received'[u]) + 1 .. Len(sent'[u]) : sent'[u][j] = b
  BY DEF NothingMissing
<1> DEFINE Goal ==
             /\ Len(received'[u]) <= Len(sent'[u])
             /\ \A j \in 1 .. Len(received'[u]) : received'[u][j] = sent'[u][j]
             /\ \A j \in Len(received'[u]) + 1 .. Len(sent'[u]) : Outstanding(u, sent[u][j])'
             /\ \A b \in Bytes : Outstanding(u, b)' =>
                  \E j \in Len(received'[u]) + 1 .. Len(sent'[u]) : sent'[u][j] = b
           L == Len(received[u])
<1>1. u \notin lossy
  BY StepCases DEF SendsWrite, SendsOther, Ignores, Queues, Loses, WritesSome, Rests
<1>2. /\ L <= Len(sent[u])
      /\ \A j \in 1 .. L : received[u][j] = sent[u][j]
      /\ \A j \in L + 1 .. Len(sent[u]) : Outstanding(u, sent[u][j])
      /\ \A b \in Bytes : Outstanding(u, b) => \E j \in L + 1 .. Len(sent[u]) : sent[u][j] = b
  BY <1>1 DEF NothingMissing
<1>3. L \in Nat /\ Len(sent[u]) \in Nat /\ \A j \in 1 .. Len(sent[u]) : sent[u][j] \in Bytes
  BY ElementTypes
<1>4. ASSUME sent'[u] = sent[u], received'[u] = received[u],
             \A b : Outstanding(u, b)' <=> Outstanding(u, b)
      PROVE  Goal
  BY <1>2, <1>4
<1>5. ASSUME pending'[u] = pending[u]
      PROVE  \A b : IsPending(u, b)' <=> IsPending(u, b)
  BY <1>5 DEF IsPending
<1>6. ASSUME inbox' = inbox
      PROVE  \A b : IsComing(u, b)' <=> IsComing(u, b)
  BY <1>6 DEF IsComing, WriteAt
<1>7. ASSUME NEW t \in Terminals, NEW c \in Whole, SendsWrite(t, c)
      PROVE  Goal
  <2> DEFINE e == Write(t, c)
  <2>1. e \in Instructions /\ e.kind = "write" /\ e.terminal = t /\ e.chunk = c
    BY DEF Write, Instructions
  <2>2. /\ inbox' = Append(inbox, e) /\ received'[u] = received[u] /\ pending'[u] = pending[u]
    BY <1>7 DEF SendsWrite
  <2> HIDE DEF e
  <2>3. \A b : Outstanding(u, b)' <=> Outstanding(u, b) \/ (t = u /\ Holds(c, b))
    BY <1>5, <2>1, <2>2, ComingAppended DEF Outstanding
  <2>4. CASE u # t
    <3>1. sent'[u] = sent[u]
      BY <1>7, <2>4, SentFacts
    <3> QED
      BY <1>4, <2>2, <2>3, <2>4, <3>1
  <2>5. CASE u = t
    <3> DEFINE N == Len(sent[u])
    <3>1. /\ c.length \in Nat /\ c \in Kept /\ Len(sent'[u]) = N + c.length
          /\ \A j \in 1 .. N : sent'[u][j] = sent[u][j]
          /\ \A k \in 1 .. c.length : sent'[u][N + k] = <<c.n, k>>
          /\ \A j \in 1 .. Len(sent'[u]) :
               j \in 1 .. N \/ (j - N \in 1 .. c.length /\ N + (j - N) = j)
      BY <1>7, <2>5, SentFacts
    <3>2. c.offset = 0
      BY DEF Whole
    <3>3. ASSUME NEW j \in L + 1 .. Len(sent'[u])
          PROVE  Outstanding(u, sent[u][j])'
      <4>1. j \in 1 .. Len(sent'[u])
        BY <1>3, <3>1
      <4>2. CASE j \in 1 .. N
        <5>1. j \in L + 1 .. N
          BY <1>3, <4>2
        <5> QED
          BY <1>2, <2>3, <3>1, <4>2, <5>1
      <4>3. CASE j - N \in 1 .. c.length /\ N + (j - N) = j
        <5>1. sent'[u][j] = <<c.n, j - N>>
          BY <3>1, <4>3
        <5>2. 0 < j - N /\ j - N <= c.length
          BY <4>3
        <5>3. Holds(c, sent'[u][j])
          BY <3>2, <5>1, <5>2 DEF Holds
        <5> QED
          BY <2>3, <2>5, <5>3
      <4> QED
        BY <3>1, <4>1, <4>2, <4>3
    <3>4. ASSUME NEW b \in Bytes, Outstanding(u, b)'
          PROVE  \E j \in L + 1 .. Len(sent'[u]) : sent'[u][j] = b
      <4>1. CASE Outstanding(u, b)
        <5>1. PICK j \in L + 1 .. N : sent[u][j] = b
          BY <1>2, <4>1
        <5>2. j \in 1 .. N /\ j \in L + 1 .. Len(sent'[u])
          BY <1>3, <3>1
        <5> QED
          BY <3>1, <5>1, <5>2
      <4>2. CASE Holds(c, b)
        <5>1. b[2] \in 1 .. c.length /\ b = <<c.n, b[2]>>
          <6>1. b[2] \in Nat /\ b = <<b[1], b[2]>>
            BY ElementTypes
          <6> QED
            BY <3>1, <3>2, <4>2, <6>1 DEF Holds
        <5>2. sent'[u][N + b[2]] = b
          BY <3>1, <5>1
        <5>3. N + b[2] \in L + 1 .. Len(sent'[u])
          BY <1>2, <1>3, <3>1, <5>1
        <5> QED
          BY <5>2, <5>3
      <4> QED
        BY <2>3, <3>4, <4>1, <4>2
    <3>5. L <= Len(sent'[u]) /\ \A j \in 1 .. L : j \in 1 .. N
      BY <1>2, <1>3, <3>1
    <3> QED
      BY <1>2, <2>2, <3>1, <3>3, <3>4, <3>5
  <2> QED
    BY <2>4, <2>5
<1>8. ASSUME NEW e \in Instructions, SendsOther(e)
      PROVE  Goal
  <2>1. /\ inbox' = Append(inbox, e) /\ e.kind # "write"
        /\ sent'[u] = sent[u] /\ received'[u] = received[u] /\ pending'[u] = pending[u]
    BY <1>8 DEF SendsOther
  <2>2. \A b : Outstanding(u, b)' <=> Outstanding(u, b)
    BY <1>5, <2>1, ComingAppended DEF Outstanding
  <2> QED
    BY <1>4, <2>1, <2>2
<1>9. ASSUME Ignores
      PROVE  Goal
  <2>1. /\ Consumes /\ Head(inbox).kind # "write"
        /\ sent'[u] = sent[u] /\ received'[u] = received[u] /\ pending'[u] = pending[u]
    BY <1>9 DEF Ignores
  <2>2. \A b : Outstanding(u, b)' <=> Outstanding(u, b)
    BY <1>5, <2>1, ComingConsumed DEF Outstanding
  <2> QED
    BY <1>4, <2>1, <2>2
<1>10. ASSUME NEW t \in Terminals, NEW c \in Whole, Queues(t, c)
       PROVE  Goal
  <2>1. /\ Consumes /\ Head(inbox).kind = "write" /\ Head(inbox).terminal = t
        /\ Head(inbox).chunk = c /\ sent'[u] = sent[u] /\ received'[u] = received[u]
        /\ pending'[u] = IF u = t THEN Append(pending[u], c) ELSE pending[u]
    BY <1>10 DEF Queues, Types
  <2>2. \A b : IsComing(u, b) <=> IsComing(u, b)' \/ (t = u /\ Holds(c, b))
    BY <2>1, ComingConsumed
  <2>3. \A b : Outstanding(u, b)' <=> Outstanding(u, b)
    <3>1. CASE u = t
      <4>1. c \in Kept
        BY ChunkTypes
      <4>2. pending'[u] = Append(pending[u], c)
        BY <2>1, <3>1
      <4>3. \A b : IsPending(u, b)' <=> IsPending(u, b) \/ Holds(c, b)
        BY <4>1, <4>2, PendingAppended
      <4> QED
        BY <2>2, <3>1, <4>3 DEF Outstanding
    <3>2. CASE u # t
      BY <1>5, <2>1, <2>2, <3>2 DEF Outstanding
    <3> QED
      BY <3>1, <3>2
  <2> QED
    BY <1>4, <2>1, <2>3
<1>11. ASSUME NEW t \in Terminals, Loses(t)
       PROVE  Goal
  <2>1. /\ u # t /\ sent'[u] = sent[u] /\ received'[u] = received[u] /\ pending'[u] = pending[u]
    BY <1>11 DEF Loses, Types
  <2>2. \A b : IsComing(u, b)' <=> IsComing(u, b)
    <3>1. CASE inbox' = inbox
      BY <1>6, <3>1
    <3>2. CASE Consumes /\ (Head(inbox).kind = "write" => Head(inbox).terminal = t)
      BY <2>1, <3>2, ComingConsumed
    <3> QED
      BY <1>11, <3>1, <3>2 DEF Loses
  <2> QED
    BY <1>4, <1>5, <2>1, <2>2 DEF Outstanding
<1>12. ASSUME NEW t \in Terminals, NEW taken \in Nat, WritesSome(t, taken)
       PROVE  Goal
  <2>1. inbox' = inbox /\ sent'[u] = sent[u]
    BY <1>12 DEF WritesSome
  <2>2. CASE u # t
    <3>1. received'[u] = received[u] /\ pending'[u] = pending[u]
      BY <1>12, <2>2, WritesFacts DEF Written
    <3> QED
      BY <1>4, <1>5, <1>6, <2>1, <3>1 DEF Outstanding
  <2>3. CASE u = t
    <3> DEFINE c == pending[u][1]
               S == sent[u]
    <3>1. Written(u, taken, c)
      BY <1>12, <2>3, WritesFacts
    <3>2. \A m \in 1 .. taken : L + m \in 1 .. Len(S) /\ S[L + m] = <<c.n, c.offset + m>>
      BY <1>1, <1>12, <2>3, NextBytes
    <3>3. /\ c \in Kept /\ Len(pending[u]) \in Nat /\ Len(pending[u]) >= 1
          /\ taken >= 1 /\ c.offset + taken <= c.length
          /\ Len(received'[u]) = L + taken
          /\ \A j \in 1 .. L : received'[u][j] = received[u][j]
          /\ \A m \in 1 .. taken : received'[u][L + m] = <<c.n, c.offset + m>>
          /\ \/ /\ c.offset + taken = c.length
                /\ Len(pending'[u]) = Len(pending[u]) - 1
                /\ \A k \in 1 .. Len(pending'[u]) : pending'[u][k] = pending[u][k + 1]
             \/ /\ c.offset + taken < c.length
                /\ Len(pending'[u]) = Len(pending[u])
                /\ pending'[u][1] = Advanced(c, taken)
                /\ \A k \in 2 .. Len(pending'[u]) : pending'[u][k] = pending[u][k]
      BY <3>1 DEF Written
    <3>4. /\ c.n \in Nat /\ c.offset \in Nat /\ c.length \in Nat
          /\ Advanced(c, taken).n = c.n /\ Advanced(c, taken).offset = c.offset + taken
          /\ Advanced(c, taken).length = c.length
      <4>1. c.n \in Nat /\ c.offset \in Nat /\ c.length \in Nat
        BY <3>3, ChunkTypes
      <4> QED
        BY <3>3, <4>1 DEF Advanced, Kept, Chunk
    <3>5. 1 \in 1 .. Len(pending[u]) /\ \A k \in 1 .. Len(pending[u]) : k # 1 => 1 < k
      BY <3>3
    <3>6. L + taken <= Len(S)
      BY <1>3, <3>2, <3>3
    <3>7. \A j \in 1 .. L + taken : received'[u][j] = S[j]
      <4> SUFFICES ASSUME NEW j \in 1 .. L + taken PROVE received'[u][j] = S[j]
        OBVIOUS
      <4>1. CASE j \in 1 .. L
        BY <1>2, <3>3, <4>1
      <4>2. CASE j \notin 1 .. L
        <5>1. j - L \in 1 .. taken /\ L + (j - L) = j
          BY <1>3, <4>2
        <5> QED
          BY <3>2, <3>3, <5>1
      <4> QED
        BY <4>1, <4>2
    \* What is pending now was pending, and is none of the bytes taken.
    <3>8. \A b \in Bytes : IsPending(u, b)' <=>
            IsPending(u, b) /\ ~(b[1] = c.n /\ b[2] <= c.offset + taken)
      <4> SUFFICES ASSUME NEW b \in Bytes
                   PROVE  IsPending(u, b)' <=>
                            IsPending(u, b) /\ ~(b[1] = c.n /\ b[2] <= c.offset + taken)
        OBVIOUS
      <4>1. b[1] \in Nat /\ b[2] \in Nat
        BY ElementTypes
      <4>2. \A k \in 1 .. Len(pending[u]) : k # 1 => c.n < pending[u][k].n
        BY <3>5 DEF QueueNumbers
      <4>3. Holds(c, b) /\ ~(b[2] <= c.offset + taken) <=>
              b[1] = c.n /\ c.offset + taken < b[2] /\ b[2] <= c.length
        BY <3>3, <3>4, <4>1 DEF Holds
      <4>4. \A k \in 1 .. Len(pending[u]) : k # 1 /\ Holds(pending[u][k], b) => b[1] # c.n
        BY <3>4, <4>1, <4>2 DEF Holds
      <4>5. CASE /\ c.offset + taken = c.length
                 /\ Len(pending'[u]) = Len(pending[u]) - 1
                 /\ \A k \in 1 .. Len(pending'[u]) : pending'[u][k] = pending[u][k + 1]
        <5>1. ASSUME IsPending(u, b)'
              PROVE  IsPending(u, b) /\ ~(b[1] = c.n /\ b[2] <= c.offset + taken)
          <6>1. PICK k \in 1 .. Len(pending'[u]) : Holds(pending'[u][k], b)
            BY <5>1 DEF IsPending
          <6>2. k + 1 \in 1 .. Len(pending[u]) /\ k + 1 # 1
            BY <3>3, <4>5
          <6> QED
            BY <4>4, <4>5, <6>1, <6>2 DEF IsPending
        <5>2. ASSUME IsPending(u, b), ~(b[1] = c.n /\ b[2] <= c.offset + taken)
              PROVE  IsPending(u, b)'
          <6>1. PICK k \in 1 .. Len(pending[u]) : Holds(pending[u][k], b)
            BY <5>2 DEF IsPending
          <6>2. k # 1
            BY <3>4, <4>1, <4>5, <5>2, <6>1 DEF Holds
          <6>3. k - 1 \in 1 .. Len(pending'[u]) /\ (k - 1) + 1 = k
            BY <3>3, <4>5, <6>2
          <6>4. pending'[u][k - 1] = pending[u][k]
            BY <4>5, <6>3
          <6> QED
            BY <6>1, <6>3, <6>4 DEF IsPending
        <5> QED
          BY <5>1, <5>2
      <4>6. CASE /\ c.offset + taken < c.length
                 /\ Len(pending'[u]) = Len(pending[u])
                 /\ pending'[u][1] = Advanced(c, taken)
                 /\ \A k \in 2 .. Len(pending'[u]) : pending'[u][k] = pending[u][k]
        <5>1. \A k \in 1 .. Len(pending[u]) : k # 1 => pending'[u][k] = pending[u][k]
          <6>1. \A k \in 1 .. Len(pending[u]) : k # 1 => k \in 2 .. Len(pending'[u])
            BY <3>3, <4>6
          <6> QED
            BY <4>6, <6>1
        <5>2. Holds(pending'[u][1], b) <=> Holds(c, b) /\ ~(b[2] <= c.offset + taken)
          BY <3>4, <4>3, <4>6 DEF Holds
        <5>3. ASSUME IsPending(u, b)'
              PROVE  IsPending(u, b) /\ ~(b[1] = c.n /\ b[2] <= c.offset + taken)
          <6>1. PICK k \in 1 .. Len(pending[u]) : Holds(pending'[u][k], b)
            BY <4>6, <5>3 DEF IsPending
          <6>2. CASE k = 1
            BY <3>5, <5>2, <6>1, <6>2 DEF IsPending
          <6>3. CASE k # 1
            BY <4>4, <5>1, <6>1, <6>3 DEF IsPending
          <6> QED
            BY <6>2, <6>3
        <5>4. ASSUME IsPending(u, b), ~(b[1] = c.n /\ b[2] <= c.offset + taken)
              PROVE  IsPending(u, b)'
          <6>1. PICK k \in 1 .. Len(pending[u]) : Holds(pending[u][k], b)
            BY <5>4 DEF IsPending
          <6>2. Holds(pending'[u][k], b)
            BY <5>1, <5>2, <5>4, <6>1 DEF Holds
          <6> QED
            BY <4>6, <6>2 DEF IsPending
        <5> QED
          BY <5>3, <5>4
      <4> QED
        BY <3>3, <4>5, <4>6
    <3>9. \A b : IsComing(u, b)' <=> IsComing(u, b)
      BY <1>6, <2>1
    <3>10. \A b \in Bytes : IsComing(u, b) => b[1] # c.n
      <4> SUFFICES ASSUME NEW b \in Bytes, IsComing(u, b) PROVE b[1] # c.n
        OBVIOUS
      <4>1. PICK i \in 1 .. Len(inbox) : WriteAt(i) /\ Holds(inbox[i].chunk, b)
        BY DEF IsComing
      <4>2. c.n < inbox[i].chunk.n /\ inbox[i].chunk.n \in Nat
        BY <3>5, <4>1, ElementTypes DEF InboxNumbers
      <4> HIDE DEF c
      <4> QED
        BY <3>4, <4>1, <4>2 DEF Holds
    <3>11. \A b \in Bytes : Outstanding(u, b)' <=>
             Outstanding(u, b) /\ ~(b[1] = c.n /\ b[2] <= c.offset + taken)
      BY <3>8, <3>9, <3>10 DEF Outstanding
    <3> HIDE DEF c
    <3>12. ASSUME NEW j \in L + taken + 1 .. Len(S), NEW b, b = S[j]
           PROVE  Outstanding(u, b)'
      <4>1. /\ j \in 1 .. Len(S) /\ j \in L + 1 .. Len(S) /\ 1 \in 1 .. taken
            /\ L + 1 \in 1 .. Len(S)
        BY <1>3, <3>2, <3>3
      <4>2. S[j] \in Bytes /\ Outstanding(u, S[j]) /\ S[L + 1] = <<c.n, c.offset + 1>>
        BY <1>2, <1>3, <3>2, <4>1
      <4>3. ~(S[j][1] = c.n /\ S[j][2] <= c.offset + taken)
        <5> SUFFICES ASSUME S[j][1] = c.n, S[j][2] <= c.offset + taken PROVE FALSE
          OBVIOUS
        <5>1. S[j][1] = S[L + 1][1] => S[j][2] - S[L + 1][2] = j - (L + 1)
          BY <4>1 DEF OrderInv
        <5>2. S[j][2] - (c.offset + 1) = j - (L + 1)
          BY <4>2, <5>1
        <5>3. S[j][2] \in Nat
          BY <4>2, ElementTypes
        <5>4. L \in Nat
          BY <1>3
        <5> HIDE DEF L, S
        <5> QED
          BY <3>4, <5>2, <5>3, <5>4
      <4> QED
        BY <3>11, <3>12, <4>2, <4>3
    <3>13. ASSUME NEW b \in Bytes, Outstanding(u, b)'
           PROVE  \E j \in L + taken + 1 .. Len(S) : S[j] = b
      <4>1. Outstanding(u, b) /\ ~(b[1] = c.n /\ b[2] <= c.offset + taken)
        BY <3>11, <3>13
      <4>2. PICK j \in L + 1 .. Len(S) : S[j] = b
        BY <1>2, <4>1
      <4>3. j \in L + taken + 1 .. Len(S)
        <5> SUFFICES ASSUME j \notin L + taken + 1 .. Len(S) PROVE FALSE
          OBVIOUS
        <5>1. j - L \in 1 .. taken /\ L + (j - L) = j
          BY <1>3, <3>3
        <5>2. b = <<c.n, c.offset + (j - L)>>
          BY <3>2, <4>2, <5>1
        <5>3. c.offset + (j - L) <= c.offset + taken
          BY <3>4, <5>1
        <5> QED
          BY <4>1, <5>2, <5>3
      <4> QED
        BY <4>2, <4>3
    <3> QED
      BY <2>1, <3>3, <3>6, <3>7, <3>12, <3>13
  <2> QED
    BY <2>2, <2>3
<1>13. ASSUME Rests
       PROVE  Goal
  <2>1. /\ inbox' = inbox /\ sent'[u] = sent[u] /\ received'[u] = received[u]
        /\ pending'[u] = pending[u]
    BY <1>13 DEF Rests
  <2> QED
    BY <1>4, <1>5, <1>6, <2>1 DEF Outstanding
<1> QED
  BY <1>7, <1>8, <1>9, <1>10, <1>11, <1>12, <1>13, StepCases

-----------------------------------------------------------------------------
(* The theorems *)

\* The invariant holds throughout: no step of the thread, of its senders or of the
\* programs breaks any part of it.
THEOREM InvariantHolds == Spec => []IInv
<1>1. IInv /\ [Next]_vars => IInv'
  <2> SUFFICES ASSUME IInv, [Next]_vars PROVE IInv'
    OBVIOUS
  <2>1. /\ Types /\ WithinLimit /\ SizesInv /\ InboxNumbers /\ QueueNumbers
        /\ OrderInv /\ NothingMissing
    BY DEF IInv
  <2>2. Types'
    BY <2>1, TypesKept
  <2>3. WithinLimit'
    BY <2>1, LimitKept
  <2>4. SizesInv'
    BY <2>1, SizesKept
  <2>5. InboxNumbers' /\ QueueNumbers'
    BY <2>1, InboxNumbersKept, QueueNumbersKept
  <2>6. OrderInv'
    BY <2>1, OrderKept
  <2>7. NothingMissing'
    BY <2>1, MissingKept
  <2> QED
    BY <2>2, <2>3, <2>4, <2>5, <2>6, <2>7 DEF IInv
<1> QED
  BY <1>1, InitHolds, PTL DEF Spec

\* Every variable keeps its type, and the thread never keeps more than
\* MAX_PENDING_BYTES for a terminal (the overflow branch of pty_writer_main).
THEOREM TypeCorrect == Spec => []TypeOK
<1>1. IInv => TypeOK
  <2> SUFFICES ASSUME IInv PROVE TypeOK
    OBVIOUS
  <2>1. Types /\ \A t \in Terminals : Queued(t) <= MaxPending
    BY DEF IInv, WithinLimit
  <2>2. Whole \subseteq Chunk
    BY DEF Whole
  <2>3. Instructions \subseteq [kind : {"write"}, terminal : Terminals, chunk : Chunk]
                   \cup [kind : {"resize"}, terminal : Terminals, size : Ids]
                   \cup [kind : {"cancel"}, terminal : Terminals]
                   \cup [kind : {"start_caching", "apply_cached", "exit"}]
    BY <2>2 DEF Instructions
  <2>4. inbox \in Seq([kind : {"write"}, terminal : Terminals, chunk : Chunk]
                   \cup [kind : {"resize"}, terminal : Terminals, size : Ids]
                   \cup [kind : {"cancel"}, terminal : Terminals]
                   \cup [kind : {"start_caching", "apply_cached", "exit"}])
    BY <2>1, <2>3, SeqMonotonic DEF Types
  <2> QED
    BY <2>1, <2>4 DEF TypeOK, Types, Kept, Bytes
<1> QED
  BY <1>1, InvariantHolds, PTL

\* However the kernel takes the chunks, in parts, late or not at all, a program gets its
\* bytes in the order they were sent: without a loss exactly the beginning of them, and
\* after one still none twice or out of order (the drain pass of pty_writer_main).
THEOREM BytesInOrder == Spec => []ReceivedInOrder
<1>1. IInv => ReceivedInOrder
  <2> SUFFICES ASSUME IInv, NEW t \in Terminals
               PROVE  /\ t \notin lossy => IsPrefix(received[t], sent[t])
                      /\ \A j, k \in DOMAIN received[t] :
                           j < k => \/ received[t][j][1] < received[t][k][1]
                                    \/ /\ received[t][j][1] = received[t][k][1]
                                       /\ received[t][j][2] < received[t][k][2]
    BY DEF ReceivedInOrder
  <2>1. /\ received[t] \in Seq(Bytes) /\ sent[t] \in Seq(Bytes)
        /\ Len(received[t]) \in Nat /\ Len(sent[t]) \in Nat
        /\ DOMAIN received[t] = 1 .. Len(received[t])
    <3>1. received[t] \in Seq(Bytes) /\ sent[t] \in Seq(Bytes)
      BY DEF IInv, Types
    <3> QED
      BY <3>1, LenProperties
  <2>2. ASSUME t \notin lossy PROVE IsPrefix(received[t], sent[t])
    <3> DEFINE L == Len(received[t])
               s == SubSeq(sent[t], 1, L)
    <3>1. L <= Len(sent[t]) /\ \A j \in 1 .. L : received[t][j] = sent[t][j]
      BY <2>2 DEF IInv, NothingMissing
    <3>2. \A j \in 1 .. L : sent[t][j] \in Bytes /\ 1 + j - 1 = j
      <4>1. \A j \in 1 .. L : j \in 1 .. Len(sent[t])
        BY <2>1, <3>1
      <4> QED
        BY <2>1, <4>1, ElementOfSeq
    <3>3. /\ s \in Seq(Bytes) /\ Len(s) = IF 1 <= L THEN L - 1 + 1 ELSE 0
          /\ \A i \in 1 .. L - 1 + 1 : s[i] = sent[t][1 + i - 1]
      BY <2>1, <3>2, SubSeqProperties
    <3>4. Len(s) = L /\ L - 1 + 1 = L
      BY <2>1, <3>3
    <3>5. \A i \in 1 .. L : s[i] = received[t][i]
      BY <3>1, <3>2, <3>3, <3>4
    <3>6. s = received[t]
      <4> HIDE DEF s
      <4> QED
        BY <2>1, <3>3, <3>4, <3>5, SeqEqual
    <3>7. SubSeq(received[t], 1, L) = received[t]
      BY <2>1, SubSeqFull
    <3> QED
      BY <3>1, <3>6, <3>7 DEF IsPrefix
  <2>3. Increasing(received[t])
    BY DEF IInv, OrderInv
  <2> QED
    BY <2>1, <2>2, <2>3 DEF Increasing, Before
<1> QED
  BY <1>1, InvariantHolds, PTL

\* When nothing is held back or on its way, every terminal has the size last asked for
\* it, however resizes were cached, overwritten and applied (cache_resizes,
\* apply_cached_resizes and set_terminal_size_using_terminal_id).
THEOREM SizesSettle == Spec => []LastResizeWins
<1>1. IInv => LastResizeWins
  <2> SUFFICES ASSUME IInv, ~caching, inbox = <<>> PROVE size = wanted
    BY DEF LastResizeWins
  <2>1. Len(inbox) = 0 /\ 1 .. 0 = {}
    OBVIOUS
  <2>2. \A t \in Terminals : wanted[t] = size[t]
    BY <2>1 DEF IInv, SizesInv, LastIsWanted
  <2> QED
    BY <2>2 DEF IInv, Types
<1> QED
  BY <1>1, InvariantHolds, PTL

\* On Windows a chunk in front stays in front until some of it is written or its terminal
\* is cancelled or closed: an overflow rejects the new chunk and leaves the queue alone.
THEOREM HeadStays == Spec => HeadKept
<1> DEFINE Stays(t) == \/ pending'[t] # <<>> /\ Head(pending'[t]).n = Head(pending[t]).n
                       \/ received'[t] # received[t]
                       \/ inbox # <<>> /\ Head(inbox) = [kind |-> "cancel", terminal |-> t]
<1>1. ASSUME Types, Next, NEW t \in alive, windows, pending[t] # <<>>
      PROVE  Stays(t)
  <2>0. t \in Terminals /\ pending[t] \in Seq(Kept)
    BY <1>1 DEF Types
  <2>1. ASSUME pending'[t] = pending[t] PROVE Stays(t)
    BY <1>1, <2>1
  <2>2. ASSUME NEW u \in Terminals, WriteSome(u) PROVE Stays(t)
    <3>1. CASE u = t
      <4>1. PICK taken \in Nat : WritesSome(t, taken)
        BY <1>1, <2>0, <2>2, <3>1, SomeWritten
      <4>2. Len(received'[t]) = Len(received[t]) + taken /\ taken >= 1 /\ Len(received[t]) \in Nat
        BY <1>1, <2>0, <4>1, WritesFacts, ElementTypes DEF Written
      <4>3. Len(received'[t]) # Len(received[t])
        BY <4>1, <4>2
      <4> QED
        BY <4>3
    <3>2. CASE u # t
      BY <2>0, <2>1, <2>2, <3>2 DEF WriteSome, Types
    <3> QED
      BY <3>1, <3>2
  <2>3. ASSUME NEW u \in Terminals, WriteFails(u) PROVE Stays(t)
    <3>1. u # t
      BY <1>1, <2>3 DEF WriteFails
    <3> QED
      BY <1>1, <2>0, <2>1, <2>3, <3>1 DEF WriteFails, Types
  <2>4. ASSUME Receive PROVE Stays(t)
    <3> DEFINE i == Head(inbox)
    <3>1. i \in Instructions /\ inbox # <<>>
      BY <1>1, <2>4, TailFacts DEF Receive, Types
    <3>2. \/ i.kind = "write" /\ OnWrite(i.terminal, i.chunk)
          \/ i.kind = "cancel" /\ OnCancel(i.terminal)
          \/ i.kind = "resize" /\ OnResize(i.terminal, i.size)
          \/ i.kind = "start_caching" /\ OnStartCaching
          \/ i.kind = "apply_cached" /\ OnApplyCached
      BY <2>4 DEF Receive
    <3>3. CASE i.kind = "write" /\ OnWrite(i.terminal, i.chunk)
      <4>1. i.terminal \in Terminals /\ i.chunk \in Whole
        BY <3>1, <3>3, InstructionKinds
      <4> HIDE DEF i
      <4>2. CASE i.terminal = t /\ Fits(t, i.chunk)
        <5>1. pending'[t] = Append(pending[t], i.chunk)
          BY <1>1, <2>0, <3>3, <4>2 DEF OnWrite, Types
        <5>2. i.chunk \in Kept
          BY <4>1, ChunkTypes
        <5>3. Append(pending[t], i.chunk) # <<>>
          BY <2>0, <5>2, AppendProperties
        <5>4. Head(Append(pending[t], i.chunk)) = Head(pending[t])
          BY <1>1, <2>0, HeadTailAppend
        <5> QED
          BY <5>1, <5>3, <5>4
      <4>3. CASE ~(i.terminal = t /\ Fits(t, i.chunk))
        <5>1. pending'[t] = pending[t]
          BY <1>1, <2>0, <3>3, <4>1, <4>3 DEF OnWrite, KeptOnOverflow, Types
        <5> QED
          BY <2>1, <5>1
      <4> QED
        BY <4>2, <4>3
    <3>4. CASE i.kind = "cancel" /\ OnCancel(i.terminal)
      <4>1. i.terminal \in Terminals /\ i = [kind |-> "cancel", terminal |-> i.terminal]
        BY <3>1, <3>4, InstructionKinds
      <4> HIDE DEF i
      <4>2. CASE i.terminal = t
        BY <3>1, <4>1, <4>2 DEF i
      <4>3. CASE i.terminal # t
        BY <1>1, <2>0, <2>1, <3>4, <4>3 DEF OnCancel, Types
      <4> QED
        BY <4>2, <4>3
    <3>5. CASE i.kind \notin {"write", "cancel"}
      BY <2>1, <3>2, <3>5 DEF OnResize, OnStartCaching, OnApplyCached
    <3> QED
      BY <3>2, <3>3, <3>4, <3>5
  <2>5. ASSUME \/ \E u \in Terminals, length \in 1 .. MaxLength : SendWrite(u, length)
               \/ \E kind \in {"start_caching", "apply_cached", "exit"} : SendPlain(kind)
               \/ \E u \in Terminals : \/ SendResize(u) \/ SendCancel(u) \/ ProgramReads(u)
                                        \/ ProgramExits(u) \/ NextTerminal(u)
               \/ Timeout \/ Exit \/ EndDrain
        PROVE  Stays(t)
    BY <2>1, <2>5 DEF SendWrite, SendPlain, SendResize, SendCancel, Send, ProgramReads,
         ProgramExits, NextTerminal, Timeout, Exit, EndDrain, writeVars
  <2> QED
    BY <1>1, <2>2, <2>3, <2>4, <2>5 DEF Next, ThreadStep
<1>2. Types /\ [Next]_vars =>
        [\A t \in alive : windows /\ pending[t] # <<>> => Stays(t)]_vars
  BY <1>1
<1>3. IInv => Types
  BY DEF IInv
<1> QED
  BY <1>2, <1>3, InvariantHolds, PTL DEF Spec, HeadKept

-----------------------------------------------------------------------------
(* NestedSessions *)

ServerMessages ==
  [kind : {"KeyPassthroughChanged", "ClientExit"}, client : Clients,
   pane : Hosts \cup {None, Shell}, route : BOOLEAN, notify : BOOLEAN]
HostFrames == {"AnnounceAck", "Ping", "FocusGained", "FocusLost"}
GuestFrames == {"Announce", "Pong", "Bye", "FocusHost", "FocusBeyond"}

\* Where a client's keys go when the main loop has handled the first n messages (an exit left
\* aside), or all.
Changes(m, c) == m.kind = "KeyPassthroughChanged" /\ m.client = c
Target(m) == IF m.route THEN m.pane ELSE None
EndsAt(n, c, p) ==
  \/ keys_to[c] = p /\ \A i \in 1 .. n : ~Changes(to_server[i], c)
  \/ \E i \in 1 .. n : /\ Changes(to_server[i], c) /\ Target(to_server[i]) = p
                       /\ \A j \in i + 1 .. n : ~Changes(to_server[j], c)
Ends(c, p) == EndsAt(Len(to_server), c, p)

MessagesInv == \A i \in 1 .. Len(to_server) : to_server[i].route => to_server[i].pane \in Hosts
HereInv ==
  \A c \in Clients : focus[c] # None \/ c \in coming => client[c] = "here" \/ c \in going
ProgramsInv == \A p \in Hosts \cap open : program[p] \/ p \in ended

\* Between two announcements in a pane's output there is a goodbye; and before each.
Parted(q) ==
  \A i, j \in 1 .. Len(q) : i < j /\ q[i] = "Announce" /\ q[j] = "Announce" =>
    \E k \in i .. j : q[k] = "Bye"
ByeFirst(q) == \A j \in 1 .. Len(q) : q[j] = "Announce" => \E k \in 1 .. j : q[k] = "Bye"
FramesInv == \A p \in Hosts : Parted(from_guest[p])

\* A client whose keys end with a pane is dimmed and has descended into it. The pane's guest
\* is alive; or the pane is gone, and the end of its program will be dealt with before the
\* choice is forgotten.
Alive(c, p) ==
  p \in flagged /\ tracker[p] = "tracked" /\ (p \notin strayed => focus[c] = p)
Doomed(p) ==
  (program[p] \/ p \in ended) /\ (tracker[p] = "unknown" => ByeFirst(from_guest[p]))
There(c, p) ==
  /\ c \in dimmed /\ choices[c][p] = "Descend"
  /\ client[c] = "here" \/ c \in going
  /\ IF p \in open THEN Alive(c, p) ELSE Doomed(p)
RoutesInv ==
  \A c \in Clients : /\ \A p \in Hosts : Ends(c, p) => There(c, p)
                     /\ Ends(c, None) /\ client[c] # "gone" => c \notin dimmed

\* A guest knows, once it has read what waits for it, that it has the focus.
Knows(p) ==
  LET q == to_guest[p]
  IN \/ guest[p].focused /\ \A i \in 1 .. Len(q) : q[i] # "FocusLost"
     \/ \E i \in 1 .. Len(q) :
          q[i] = "FocusGained" /\ \A j \in 1 .. Len(q) : j > i => q[j] # "FocusLost"

\* It does while it gets keys, or nobody's keys will go to it at some time.
Informed(p) == (\E c \in Clients : keys_to[c] = p) => Knows(p)
Free(p) == \E n \in 0 .. Len(to_server) : \A c \in Clients : ~EndsAt(n, c, p)
Concerned(p) == p \in open /\ p \notin strayed /\ guest[p].on /\ ~Announcing(p)
KnowsInv == \A p \in Hosts : Concerned(p) => Informed(p) \/ Free(p)

TypesInv == NestedTypeOK /\ MessagesInv
NestedInv == TypesInv /\ HereInv /\ ProgramsInv /\ FramesInv /\ RoutesInv /\ KnowsInv

-----------------------------------------------------------------------------
(* Sequences *)

\* What appending a sequence does.
LEMMA ConcatFacts ==
  ASSUME NEW S, NEW q \in Seq(S), NEW t \in Seq(S)
  PROVE  /\ q \o t \in Seq(S)
         /\ Len(q \o t) = Len(q) + Len(t) /\ DOMAIN (q \o t) = 1 .. Len(q) + Len(t)
         /\ Len(q) \in Nat /\ Len(t) \in Nat
         /\ DOMAIN q = 1 .. Len(q) /\ DOMAIN t = 1 .. Len(t)
         /\ \A n \in DOMAIN q : n \in DOMAIN (q \o t) /\ (q \o t)[n] = q[n]
         /\ \A n \in DOMAIN t : Len(q) + n \in DOMAIN (q \o t) /\ (q \o t)[Len(q) + n] = t[n]
         /\ \A n \in DOMAIN (q \o t) :
              n \in DOMAIN q \/ (n > Len(q) /\ n - Len(q) \in DOMAIN t /\ (q \o t)[n] = t[n - Len(q)])
<1>1. /\ q \o t \in Seq(S)
      /\ Len(q \o t) = Len(q) + Len(t) /\ DOMAIN (q \o t) = 1 .. Len(q) + Len(t)
      /\ Len(q) \in Nat /\ Len(t) \in Nat
      /\ DOMAIN q = 1 .. Len(q) /\ DOMAIN t = 1 .. Len(t)
      /\ \A n \in DOMAIN q : (q \o t)[n] = q[n]
      /\ \A n \in DOMAIN t : (q \o t)[Len(q) + n] = t[n]
  OBVIOUS
<1>2. ASSUME NEW n \in DOMAIN (q \o t), n \notin DOMAIN q
      PROVE  n > Len(q) /\ n - Len(q) \in DOMAIN t /\ n = Len(q) + (n - Len(q))
  BY <1>1, <1>2
<1> QED
  BY <1>1, <1>2

\* SetToSeqs gives the orders of a finite set: each has every member, once.
LEMMA OrderFacts ==
  ASSUME NEW S, IsFiniteSet(S), NEW s \in SetToSeqs(S)
  PROVE  /\ s \in Seq(S)
         /\ \A x \in S : \E n \in DOMAIN s : s[n] = x
         /\ \A m, n \in DOMAIN s : s[m] = s[n] => m = n
<1> DEFINE D == 1 .. Cardinality(S)
<1>1. Cardinality(S) \in Nat
  BY FS_CardinalityType
<1>2. s \in [D -> S] /\ \A m, n \in D : s[m] = s[n] => m = n
  BY DEF SetToSeqs
<1>3. s \in Injection(D, S)
  BY <1>2 DEF Injection, IsInjective
<1>4. Cardinality(D) = Cardinality(S)
  BY <1>1, FS_Interval
<1>5. s \in Surjection(D, S)
  <2> HIDE DEF D
  <2> QED
    BY <1>3, <1>4, FS_Injection
<1>6. s \in Seq(S) /\ DOMAIN s = D
  BY <1>1, <1>2
<1> QED
  BY <1>2, <1>5, <1>6 DEF Surjection

-----------------------------------------------------------------------------
(* What Screen sends to the main loop *)

\* The main loop is sent where the keys of the clients C go, T by client.
Routes(C, T) ==
  \E s \in Seq(ServerMessages) :
    /\ to_server' = to_server \o s
    /\ \A i \in 1 .. Len(s) : /\ s[i].kind = "KeyPassthroughChanged"
                              /\ s[i].client \in C /\ Target(s[i]) = T[s[i].client]
                              /\ s[i].route => s[i].pane \in Hosts
    /\ \A c \in C : \E i \in 1 .. Len(s) : s[i].client = c

\* What Report sends.
LEMMA ReportRoutes ==
  ASSUME NestedAssumption, NEW C \in SUBSET Clients,
         focus' \in [Clients -> Hosts \cup {None, Shell}], open' \cap flagged' \subseteq Hosts,
         Report(C)
  PROVE  Routes(C, [c \in C |-> IF Descended(c)' THEN focus'[c] ELSE None])
<1>1. PICK order \in SetToSeqs(C) :
        to_server' = to_server \o [i \in DOMAIN order |->
          KeyPassthrough(order[i], focus'[order[i]], Descended(order[i])', TRUE)]
  BY DEF Report
<1>2. IsFiniteSet(C)
  BY FS_Subset DEF NestedAssumption
<1>3. /\ order \in Seq(C)
      /\ \A c \in C : \E i \in DOMAIN order : order[i] = c
  BY <1>2, OrderFacts
<1> DEFINE s == [i \in DOMAIN order |->
                   KeyPassthrough(order[i], focus'[order[i]], Descended(order[i])', TRUE)]
           T == [c \in C |-> IF Descended(c)' THEN focus'[c] ELSE None]
<1>4. \A c \in C : Descended(c)' \in BOOLEAN /\ (Descended(c)' => focus'[c] \in Hosts)
  BY DEF Descended, ShouldRoute
<1>5. \A i \in DOMAIN order : order[i] \in C
  BY <1>3
<1>6. \A i \in DOMAIN order :
        /\ s[i] \in ServerMessages
        /\ s[i].kind = "KeyPassthroughChanged" /\ s[i].client = order[i]
        /\ Target(s[i]) = T[order[i]] /\ (s[i].route => s[i].pane \in Hosts)
  BY <1>4, <1>5 DEF KeyPassthrough, ServerMessages, Target
<1>7. DOMAIN order = 1 .. Len(order) /\ Len(order) \in Nat
  BY <1>3, LenProperties
<1>8. s \in Seq(ServerMessages) /\ Len(s) = Len(order)
  <2>1. s = [i \in 1 .. Len(order) |-> s[i]]
    BY <1>7
  <2> HIDE DEF s
  <2>2. s \in [1 .. Len(order) -> ServerMessages]
    BY <1>6, <1>7, <2>1
  <2> QED
    BY <1>7, <2>2
<1>9. to_server' = to_server \o s
  BY <1>1
<1> HIDE DEF s, T
<1>10. Routes(C, T)
  <2>1. \A i \in 1 .. Len(s) : /\ s[i].kind = "KeyPassthroughChanged"
                               /\ s[i].client \in C /\ Target(s[i]) = T[s[i].client]
                               /\ s[i].route => s[i].pane \in Hosts
    BY <1>5, <1>6, <1>7, <1>8
  <2>2. \A c \in C : \E i \in 1 .. Len(s) : s[i].client = c
    BY <1>3, <1>6, <1>7, <1>8
  <2> QED
    BY <1>8, <1>9, <2>1, <2>2 DEF Routes
<1> QED
  BY <1>10 DEF T

\* What Release sends.
LEMMA ReleaseRoutes ==
  ASSUME NestedAssumption, NEW C \in SUBSET Clients, NEW p \in Hosts, NEW notify \in BOOLEAN,
         Release(C, p, notify)
  PROVE  Routes(C, [c \in C |-> None])
<1>1. PICK order \in SetToSeqs(C) :
        to_server' = to_server \o [i \in DOMAIN order |->
          KeyPassthrough(order[i], p, FALSE, notify)]
  BY DEF Release
<1>2. IsFiniteSet(C)
  BY FS_Subset DEF NestedAssumption
<1>3. /\ order \in Seq(C)
      /\ \A c \in C : \E i \in DOMAIN order : order[i] = c
  BY <1>2, OrderFacts
<1> DEFINE s == [i \in DOMAIN order |-> KeyPassthrough(order[i], p, FALSE, notify)]
           T == [c \in C |-> None]
<1>5. \A i \in DOMAIN order : order[i] \in C
  BY <1>3
<1>6. \A i \in DOMAIN order :
        /\ s[i] \in ServerMessages
        /\ s[i].kind = "KeyPassthroughChanged" /\ s[i].client = order[i]
        /\ Target(s[i]) = T[order[i]] /\ (s[i].route => s[i].pane \in Hosts)
  BY <1>5 DEF KeyPassthrough, ServerMessages, Target
<1>7. DOMAIN order = 1 .. Len(order) /\ Len(order) \in Nat
  BY <1>3, LenProperties
<1>8. s \in Seq(ServerMessages) /\ Len(s) = Len(order)
  <2>1. s = [i \in 1 .. Len(order) |-> s[i]]
    BY <1>7
  <2> HIDE DEF s
  <2>2. s \in [1 .. Len(order) -> ServerMessages]
    BY <1>6, <1>7, <2>1
  <2> QED
    BY <1>7, <2>2
<1>9. to_server' = to_server \o s
  BY <1>1
<1> HIDE DEF s, T
<1>10. Routes(C, T)
  <2>1. \A i \in 1 .. Len(s) : /\ s[i].kind = "KeyPassthroughChanged"
                               /\ s[i].client \in C /\ Target(s[i]) = T[s[i].client]
                               /\ s[i].route => s[i].pane \in Hosts
    BY <1>5, <1>6, <1>7, <1>8
  <2>2. \A c \in C : \E i \in 1 .. Len(s) : s[i].client = c
    BY <1>3, <1>6, <1>7, <1>8
  <2> QED
    BY <1>8, <1>9, <2>1, <2>2 DEF Routes
<1> QED
  BY <1>10 DEF T

\* Nothing sent.
LEMMA NothingRoutes ==
  ASSUME to_server \in Seq(ServerMessages), to_server' = to_server, NEW T
  PROVE  Routes({}, T)
<1> USE DEF Routes
<1>1. <<>> \in Seq(ServerMessages) /\ Len(<<>>) = 0 /\ to_server' = to_server \o <<>>
  OBVIOUS
<1> WITNESS <<>> \in Seq(ServerMessages)
<1> QED
  BY <1>1

\* What becomes of where keys end: what is sent decides; before that nothing changes.
LEMMA RoutedEnds ==
  ASSUME to_server \in Seq(ServerMessages), MessagesInv, NEW C, NEW T, Routes(C, T),
         keys_to' = keys_to
  PROVE  /\ to_server' \in Seq(ServerMessages) /\ MessagesInv'
         /\ Len(to_server) \in Nat /\ Len(to_server') \in Nat /\ Len(to_server) <= Len(to_server')
         /\ \A c \in C : \A p : Ends(c, p)' => p = T[c]
         /\ \A c : c \notin C => \A p : Ends(c, p)' => Ends(c, p)
         /\ \A n \in 0 .. Len(to_server) : \A c, p : EndsAt(n, c, p)' => EndsAt(n, c, p)
<1>1. PICK s \in Seq(ServerMessages) :
        /\ to_server' = to_server \o s
        /\ \A i \in 1 .. Len(s) : /\ s[i].kind = "KeyPassthroughChanged"
                                  /\ s[i].client \in C /\ Target(s[i]) = T[s[i].client]
                                  /\ s[i].route => s[i].pane \in Hosts
        /\ \A c \in C : \E i \in 1 .. Len(s) : s[i].client = c
  BY DEF Routes
<1> DEFINE n == Len(to_server)
           m == Len(s)
<1>2. /\ to_server' \in Seq(ServerMessages) /\ n \in Nat /\ m \in Nat /\ Len(to_server') = n + m
      /\ \A i \in 1 .. n : i \in 1 .. n + m /\ to_server'[i] = to_server[i]
      /\ \A i \in 1 .. m : n + i \in 1 .. n + m /\ to_server'[n + i] = s[i]
      /\ \A i \in 1 .. n + m :
           i \in 1 .. n \/ (i > n /\ i - n \in 1 .. m /\ to_server'[i] = s[i - n])
  BY <1>1, ConcatFacts
<1> HIDE DEF n, m
<1>3. MessagesInv'
  <2> SUFFICES ASSUME NEW i \in 1 .. n + m, to_server'[i].route
               PROVE  to_server'[i].pane \in Hosts
    BY <1>2 DEF MessagesInv
  <2>1. CASE i \in 1 .. n
    BY <1>2, <2>1 DEF MessagesInv, n
  <2>2. CASE i > n /\ i - n \in 1 .. m /\ to_server'[i] = s[i - n]
    BY <1>1, <2>2 DEF m
  <2> QED
    BY <1>2, <2>1, <2>2
<1>4. ASSUME NEW c \in C, NEW p, Ends(c, p)'
      PROVE  p = T[c]
  <2>1. PICK i \in 1 .. m : s[i].client = c
    BY <1>1 DEF m
  <2>2. n + i \in 1 .. n + m /\ Changes(to_server'[n + i], c)
    BY <1>1, <1>2, <2>1 DEF Changes, m
  <2>3. PICK k \in 1 .. n + m : /\ Changes(to_server'[k], c) /\ Target(to_server'[k]) = p
                                /\ \A j \in k + 1 .. n + m : ~Changes(to_server'[j], c)
    BY <1>2, <1>4, <2>2 DEF Ends, EndsAt
  <2>4. ~(n + i \in k + 1 .. n + m)
    BY <2>2, <2>3
  <2>5. k > n
    BY <1>2, <2>2, <2>4
  <2>6. k - n \in 1 .. m /\ to_server'[k] = s[k - n]
    BY <1>2, <2>5
  <2> QED
    BY <1>1, <2>3, <2>6 DEF Changes, m
<1>5. ASSUME NEW c, c \notin C, NEW p, Ends(c, p)'
      PROVE  Ends(c, p)
  <2>1. \A i \in 1 .. n + m : Changes(to_server'[i], c) => i \in 1 .. n /\ to_server'[i] = to_server[i]
    BY <1>1, <1>2, <1>5 DEF Changes, m
  <2>2. CASE keys_to'[c] = p /\ \A i \in 1 .. n + m : ~Changes(to_server'[i], c)
    BY <1>2, <2>2 DEF Ends, EndsAt, n
  <2>3. CASE \E k \in 1 .. n + m : /\ Changes(to_server'[k], c) /\ Target(to_server'[k]) = p
                                   /\ \A j \in k + 1 .. n + m : ~Changes(to_server'[j], c)
    <3>1. PICK k \in 1 .. n + m : /\ Changes(to_server'[k], c) /\ Target(to_server'[k]) = p
                                  /\ \A j \in k + 1 .. n + m : ~Changes(to_server'[j], c)
      BY <2>3
    <3>2. k \in 1 .. n /\ Changes(to_server[k], c) /\ Target(to_server[k]) = p
      BY <2>1, <3>1
    <3>3. \A j \in k + 1 .. n : ~Changes(to_server[j], c)
      BY <1>2, <3>1, <3>2
    <3> QED
      BY <3>2, <3>3 DEF Ends, EndsAt, n
  <2> QED
    BY <1>2, <1>5, <2>2, <2>3 DEF Ends, EndsAt
<1>6. ASSUME NEW k \in 0 .. n, NEW c, NEW p, EndsAt(k, c, p)'
      PROVE  EndsAt(k, c, p)
  <2>1. \A i \in 1 .. k : to_server'[i] = to_server[i]
    BY <1>2
  <2>2. \A i \in 1 .. k : \A j \in i + 1 .. k : j \in 1 .. k
    BY <1>2
  <2> QED
    BY <1>6, <2>1, <2>2 DEF EndsAt
<1> QED
  BY <1>2, <1>3, <1>4, <1>5, <1>6 DEF n

\* The types, by what changes together.
ScreenTypes ==
  /\ open \subseteq Hosts \cup {Shell} /\ Shell \in open
  /\ flagged \subseteq Hosts /\ heard \subseteq Hosts /\ pinging \subseteq Hosts
  /\ ticks \subseteq Hosts /\ ended \subseteq Hosts
  /\ dimmed \subseteq Clients /\ coming \subseteq Clients /\ going \subseteq Clients
  /\ strayed \subseteq Hosts \cup {Shell}
  /\ modals \subseteq Clients \X Hosts /\ chosen \subseteq Clients \X Hosts
  /\ tracker \in [Hosts -> {"unknown", "tracked", "dormant"}]
  /\ choices \in [Clients -> [Hosts -> {"none", "Descend", "Dismissed"}]]
  /\ focus \in [Clients -> open \cup {None}]
MainTypes ==
  /\ handling \in Handlings
  /\ client \in [Clients -> {"new", "here", "gone"}]
  /\ keys_to \in [Clients -> Hosts \cup {None}]
FrameTypes ==
  /\ to_guest \in [Hosts -> Seq(HostFrames)]
  /\ from_guest \in [Hosts -> Seq(GuestFrames)]
GuestTypes ==
  /\ guest \in [Hosts -> [on : BOOLEAN, contacted : BOOLEAN, tries : 0 .. Budget,
                          deciding : BOOLEAN, focused : BOOLEAN]]
  /\ program \in [Hosts -> BOOLEAN]

LEMMA TypeParts ==
  /\ NestedTypeOK =>
       ScreenTypes /\ MainTypes /\ FrameTypes /\ GuestTypes /\ to_server \in Seq(ServerMessages)
  /\ ScreenTypes /\ MainTypes /\ FrameTypes /\ GuestTypes /\ to_server \in Seq(ServerMessages) =>
       NestedTypeOK
BY DEF NestedTypeOK, ScreenTypes, MainTypes, FrameTypes, GuestTypes, ServerMessages, HostFrames,
       GuestFrames

LEMMA PartsType ==
  ASSUME ScreenTypes', MainTypes', FrameTypes', GuestTypes', to_server' \in Seq(ServerMessages)
  PROVE  NestedTypeOK'
BY DEF NestedTypeOK, ScreenTypes, MainTypes, FrameTypes, GuestTypes, ServerMessages, HostFrames,
       GuestFrames

\* Where keys end stays right if it does for those of whom nothing is sent, and is right for
\* the others.
LEMMA RoutesKept ==
  ASSUME to_server \in Seq(ServerMessages), MessagesInv, RoutesInv,
         NEW C \in SUBSET Clients, NEW T, Routes(C, T), keys_to' = keys_to, client' = client,
         \A c \in C : /\ \A p \in Hosts : T[c] = p => There(c, p)'
                      /\ T[c] = None /\ client[c] # "gone" => c \notin dimmed',
         \A c \in Clients \ C : /\ \A p \in Hosts : Ends(c, p) /\ There(c, p) => There(c, p)'
                                /\ c \in dimmed' => c \in dimmed
  PROVE  RoutesInv'
<1>1. /\ \A c \in C : \A p : Ends(c, p)' => p = T[c]
      /\ \A c : c \notin C => \A p : Ends(c, p)' => Ends(c, p)
  BY RoutedEnds
<1>2. ASSUME NEW c \in Clients, NEW p \in Hosts, Ends(c, p)'
      PROVE  There(c, p)'
  BY <1>1, <1>2 DEF RoutesInv
<1>3. ASSUME NEW c \in Clients, Ends(c, None)', client'[c] # "gone"
      PROVE  c \notin dimmed'
  BY <1>1, <1>3 DEF RoutesInv
<1> QED
  BY <1>2, <1>3 DEF RoutesInv

\* So does what the guests know, if a step of Screen brings one no news of a loss, or nobody's
\* keys end with it.
LEMMA KnowsKept ==
  ASSUME to_server \in Seq(ServerMessages), MessagesInv, KnowsInv,
         NEW C \in SUBSET Clients, NEW T, Routes(C, T), keys_to' = keys_to,
         NEW p \in Hosts,
         \/ Knows(p)'
         \/ Concerned(p) /\ (Knows(p) => Knows(p)')
         \/ \A c \in Clients : ~Ends(c, p)
  PROVE  Informed(p)' \/ Free(p)'
<1>1. /\ \A n \in 0 .. Len(to_server) : \A c, q : EndsAt(n, c, q)' => EndsAt(n, c, q)
      /\ Len(to_server) \in Nat /\ Len(to_server') \in Nat /\ Len(to_server) <= Len(to_server')
  BY RoutedEnds
<1>2. Free(p) => Free(p)'
  BY <1>1 DEF Free
<1>3. CASE Knows(p)'
  BY <1>3 DEF Informed
<1>4. CASE Concerned(p) /\ (Knows(p) => Knows(p)')
  BY <1>2, <1>4 DEF KnowsInv, Informed
<1>5. CASE \A c \in Clients : ~Ends(c, p)
  BY <1>1, <1>2, <1>5 DEF Free, Ends
<1> QED
  BY <1>3, <1>4, <1>5

\* What Screen writes to a guest is no news of a loss.
LEMMA WrittenKnows ==
  ASSUME NEW p \in Hosts, to_guest[p] \in Seq(HostFrames), NEW s \in Seq(HostFrames),
         to_guest'[p] = to_guest[p] \o s, guest'[p].focused = guest[p].focused,
         \A i \in 1 .. Len(s) : s[i] # "FocusLost"
  PROVE  /\ Knows(p) => Knows(p)'
         /\ (\E i \in 1 .. Len(s) : s[i] = "FocusGained") => Knows(p)'
<1> DEFINE q == to_guest[p]
           n == Len(q)
           m == Len(s)
<1>1. /\ n \in Nat /\ m \in Nat /\ Len(to_guest'[p]) = n + m
      /\ \A i \in 1 .. n : i \in 1 .. n + m /\ to_guest'[p][i] = q[i]
      /\ \A i \in 1 .. m : n + i \in 1 .. n + m /\ to_guest'[p][n + i] = s[i]
      /\ \A i \in 1 .. n + m :
           i \in 1 .. n \/ (i > n /\ i - n \in 1 .. m /\ to_guest'[p][i] = s[i - n])
  BY ConcatFacts
<1> HIDE DEF q, n, m
<1>2. \A i \in 1 .. n + m : to_guest'[p][i] = "FocusLost" => i \in 1 .. n /\ q[i] = "FocusLost"
  BY <1>1 DEF m
<1>3. CASE guest[p].focused /\ \A i \in 1 .. n : q[i] # "FocusLost"
  BY <1>1, <1>2, <1>3 DEF Knows
<1>4. ASSUME NEW i \in 1 .. n, q[i] = "FocusGained", \A j \in 1 .. n : j > i => q[j] # "FocusLost"
      PROVE  Knows(p)'
  BY <1>1, <1>2, <1>4 DEF Knows
<1>5. ASSUME NEW i \in 1 .. m, s[i] = "FocusGained"
      PROVE  Knows(p)'
  <2>1. n + i \in 1 .. n + m /\ to_guest'[p][n + i] = "FocusGained"
    BY <1>1, <1>5
  <2>2. \A j \in 1 .. n + m : j > n + i => to_guest'[p][j] # "FocusLost"
    BY <1>1, <1>2
  <2> QED
    BY <1>1, <2>1, <2>2 DEF Knows
<1> QED
  BY <1>3, <1>4, <1>5 DEF Knows, q, n, m

\* A step of Screen keeps the invariant.
LEMMA ScreenKeeps ==
  ASSUME NestedInv, UNCHANGED <<handling, client, keys_to, guest, program>>,
         ScreenTypes', FrameTypes',
         NEW C \in SUBSET Clients, NEW T, Routes(C, T),
         \A c \in C : /\ \A p \in Hosts : T[c] = p => There(c, p)'
                      /\ T[c] = None /\ client[c] # "gone" => c \notin dimmed',
         \A c \in Clients \ C : /\ \A p \in Hosts : Ends(c, p) /\ There(c, p) => There(c, p)'
                                /\ c \in dimmed' => c \in dimmed,
         HereInv', ProgramsInv', FramesInv',
         \A p \in Hosts : Concerned(p)' =>
           \/ Knows(p)'
           \/ Concerned(p) /\ (Knows(p) => Knows(p)')
           \/ \A c \in Clients : ~Ends(c, p)
  PROVE  NestedInv'
<1>1. /\ NestedTypeOK /\ MessagesInv /\ RoutesInv /\ KnowsInv
      /\ to_server \in Seq(ServerMessages) /\ MainTypes /\ GuestTypes
  BY TypeParts DEF NestedInv, TypesInv
<1>2. RoutesInv'
  BY <1>1, RoutesKept
<1>3. KnowsInv'
  <2> SUFFICES ASSUME NEW p \in Hosts, Concerned(p)'
               PROVE  Informed(p)' \/ Free(p)'
    BY DEF KnowsInv
  <2> QED
    BY <1>1, KnowsKept
<1>4. to_server' \in Seq(ServerMessages) /\ MessagesInv'
  BY <1>1, RoutedEnds
<1>5. MainTypes' /\ GuestTypes'
  BY <1>1 DEF MainTypes, GuestTypes
<1>6. NestedTypeOK'
  BY <1>4, <1>5, PartsType
<1> QED
  BY <1>2, <1>3, <1>4, <1>6 DEF NestedInv, TypesInv

\* So do those that end with a report.
LEMMA ReportKeeps ==
  ASSUME NestedAssumption, NestedInv, UNCHANGED <<handling, client, keys_to, guest, program>>,
         ScreenTypes', FrameTypes', NEW C \in SUBSET Clients, Report(C), going' = going,
         \A c \in Clients \ C : \A p \in Hosts : Ends(c, p) /\ There(c, p) =>
           choices'[c][p] = "Descend" /\ IF p \in open' THEN Alive(c, p)' ELSE Doomed(p)',
         HereInv', ProgramsInv', FramesInv',
         \A p \in Hosts : Concerned(p)' =>
           \/ Knows(p)'
           \/ Concerned(p) /\ (Knows(p) => Knows(p)')
           \/ \A c \in Clients : ~Ends(c, p)
  PROVE  NestedInv'
<1> DEFINE T == [c \in C |-> IF Descended(c)' THEN focus'[c] ELSE None]
<1>1. focus' \in [Clients -> Hosts \cup {None, Shell}] /\ open' \cap flagged' \subseteq Hosts
  BY DEF ScreenTypes
<1>2. Routes(C, T)
  BY <1>1, ReportRoutes
<1>3. dimmed' = (dimmed \ C) \cup {c \in C : Descended(c)'}
  BY DEF Report
<1>4. ASSUME NEW c \in C, NEW p \in Hosts, T[c] = p
      PROVE  There(c, p)'
  <2>1. p # None
    BY DEF NestedAssumption, None
  <2>2. Descended(c)' /\ focus'[c] = p
    BY <1>4, <2>1
  <2>3. /\ c \in dimmed' /\ choices'[c][p] = "Descend"
        /\ p \in open' /\ p \in flagged' /\ tracker'[p] = "tracked"
    BY <1>3, <2>2 DEF Descended, ShouldRoute
  <2>4. client'[c] = "here" \/ c \in going'
    BY <2>1, <2>2 DEF HereInv
  <2> QED
    BY <2>2, <2>3, <2>4 DEF There, Alive
<1>5. ASSUME NEW c \in C, T[c] = None
      PROVE  c \notin dimmed'
  <2>1. Descended(c)' => focus'[c] \in Hosts
    BY <1>1 DEF Descended, ShouldRoute
  <2>2. ~Descended(c)'
    BY <1>5, <2>1 DEF NestedAssumption, None
  <2> QED
    BY <1>3, <2>2
<1>6. ASSUME NEW c \in Clients \ C
      PROVE  /\ \A p \in Hosts : Ends(c, p) /\ There(c, p) => There(c, p)'
             /\ c \in dimmed' => c \in dimmed
  BY <1>3 DEF There
<1> HIDE DEF T
<1> QED
  BY <1>2, <1>4, <1>5, <1>6, ScreenKeeps

\* And those that end with a release.
LEMMA ReleaseKeeps ==
  ASSUME NestedAssumption, NestedInv, UNCHANGED <<handling, client, keys_to, guest, program>>,
         ScreenTypes', FrameTypes', NEW C \in SUBSET Clients, NEW q \in Hosts,
         NEW notify \in BOOLEAN, Release(C, q, notify), going' = going,
         \A c \in Clients \ C : \A p \in Hosts : Ends(c, p) /\ There(c, p) =>
           choices'[c][p] = "Descend" /\ IF p \in open' THEN Alive(c, p)' ELSE Doomed(p)',
         HereInv', ProgramsInv', FramesInv',
         \A p \in Hosts : Concerned(p)' =>
           \/ Knows(p)'
           \/ Concerned(p) /\ (Knows(p) => Knows(p)')
           \/ \A c \in Clients : ~Ends(c, p)
  PROVE  NestedInv'
<1> DEFINE T == [c \in C |-> None]
<1>1. Routes(C, T)
  BY ReleaseRoutes
<1>2. dimmed' = dimmed \ C
  BY DEF Release
<1>3. \A c \in C : (\A p \in Hosts : T[c] = p => There(c, p)') /\ c \notin dimmed'
  BY <1>2 DEF NestedAssumption, None
<1>4. ASSUME NEW c \in Clients \ C
      PROVE  /\ \A p \in Hosts : Ends(c, p) /\ There(c, p) => There(c, p)'
             /\ c \in dimmed' => c \in dimmed
  BY <1>2 DEF There
<1> HIDE DEF T
<1> QED
  BY <1>1, <1>3, <1>4, ScreenKeeps

\* And those that end without news for the main loop.
LEMMA SilenceKeeps ==
  ASSUME NestedInv, UNCHANGED <<handling, client, keys_to, guest, program, to_server, dimmed, going>>,
         ScreenTypes', FrameTypes',
         \A c \in Clients : \A p \in Hosts : Ends(c, p) /\ There(c, p) =>
           choices'[c][p] = "Descend" /\ IF p \in open' THEN Alive(c, p)' ELSE Doomed(p)',
         HereInv', ProgramsInv', FramesInv',
         \A p \in Hosts : Concerned(p)' =>
           \/ Knows(p)'
           \/ Concerned(p) /\ (Knows(p) => Knows(p)')
           \/ \A c \in Clients : ~Ends(c, p)
  PROVE  NestedInv'
<1>1. to_server \in Seq(ServerMessages)
  BY TypeParts DEF NestedInv, TypesInv
<1>2. Routes({}, <<>>)
  BY <1>1, NothingRoutes
<1>3. ASSUME NEW c \in Clients
      PROVE  /\ \A p \in Hosts : Ends(c, p) /\ There(c, p) => There(c, p)'
             /\ c \in dimmed' => c \in dimmed
  BY DEF There
<1> QED
  BY <1>2, <1>3, ScreenKeeps

\* A guest is concerned as before, and knows as much as before.
LEMMA ConcernKept ==
  ASSUME NEW p \in Hosts, open' \subseteq open, strayed \subseteq strayed', guest' = guest,
         to_guest'[p] = to_guest[p], p \in open' /\ Announcing(p) => Announcing(p)', Concerned(p)'
  PROVE  Concerned(p) /\ (Knows(p) => Knows(p)')
<1>1. Concerned(p)
  BY DEF Concerned
<1> QED
  BY <1>1 DEF Knows

-----------------------------------------------------------------------------
(* The frames of the guests *)

\* What is left of a pane's output when its first frame is taken.
LEMMA TakesFacts ==
  ASSUME NestedInv, NEW p \in Hosts, NEW frame, Takes(p, frame)
  PROVE  /\ UNCHANGED <<handling, client, keys_to, guest, program, ticks, chosen, ended, coming,
                        going>>
         /\ from_guest' \in [Hosts -> Seq(GuestFrames)] /\ FramesInv'
         /\ \A q \in Hosts : q # p => from_guest'[q] = from_guest[q]
         /\ frame # "Announce" => (Announcing(p) => Announcing(p)')
         /\ frame # "Bye" => (ByeFirst(from_guest[p]) => ByeFirst(from_guest'[p]))
         /\ frame = "Announce" => ByeFirst(from_guest'[p]) /\ ~ByeFirst(from_guest[p])
<1>1. from_guest \in [Hosts -> Seq(GuestFrames)] /\ FramesInv
  BY TypeParts DEF NestedInv, TypesInv, FrameTypes
<1>2. /\ from_guest[p] # <<>> /\ Head(from_guest[p]) = frame
      /\ from_guest' = [from_guest EXCEPT ![p] = Tail(@)]
      /\ UNCHANGED <<handling, client, keys_to, guest, program, ticks, chosen, ended, coming, going>>
  BY DEF Takes, ScreenActs, mainVars, guestVars, toScreen
<1> DEFINE q == from_guest[p]
           n == Len(q)
<1>3. q \in Seq(GuestFrames) /\ q # <<>> /\ q[1] = frame
  BY <1>1, <1>2, HeadTailProperties
<1>4. /\ n \in Nat /\ n >= 1 /\ Tail(q) \in Seq(GuestFrames) /\ Len(Tail(q)) = n - 1
      /\ \A i \in 1 .. n - 1 : Tail(q)[i] = q[i + 1] /\ i + 1 \in 1 .. n
  BY <1>3, TailFacts
<1>5. from_guest' \in [Hosts -> Seq(GuestFrames)] /\ from_guest'[p] = Tail(q)
  BY <1>1, <1>2, <1>4
<1>6. \A r \in Hosts : r # p => from_guest'[r] = from_guest[r]
  BY <1>1, <1>2
<1> DEFINE t == Tail(q)
<1>7. Parted(q)
  BY <1>1 DEF FramesInv
<1>8. DOMAIN q = 1 .. n /\ DOMAIN t = 1 .. n - 1
  BY <1>3, <1>4, LenProperties
<1> HIDE DEF q, t, n
<1>9. Parted(t)
  <2> SUFFICES ASSUME NEW i \in 1 .. n - 1, NEW j \in 1 .. n - 1, i < j, t[i] = "Announce",
                      t[j] = "Announce"
               PROVE  \E k \in i .. j : t[k] = "Bye"
    BY <1>4 DEF Parted, t
  <2>1. q[i + 1] = "Announce" /\ q[j + 1] = "Announce" /\ i + 1 < j + 1
    BY <1>4 DEF t
  <2>2. i + 1 \in 1 .. Len(q) /\ j + 1 \in 1 .. Len(q)
    BY <1>4 DEF n
  <2>3. PICK k \in i + 1 .. j + 1 : q[k] = "Bye"
    BY <1>7, <2>1, <2>2 DEF Parted
  <2>4. k - 1 \in i .. j /\ k - 1 \in 1 .. n - 1 /\ (k - 1) + 1 = k
    BY <1>4, <2>3
  <2>5. t[k - 1] = "Bye"
    BY <1>4, <2>3, <2>4 DEF t
  <2> QED
    BY <2>4, <2>5
<1>10. ASSUME frame # "Announce", Waits("Announce", q)
       PROVE  Waits("Announce", t)
  <2>1. PICK i \in 1 .. n : q[i] = "Announce"
    BY <1>8, <1>10 DEF Waits
  <2>2. i # 1
    BY <1>3, <1>10, <2>1
  <2>3. i - 1 \in 1 .. n - 1 /\ (i - 1) + 1 = i
    BY <1>4, <2>2
  <2>4. t[i - 1] = "Announce"
    BY <1>4, <2>1, <2>3 DEF t
  <2> QED
    BY <1>8, <2>3, <2>4 DEF Waits
<1>11. ASSUME frame # "Bye", ByeFirst(q)
       PROVE  ByeFirst(t)
  <2> SUFFICES ASSUME NEW j \in 1 .. n - 1, t[j] = "Announce"
               PROVE  \E k \in 1 .. j : t[k] = "Bye"
    BY <1>4 DEF ByeFirst, t
  <2>1. q[j + 1] = "Announce" /\ j + 1 \in 1 .. Len(q)
    BY <1>4 DEF t, n
  <2>2. PICK k \in 1 .. j + 1 : q[k] = "Bye"
    BY <1>11, <2>1 DEF ByeFirst
  <2>3. k # 1
    BY <1>3, <1>11, <2>2
  <2>4. k - 1 \in 1 .. j /\ k - 1 \in 1 .. n - 1 /\ (k - 1) + 1 = k
    BY <1>4, <2>3
  <2>5. t[k - 1] = "Bye"
    BY <1>4, <2>2, <2>4 DEF t
  <2> QED
    BY <2>4, <2>5
<1>12. ASSUME frame = "Announce"
       PROVE  ByeFirst(t) /\ ~ByeFirst(q)
  <2>1. ~ByeFirst(q)
    <3> SUFFICES ASSUME ByeFirst(q)
                 PROVE  FALSE
      OBVIOUS
    <3>1. 1 \in 1 .. Len(q)
      BY <1>4 DEF n
    <3>2. PICK k \in 1 .. 1 : q[k] = "Bye"
      BY <1>3, <1>12, <3>1 DEF ByeFirst
    <3> QED
      BY <1>3, <1>12, <3>2
  <2>2. ASSUME NEW j \in 1 .. n - 1, t[j] = "Announce"
        PROVE  \E k \in 1 .. j : t[k] = "Bye"
    <3>1. q[j + 1] = "Announce" /\ j + 1 \in 1 .. Len(q) /\ 1 \in 1 .. Len(q) /\ 1 < j + 1
      BY <1>4, <2>2 DEF t, n
    <3>2. PICK k \in 1 .. j + 1 : q[k] = "Bye"
      BY <1>3, <1>7, <1>12, <3>1 DEF Parted
    <3>3. k # 1
      BY <1>3, <1>12, <3>2
    <3>4. k - 1 \in 1 .. j /\ k - 1 \in 1 .. n - 1 /\ (k - 1) + 1 = k
      BY <1>4, <3>3
    <3>5. t[k - 1] = "Bye"
      BY <1>4, <3>2, <3>4 DEF t
    <3> QED
      BY <3>4, <3>5
  <2> QED
    BY <1>4, <2>1, <2>2 DEF ByeFirst, t
<1>13. FramesInv'
  <2> SUFFICES ASSUME NEW r \in Hosts
               PROVE  Parted(from_guest'[r])
    BY DEF FramesInv
  <2> QED
    BY <1>1, <1>5, <1>6, <1>9 DEF FramesInv, t
<1> QED
  BY <1>2, <1>5, <1>6, <1>10, <1>11, <1>12, <1>13 DEF q, t, Announcing

-----------------------------------------------------------------------------
(* Screen's steps *)

LEMMA AnnounceAgainKeeps ==
  ASSUME NestedAssumption, NestedInv, NEW p \in Hosts, AnnounceAgain(p)
  PROVE  NestedInv'
<1>1. /\ Takes(p, "Announce") /\ p \in open /\ tracker[p] # "unknown"
      /\ tracker' = [tracker EXCEPT ![p] = "tracked"]
      /\ heard' = heard \cup {p} /\ flagged' = flagged \cup {p}
      /\ UNCHANGED <<open, focus, strayed, modals, choices>>
      /\ Report(FocusedOn(p)) /\ Ack(p) /\ pinging' = pinging \cup {p}
  BY DEF AnnounceAgain, Announced
<1>2. /\ UNCHANGED <<handling, client, keys_to, guest, program, ticks, chosen, ended, coming, going>>
      /\ from_guest' \in [Hosts -> Seq(GuestFrames)] /\ FramesInv'
      /\ \A q \in Hosts : q # p => from_guest'[q] = from_guest[q]
  BY <1>1, TakesFacts
<1>3. ScreenTypes /\ FrameTypes /\ HereInv /\ ProgramsInv
  BY TypeParts DEF NestedInv, TypesInv
<1> DEFINE s == IF \E c \in FocusedOn(p) : Descended(c)'
                THEN <<"AnnounceAck", "FocusGained">> ELSE <<"AnnounceAck">>
<1>4. /\ to_guest' = [to_guest EXCEPT ![p] = @ \o s]
      /\ s \in Seq(HostFrames) /\ \A i \in 1 .. Len(s) : s[i] # "FocusLost"
      /\ (\E c \in FocusedOn(p) : Descended(c)') => \E i \in 1 .. Len(s) : s[i] = "FocusGained"
  <2>1. to_guest' = [to_guest EXCEPT ![p] = @ \o s]
    BY <1>1 DEF Ack, FrameTo
  <2>2. CASE \E c \in FocusedOn(p) : Descended(c)'
    <3>1. s = <<"AnnounceAck", "FocusGained">>
      BY <2>2
    <3> HIDE DEF s
    <3> QED
      BY <2>1, <3>1 DEF HostFrames
  <2>3. CASE ~\E c \in FocusedOn(p) : Descended(c)'
    <3>1. s = <<"AnnounceAck">>
      BY <2>3
    <3> HIDE DEF s
    <3> QED
      BY <2>1, <2>3, <3>1 DEF HostFrames
  <2> QED
    BY <2>2, <2>3
<1> HIDE DEF s
<1>5. FrameTypes' /\ \A q \in Hosts : q # p => to_guest'[q] = to_guest[q]
  BY <1>2, <1>3, <1>4 DEF FrameTypes
<1>6. ScreenTypes'
  <2>1. dimmed' \subseteq Clients
    BY <1>1, <1>3 DEF Report, ScreenTypes, FocusedOn
  <2> QED
    BY <1>1, <1>2, <1>3, <2>1 DEF ScreenTypes
<1>7. HereInv' /\ ProgramsInv'
  BY <1>1, <1>2, <1>3 DEF HereInv, ProgramsInv
<1>8. ASSUME NEW c \in Clients \ FocusedOn(p), NEW q \in Hosts, Ends(c, q), There(c, q)
      PROVE  choices'[c][q] = "Descend" /\ IF q \in open' THEN Alive(c, q)' ELSE Doomed(q)'
  <2>1. tracker'[q] = IF q = p THEN "tracked" ELSE tracker[q]
    BY <1>1, <1>3 DEF ScreenTypes
  <2> QED
    BY <1>1, <1>2, <1>8, <2>1 DEF There, Alive, Doomed
<1>9. ASSUME NEW q \in Hosts, Concerned(q)'
      PROVE  \/ Knows(q)'
             \/ Concerned(q) /\ (Knows(q) => Knows(q)')
             \/ \A c \in Clients : ~Ends(c, q)
  <2>1. CASE q # p
    BY <1>1, <1>2, <1>5, <1>9, <2>1, ConcernKept DEF Announcing
  <2>2. CASE q = p
    <3>1. CASE \E c \in FocusedOn(p) : Descended(c)'
      <4>1. to_guest[p] \in Seq(HostFrames) /\ to_guest'[p] = to_guest[p] \o s
        BY <1>3, <1>4 DEF FrameTypes
      <4> QED
        BY <1>2, <1>4, <2>2, <3>1, <4>1, WrittenKnows
    <3>2. CASE ~\E c \in FocusedOn(p) : Descended(c)'
      <4> SUFFICES ASSUME NEW c \in Clients, Ends(c, p)
                   PROVE  FALSE
        BY <2>2
      <4>1. There(c, p)
        BY DEF NestedInv, RoutesInv
      <4>2. p \notin strayed
        BY <1>1, <1>9, <2>2 DEF Concerned
      <4>3. focus[c] = p /\ choices[c][p] = "Descend"
        BY <1>1, <4>1, <4>2 DEF There, Alive
      <4>4. focus'[c] = p /\ choices'[c][p] = "Descend" /\ p \in open' \cap flagged'
            /\ tracker'[p] = "tracked"
        BY <1>1, <1>3, <4>3 DEF ScreenTypes
      <4> QED
        BY <3>2, <4>3, <4>4 DEF FocusedOn, Descended, ShouldRoute
    <3> QED
      BY <3>1, <3>2
  <2> QED
    BY <2>1, <2>2
<1>10. FocusedOn(p) \in SUBSET Clients
  BY DEF FocusedOn
<1> QED
  BY <1>1, <1>2, <1>5, <1>6, <1>7, <1>8, <1>9, <1>10, ReportKeeps

LEMMA AnnounceNewKeeps ==
  ASSUME NestedAssumption, NestedInv, NEW p \in Hosts, AnnounceNew(p)
  PROVE  NestedInv'
<1> DEFINE C == IF handling = "Descend" THEN FocusedOn(p) ELSE {}
           s == <<"AnnounceAck">>
<1>1. /\ Takes(p, "Announce") /\ p \in open /\ tracker[p] = "unknown"
      /\ tracker' = [tracker EXCEPT ![p] = "tracked"]
      /\ heard' = heard \cup {p} /\ flagged' = flagged \cup {p}
      /\ UNCHANGED <<open, focus, strayed>>
      /\ choices' = [c \in Clients |-> [choices[c] EXCEPT ![p] =
           IF handling = "Descend" /\ c \in Attached THEN "Descend" ELSE "none"]]
      /\ modals' = IF handling = "Ask" THEN modals \cup (Attached \X {p}) ELSE modals
      /\ Report(C) /\ pinging' = pinging \cup {p}
      /\ to_guest' = [to_guest EXCEPT ![p] = @ \o s]
  BY DEF AnnounceNew, Announced, FrameTo
<1>2. /\ UNCHANGED <<handling, client, keys_to, guest, program, ticks, chosen, ended, coming, going>>
      /\ from_guest' \in [Hosts -> Seq(GuestFrames)] /\ FramesInv'
      /\ \A q \in Hosts : q # p => from_guest'[q] = from_guest[q]
  BY <1>1, TakesFacts
<1>3. ScreenTypes /\ FrameTypes /\ HereInv /\ ProgramsInv
  BY TypeParts DEF NestedInv, TypesInv
<1>4. s \in Seq(HostFrames)
  BY DEF HostFrames
<1> HIDE DEF s
<1>5. FrameTypes' /\ \A q \in Hosts : q # p => to_guest'[q] = to_guest[q]
  BY <1>1, <1>2, <1>3, <1>4 DEF FrameTypes
<1>10. C \in SUBSET Clients
  BY DEF FocusedOn
<1> HIDE DEF C
<1>6. ScreenTypes'
  <2>1. dimmed' \subseteq Clients
    BY <1>1, <1>3, <1>10 DEF Report, ScreenTypes
  <2>2. modals' \subseteq Clients \X Hosts
    BY <1>1, <1>3 DEF ScreenTypes, Attached
  <2>3. choices' \in [Clients -> [Hosts -> {"none", "Descend", "Dismissed"}]]
    BY <1>1, <1>3 DEF ScreenTypes
  <2>4. tracker' \in [Hosts -> {"unknown", "tracked", "dormant"}]
    BY <1>1, <1>3 DEF ScreenTypes
  <2> QED
    BY <1>1, <1>2, <1>3, <2>1, <2>2, <2>3, <2>4 DEF ScreenTypes
<1>7. HereInv' /\ ProgramsInv'
  BY <1>1, <1>2, <1>3 DEF HereInv, ProgramsInv
<1>8. \A c \in Clients : ~Ends(c, p)
  <2> SUFFICES ASSUME NEW c \in Clients, Ends(c, p)
               PROVE  FALSE
    OBVIOUS
  <2>1. There(c, p)
    BY DEF NestedInv, RoutesInv
  <2> QED
    BY <1>1, <2>1 DEF There, Alive
<1>9. ASSUME NEW c \in Clients \ C, NEW q \in Hosts, Ends(c, q), There(c, q)
      PROVE  choices'[c][q] = "Descend" /\ IF q \in open' THEN Alive(c, q)' ELSE Doomed(q)'
  <2>1. q # p
    BY <1>8, <1>9
  <2>2. tracker'[q] = tracker[q] /\ choices'[c][q] = choices[c][q]
    BY <1>1, <1>3, <2>1 DEF ScreenTypes
  <2> QED
    BY <1>1, <1>2, <1>9, <2>1, <2>2 DEF There, Alive, Doomed
<1>11. ASSUME NEW q \in Hosts, Concerned(q)'
      PROVE  \/ Knows(q)'
             \/ Concerned(q) /\ (Knows(q) => Knows(q)')
             \/ \A c \in Clients : ~Ends(c, q)
  BY <1>1, <1>2, <1>5, <1>8, <1>11, ConcernKept DEF Announcing
<1> QED
  BY <1>1, <1>2, <1>5, <1>6, <1>7, <1>9, <1>10, <1>11, ReportKeeps

LEMMA AnnounceNowhereKeeps ==
  ASSUME NestedAssumption, NestedInv, NEW p \in Hosts, AnnounceNowhere(p)
  PROVE  NestedInv'
<1>1. /\ Takes(p, "Announce") /\ p \notin open
      /\ tracker' = [tracker EXCEPT ![p] = "unknown"] /\ heard' = heard \ {p}
      /\ choices' = IF tracker[p] # "unknown" THEN choices ELSE Forgotten(p)
      /\ UNCHANGED <<open, flagged, modals, dimmed, focus, strayed, pinging, to_server, to_guest>>
  BY DEF AnnounceNowhere
<1>2. /\ UNCHANGED <<handling, client, keys_to, guest, program, ticks, chosen, ended, coming, going>>
      /\ from_guest' \in [Hosts -> Seq(GuestFrames)] /\ FramesInv'
      /\ \A q \in Hosts : q # p => from_guest'[q] = from_guest[q]
      /\ ByeFirst(from_guest'[p]) /\ ~ByeFirst(from_guest[p])
  BY <1>1, TakesFacts
<1>3. ScreenTypes /\ FrameTypes /\ HereInv /\ ProgramsInv
  BY TypeParts DEF NestedInv, TypesInv
<1>5. FrameTypes'
  BY <1>1, <1>2, <1>3 DEF FrameTypes
<1>6. ScreenTypes'
  <2>3. choices' \in [Clients -> [Hosts -> {"none", "Descend", "Dismissed"}]]
    BY <1>1, <1>3 DEF ScreenTypes, Forgotten
  <2>4. tracker' \in [Hosts -> {"unknown", "tracked", "dormant"}]
    BY <1>1, <1>3 DEF ScreenTypes
  <2> QED
    BY <1>1, <1>2, <1>3, <2>3, <2>4 DEF ScreenTypes
<1>7. HereInv' /\ ProgramsInv'
  BY <1>1, <1>2, <1>3 DEF HereInv, ProgramsInv
<1>9. ASSUME NEW c \in Clients, NEW q \in Hosts, Ends(c, q), There(c, q)
      PROVE  choices'[c][q] = "Descend" /\ IF q \in open' THEN Alive(c, q)' ELSE Doomed(q)'
  <2>1. CASE q = p
    <3>1. Doomed(p) /\ choices[c][p] = "Descend"
      BY <1>1, <1>9, <2>1 DEF There
    <3>2. tracker[p] # "unknown"
      BY <1>2, <3>1 DEF Doomed
    <3> QED
      BY <1>1, <1>2, <2>1, <3>1, <3>2 DEF Doomed
  <2>2. CASE q # p
    <3>1. tracker'[q] = tracker[q] /\ choices'[c][q] = choices[c][q]
      BY <1>1, <1>3, <2>2 DEF ScreenTypes, Forgotten
    <3> QED
      BY <1>1, <1>2, <1>9, <2>2, <3>1 DEF There, Alive, Doomed
  <2> QED
    BY <2>1, <2>2
<1>11. ASSUME NEW q \in Hosts, Concerned(q)'
      PROVE  Concerned(q) /\ (Knows(q) => Knows(q)')
  BY <1>1, <1>2, <1>11, ConcernKept DEF Announcing
<1> QED
  BY <1>1, <1>2, <1>5, <1>6, <1>7, <1>9, <1>11, SilenceKeeps

LEMMA PongKeeps ==
  ASSUME NestedAssumption, NestedInv, NEW p \in Hosts, Pong(p)
  PROVE  NestedInv'
<1>1. /\ Takes(p, "Pong") /\ heard' \subseteq heard \cup {p}
      /\ UNCHANGED <<open, flagged, tracker, modals, choices, dimmed, focus, strayed, pinging,
                     to_server, to_guest>>
  BY DEF Pong
<1>2. /\ UNCHANGED <<handling, client, keys_to, guest, program, ticks, chosen, ended, coming, going>>
      /\ from_guest' \in [Hosts -> Seq(GuestFrames)] /\ FramesInv'
      /\ \A q \in Hosts : q # p => from_guest'[q] = from_guest[q]
      /\ Announcing(p) => Announcing(p)'
      /\ ByeFirst(from_guest[p]) => ByeFirst(from_guest'[p])
  BY <1>1, TakesFacts
<1>3. ScreenTypes /\ FrameTypes /\ HereInv /\ ProgramsInv
  BY TypeParts DEF NestedInv, TypesInv
<1>5. FrameTypes'
  BY <1>1, <1>2, <1>3 DEF FrameTypes
<1>6. ScreenTypes'
  BY <1>1, <1>2, <1>3 DEF ScreenTypes
<1>7. HereInv' /\ ProgramsInv'
  BY <1>1, <1>2, <1>3 DEF HereInv, ProgramsInv
<1>9. ASSUME NEW c \in Clients, NEW q \in Hosts, Ends(c, q), There(c, q)
      PROVE  choices'[c][q] = "Descend" /\ IF q \in open' THEN Alive(c, q)' ELSE Doomed(q)'
  BY <1>1, <1>2, <1>9 DEF There, Alive, Doomed
<1>11. ASSUME NEW q \in Hosts, Concerned(q)'
      PROVE  Concerned(q) /\ (Knows(q) => Knows(q)')
  BY <1>1, <1>2, <1>11, ConcernKept DEF Announcing
<1> QED
  BY <1>1, <1>2, <1>5, <1>6, <1>7, <1>9, <1>11, SilenceKeeps

LEMMA PingTickKeeps ==
  ASSUME NestedAssumption, NestedInv, NEW p \in Hosts, PingTick(p)
  PROVE  NestedInv'
<1>1. /\ UNCHANGED <<handling, client, keys_to, guest, program>>
      /\ ticks' = ticks \ {p}
      /\ UNCHANGED <<open, flagged, heard, choices, focus, strayed, from_guest, chosen, ended,
                     coming, going>>
  BY DEF PingTick, ScreenActs, mainVars, guestVars
<1>2. ScreenTypes /\ FrameTypes /\ HereInv /\ ProgramsInv /\ FramesInv
  BY TypeParts DEF NestedInv, TypesInv
<1>3. HereInv' /\ ProgramsInv' /\ FramesInv'
  BY <1>1, <1>2 DEF HereInv, ProgramsInv, FramesInv
<1>4. ASSUME FrameTo(p, <<"Ping">>), UNCHANGED <<tracker, modals, dimmed, to_server, pinging>>
      PROVE  NestedInv'
  <2> DEFINE s == <<"Ping">>
  <2>1. /\ s \in Seq(HostFrames) /\ to_guest' = [to_guest EXCEPT ![p] = @ \o s]
        /\ \A i \in 1 .. Len(s) : s[i] # "FocusLost"
    BY <1>4 DEF HostFrames, FrameTo
  <2> HIDE DEF s
  <2>2. FrameTypes' /\ \A q \in Hosts : q # p => to_guest'[q] = to_guest[q]
    BY <1>1, <1>2, <2>1 DEF FrameTypes
  <2>3. ScreenTypes'
    BY <1>1, <1>2, <1>4 DEF ScreenTypes
  <2>4. ASSUME NEW c \in Clients, NEW q \in Hosts, Ends(c, q), There(c, q)
        PROVE  choices'[c][q] = "Descend" /\ IF q \in open' THEN Alive(c, q)' ELSE Doomed(q)'
    BY <1>1, <1>4, <2>4 DEF There, Alive, Doomed
  <2>5. ASSUME NEW q \in Hosts, Concerned(q)'
        PROVE  Concerned(q) /\ (Knows(q) => Knows(q)')
    <3>1. CASE q # p
      BY <1>1, <2>2, <2>5, <3>1, ConcernKept DEF Announcing
    <3>2. CASE q = p
      <4>1. to_guest[p] \in Seq(HostFrames) /\ to_guest'[p] = to_guest[p] \o s
        BY <1>2, <2>1 DEF FrameTypes
      <4>2. Knows(p) => Knows(p)'
        BY <1>1, <2>1, <4>1, WrittenKnows
      <4> QED
        BY <1>1, <2>5, <3>2, <4>2 DEF Concerned, Announcing
    <3> QED
      BY <3>1, <3>2
  <2> QED
    BY <1>1, <1>3, <1>4, <2>2, <2>3, <2>4, <2>5, SilenceKeeps
<1>5. ASSUME Suspend(p), UNCHANGED to_guest
      PROVE  NestedInv'
  <2> DEFINE C == FocusedOn(p) \cup dimmed
  <2>1. /\ tracker' = [tracker EXCEPT ![p] = "dormant"]
        /\ modals' = {m \in modals : m[2] # p}
        /\ Release(C, p, FALSE) /\ pinging' = pinging \ {p}
    BY <1>5 DEF Suspend
  <2>2. C \in SUBSET Clients
    BY <1>2 DEF FocusedOn, ScreenTypes
  <2>3. ScreenTypes'
    <3>1. dimmed' \subseteq Clients
      BY <1>2, <2>1 DEF Release, ScreenTypes
    <3>2. tracker' \in [Hosts -> {"unknown", "tracked", "dormant"}]
      BY <1>2, <2>1 DEF ScreenTypes
    <3> QED
      BY <1>1, <1>2, <2>1, <3>1, <3>2 DEF ScreenTypes
  <2>4. ASSUME NEW c \in Clients \ C, NEW q \in Hosts, Ends(c, q), There(c, q)
        PROVE  choices'[c][q] = "Descend" /\ IF q \in open' THEN Alive(c, q)' ELSE Doomed(q)'
    BY <2>4 DEF There
  <2>5. ASSUME NEW q \in Hosts, Concerned(q)'
        PROVE  Concerned(q) /\ (Knows(q) => Knows(q)')
    BY <1>1, <1>5, <2>5, ConcernKept DEF Announcing
  <2>6. FrameTypes'
    BY <1>1, <1>2, <1>5 DEF FrameTypes
  <2> HIDE DEF C
  <2> QED
    BY <1>1, <1>3, <2>1, <2>2, <2>3, <2>4, <2>5, <2>6, ReleaseKeeps
<1>6. ASSUME pinging' = pinging \ {p}, UNCHANGED <<tracker, modals, dimmed, to_server, to_guest>>
      PROVE  NestedInv'
  <2>1. FrameTypes' /\ ScreenTypes'
    BY <1>1, <1>2, <1>6 DEF FrameTypes, ScreenTypes
  <2>2. ASSUME NEW c \in Clients, NEW q \in Hosts, Ends(c, q), There(c, q)
        PROVE  choices'[c][q] = "Descend" /\ IF q \in open' THEN Alive(c, q)' ELSE Doomed(q)'
    BY <1>1, <1>6, <2>2 DEF There, Alive, Doomed
  <2>3. ASSUME NEW q \in Hosts, Concerned(q)'
        PROVE  Concerned(q) /\ (Knows(q) => Knows(q)')
    BY <1>1, <1>6, <2>3, ConcernKept DEF Announcing
  <2> QED
    BY <1>1, <1>3, <1>6, <2>1, <2>2, <2>3, SilenceKeeps
<1> QED
  BY <1>4, <1>5, <1>6 DEF PingTick

\* What clearing a guest takes: the rest of the step leaves the panes that stay open, and those
\* who focus them, alone, or as strays.
LEMMA ClearKeeps ==
  ASSUME NestedAssumption, NestedInv, NEW p \in Hosts, Clear(p),
         UNCHANGED <<handling, client, keys_to, guest, program, ticks, chosen, coming, going>>,
         ended \ {p} \subseteq ended', ended' \subseteq ended, open \ {p} \subseteq open',
         open' \subseteq open, p \in ended \ ended' => p \notin open',
         focus' \in [Clients -> open' \cup {None}], strayed' \subseteq Hosts \cup {Shell},
         strayed \subseteq strayed', Shell \in open',
         \A c \in Clients : /\ focus'[c] # None => focus[c] # None
                            /\ focus[c] = focus'[c] \/ focus[c] \notin open' \/ focus[c] = p,
         from_guest' \in [Hosts -> Seq(GuestFrames)], FramesInv',
         \A q \in Hosts : q # p => from_guest'[q] = from_guest[q],
         p \in open' /\ Announcing(p) => Announcing(p)'
  PROVE  NestedInv'
<1> DEFINE C == {c \in Clients : choices[c][p] = "Descend" \/ focus'[c] = p}
<1>1. /\ tracker' = [tracker EXCEPT ![p] = "unknown"]
      /\ heard' = heard \ {p} /\ flagged' = flagged \ {p}
      /\ modals' = {m \in modals : m[2] # p}
      /\ choices' = Forgotten(p)
      /\ Release(C, p, FALSE) /\ pinging' = pinging \ {p} /\ to_guest' = to_guest
  BY DEF Clear
<1>2. ScreenTypes /\ FrameTypes /\ HereInv /\ ProgramsInv /\ FramesInv
  BY TypeParts DEF NestedInv, TypesInv
<1>3. C \in SUBSET Clients
  OBVIOUS
<1>4. ScreenTypes'
  <2>1. dimmed' \subseteq Clients
    BY <1>1, <1>2 DEF Release, ScreenTypes
  <2>2. tracker' \in [Hosts -> {"unknown", "tracked", "dormant"}]
    BY <1>1, <1>2 DEF ScreenTypes
  <2>3. choices' \in [Clients -> [Hosts -> {"none", "Descend", "Dismissed"}]]
    BY <1>1, <1>2 DEF ScreenTypes, Forgotten
  <2>4. modals' \subseteq Clients \X Hosts
    BY <1>1, <1>2 DEF ScreenTypes
  <2> QED
    BY <1>1, <1>2, <2>1, <2>2, <2>3, <2>4 DEF ScreenTypes
<1>5. FrameTypes' /\ HereInv' /\ ProgramsInv'
  BY <1>1, <1>2 DEF FrameTypes, HereInv, ProgramsInv
<1>6. ASSUME NEW c \in Clients \ C, NEW q \in Hosts, Ends(c, q), There(c, q)
      PROVE  choices'[c][q] = "Descend" /\ IF q \in open' THEN Alive(c, q)' ELSE Doomed(q)'
  <2>1. choices[c][q] = "Descend" /\ q # p
    BY <1>6 DEF There
  <2>2. tracker'[q] = tracker[q] /\ choices'[c][q] = choices[c][q] /\ (q \in open <=> q \in open')
    BY <1>1, <1>2, <2>1 DEF ScreenTypes, Forgotten
  <2> QED
    BY <1>1, <1>6, <2>1, <2>2 DEF There, Alive, Doomed
<1>7. ASSUME NEW q \in Hosts, Concerned(q)'
      PROVE  Concerned(q) /\ (Knows(q) => Knows(q)')
  BY <1>1, <1>7, ConcernKept DEF Announcing
<1> HIDE DEF C
<1> QED
  BY <1>1, <1>3, <1>4, <1>5, <1>6, <1>7, ReleaseKeeps

LEMMA ByeKeeps ==
  ASSUME NestedAssumption, NestedInv, NEW p \in Hosts, Bye(p)
  PROVE  NestedInv'
<1>1. Takes(p, "Bye") /\ UNCHANGED <<open, focus, strayed>> /\ Clear(p)
  BY DEF Bye
<1>2. /\ UNCHANGED <<handling, client, keys_to, guest, program, ticks, chosen, ended, coming, going>>
      /\ from_guest' \in [Hosts -> Seq(GuestFrames)] /\ FramesInv'
      /\ \A q \in Hosts : q # p => from_guest'[q] = from_guest[q]
      /\ Announcing(p) => Announcing(p)'
  BY <1>1, TakesFacts
<1>3. ScreenTypes
  BY TypeParts DEF NestedInv, TypesInv
<1>4. /\ focus' \in [Clients -> open' \cup {None}] /\ strayed' \subseteq Hosts \cup {Shell}
      /\ Shell \in open'
  BY <1>1, <1>3 DEF ScreenTypes
<1> QED
  BY <1>1, <1>2, <1>4, ClearKeeps

LEMMA FocusHostKeeps ==
  ASSUME NestedAssumption, NestedInv, NEW p \in Hosts, FocusHost(p)
  PROVE  NestedInv'
<1>1. /\ Takes(p, "FocusHost")
      /\ choices' = [c \in Clients |->
           [choices[c] EXCEPT ![p] = IF focus[c] = p THEN "Dismissed" ELSE @]]
      /\ Release(FocusedOn(p), p, TRUE)
      /\ UNCHANGED <<open, flagged, tracker, heard, modals, focus, strayed, pinging, to_guest>>
  BY DEF FocusHost
<1>2. /\ UNCHANGED <<handling, client, keys_to, guest, program, ticks, chosen, ended, coming, going>>
      /\ from_guest' \in [Hosts -> Seq(GuestFrames)] /\ FramesInv'
      /\ \A q \in Hosts : q # p => from_guest'[q] = from_guest[q]
      /\ Announcing(p) => Announcing(p)'
      /\ ByeFirst(from_guest[p]) => ByeFirst(from_guest'[p])
  BY <1>1, TakesFacts
<1>3. ScreenTypes /\ FrameTypes /\ HereInv /\ ProgramsInv
  BY TypeParts DEF NestedInv, TypesInv
<1>4. ScreenTypes'
  <2>1. dimmed' \subseteq Clients
    BY <1>1, <1>3 DEF Release, ScreenTypes
  <2>2. choices' \in [Clients -> [Hosts -> {"none", "Descend", "Dismissed"}]]
    BY <1>1, <1>3 DEF ScreenTypes
  <2> QED
    BY <1>1, <1>2, <1>3, <2>1, <2>2 DEF ScreenTypes
<1>5. FrameTypes' /\ HereInv' /\ ProgramsInv'
  BY <1>1, <1>2, <1>3 DEF FrameTypes, HereInv, ProgramsInv
<1>6. ASSUME NEW c \in Clients \ FocusedOn(p), NEW q \in Hosts, Ends(c, q), There(c, q)
      PROVE  choices'[c][q] = "Descend" /\ IF q \in open' THEN Alive(c, q)' ELSE Doomed(q)'
  <2>1. choices'[c][q] = choices[c][q]
    BY <1>1, <1>3, <1>6 DEF ScreenTypes, FocusedOn
  <2> QED
    BY <1>1, <1>2, <1>6, <2>1 DEF There, Alive, Doomed
<1>7. ASSUME NEW q \in Hosts, Concerned(q)'
      PROVE  Concerned(q) /\ (Knows(q) => Knows(q)')
  BY <1>1, <1>2, <1>7, ConcernKept DEF Announcing
<1>8. FocusedOn(p) \in SUBSET Clients
  BY DEF FocusedOn
<1> QED
  BY <1>1, <1>2, <1>4, <1>5, <1>6, <1>7, <1>8, ReleaseKeeps

LEMMA FocusBeyondKeeps ==
  ASSUME NestedAssumption, NestedInv, NEW p \in Hosts, FocusBeyond(p)
  PROVE  NestedInv'
<1>1. PICK next \in [FocusedOn(p) -> open] :
        /\ focus' = [c \in Clients |-> IF c \in DOMAIN next THEN next[c] ELSE focus[c]]
        /\ UNCHANGED <<open, flagged, tracker, heard, modals, choices, strayed, pinging, to_guest>>
        /\ Report({c \in DOMAIN next : next[c] # p})
  BY DEF FocusBeyond
<1>2. /\ UNCHANGED <<handling, client, keys_to, guest, program, ticks, chosen, ended, coming, going>>
      /\ from_guest' \in [Hosts -> Seq(GuestFrames)] /\ FramesInv'
      /\ \A q \in Hosts : q # p => from_guest'[q] = from_guest[q]
      /\ Announcing(p) => Announcing(p)'
      /\ ByeFirst(from_guest[p]) => ByeFirst(from_guest'[p])
  BY TakesFacts DEF FocusBeyond
<1>3. ScreenTypes /\ FrameTypes /\ HereInv /\ ProgramsInv
  BY TypeParts DEF NestedInv, TypesInv
<1> DEFINE C == {c \in DOMAIN next : next[c] # p}
<1>4. C \in SUBSET Clients /\ DOMAIN next = FocusedOn(p)
  BY DEF FocusedOn
<1>5. ScreenTypes'
  <2>1. dimmed' \subseteq Clients
    BY <1>1, <1>3, <1>4 DEF Report, ScreenTypes
  <2>2. focus' \in [Clients -> open' \cup {None}]
    BY <1>1, <1>3 DEF ScreenTypes
  <2> QED
    BY <1>1, <1>2, <1>3, <2>1, <2>2 DEF ScreenTypes
<1>6. HereInv'
  <2>1. \A c \in Clients : focus'[c] # None => focus[c] # None
    BY <1>1, <1>4 DEF FocusedOn, NestedAssumption, None
  <2> QED
    BY <1>2, <1>3, <2>1 DEF HereInv
<1>7. FrameTypes' /\ ProgramsInv'
  BY <1>1, <1>2, <1>3 DEF FrameTypes, ProgramsInv
<1>8. ASSUME NEW c \in Clients \ C, NEW q \in Hosts, Ends(c, q), There(c, q)
      PROVE  choices'[c][q] = "Descend" /\ IF q \in open' THEN Alive(c, q)' ELSE Doomed(q)'
  <2>1. focus'[c] = focus[c]
    BY <1>1, <1>4, <1>8 DEF FocusedOn
  <2> QED
    BY <1>1, <1>2, <1>8, <2>1 DEF There, Alive, Doomed
<1>9. ASSUME NEW q \in Hosts, Concerned(q)'
      PROVE  Concerned(q) /\ (Knows(q) => Knows(q)')
  BY <1>1, <1>2, <1>9, ConcernKept DEF Announcing
<1> HIDE DEF C
<1>10. Report(C)
  BY <1>1 DEF C
<1> QED
  BY <1>2, <1>4, <1>5, <1>6, <1>7, <1>8, <1>9, <1>10, ReportKeeps

LEMMA ModalChoiceKeeps ==
  ASSUME NestedAssumption, NestedInv, NEW d \in Clients, NEW p \in Hosts, GuestModalChoice(d, p)
  PROVE  NestedInv'
<1>1. /\ UNCHANGED <<handling, client, keys_to, guest, program>>
      /\ chosen' = chosen \ {<<d, p>>}
      /\ choices' = [choices EXCEPT ![d][p] = "Descend"]
      /\ modals' = modals \ {<<d, p>>}
      /\ UNCHANGED <<open, flagged, tracker, heard, focus, strayed, pinging, to_guest, from_guest,
                     ticks, ended, coming, going>>
      /\ Report({d} \cap FocusedOn(p))
  BY DEF GuestModalChoice, ScreenActs, mainVars, guestVars
<1>2. ScreenTypes /\ FrameTypes /\ HereInv /\ ProgramsInv /\ FramesInv
  BY TypeParts DEF NestedInv, TypesInv
<1>3. {d} \cap FocusedOn(p) \in SUBSET Clients
  BY DEF FocusedOn
<1>4. ScreenTypes'
  <2>1. dimmed' \subseteq Clients
    BY <1>1, <1>2, <1>3 DEF Report, ScreenTypes
  <2>2. choices' \in [Clients -> [Hosts -> {"none", "Descend", "Dismissed"}]]
    BY <1>1, <1>2 DEF ScreenTypes
  <2> QED
    BY <1>1, <1>2, <2>1, <2>2 DEF ScreenTypes
<1>5. FrameTypes' /\ HereInv' /\ ProgramsInv' /\ FramesInv'
  BY <1>1, <1>2 DEF FrameTypes, HereInv, ProgramsInv, FramesInv
<1>6. ASSUME NEW c \in Clients, NEW q \in Hosts, Ends(c, q), There(c, q)
      PROVE  choices'[c][q] = "Descend" /\ IF q \in open' THEN Alive(c, q)' ELSE Doomed(q)'
  <2>1. choices'[c][q] = "Descend"
    BY <1>1, <1>2, <1>6 DEF ScreenTypes, There
  <2> QED
    BY <1>1, <1>6, <2>1 DEF There, Alive, Doomed
<1>7. ASSUME NEW q \in Hosts, Concerned(q)'
      PROVE  Concerned(q) /\ (Knows(q) => Knows(q)')
  BY <1>1, <1>7, ConcernKept DEF Announcing
<1> QED
  BY <1>1, <1>3, <1>4, <1>5, <1>6, <1>7, ReportKeeps

\* What is left of the output of a pane that goes, and whose focus moves.
LEMMA LeavesFacts ==
  ASSUME NestedAssumption, NestedInv, NEW p \in Hosts, p \in open, Leaves(p)
  PROVE  /\ open' = open \ {p} /\ Shell \in open'
         /\ from_guest' \in [Hosts -> Seq(GuestFrames)] /\ FramesInv'
         /\ \A q \in Hosts : q # p => from_guest'[q] = from_guest[q]
         /\ focus' \in [Clients -> open' \cup {None}]
         /\ \A c \in Clients : focus[c] # p => focus'[c] = focus[c]
         /\ \A c \in Clients : focus'[c] # None => focus[c] # None
<1>1. PICK next \in [FocusedOn(p) -> open \ {p}], parsed \in 0 .. Len(from_guest[p]) :
        /\ open' = open \ {p}
        /\ from_guest' = [from_guest EXCEPT ![p] = SubSeq(@, 1, parsed)]
        /\ focus' = [c \in Clients |-> IF c \in DOMAIN next THEN next[c] ELSE focus[c]]
  BY DEF Leaves
<1>2. ScreenTypes /\ FrameTypes /\ FramesInv
  BY TypeParts DEF NestedInv, TypesInv
<1>3. Shell \in open' /\ p # None /\ p # Shell
  BY <1>1, <1>2 DEF ScreenTypes, NestedAssumption, None, Shell
<1> DEFINE q == from_guest[p]
           t == SubSeq(q, 1, parsed)
<1>4. q \in Seq(GuestFrames)
  BY <1>2 DEF FrameTypes
<1>5. /\ Len(q) \in Nat /\ parsed \in Nat /\ parsed <= Len(q)
      /\ t \in Seq(GuestFrames) /\ Len(t) = parsed /\ \A i \in 1 .. parsed : t[i] = q[i]
  <2>1. Len(q) \in Nat /\ parsed \in Nat /\ parsed <= Len(q)
    BY <1>4, LenProperties
  <2>2. \A i \in 1 .. parsed : i \in 1 .. Len(q) /\ q[i] \in GuestFrames
    BY <1>4, <2>1, ElementOfSeq
  <2>3. t = [i \in 1 .. parsed |-> q[i]]
    BY <1>4, <2>1
  <2> HIDE DEF q, t
  <2>4. t \in [1 .. parsed -> GuestFrames]
    BY <2>2, <2>3
  <2> QED
    BY <2>1, <2>3, <2>4
<1>6. /\ from_guest' \in [Hosts -> Seq(GuestFrames)] /\ from_guest'[p] = t
      /\ \A r \in Hosts : r # p => from_guest'[r] = from_guest[r]
  BY <1>1, <1>2, <1>5 DEF FrameTypes
<1>7. Parted(q)
  BY <1>2 DEF FramesInv
<1> HIDE DEF q, t
<1>8. Parted(t)
  <2> SUFFICES ASSUME NEW i \in 1 .. parsed, NEW j \in 1 .. parsed, i < j, t[i] = "Announce",
                      t[j] = "Announce"
               PROVE  \E k \in i .. j : t[k] = "Bye"
    BY <1>5 DEF Parted
  <2>1. q[i] = "Announce" /\ q[j] = "Announce" /\ i \in 1 .. Len(q) /\ j \in 1 .. Len(q)
    BY <1>5
  <2>2. PICK k \in i .. j : q[k] = "Bye"
    BY <1>7, <2>1 DEF Parted
  <2>3. t[k] = "Bye"
    BY <1>5, <2>2
  <2> QED
    BY <2>3
<1>9. FramesInv'
  BY <1>2, <1>6, <1>8 DEF FramesInv
<1>10. DOMAIN next = FocusedOn(p)
  OBVIOUS
<1>11. /\ focus' \in [Clients -> open' \cup {None}]
       /\ \A c \in Clients : focus[c] # p => focus'[c] = focus[c]
  BY <1>1, <1>2, <1>10 DEF FocusedOn, ScreenTypes
<1>12. \A c \in Clients : focus'[c] # None => focus[c] # None
  BY <1>3, <1>11
<1> QED
  BY <1>1, <1>3, <1>6, <1>9, <1>11, <1>12

LEMMA ClosePaneKeeps ==
  ASSUME NestedAssumption, NestedInv, NEW p \in Hosts, ClosePane(p)
  PROVE  NestedInv'
<1>1. /\ UNCHANGED <<handling, client, keys_to, guest, program, ticks, chosen, coming, going>>
      /\ ended' = ended \ {p}
      /\ IF p \in open THEN Leaves(p) ELSE UNCHANGED <<open, focus, from_guest>>
      /\ strayed' = strayed \cup {focus'[c] : c \in FocusedOn(p)}
      /\ Clear(p)
  BY DEF ClosePane, ScreenActs, mainVars, guestVars
<1>2. ScreenTypes /\ FrameTypes /\ FramesInv
  BY TypeParts DEF NestedInv, TypesInv
<1>3. p # None /\ p # Shell
  BY DEF NestedAssumption, None, Shell
<1>4. CASE p \in open
  <2>1. /\ open' = open \ {p} /\ Shell \in open'
        /\ from_guest' \in [Hosts -> Seq(GuestFrames)] /\ FramesInv'
        /\ \A q \in Hosts : q # p => from_guest'[q] = from_guest[q]
        /\ focus' \in [Clients -> open' \cup {None}]
        /\ \A c \in Clients : focus[c] # p => focus'[c] = focus[c]
        /\ \A c \in Clients : focus'[c] # None => focus[c] # None
    BY <1>1, <1>4, LeavesFacts
  <2>2. strayed' \subseteq Hosts \cup {Shell}
    <3> SUFFICES ASSUME NEW c \in FocusedOn(p)
                 PROVE  focus'[c] \in Hosts \cup {Shell}
      BY <1>1, <1>2 DEF ScreenTypes
    <3>1. PICK next \in [FocusedOn(p) -> open \ {p}] :
            focus' = [d \in Clients |-> IF d \in DOMAIN next THEN next[d] ELSE focus[d]]
      BY <1>1, <1>4 DEF Leaves
    <3>2. c \in Clients /\ c \in DOMAIN next
      BY DEF FocusedOn
    <3> QED
      BY <1>2, <3>1, <3>2 DEF ScreenTypes
  <2>3. ended \ {p} \subseteq ended' /\ ended' \subseteq ended /\ open \ {p} \subseteq open'
        /\ open' \subseteq open /\ (p \in ended \ ended' => p \notin open')
        /\ strayed \subseteq strayed' /\ (p \in open' /\ Announcing(p) => Announcing(p)')
    BY <1>1, <2>1
  <2>4. \A c \in Clients : focus[c] = focus'[c] \/ focus[c] \notin open' \/ focus[c] = p
    BY <2>1
  <2> QED
    BY <1>1, <2>1, <2>2, <2>3, <2>4, ClearKeeps
<1>5. CASE p \notin open
  <2>1. UNCHANGED <<open, focus, from_guest>>
    BY <1>1, <1>5
  <2>2. FocusedOn(p) = {}
    BY <1>2, <1>3, <1>5 DEF FocusedOn, ScreenTypes
  <2>3. strayed' = strayed
    BY <1>1, <2>2
  <2>4. /\ focus' \in [Clients -> open' \cup {None}] /\ strayed' \subseteq Hosts \cup {Shell}
        /\ Shell \in open' /\ from_guest' \in [Hosts -> Seq(GuestFrames)] /\ FramesInv'
    BY <1>2, <2>1, <2>3 DEF ScreenTypes, FrameTypes, FramesInv
  <2>5. ended \ {p} \subseteq ended' /\ ended' \subseteq ended /\ open \ {p} \subseteq open'
        /\ open' \subseteq open /\ (p \in ended \ ended' => p \notin open')
        /\ strayed \subseteq strayed' /\ (p \in open' /\ Announcing(p) => Announcing(p)')
    BY <1>1, <1>5, <2>1, <2>3
  <2> QED
    BY <1>1, <2>1, <2>4, <2>5, ClearKeeps
<1> QED
  BY <1>4, <1>5

LEMMA AddClientKeeps ==
  ASSUME NestedAssumption, NestedInv, NEW d \in Clients, AddClient(d)
  PROVE  NestedInv'
<1> DEFINE live == {p \in open \cap flagged : tracker[p] = "tracked" /\ choices[d][p] = "none"}
<1>1. /\ UNCHANGED <<handling, client, keys_to, guest, program>>
      /\ d \in coming /\ coming' = coming \ {d}
      /\ modals' = IF handling = "Ask" THEN modals \cup ({d} \X live) ELSE modals
      /\ choices' = [choices EXCEPT ![d] = [q \in Hosts |->
           IF handling = "Descend" /\ q \in live THEN "Descend" ELSE @[q]]]
      /\ UNCHANGED <<open, flagged, tracker, heard, strayed, pinging, to_guest, from_guest, ticks,
                     chosen, ended, going>>
      /\ Report({d})
  BY DEF AddClient, ScreenActs, mainVars, guestVars
<1>2. PICK f \in open : focus' = [focus EXCEPT ![d] = f]
  BY DEF AddClient
<1>3. ScreenTypes /\ FrameTypes /\ HereInv /\ ProgramsInv /\ FramesInv
  BY TypeParts DEF NestedInv, TypesInv
<1>4. ScreenTypes'
  <2>1. dimmed' \subseteq Clients
    BY <1>1, <1>3 DEF Report, ScreenTypes
  <2>2. choices' \in [Clients -> [Hosts -> {"none", "Descend", "Dismissed"}]]
    BY <1>1, <1>3 DEF ScreenTypes
  <2>3. modals' \subseteq Clients \X Hosts
    BY <1>1, <1>3 DEF ScreenTypes
  <2>4. focus' \in [Clients -> open' \cup {None}]
    BY <1>1, <1>2, <1>3 DEF ScreenTypes
  <2> QED
    BY <1>1, <1>3, <2>1, <2>2, <2>3, <2>4 DEF ScreenTypes
<1>5. FrameTypes' /\ ProgramsInv' /\ FramesInv'
  BY <1>1, <1>3 DEF FrameTypes, ProgramsInv, FramesInv
<1>6. HereInv'
  <2>1. \A c \in Clients : c # d => focus'[c] = focus[c]
    BY <1>2, <1>3 DEF ScreenTypes
  <2> QED
    BY <1>1, <1>3, <2>1 DEF HereInv
<1>7. ASSUME NEW c \in Clients \ {d}, NEW q \in Hosts, Ends(c, q), There(c, q)
      PROVE  choices'[c][q] = "Descend" /\ IF q \in open' THEN Alive(c, q)' ELSE Doomed(q)'
  <2>1. choices'[c] = choices[c] /\ focus'[c] = focus[c]
    BY <1>1, <1>2, <1>3 DEF ScreenTypes
  <2> QED
    BY <1>1, <1>7, <2>1 DEF There, Alive, Doomed
<1>8. ASSUME NEW q \in Hosts, Concerned(q)'
      PROVE  Concerned(q) /\ (Knows(q) => Knows(q)')
  BY <1>1, <1>8, ConcernKept DEF Announcing
<1> QED
  BY <1>1, <1>4, <1>5, <1>6, <1>7, <1>8, ReportKeeps

LEMMA RemoveClientKeeps ==
  ASSUME NestedAssumption, NestedInv, NEW d \in Clients, RemoveClient(d)
  PROVE  NestedInv'
<1> DEFINE P == {p \in Hosts : choices[d][p] = "Descend"}
<1>1. /\ UNCHANGED <<handling, client, keys_to, guest, program>>
      /\ d \in going \ coming /\ going' = going \ {d}
      /\ choices' = [choices EXCEPT ![d] = [q \in Hosts |-> "none"]]
      /\ modals' = {m \in modals : m[1] # d}
      /\ focus' = [focus EXCEPT ![d] = None]
      /\ dimmed' = dimmed \ {d}
      /\ UNCHANGED <<open, flagged, tracker, heard, strayed, pinging, to_guest, from_guest, ticks,
                     chosen, ended, coming>>
  BY DEF RemoveClient, ScreenActs, mainVars, guestVars
<1>2. PICK order \in SetToSeqs(P) :
        to_server' = to_server \o [i \in DOMAIN order |-> KeyPassthrough(d, order[i], FALSE, TRUE)]
  BY DEF RemoveClient
<1>3. ScreenTypes /\ FrameTypes /\ HereInv /\ ProgramsInv /\ FramesInv
  BY TypeParts DEF NestedInv, TypesInv
<1> DEFINE s == [i \in DOMAIN order |-> KeyPassthrough(d, order[i], FALSE, TRUE)]
           C == IF P = {} THEN {} ELSE {d}
           T == [c \in Clients |-> None]
<1>4. Routes(C, T)
  <2>1. IsFiniteSet(P)
    BY FS_Subset DEF NestedAssumption
  <2>2. order \in Seq(P) /\ \A p \in P : \E i \in DOMAIN order : order[i] = p
    BY <2>1, OrderFacts
  <2>3. \A i \in DOMAIN order : order[i] \in P
    BY <2>2
  <2>4. \A i \in DOMAIN order :
          /\ s[i] \in ServerMessages /\ s[i].kind = "KeyPassthroughChanged" /\ s[i].client = d
          /\ s[i].client \in C /\ Target(s[i]) = T[s[i].client] /\ (s[i].route => s[i].pane \in Hosts)
    BY <2>3 DEF KeyPassthrough, ServerMessages, Target
  <2>5. DOMAIN order = 1 .. Len(order) /\ Len(order) \in Nat
    BY <2>2, LenProperties
  <2>6. s \in Seq(ServerMessages) /\ Len(s) = Len(order)
    <3>1. s = [i \in 1 .. Len(order) |-> s[i]]
      BY <2>5
    <3> HIDE DEF s
    <3>2. s \in [1 .. Len(order) -> ServerMessages]
      BY <2>4, <2>5, <3>1
    <3> QED
      BY <2>5, <3>2
  <2>7. \A c \in C : \E i \in 1 .. Len(s) : s[i].client = c
    <3> SUFFICES ASSUME P # {}
                 PROVE  \E i \in 1 .. Len(s) : s[i].client = d
      OBVIOUS
    <3> HIDE DEF s, P
    <3> QED
      BY <2>2, <2>4, <2>5, <2>6
  <2>8. to_server' = to_server \o s
    BY <1>2
  <2> HIDE DEF s, T, C
  <2> QED
    BY <2>4, <2>5, <2>6, <2>7, <2>8 DEF Routes
<1>5. ScreenTypes'
  <2>1. choices' \in [Clients -> [Hosts -> {"none", "Descend", "Dismissed"}]]
    BY <1>1, <1>3 DEF ScreenTypes
  <2>2. modals' \subseteq Clients \X Hosts
    BY <1>1, <1>3 DEF ScreenTypes
  <2>3. focus' \in [Clients -> open' \cup {None}]
    BY <1>1, <1>3 DEF ScreenTypes
  <2> QED
    BY <1>1, <1>3, <2>1, <2>2, <2>3 DEF ScreenTypes
<1>6. FrameTypes' /\ ProgramsInv' /\ FramesInv'
  BY <1>1, <1>3 DEF FrameTypes, ProgramsInv, FramesInv
<1>7. HereInv'
  <2>1. focus'[d] = None /\ \A c \in Clients : c # d => focus'[c] = focus[c]
    BY <1>1, <1>3 DEF ScreenTypes
  <2> QED
    BY <1>1, <1>3, <2>1 DEF HereInv
<1>8. ASSUME NEW c \in C
      PROVE  /\ \A p \in Hosts : T[c] = p => There(c, p)'
             /\ T[c] = None /\ client[c] # "gone" => c \notin dimmed'
  BY <1>1 DEF NestedAssumption, None
<1>9. ASSUME NEW c \in Clients \ C
      PROVE  /\ \A p \in Hosts : Ends(c, p) /\ There(c, p) => There(c, p)'
             /\ c \in dimmed' => c \in dimmed
  <2>1. CASE c = d
    BY <1>1, <1>9, <2>1 DEF There
  <2>2. CASE c # d
    <3>1. choices'[c] = choices[c] /\ focus'[c] = focus[c]
      BY <1>1, <1>3, <2>2 DEF ScreenTypes
    <3> QED
      BY <1>1, <2>2, <3>1 DEF There, Alive, Doomed
  <2> QED
    BY <2>1, <2>2
<1>10. ASSUME NEW q \in Hosts, Concerned(q)'
       PROVE  Concerned(q) /\ (Knows(q) => Knows(q)')
  BY <1>1, <1>10, ConcernKept DEF Announcing
<1>11. C \in SUBSET Clients
  OBVIOUS
<1> HIDE DEF C, T
<1> QED
  BY <1>1, <1>4, <1>5, <1>6, <1>7, <1>8, <1>9, <1>10, <1>11, ScreenKeeps

LEMMA MoveFocusKeeps ==
  ASSUME NestedAssumption, NestedInv, NEW d \in Clients, MoveFocus(d)
  PROVE  NestedInv'
<1>1. /\ UNCHANGED <<handling, client, keys_to, guest, program>> /\ focus[d] # None
      /\ UNCHANGED <<pinging, to_guest, ticks, chosen, ended, coming, going>>
      /\ UNCHANGED <<open, flagged, tracker, heard, modals, choices, strayed, from_guest>>
      /\ Report({d})
  BY DEF MoveFocus, Asked, ScreenActs, mainVars, guestVars, toScreen
<1>2. PICK f \in open : focus' = [focus EXCEPT ![d] = f]
  BY DEF MoveFocus
<1>3. ScreenTypes /\ FrameTypes /\ HereInv /\ ProgramsInv /\ FramesInv
  BY TypeParts DEF NestedInv, TypesInv
<1>4. ScreenTypes'
  <2>1. dimmed' \subseteq Clients
    BY <1>1, <1>3 DEF Report, ScreenTypes
  <2>2. focus' \in [Clients -> open' \cup {None}]
    BY <1>1, <1>2, <1>3 DEF ScreenTypes
  <2> QED
    BY <1>1, <1>3, <2>1, <2>2 DEF ScreenTypes
<1>5. FrameTypes' /\ ProgramsInv' /\ FramesInv'
  BY <1>1, <1>3 DEF FrameTypes, ProgramsInv, FramesInv
<1>6. \A c \in Clients : c # d => focus'[c] = focus[c]
  BY <1>2, <1>3 DEF ScreenTypes
<1>7. HereInv'
  BY <1>1, <1>3, <1>6 DEF HereInv
<1>8. ASSUME NEW c \in Clients \ {d}, NEW q \in Hosts, Ends(c, q), There(c, q)
      PROVE  choices'[c][q] = "Descend" /\ IF q \in open' THEN Alive(c, q)' ELSE Doomed(q)'
  BY <1>1, <1>6, <1>8 DEF There, Alive, Doomed
<1>9. ASSUME NEW q \in Hosts, Concerned(q)'
      PROVE  Concerned(q) /\ (Knows(q) => Knows(q)')
  BY <1>1, <1>9, ConcernKept DEF Announcing
<1> QED
  BY <1>1, <1>4, <1>5, <1>7, <1>8, <1>9, ReportKeeps

LEMMA FocusTakenKeeps ==
  ASSUME NestedAssumption, NestedInv, NEW d \in Clients, FocusTaken(d)
  PROVE  NestedInv'
<1>1. /\ UNCHANGED <<handling, client, keys_to, guest, program>> /\ focus[d] # None
      /\ UNCHANGED <<pinging, to_guest, ticks, chosen, ended, coming, going>>
      /\ focus' = [focus EXCEPT ![d] = Shell] /\ strayed' = strayed \cup {focus[d]}
      /\ UNCHANGED <<open, flagged, tracker, heard, modals, choices, dimmed, to_server, from_guest>>
  BY DEF FocusTaken, Asked, ScreenActs, mainVars, guestVars, toScreen
<1>2. ScreenTypes /\ FrameTypes /\ HereInv /\ ProgramsInv /\ FramesInv
  BY TypeParts DEF NestedInv, TypesInv
<1>3. ScreenTypes'
  <2>1. focus' \in [Clients -> open' \cup {None}]
    BY <1>1, <1>2 DEF ScreenTypes
  <2>2. strayed' \subseteq Hosts \cup {Shell}
    BY <1>1, <1>2 DEF ScreenTypes
  <2> QED
    BY <1>1, <1>2, <2>1, <2>2 DEF ScreenTypes
<1>4. FrameTypes' /\ ProgramsInv' /\ FramesInv'
  BY <1>1, <1>2 DEF FrameTypes, ProgramsInv, FramesInv
<1>5. \A c \in Clients : c # d => focus'[c] = focus[c]
  BY <1>1, <1>2 DEF ScreenTypes
<1>6. HereInv'
  BY <1>1, <1>2, <1>5 DEF HereInv
<1>7. ASSUME NEW c \in Clients, NEW q \in Hosts, Ends(c, q), There(c, q)
      PROVE  choices'[c][q] = "Descend" /\ IF q \in open' THEN Alive(c, q)' ELSE Doomed(q)'
  BY <1>1, <1>5, <1>7 DEF There, Alive, Doomed
<1>8. ASSUME NEW q \in Hosts, Concerned(q)'
      PROVE  Concerned(q) /\ (Knows(q) => Knows(q)')
  BY <1>1, <1>8, ConcernKept DEF Announcing
<1> QED
  BY <1>1, <1>3, <1>4, <1>6, <1>7, <1>8, SilenceKeeps

LEMMA FocusGuestKeeps ==
  ASSUME NestedAssumption, NestedInv, NEW d \in Clients, FocusGuest(d)
  PROVE  NestedInv'
<1>1. /\ UNCHANGED <<handling, client, keys_to, guest, program>>
      /\ UNCHANGED <<pinging, to_guest, ticks, chosen, ended, coming, going>>
      /\ focus[d] \in open \cap flagged
      /\ choices' = [choices EXCEPT ![d][focus[d]] = "Descend"]
      /\ modals' = modals \ {<<d, focus[d]>>}
      /\ UNCHANGED <<open, flagged, tracker, heard, focus, strayed, from_guest>>
      /\ Report({d})
  BY DEF FocusGuest, Asked, ScreenActs, mainVars, guestVars, toScreen
<1>2. ScreenTypes /\ FrameTypes /\ HereInv /\ ProgramsInv /\ FramesInv
  BY TypeParts DEF NestedInv, TypesInv
<1>3. ScreenTypes'
  <2>1. dimmed' \subseteq Clients
    BY <1>1, <1>2 DEF Report, ScreenTypes
  <2>2. choices' \in [Clients -> [Hosts -> {"none", "Descend", "Dismissed"}]]
    BY <1>1, <1>2 DEF ScreenTypes
  <2> QED
    BY <1>1, <1>2, <2>1, <2>2 DEF ScreenTypes
<1>4. FrameTypes' /\ HereInv' /\ ProgramsInv' /\ FramesInv'
  BY <1>1, <1>2 DEF FrameTypes, HereInv, ProgramsInv, FramesInv
<1>5. ASSUME NEW c \in Clients \ {d}, NEW q \in Hosts, Ends(c, q), There(c, q)
      PROVE  choices'[c][q] = "Descend" /\ IF q \in open' THEN Alive(c, q)' ELSE Doomed(q)'
  <2>1. choices'[c] = choices[c]
    BY <1>1, <1>2 DEF ScreenTypes
  <2> QED
    BY <1>1, <1>5, <2>1 DEF There, Alive, Doomed
<1>6. ASSUME NEW q \in Hosts, Concerned(q)'
      PROVE  Concerned(q) /\ (Knows(q) => Knows(q)')
  BY <1>1, <1>6, ConcernKept DEF Announcing
<1> QED
  BY <1>1, <1>3, <1>4, <1>5, <1>6, ReportKeeps

LEMMA CloseFocusedPaneKeeps ==
  ASSUME NestedAssumption, NestedInv, NEW d \in Clients, CloseFocusedPane(d)
  PROVE  NestedInv'
<1> DEFINE p == focus[d]
<1>1. /\ UNCHANGED <<handling, client, keys_to, guest, program>> /\ p \in Hosts
      /\ UNCHANGED <<pinging, to_guest, ticks, chosen, ended, coming, going>>
      /\ Leaves(p)
      /\ modals' = {m \in modals : m[2] # p}
      /\ strayed' = strayed \cup {focus'[e] : e \in FocusedOn(p) \ {d}}
      /\ UNCHANGED <<flagged, tracker, heard, choices>>
      /\ Report({d})
  BY DEF CloseFocusedPane, Asked, ScreenActs, mainVars, guestVars, toScreen
<1>2. ScreenTypes /\ FrameTypes /\ HereInv /\ ProgramsInv /\ FramesInv
  BY TypeParts DEF NestedInv, TypesInv
<1>3. p # None /\ p # Shell /\ p \in open
  BY <1>1, <1>2 DEF NestedAssumption, None, Shell, ScreenTypes
<1>4. /\ open' = open \ {p} /\ Shell \in open'
      /\ from_guest' \in [Hosts -> Seq(GuestFrames)] /\ FramesInv'
      /\ \A q \in Hosts : q # p => from_guest'[q] = from_guest[q]
      /\ focus' \in [Clients -> open' \cup {None}]
      /\ \A c \in Clients : focus[c] # p => focus'[c] = focus[c]
      /\ \A c \in Clients : focus'[c] # None => focus[c] # None
  BY <1>1, <1>3, LeavesFacts
<1>5. strayed' \subseteq Hosts \cup {Shell}
  <2> SUFFICES ASSUME NEW c \in FocusedOn(p)
               PROVE  focus'[c] \in Hosts \cup {Shell}
    BY <1>1, <1>2 DEF ScreenTypes
  <2>1. PICK next \in [FocusedOn(p) -> open \ {p}] :
          focus' = [e \in Clients |-> IF e \in DOMAIN next THEN next[e] ELSE focus[e]]
    BY <1>1 DEF Leaves
  <2>2. c \in Clients /\ c \in DOMAIN next
    BY DEF FocusedOn
  <2> QED
    BY <1>2, <2>1, <2>2 DEF ScreenTypes
<1> HIDE DEF p
<1>6. ScreenTypes'
  <2>1. dimmed' \subseteq Clients
    BY <1>1, <1>2 DEF Report, ScreenTypes
  <2> QED
    BY <1>1, <1>2, <1>4, <1>5, <2>1 DEF ScreenTypes
<1>7. FrameTypes' /\ HereInv' /\ ProgramsInv'
  BY <1>1, <1>2, <1>4 DEF FrameTypes, HereInv, ProgramsInv
<1>8. ASSUME NEW c \in Clients \ {d}, NEW q \in Hosts, Ends(c, q), There(c, q)
      PROVE  choices'[c][q] = "Descend" /\ IF q \in open' THEN Alive(c, q)' ELSE Doomed(q)'
  <2>1. CASE q = p
    BY <1>1, <1>2, <1>3, <1>4, <1>8, <2>1 DEF There, Alive, Doomed, ProgramsInv
  <2>2. CASE q # p
    <3>1. CASE focus[c] = p
      <4>1. focus'[c] \in strayed'
        BY <1>1, <3>1 DEF FocusedOn
      <4> QED
        BY <1>1, <1>4, <1>8, <2>2, <3>1, <4>1 DEF There, Alive, Doomed
    <3>2. CASE focus[c] # p
      BY <1>1, <1>4, <1>8, <2>2, <3>2 DEF There, Alive, Doomed
    <3> QED
      BY <3>1, <3>2
  <2> QED
    BY <2>1, <2>2
<1>9. ASSUME NEW q \in Hosts, Concerned(q)'
      PROVE  Concerned(q) /\ (Knows(q) => Knows(q)')
  BY <1>1, <1>4, <1>9, ConcernKept DEF Announcing
<1> QED
  BY <1>1, <1>4, <1>6, <1>7, <1>8, <1>9, ReportKeeps

-----------------------------------------------------------------------------
(* The steps beside Screen *)

\* A step that leaves Screen's state, and where keys end, alone.
LEMMA AsideKeeps ==
  ASSUME NestedInv,
         UNCHANGED <<open, flagged, tracker, choices, dimmed, focus, strayed>>,
         ScreenTypes', MainTypes', FrameTypes', GuestTypes', HereInv', ProgramsInv', FramesInv',
         to_server' \in Seq(ServerMessages), MessagesInv',
         \A c \in Clients :
           /\ client'[c] # "gone" => client[c] # "gone"
           /\ client[c] = "here" \/ c \in going => client'[c] = "here" \/ c \in going'
           /\ \A p \in Hosts : Ends(c, p)' => Ends(c, p)
           /\ Ends(c, None)' /\ client'[c] # "gone" => Ends(c, None),
         \A p \in Hosts \ open : /\ from_guest'[p] = from_guest[p]
                                 /\ program[p] \/ p \in ended => program'[p] \/ p \in ended',
         \A p \in Hosts : Concerned(p)' => Informed(p)' \/ Free(p)'
  PROVE  NestedInv'
<1>1. NestedTypeOK'
  BY PartsType
<1>2. ASSUME NEW c \in Clients, NEW p \in Hosts, Ends(c, p)'
      PROVE  There(c, p)'
  <2>1. There(c, p)
    BY <1>2 DEF NestedInv, RoutesInv
  <2> QED
    BY <2>1 DEF There, Alive, Doomed
<1>3. RoutesInv'
  BY <1>2 DEF NestedInv, RoutesInv
<1>4. KnowsInv'
  BY DEF KnowsInv
<1> QED
  BY <1>1, <1>3, <1>4 DEF NestedInv, TypesInv

\* Where keys end when nothing is sent.
LEMMA EndsSame ==
  ASSUME UNCHANGED <<to_server, keys_to>>
  PROVE  /\ \A c, p : Ends(c, p)' <=> Ends(c, p)
         /\ \A p : Free(p)' <=> Free(p)
BY DEF Ends, EndsAt, Free

\* So is it with what Screen, the clients and time do to no one else.
LEMMA QuietKeeps ==
  ASSUME NestedInv,
         UNCHANGED <<handling, keys_to, to_server, to_guest, from_guest, guest, program, ended>>,
         UNCHANGED <<open, flagged, tracker, choices, dimmed, focus, strayed>>,
         ScreenTypes', MainTypes', HereInv',
         \A c \in Clients :
           /\ client'[c] # "gone" => client[c] # "gone"
           /\ client[c] = "here" \/ c \in going => client'[c] = "here" \/ c \in going'
  PROVE  NestedInv'
<1>1. /\ ScreenTypes /\ MainTypes /\ FrameTypes /\ GuestTypes /\ ProgramsInv /\ FramesInv
      /\ to_server \in Seq(ServerMessages) /\ MessagesInv /\ KnowsInv
  BY TypeParts DEF NestedInv, TypesInv
<1>2. /\ FrameTypes' /\ GuestTypes' /\ ProgramsInv' /\ FramesInv' /\ MessagesInv'
      /\ to_server' \in Seq(ServerMessages)
  BY <1>1 DEF FrameTypes, GuestTypes, ProgramsInv, FramesInv, MessagesInv
<1>3. /\ \A c, p : Ends(c, p)' <=> Ends(c, p)
      /\ \A p : Free(p)' <=> Free(p)
  BY EndsSame
<1>4. ASSUME NEW p \in Hosts, Concerned(p)'
      PROVE  Informed(p)' \/ Free(p)'
  <2>1. Concerned(p) /\ (Informed(p) => Informed(p)')
    BY <1>4 DEF Concerned, Announcing, Informed, Knows
  <2> QED
    BY <1>1, <1>3, <2>1 DEF KnowsInv
<1> QED
  BY <1>2, <1>3, <1>4, AsideKeeps

LEMMA ChooseKeeps ==
  ASSUME NestedInv, NEW c \in Clients, NEW p \in Hosts, Choose(c, p)
  PROVE  NestedInv'
<1>1. ScreenTypes /\ MainTypes /\ HereInv
  BY TypeParts DEF NestedInv, TypesInv
<1> USE DEF Choose, mainVars, screenVars, guestVars
<1>2. ScreenTypes' /\ MainTypes' /\ HereInv'
  BY <1>1 DEF ScreenTypes, MainTypes, HereInv
<1> QED
  BY <1>2, QuietKeeps

LEMMA PongTimeoutKeeps ==
  ASSUME NestedInv, NEW p \in Hosts, PongTimeout(p)
  PROVE  NestedInv'
<1>1. ScreenTypes /\ MainTypes /\ HereInv
  BY TypeParts DEF NestedInv, TypesInv
<1> USE DEF PongTimeout, mainVars, guestVars, toScreen
<1>2. ScreenTypes' /\ MainTypes' /\ HereInv'
  BY <1>1 DEF ScreenTypes, MainTypes, HereInv
<1> QED
  BY <1>2, QuietKeeps

LEMMA IntervalKeeps ==
  ASSUME NestedInv, NEW p \in Hosts, Interval(p)
  PROVE  NestedInv'
<1>1. ScreenTypes /\ MainTypes /\ HereInv
  BY TypeParts DEF NestedInv, TypesInv
<1> USE DEF Interval, mainVars, screenVars, guestVars
<1>2. ScreenTypes' /\ MainTypes' /\ HereInv'
  BY <1>1 DEF ScreenTypes, MainTypes, HereInv
<1> QED
  BY <1>2, QuietKeeps

LEMMA AttachClientKeeps ==
  ASSUME NestedInv, NEW d \in Clients, AttachClient(d)
  PROVE  NestedInv'
<1>1. ScreenTypes /\ MainTypes /\ HereInv
  BY TypeParts DEF NestedInv, TypesInv
<1>2. /\ client[d] = "new" /\ client' = [client EXCEPT ![d] = "here"]
      /\ coming' = coming \cup {d}
      /\ UNCHANGED <<handling, keys_to, to_server, to_guest, from_guest, guest, program, ended>>
      /\ UNCHANGED <<open, flagged, tracker, choices, dimmed, focus, strayed>>
      /\ UNCHANGED <<heard, modals, pinging, ticks, chosen, going>>
  BY DEF AttachClient, screenVars, guestVars
<1>3. ScreenTypes' /\ MainTypes'
  BY <1>1, <1>2 DEF ScreenTypes, MainTypes
<1>4. client'[d] = "here" /\ \A c \in Clients : c # d => client'[c] = client[c]
  BY <1>1, <1>2 DEF MainTypes
<1>5. HereInv'
  BY <1>1, <1>2, <1>4 DEF HereInv
<1>6. ASSUME NEW c \in Clients
      PROVE  /\ client'[c] # "gone" => client[c] # "gone"
             /\ client[c] = "here" \/ c \in going => client'[c] = "here" \/ c \in going'
  BY <1>2, <1>4
<1> QED
  BY <1>2, <1>3, <1>5, <1>6, QuietKeeps

LEMMA LeaveKeeps ==
  ASSUME NestedAssumption, NestedInv, NEW d \in Clients, Leave(d)
  PROVE  NestedInv'
<1>1. /\ ScreenTypes /\ MainTypes /\ FrameTypes /\ GuestTypes /\ HereInv /\ ProgramsInv /\ FramesInv
      /\ to_server \in Seq(ServerMessages) /\ MessagesInv /\ KnowsInv
  BY TypeParts DEF NestedInv, TypesInv
<1>2. /\ to_server' = Append(to_server, ExitOf(d))
      /\ UNCHANGED <<handling, keys_to, to_guest, from_guest, guest, program, ended>>
      /\ UNCHANGED <<open, flagged, tracker, choices, dimmed, focus, strayed>>
      /\ UNCHANGED <<heard, modals, pinging, ticks, chosen, going, coming, client>>
  BY DEF Leave, screenVars, guestVars, mainVars, toScreen
<1>3. ScreenTypes' /\ MainTypes' /\ FrameTypes' /\ GuestTypes' /\ HereInv' /\ ProgramsInv' /\ FramesInv'
  BY <1>1, <1>2
     DEF ScreenTypes, MainTypes, FrameTypes, GuestTypes, HereInv, ProgramsInv, FramesInv
<1>4. ExitOf(d) \in ServerMessages /\ ~ExitOf(d).route /\ \A c : ~Changes(ExitOf(d), c)
  BY DEF ExitOf, ServerMessages, Changes
<1> PICK n : n = Len(to_server)
  OBVIOUS
<1>5. /\ to_server' \in Seq(ServerMessages) /\ n \in Nat /\ Len(to_server') = n + 1
      /\ \A i \in 1 .. n + 1 : i \in 1 .. n \/ i = n + 1
      /\ \A i \in 1 .. n : to_server'[i] = to_server[i] /\ i \in 1 .. n + 1
      /\ to_server'[n + 1] = ExitOf(d)
  BY <1>1, <1>2, <1>4, AppendFacts
<1>6. MessagesInv'
  BY <1>1, <1>4, <1>5 DEF MessagesInv
<1>7. ASSUME NEW c, NEW p, NEW k \in 0 .. n, EndsAt(k, c, p)'
      PROVE  EndsAt(k, c, p)
  <2>1. \A i \in 1 .. k : i \in 1 .. n /\ to_server'[i] = to_server[i]
    BY <1>5
  <2>2. \A i \in 1 .. k : \A j \in i + 1 .. k : j \in 1 .. k
    BY <1>5
  <2> QED
    BY <1>2, <1>7, <2>1, <2>2 DEF EndsAt
<1>8. ASSUME NEW c, NEW p, Ends(c, p)'
      PROVE  Ends(c, p)
  <2>1. EndsAt(n + 1, c, p)'
    BY <1>5, <1>8 DEF Ends
  <2>2. EndsAt(n, c, p)'
    <3>1. CASE keys_to'[c] = p /\ \A i \in 1 .. n + 1 : ~Changes(to_server'[i], c)
      BY <1>5, <3>1 DEF EndsAt
    <3>2. ASSUME NEW i \in 1 .. n + 1, Changes(to_server'[i], c), Target(to_server'[i]) = p,
                 \A j \in i + 1 .. n + 1 : ~Changes(to_server'[j], c)
          PROVE  EndsAt(n, c, p)'
      <4>1. i \in 1 .. n
        BY <1>4, <1>5, <3>2
      <4>2. \A j \in i + 1 .. n : j \in i + 1 .. n + 1
        BY <1>5
      <4> QED
        BY <3>2, <4>1, <4>2 DEF EndsAt
    <3> QED
      BY <1>5, <2>1, <3>1, <3>2 DEF EndsAt
  <2>3. n \in 0 .. n
    BY <1>5
  <2> QED
    BY <1>7, <2>2, <2>3 DEF Ends
<1>9. ASSUME NEW p \in Hosts, Concerned(p)'
      PROVE  Informed(p)' \/ Free(p)'
  <2>1. Concerned(p) /\ (Informed(p) => Informed(p)')
    BY <1>2, <1>9 DEF Concerned, Announcing, Informed, Knows
  <2>2. ASSUME Free(p)
        PROVE  Free(p)'
    <3>1. PICK k \in 0 .. n : \A c \in Clients : ~EndsAt(k, c, p)
      BY <2>2 DEF Free
    <3>2. k \in 0 .. n + 1
      BY <1>5
    <3> QED
      BY <1>5, <1>7, <3>1, <3>2 DEF Free
  <2> QED
    BY <1>1, <2>1, <2>2 DEF KnowsInv
<1>10. ASSUME NEW c \in Clients
       PROVE  /\ client'[c] # "gone" => client[c] # "gone"
              /\ client[c] = "here" \/ c \in going => client'[c] = "here" \/ c \in going'
              /\ \A p \in Hosts : Ends(c, p)' => Ends(c, p)
              /\ Ends(c, None)' /\ client'[c] # "gone" => Ends(c, None)
  BY <1>2, <1>8
<1> QED
  BY <1>2, <1>3, <1>5, <1>6, <1>9, <1>10, AsideKeeps

\* A step of the main loop takes the first message off its channel: where keys end stays right,
\* if it does what the message says, and so does what the guests know, if a guest is told of
\* the first client whose keys it gets and not of a loss while it gets any.
LEMMA MainKeeps ==
  ASSUME NestedAssumption, NestedInv, to_server # <<>>, to_server' = Tail(to_server),
         UNCHANGED <<handling, pinging, guestVars, screenVars, ticks, chosen, ended, coming, from_guest>>,
         going \subseteq going', going' \subseteq Clients, MainTypes',
         NEW s \in [Hosts -> Seq(HostFrames)], to_guest' = [p \in Hosts |-> to_guest[p] \o s[p]],
         \A c \in Clients :
           /\ client'[c] # "gone" => client[c] # "gone"
           /\ client[c] = "here" => client'[c] = "here" \/ c \in going'
           /\ \A p : keys_to'[c] = p /\ (p = None => client'[c] # "gone") =>
                IF Changes(Head(to_server), c) THEN Target(Head(to_server)) = p ELSE keys_to[c] = p,
         \A p \in Hosts : (\E c \in Clients : keys_to'[c] = p) =>
           /\ \A i \in 1 .. Len(s[p]) : s[p][i] # "FocusLost"
           /\ \/ \E c \in Clients : keys_to[c] = p
              \/ \E i \in 1 .. Len(s[p]) : s[p][i] = "FocusGained"
  PROVE  NestedInv'
<1>1. /\ ScreenTypes /\ MainTypes /\ FrameTypes /\ GuestTypes /\ HereInv /\ ProgramsInv /\ FramesInv
      /\ to_server \in Seq(ServerMessages) /\ MessagesInv /\ KnowsInv
  BY TypeParts DEF NestedInv, TypesInv
<1>2. /\ UNCHANGED <<open, flagged, tracker, choices, dimmed, focus, strayed>>
      /\ UNCHANGED <<heard, modals, guest, program>>
  BY DEF screenVars, guestVars
<1>3. FrameTypes'
  <2>1. \A p \in Hosts : to_guest[p] \o s[p] \in Seq(HostFrames)
    BY <1>1, ConcatFacts DEF FrameTypes
  <2> QED
    BY <1>1, <2>1 DEF FrameTypes
<1>4. ScreenTypes' /\ GuestTypes' /\ HereInv' /\ ProgramsInv' /\ FramesInv'
  BY <1>1, <1>2 DEF ScreenTypes, GuestTypes, HereInv, ProgramsInv, FramesInv
<1> DEFINE n == Len(to_server)
           h == Head(to_server)
<1>5. /\ n \in Nat /\ n >= 1 /\ h = to_server[1]
      /\ to_server' \in Seq(ServerMessages) /\ Len(to_server') = n - 1
      /\ \A i \in 1 .. n - 1 : to_server'[i] = to_server[i + 1] /\ i + 1 \in 1 .. n
  BY <1>1, TailFacts
<1>6. MessagesInv'
  BY <1>1, <1>5 DEF MessagesInv
<1> HIDE DEF n, h
<1>7. ASSUME NEW k \in 0 .. n - 1, NEW c \in Clients, NEW p, EndsAt(k, c, p)',
             p = None => client'[c] # "gone"
      PROVE  EndsAt(k + 1, c, p)
  <2>1. \A i \in 1 .. k : to_server'[i] = to_server[i + 1] /\ i + 1 \in 1 .. k + 1
    BY <1>5
  <2>2. 1 \in 1 .. k + 1 /\ \A i \in 1 .. k + 1 : i # 1 => i - 1 \in 1 .. k /\ (i - 1) + 1 = i
    BY <1>5
  <2>3. CASE keys_to'[c] = p /\ \A i \in 1 .. k : ~Changes(to_server'[i], c)
    <3>1. \A i \in 2 .. k + 1 : ~Changes(to_server[i], c)
      <4> SUFFICES ASSUME NEW i \in 2 .. k + 1
                   PROVE  ~Changes(to_server[i], c)
        OBVIOUS
      <4>1. i - 1 \in 1 .. k /\ (i - 1) + 1 = i
        BY <1>5
      <4> QED
        BY <2>1, <2>3, <4>1
    <3>2. CASE Changes(h, c)
      <4>1. Target(h) = p
        BY <1>7, <2>3, <3>2 DEF h
      <4>2. \A j \in 1 + 1 .. k + 1 : ~Changes(to_server[j], c)
        BY <3>1
      <4> QED
        BY <1>5, <2>2, <3>2, <4>1, <4>2 DEF EndsAt
    <3>3. CASE ~Changes(h, c)
      <4>1. keys_to[c] = p
        BY <1>7, <2>3, <3>3 DEF h
      <4>2. \A j \in 1 .. k + 1 : ~Changes(to_server[j], c)
        BY <1>5, <2>2, <3>1, <3>3
      <4> QED
        BY <4>1, <4>2 DEF EndsAt
    <3> QED
      BY <3>2, <3>3
  <2>4. ASSUME NEW i \in 1 .. k, Changes(to_server'[i], c), Target(to_server'[i]) = p,
               \A j \in i + 1 .. k : ~Changes(to_server'[j], c)
        PROVE  EndsAt(k + 1, c, p)
    <3>1. i + 1 \in 1 .. k + 1 /\ Changes(to_server[i + 1], c) /\ Target(to_server[i + 1]) = p
      BY <2>1, <2>4
    <3>2. ASSUME NEW j \in (i + 1) + 1 .. k + 1
          PROVE  ~Changes(to_server[j], c)
      <4>1. j - 1 \in i + 1 .. k /\ j - 1 \in 1 .. k /\ (j - 1) + 1 = j
        BY <1>5
      <4>2. to_server'[j - 1] = to_server[j]
        BY <2>1, <4>1
      <4>3. ~Changes(to_server'[j - 1], c)
        BY <2>4, <4>1
      <4> QED
        BY <4>2, <4>3
    <3> QED
      BY <3>1, <3>2 DEF EndsAt
  <2> QED
    BY <1>7, <2>3, <2>4 DEF EndsAt
<1>8. ASSUME NEW c \in Clients, NEW p, Ends(c, p)', p = None => client'[c] # "gone"
      PROVE  Ends(c, p)
  <2>1. n - 1 \in 0 .. n - 1 /\ (n - 1) + 1 = n
    BY <1>5
  <2> QED
    BY <1>5, <1>7, <1>8, <2>1 DEF Ends, n
<1>9. ASSUME NEW p \in Hosts, Concerned(p)'
      PROVE  Informed(p)' \/ Free(p)'
  <2>1. Concerned(p)
    BY <1>2, <1>9 DEF Concerned, Announcing
  <2>2. p # None
    BY DEF NestedAssumption, None
  <2>3. /\ to_guest[p] \in Seq(HostFrames) /\ s[p] \in Seq(HostFrames)
        /\ to_guest'[p] = to_guest[p] \o s[p] /\ guest'[p].focused = guest[p].focused
    BY <1>1, <1>2 DEF FrameTypes
  <2>4. ASSUME NEW c \in Clients, keys_to'[c] = p, Informed(p)
        PROVE  Knows(p)'
    <3>1. \A i \in 1 .. Len(s[p]) : s[p][i] # "FocusLost"
      BY <2>4
    <3>2. Knows(p) \/ \E i \in 1 .. Len(s[p]) : s[p][i] = "FocusGained"
      BY <2>4 DEF Informed
    <3> QED
      BY <2>3, <3>1, <3>2, WrittenKnows
  <2>5. CASE Informed(p)
    BY <2>4, <2>5 DEF Informed
  <2>6. CASE Free(p)
    <3>1. PICK k \in 0 .. n : \A c \in Clients : ~EndsAt(k, c, p)
      BY <2>6 DEF Free, n
    <3>2. CASE k = 0
      <4>1. \A c \in Clients : keys_to[c] # p
        BY <3>1, <3>2 DEF EndsAt
      <4> QED
        BY <2>5, <4>1 DEF Informed
    <3>3. CASE k # 0
      <4>1. k - 1 \in 0 .. n - 1 /\ (k - 1) + 1 = k
        BY <1>5, <3>3
      <4>2. \A c \in Clients : ~EndsAt(k - 1, c, p)'
        BY <1>7, <2>2, <3>1, <4>1
      <4> QED
        BY <1>5, <4>1, <4>2 DEF Free
    <3> QED
      BY <3>2, <3>3
  <2> QED
    BY <1>1, <2>1, <2>5, <2>6 DEF KnowsInv
<1>10. ASSUME NEW c \in Clients
       PROVE  /\ client'[c] # "gone" => client[c] # "gone"
              /\ client[c] = "here" \/ c \in going => client'[c] = "here" \/ c \in going'
              /\ \A p \in Hosts : Ends(c, p)' => Ends(c, p)
              /\ Ends(c, None)' /\ client'[c] # "gone" => Ends(c, None)
  BY <1>8 DEF NestedAssumption, None
<1> QED
  BY <1>2, <1>3, <1>4, <1>5, <1>6, <1>9, <1>10, AsideKeeps

LEMMA PassthroughKeeps ==
  ASSUME NestedAssumption, NestedInv, KeyPassthroughChanged
  PROVE  NestedInv'
<1>1. /\ ScreenTypes /\ MainTypes /\ to_server \in Seq(ServerMessages) /\ MessagesInv
  BY TypeParts DEF NestedInv, TypesInv
<1> DEFINE m == Head(to_server)
           old == keys_to[m.client]
           new == Target(m)
           s == [p \in Hosts |->
                  CASE p = new /\ p # old -> Told(m.client, p, "FocusGained")
                    [] p = old /\ p # new /\ m.notify -> Told(m.client, p, "FocusLost")
                    [] OTHER -> <<>>]
<1>2. /\ to_server # <<>> /\ to_server' = Tail(to_server) /\ m.kind = "KeyPassthroughChanged"
      /\ UNCHANGED <<handling, pinging, guestVars, screenVars, ticks, chosen, ended, coming, from_guest>>
      /\ UNCHANGED <<client, going>>
      /\ keys_to' = [keys_to EXCEPT ![m.client] = new]
      /\ to_guest' = [p \in Hosts |-> to_guest[p] \o s[p]]
  BY DEF KeyPassthroughChanged, MainTakes, Target
<1>3. m \in ServerMessages /\ m.client \in Clients /\ new \in Hosts \cup {None}
  <2>1. m \in ServerMessages /\ m = to_server[1] /\ 1 \in 1 .. Len(to_server)
    BY <1>1, <1>2, TailFacts
  <2> HIDE DEF m
  <2> QED
    BY <1>1, <2>1 DEF ServerMessages, MessagesInv, Target
<1> HIDE DEF m
<1>4. MainTypes' /\ going \subseteq going' /\ going' \subseteq Clients
  BY <1>1, <1>2, <1>3 DEF MainTypes, ScreenTypes
<1>5. \A f : \A p \in Hosts : Told(m.client, p, f) = <<>> \/ Told(m.client, p, f) = <<f>>
  BY DEF Told
<1>6. ASSUME NEW p \in Hosts
      PROVE  s[p] \in Seq(HostFrames)
  <2>1. s[p] = <<>> \/ s[p] = <<"FocusGained">> \/ s[p] = <<"FocusLost">>
    BY <1>5
  <2> HIDE DEF s
  <2>2. {<<>>, <<"FocusGained">>, <<"FocusLost">>} \subseteq Seq(HostFrames)
    BY DEF HostFrames
  <2> QED
    BY <2>1, <2>2
<1>7. s \in [Hosts -> Seq(HostFrames)]
  BY <1>6
<1>8. ASSUME NEW c \in Clients
      PROVE  /\ client'[c] # "gone" => client[c] # "gone"
             /\ client[c] = "here" => client'[c] = "here" \/ c \in going'
             /\ \A p : keys_to'[c] = p /\ (p = None => client'[c] # "gone") =>
                  IF Changes(m, c) THEN Target(m) = p ELSE keys_to[c] = p
  BY <1>1, <1>2, <1>3 DEF Changes, MainTypes
<1>9. ASSUME NEW p \in Hosts, NEW c \in Clients, keys_to'[c] = p
      PROVE  /\ \A i \in 1 .. Len(s[p]) : s[p][i] # "FocusLost"
             /\ \/ \E d \in Clients : keys_to[d] = p
                \/ \E i \in 1 .. Len(s[p]) : s[p][i] = "FocusGained"
  <2>1. CASE new = p
    <3>1. CASE old = p
      <4>1. s[p] = <<>>
        BY <2>1, <3>1
      <4> HIDE DEF s
      <4> QED
        BY <1>3, <3>1, <4>1
    <3>2. CASE old # p
      <4>1. s[p] = Told(m.client, p, "FocusGained")
        BY <2>1, <3>2
      <4> HIDE DEF s
      <4> QED
        BY <4>1 DEF Told, KeysOfOthers
    <3> QED
      BY <3>1, <3>2
  <2>2. CASE new # p
    <3>1. c # m.client /\ keys_to[c] = p
      BY <1>1, <1>2, <1>3, <1>9, <2>2 DEF MainTypes
    <3>2. KeysOfOthers(m.client, p)
      BY <3>1 DEF KeysOfOthers
    <3>3. s[p] = <<>>
      BY <2>2, <3>2 DEF Told
    <3> HIDE DEF s
    <3> QED
      BY <3>1, <3>3
  <2> QED
    BY <2>1, <2>2
<1> HIDE DEF s, old, new
<1>10. \A c \in Clients :
         /\ client'[c] # "gone" => client[c] # "gone"
         /\ client[c] = "here" => client'[c] = "here" \/ c \in going'
         /\ \A p : keys_to'[c] = p /\ (p = None => client'[c] # "gone") =>
              IF Changes(Head(to_server), c) THEN Target(Head(to_server)) = p ELSE keys_to[c] = p
  BY <1>8 DEF m
<1>11. \A p \in Hosts : (\E c \in Clients : keys_to'[c] = p) =>
         /\ \A i \in 1 .. Len(s[p]) : s[p][i] # "FocusLost"
         /\ \/ \E c \in Clients : keys_to[c] = p
            \/ \E i \in 1 .. Len(s[p]) : s[p][i] = "FocusGained"
  BY <1>9
<1> QED
  BY <1>2, <1>4, <1>7, <1>10, <1>11, MainKeeps

LEMMA ClientExitKeeps ==
  ASSUME NestedAssumption, NestedInv, ClientExit
  PROVE  NestedInv'
<1>1. /\ ScreenTypes /\ MainTypes /\ to_server \in Seq(ServerMessages) /\ MessagesInv
  BY TypeParts DEF NestedInv, TypesInv
<1> DEFINE m == Head(to_server)
           d == m.client
           s == [p \in Hosts |-> IF p = keys_to[d] THEN Told(d, p, "FocusLost") ELSE <<>>]
<1>2. /\ to_server # <<>> /\ to_server' = Tail(to_server) /\ m.kind = "ClientExit"
      /\ UNCHANGED <<handling, pinging, guestVars, screenVars, ticks, chosen, ended, coming, from_guest>>
      /\ keys_to' = [keys_to EXCEPT ![d] = None]
      /\ client' = [client EXCEPT ![d] = "gone"] /\ going' = going \cup {d}
      /\ to_guest' = [p \in Hosts |-> to_guest[p] \o s[p]]
  BY DEF ClientExit, MainTakes
<1>3. m \in ServerMessages /\ d \in Clients
  <2>1. m \in ServerMessages
    BY <1>1, <1>2, TailFacts
  <2> HIDE DEF m
  <2> QED
    BY <2>1 DEF ServerMessages
<1> HIDE DEF m, d
<1>4. MainTypes' /\ going \subseteq going' /\ going' \subseteq Clients
  BY <1>1, <1>2, <1>3 DEF MainTypes, ScreenTypes
<1>6. ASSUME NEW p \in Hosts
      PROVE  s[p] \in Seq(HostFrames)
  <2>1. s[p] = <<>> \/ s[p] = <<"FocusLost">>
    BY DEF Told
  <2> HIDE DEF s
  <2>2. {<<>>, <<"FocusGained">>, <<"FocusLost">>} \subseteq Seq(HostFrames)
    BY DEF HostFrames
  <2> QED
    BY <2>1, <2>2
<1>7. s \in [Hosts -> Seq(HostFrames)]
  BY <1>6
<1>8. ASSUME NEW c \in Clients
      PROVE  /\ client'[c] # "gone" => client[c] # "gone"
             /\ client[c] = "here" => client'[c] = "here" \/ c \in going'
             /\ \A p : keys_to'[c] = p /\ (p = None => client'[c] # "gone") =>
                  IF Changes(m, c) THEN Target(m) = p ELSE keys_to[c] = p
  BY <1>1, <1>2, <1>3 DEF Changes, MainTypes
<1>9. ASSUME NEW p \in Hosts, NEW c \in Clients, keys_to'[c] = p
      PROVE  /\ \A i \in 1 .. Len(s[p]) : s[p][i] # "FocusLost"
             /\ \/ \E e \in Clients : keys_to[e] = p
                \/ \E i \in 1 .. Len(s[p]) : s[p][i] = "FocusGained"
  <2>1. p # None
    BY DEF NestedAssumption, None
  <2>2. c # d /\ keys_to[c] = p
    BY <1>1, <1>2, <1>3, <1>9, <2>1 DEF MainTypes
  <2>3. KeysOfOthers(d, p)
    BY <2>2 DEF KeysOfOthers
  <2>4. s[p] = <<>>
    BY <2>3 DEF Told
  <2> HIDE DEF s
  <2> QED
    BY <2>2, <2>4
<1> HIDE DEF s
<1>10. \A c \in Clients :
         /\ client'[c] # "gone" => client[c] # "gone"
         /\ client[c] = "here" => client'[c] = "here" \/ c \in going'
         /\ \A p : keys_to'[c] = p /\ (p = None => client'[c] # "gone") =>
              IF Changes(Head(to_server), c) THEN Target(Head(to_server)) = p ELSE keys_to[c] = p
  BY <1>8 DEF m
<1>11. \A p \in Hosts : (\E c \in Clients : keys_to'[c] = p) =>
         /\ \A i \in 1 .. Len(s[p]) : s[p][i] # "FocusLost"
         /\ \/ \E c \in Clients : keys_to[c] = p
            \/ \E i \in 1 .. Len(s[p]) : s[p][i] = "FocusGained"
  BY <1>9
<1> QED
  BY <1>2, <1>4, <1>7, <1>10, <1>11, MainKeeps

-----------------------------------------------------------------------------
(* The guests *)

\* What a pane's output is when its guest writes a frame.
LEMMA FrameWrittenFacts ==
  ASSUME NestedInv, NEW p \in Hosts, NEW frame \in GuestFrames, Writes(p, frame)
  PROVE  /\ from_guest' \in [Hosts -> Seq(GuestFrames)] /\ FramesInv'
         /\ \A q \in Hosts \ open : from_guest'[q] = from_guest[q]
         /\ \A q \in Hosts : Announcing(q) => Announcing(q)'
         /\ p \in open /\ frame = "Announce" => Announcing(p)'
<1>1. from_guest \in [Hosts -> Seq(GuestFrames)] /\ FramesInv
  BY TypeParts DEF NestedInv, TypesInv, FrameTypes
<1> DEFINE q == from_guest[p]
           n == Len(q)
           t == Append(q, frame)
           waits == \E i \in DOMAIN q : q[i] = frame /\ \A j \in i .. Len(q) : q[j] # "Bye"
<1>2. from_guest' = [from_guest EXCEPT ![p] = IF waits \/ p \notin open THEN q ELSE t]
  BY DEF Writes
<1>3. q \in Seq(GuestFrames) /\ Parted(q)
  BY <1>1 DEF FramesInv
<1>4. /\ t \in Seq(GuestFrames) /\ n \in Nat /\ Len(t) = n + 1
      /\ \A i \in 1 .. n + 1 : i \in 1 .. n \/ i = n + 1
      /\ \A i \in 1 .. n : t[i] = q[i] /\ i \in 1 .. n + 1
      /\ t[n + 1] = frame
  BY <1>3, AppendFacts
<1>5. DOMAIN q = 1 .. n /\ DOMAIN t = 1 .. n + 1
  BY <1>3, <1>4, LenProperties
<1>6. CASE waits \/ p \notin open
  <2>1. from_guest' = from_guest
    BY <1>1, <1>2, <1>6
  <2>2. waits => Waits(frame, q)
    BY DEF Waits
  <2> QED
    BY <1>1, <1>6, <2>1, <2>2 DEF FramesInv, Announcing
<1>7. CASE ~waits /\ p \in open
  <2>1. from_guest' = [from_guest EXCEPT ![p] = t]
    BY <1>2, <1>7
  <2>2. \A i \in 1 .. n : q[i] = frame => \E j \in i .. n : q[j] = "Bye"
    BY <1>5, <1>7
  <2> HIDE DEF q, n, t, waits
  <2>3. Parted(t)
    <3> SUFFICES ASSUME NEW i \in 1 .. n + 1, NEW j \in 1 .. n + 1, i < j, t[i] = "Announce",
                        t[j] = "Announce"
                 PROVE  \E k \in i .. j : t[k] = "Bye"
      BY <1>4 DEF Parted
    <3>1. i \in 1 .. n /\ q[i] = "Announce"
      BY <1>4
    <3>2. CASE j \in 1 .. n
      <4>1. q[j] = "Announce"
        BY <1>4, <3>2
      <4>2. PICK k \in i .. j : q[k] = "Bye"
        BY <1>3, <3>1, <3>2, <4>1 DEF Parted, n
      <4>3. k \in 1 .. n
        BY <1>4, <3>1, <3>2, <4>2
      <4> QED
        BY <1>4, <4>2, <4>3
    <3>3. CASE j = n + 1
      <4>1. frame = "Announce"
        BY <1>4, <3>3
      <4>2. PICK k \in i .. n : q[k] = "Bye"
        BY <2>2, <3>1, <4>1
      <4>3. k \in 1 .. n /\ k \in i .. j
        BY <1>4, <3>1, <3>3, <4>2
      <4> QED
        BY <1>4, <4>2, <4>3
    <3> QED
      BY <1>4, <3>2, <3>3
  <2>4. /\ from_guest' \in [Hosts -> Seq(GuestFrames)] /\ from_guest'[p] = t
        /\ \A r \in Hosts : r # p => from_guest'[r] = from_guest[r]
    BY <1>1, <1>4, <2>1
  <2>5. FramesInv'
    BY <1>1, <2>3, <2>4 DEF FramesInv
  <2>6. Waits("Announce", q) => Waits("Announce", t)
    BY <1>4, <1>5 DEF Waits
  <2>7. frame = "Announce" => Waits("Announce", t)
    BY <1>4, <1>5 DEF Waits
  <2>8. \A r \in Hosts : Announcing(r) => Announcing(r)'
    BY <2>4, <2>6 DEF Announcing, q
  <2>9. frame = "Announce" => Announcing(p)'
    BY <2>4, <2>7 DEF Announcing
  <2> QED
    BY <1>7, <2>4, <2>5, <2>8, <2>9
<1> QED
  BY <1>6, <1>7

\* A guest's step leaves the host's state alone; whether it concerns us later depends on it.
LEMMA GuestKeeps ==
  ASSUME NestedInv, GuestActs, GuestTypes', FrameTypes', FramesInv',
         ended \subseteq ended', ended' \subseteq Hosts,
         \A p \in Hosts : program[p] => program'[p] \/ p \in ended',
         \A q \in Hosts \ open : from_guest'[q] = from_guest[q],
         \A q \in Hosts : Concerned(q)' => Concerned(q) /\ (Knows(q) => Knows(q)')
  PROVE  NestedInv'
<1>1. /\ ScreenTypes /\ MainTypes /\ HereInv /\ ProgramsInv
      /\ to_server \in Seq(ServerMessages) /\ MessagesInv /\ KnowsInv
  BY TypeParts DEF NestedInv, TypesInv
<1>2. /\ UNCHANGED <<open, flagged, tracker, choices, dimmed, focus, strayed>>
      /\ UNCHANGED <<heard, modals, handling, client, keys_to, pinging, to_server, ticks, chosen,
                     coming, going>>
  BY DEF GuestActs, screenVars, mainVars
<1>3. ScreenTypes' /\ MainTypes' /\ HereInv' /\ ProgramsInv'
  BY <1>1, <1>2 DEF ScreenTypes, MainTypes, HereInv, ProgramsInv
<1>4. to_server' \in Seq(ServerMessages) /\ MessagesInv'
  BY <1>1, <1>2 DEF MessagesInv
<1>5. /\ \A c, p : Ends(c, p)' <=> Ends(c, p)
      /\ \A p : Free(p)' <=> Free(p)
  BY <1>2, EndsSame
<1>6. ASSUME NEW p \in Hosts, Concerned(p)'
      PROVE  Informed(p)' \/ Free(p)'
  <2>1. Concerned(p) /\ (Knows(p) => Knows(p)')
    BY <1>6
  <2> QED
    BY <1>1, <1>2, <1>5, <2>1 DEF KnowsInv, Informed
<1>7. ASSUME NEW c \in Clients
      PROVE  /\ client'[c] # "gone" => client[c] # "gone"
             /\ client[c] = "here" \/ c \in going => client'[c] = "here" \/ c \in going'
             /\ \A p \in Hosts : Ends(c, p)' => Ends(c, p)
             /\ Ends(c, None)' /\ client'[c] # "gone" => Ends(c, None)
  BY <1>2, <1>5
<1>8. ASSUME NEW p \in Hosts \ open
      PROVE  /\ from_guest'[p] = from_guest[p]
             /\ program[p] \/ p \in ended => program'[p] \/ p \in ended'
  OBVIOUS
<1> QED
  BY <1>2, <1>3, <1>4, <1>6, <1>7, <1>8, AsideKeeps

\* A guest of whom nothing changes that matters here.
LEMMA GuestSame ==
  ASSUME NEW q \in Hosts, UNCHANGED <<open, strayed>>, to_guest'[q] = to_guest[q],
         guest'[q].on => guest[q].on, guest'[q].focused = guest[q].focused,
         Announcing(q) => Announcing(q)', Concerned(q)'
  PROVE  Concerned(q) /\ (Knows(q) => Knows(q)')
BY DEF Concerned, Knows

\* A guest that announces itself is no concern before that is read.
LEMMA AnnouncerKeeps ==
  ASSUME NestedInv, NEW p \in Hosts, GuestActs, Writes(p, "Announce"), GuestTypes',
         UNCHANGED <<to_guest, program, ended>>,
         \A q \in Hosts : q # p => guest'[q] = guest[q]
  PROVE  NestedInv'
<1>1. ScreenTypes /\ FrameTypes
  BY TypeParts DEF NestedInv, TypesInv
<1>2. "Announce" \in GuestFrames
  BY DEF GuestFrames
<1>3. /\ from_guest' \in [Hosts -> Seq(GuestFrames)] /\ FramesInv'
      /\ \A q \in Hosts \ open : from_guest'[q] = from_guest[q]
      /\ \A q \in Hosts : Announcing(q) => Announcing(q)'
      /\ p \in open => Announcing(p)'
  BY <1>2, FrameWrittenFacts
<1>4. UNCHANGED <<open, strayed>>
  BY DEF GuestActs, screenVars
<1>5. ASSUME NEW q \in Hosts, Concerned(q)'
      PROVE  Concerned(q) /\ (Knows(q) => Knows(q)')
  <2>1. q # p
    BY <1>3, <1>4, <1>5 DEF Concerned
  <2> QED
    BY <1>3, <1>4, <1>5, <2>1, GuestSame
<1>6. FrameTypes'
  BY <1>1, <1>3 DEF FrameTypes
<1>7. /\ ended \subseteq ended' /\ ended' \subseteq Hosts
      /\ \A q \in Hosts : program[q] => program'[q] \/ q \in ended'
  BY <1>1 DEF ScreenTypes
<1> QED
  BY <1>3, <1>5, <1>6, <1>7, GuestKeeps

\* The guests' types when that of one pane changes.
LEMMA GuestTyped ==
  ASSUME NestedInv, NEW p \in Hosts, program' \in [Hosts -> BOOLEAN],
         NEW g \in [on : BOOLEAN, contacted : BOOLEAN, tries : 0 .. Budget,
                    deciding : BOOLEAN, focused : BOOLEAN],
         guest' = [guest EXCEPT ![p] = g]
  PROVE  /\ GuestTypes' /\ guest'[p] = g
         /\ \A q \in Hosts : q # p => guest'[q] = guest[q]
<1>1. GuestTypes
  BY TypeParts DEF NestedInv, TypesInv
<1> QED
  BY <1>1 DEF GuestTypes

LEMMA StartGuestKeeps ==
  ASSUME NestedAssumption, NestedInv, NEW p \in Hosts, StartGuest(p)
  PROVE  NestedInv'
<1> DEFINE g == [NoGuest EXCEPT !.on = TRUE, !.tries = 1]
<1>1. /\ GuestActs /\ Writes(p, "Announce") /\ UNCHANGED <<to_guest, program, ended>>
      /\ guest' = [guest EXCEPT ![p] = g]
  BY DEF StartGuest, AtEase
<1>2. g \in [on : BOOLEAN, contacted : BOOLEAN, tries : 0 .. Budget, deciding : BOOLEAN,
             focused : BOOLEAN]
  <2>1. 1 \in 0 .. Budget
    BY DEF NestedAssumption
  <2> QED
    BY <2>1 DEF NoGuest
<1>3. program' \in [Hosts -> BOOLEAN]
  BY <1>1, TypeParts DEF NestedInv, TypesInv, GuestTypes
<1> HIDE DEF g
<1> QED
  BY <1>1, <1>2, <1>3, GuestTyped, AnnouncerKeeps

LEMMA SwitchSessionKeeps ==
  ASSUME NestedAssumption, NestedInv, NEW p \in Hosts, SwitchSession(p)
  PROVE  NestedInv'
<1> DEFINE g == [guest[p] EXCEPT !.contacted = FALSE, !.tries = 1]
<1>1. GuestTypes
  BY TypeParts DEF NestedInv, TypesInv
<1>2. /\ GuestActs /\ Writes(p, "Announce") /\ UNCHANGED <<to_guest, program, ended>>
      /\ guest' = [guest EXCEPT ![p] = g]
  BY <1>1 DEF SwitchSession, AtEase, GuestTypes
<1>3. g \in [on : BOOLEAN, contacted : BOOLEAN, tries : 0 .. Budget, deciding : BOOLEAN,
             focused : BOOLEAN]
  <2>1. 1 \in 0 .. Budget
    BY DEF NestedAssumption
  <2>2. guest[p] \in [on : BOOLEAN, contacted : BOOLEAN, tries : 0 .. Budget, deciding : BOOLEAN,
                      focused : BOOLEAN]
    BY <1>1 DEF GuestTypes
  <2> QED
    BY <2>1, <2>2
<1>4. program' \in [Hosts -> BOOLEAN]
  BY <1>1, <1>2 DEF GuestTypes
<1> HIDE DEF g
<1> QED
  BY <1>2, <1>3, <1>4, GuestTyped, AnnouncerKeeps

LEMMA ReannounceKeeps ==
  ASSUME NestedAssumption, NestedInv, NEW p \in Hosts, Reannounce(p)
  PROVE  NestedInv'
<1> DEFINE g == [guest[p] EXCEPT !.deciding = FALSE]
<1>1. GuestTypes
  BY TypeParts DEF NestedInv, TypesInv
<1>2. /\ GuestActs /\ Writes(p, "Announce") /\ UNCHANGED <<to_guest, program, ended>>
      /\ guest' = [guest EXCEPT ![p] = g]
  BY <1>1 DEF Reannounce, GuestTypes
<1>3. g \in [on : BOOLEAN, contacted : BOOLEAN, tries : 0 .. Budget, deciding : BOOLEAN,
             focused : BOOLEAN]
  BY <1>1 DEF GuestTypes
<1>4. program' \in [Hosts -> BOOLEAN]
  BY <1>1, <1>2 DEF GuestTypes
<1> HIDE DEF g
<1> QED
  BY <1>2, <1>3, <1>4, GuestTyped, AnnouncerKeeps

\* A step of a guest that writes nothing, and does not start: it goes, or counts.
LEMMA MuteKeeps ==
  ASSUME NestedInv, NEW p \in Hosts, GuestActs, GuestTypes',
         UNCHANGED <<to_guest, from_guest>>,
         ended \subseteq ended', ended' \subseteq Hosts,
         \A q \in Hosts : program[q] => program'[q] \/ q \in ended',
         \A q \in Hosts : q # p => guest'[q] = guest[q],
         guest'[p].on => guest[p].on /\ guest'[p].focused = guest[p].focused
  PROVE  NestedInv'
<1>1. FrameTypes /\ FramesInv
  BY TypeParts DEF NestedInv, TypesInv
<1>2. UNCHANGED <<open, strayed>>
  BY DEF GuestActs, screenVars
<1>3. FrameTypes' /\ FramesInv' /\ \A q \in Hosts : Announcing(q) => Announcing(q)'
  BY <1>1 DEF FrameTypes, FramesInv, Announcing
<1>4. ASSUME NEW q \in Hosts, Concerned(q)'
      PROVE  Concerned(q) /\ (Knows(q) => Knows(q)')
  <2>1. guest'[q].on
    BY <1>4 DEF Concerned
  <2>2. guest[q].on /\ guest'[q].focused = guest[q].focused
    BY <2>1
  <2> QED
    BY <1>2, <1>3, <1>4, <2>2, GuestSame
<1> QED
  BY <1>3, <1>4, GuestKeeps

LEMMA DecideKeeps ==
  ASSUME NestedAssumption, NestedInv, NEW p \in Hosts, Decide(p)
  PROVE  NestedInv'
<1> DEFINE g == [guest[p] EXCEPT !.deciding = TRUE,
                                 !.tries = IF guest[p].contacted THEN @ ELSE @ + 1]
<1>1. GuestTypes /\ ScreenTypes
  BY TypeParts DEF NestedInv, TypesInv
<1>2. /\ GuestActs /\ UNCHANGED <<from_guest, to_guest, program, ended>>
      /\ guest' = [guest EXCEPT ![p] = g] /\ guest[p].on /\ ~Exhausted(guest[p])
  BY <1>1 DEF Decide, GuestTypes
<1>3. g \in [on : BOOLEAN, contacted : BOOLEAN, tries : 0 .. Budget, deciding : BOOLEAN,
             focused : BOOLEAN] /\ g.focused = guest[p].focused
  <2>1. guest[p] \in [on : BOOLEAN, contacted : BOOLEAN, tries : 0 .. Budget, deciding : BOOLEAN,
                      focused : BOOLEAN]
    BY <1>1 DEF GuestTypes
  <2>2. Budget \in Nat
    BY DEF NestedAssumption
  <2>3. guest[p].contacted \/ guest[p].tries + 1 \in 0 .. Budget
    BY <1>2, <2>1, <2>2 DEF Exhausted
  <2> QED
    BY <2>1, <2>3
<1>4. /\ program' \in [Hosts -> BOOLEAN] /\ ended \subseteq ended' /\ ended' \subseteq Hosts
      /\ \A q \in Hosts : program[q] => program'[q] \/ q \in ended'
  BY <1>1, <1>2 DEF GuestTypes, ScreenTypes
<1> HIDE DEF g
<1>5. /\ GuestTypes' /\ guest'[p] = g
      /\ \A q \in Hosts : q # p => guest'[q] = guest[q]
  BY <1>2, <1>3, <1>4, GuestTyped
<1> QED
  BY <1>2, <1>3, <1>4, <1>5, MuteKeeps

LEMMA KilledKeeps ==
  ASSUME NestedAssumption, NestedInv, NEW p \in Hosts, Killed(p)
  PROVE  NestedInv'
<1>1. GuestTypes /\ ScreenTypes
  BY TypeParts DEF NestedInv, TypesInv
<1>2. /\ GuestActs /\ UNCHANGED <<from_guest, to_guest, program, ended>>
      /\ guest' = [guest EXCEPT ![p] = NoGuest]
  BY DEF Killed
<1>3. ~NoGuest.on /\ NoGuest \in [on : BOOLEAN, contacted : BOOLEAN, tries : 0 .. Budget,
                                  deciding : BOOLEAN, focused : BOOLEAN]
  BY DEF NestedAssumption, NoGuest
<1>4. /\ program' \in [Hosts -> BOOLEAN] /\ ended \subseteq ended' /\ ended' \subseteq Hosts
      /\ \A q \in Hosts : program[q] => program'[q] \/ q \in ended'
  BY <1>1, <1>2 DEF GuestTypes, ScreenTypes
<1>5. /\ GuestTypes' /\ guest'[p] = NoGuest
      /\ \A q \in Hosts : q # p => guest'[q] = guest[q]
  BY <1>2, <1>3, <1>4, GuestTyped
<1> QED
  BY <1>2, <1>3, <1>4, <1>5, MuteKeeps

LEMMA ProgramEndsKeeps ==
  ASSUME NestedAssumption, NestedInv, NEW p \in Hosts, ProgramEnds(p)
  PROVE  NestedInv'
<1>1. GuestTypes /\ ScreenTypes
  BY TypeParts DEF NestedInv, TypesInv
<1>2. /\ GuestActs /\ UNCHANGED <<from_guest, to_guest>>
      /\ guest' = [guest EXCEPT ![p] = NoGuest]
      /\ program' = [program EXCEPT ![p] = FALSE] /\ ended' = ended \cup {p}
  BY DEF ProgramEnds
<1>3. ~NoGuest.on /\ NoGuest \in [on : BOOLEAN, contacted : BOOLEAN, tries : 0 .. Budget,
                                  deciding : BOOLEAN, focused : BOOLEAN]
  BY DEF NestedAssumption, NoGuest
<1>4. /\ program' \in [Hosts -> BOOLEAN] /\ ended \subseteq ended' /\ ended' \subseteq Hosts
      /\ \A q \in Hosts : program[q] => program'[q] \/ q \in ended'
  BY <1>1, <1>2 DEF GuestTypes, ScreenTypes
<1>5. /\ GuestTypes' /\ guest'[p] = NoGuest
      /\ \A q \in Hosts : q # p => guest'[q] = guest[q]
  BY <1>2, <1>3, <1>4, GuestTyped
<1> QED
  BY <1>2, <1>3, <1>4, <1>5, MuteKeeps

\* A step of a guest that writes something else, or nothing.
LEMMA SpeakerKeeps ==
  ASSUME NestedInv, NEW p \in Hosts, GuestActs, GuestTypes',
         (\E frame \in GuestFrames : Writes(p, frame)) \/ from_guest' = from_guest,
         UNCHANGED <<program, ended>>,
         \A q \in Hosts : q # p => guest'[q] = guest[q] /\ to_guest'[q] = to_guest[q],
         guest'[p].on => guest[p].on /\ (Knows(p) => Knows(p)'),
         to_guest' \in [Hosts -> Seq(HostFrames)]
  PROVE  NestedInv'
<1>1. ScreenTypes /\ FrameTypes /\ FramesInv
  BY TypeParts DEF NestedInv, TypesInv
<1>2. UNCHANGED <<open, strayed>>
  BY DEF GuestActs, screenVars
<1>3. /\ from_guest' \in [Hosts -> Seq(GuestFrames)] /\ FramesInv'
      /\ \A q \in Hosts \ open : from_guest'[q] = from_guest[q]
      /\ \A q \in Hosts : Announcing(q) => Announcing(q)'
  <2>1. CASE \E frame \in GuestFrames : Writes(p, frame)
    BY <2>1, FrameWrittenFacts
  <2>2. CASE from_guest' = from_guest
    BY <1>1, <2>2 DEF FrameTypes, FramesInv, Announcing
  <2> QED
    BY <2>1, <2>2
<1>4. FrameTypes'
  BY <1>3 DEF FrameTypes
<1>5. ASSUME NEW q \in Hosts, Concerned(q)'
      PROVE  Concerned(q) /\ (Knows(q) => Knows(q)')
  <2>1. CASE q # p
    BY <1>2, <1>3, <1>5, <2>1, GuestSame
  <2>2. CASE q = p
    BY <1>2, <1>3, <1>5, <2>2 DEF Concerned
  <2> QED
    BY <2>1, <2>2
<1>6. /\ ended \subseteq ended' /\ ended' \subseteq Hosts
      /\ \A q \in Hosts : program[q] => program'[q] \/ q \in ended'
  BY <1>1 DEF ScreenTypes
<1> QED
  BY <1>3, <1>4, <1>5, <1>6, GuestKeeps

LEMMA AscendKeeps ==
  ASSUME NestedAssumption, NestedInv, NEW p \in Hosts, Ascend(p)
  PROVE  NestedInv'
<1>1. GuestTypes /\ FrameTypes
  BY TypeParts DEF NestedInv, TypesInv
<1>2. /\ GuestActs /\ UNCHANGED <<to_guest, program, ended, guest>> /\ guest[p].on
      /\ \E frame \in GuestFrames : Writes(p, frame)
  BY DEF Ascend, AtEase, GuestFrames
<1>3. GuestTypes' /\ (Knows(p) => Knows(p)') /\ to_guest' \in [Hosts -> Seq(HostFrames)]
  BY <1>1, <1>2 DEF GuestTypes, FrameTypes, Knows
<1> QED
  BY <1>2, <1>3, SpeakerKeeps

LEMMA QuitKeeps ==
  ASSUME NestedAssumption, NestedInv, NEW p \in Hosts, Quit(p)
  PROVE  NestedInv'
<1>1. GuestTypes /\ FrameTypes
  BY TypeParts DEF NestedInv, TypesInv
<1>2. PICK late \in {FALSE, guest[p].deciding} :
        guest' = [guest EXCEPT ![p] = [NoGuest EXCEPT !.deciding = late]]
  BY DEF Quit
<1> DEFINE g == [NoGuest EXCEPT !.deciding = late]
<1>3. /\ GuestActs /\ UNCHANGED <<to_guest, program, ended>>
      /\ (\E frame \in GuestFrames : Writes(p, frame)) \/ from_guest' = from_guest
  BY DEF Quit, AtEase, GuestFrames
<1>4. ~g.on /\ g \in [on : BOOLEAN, contacted : BOOLEAN, tries : 0 .. Budget, deciding : BOOLEAN,
                      focused : BOOLEAN]
  <2>1. 0 \in 0 .. Budget
    BY DEF NestedAssumption
  <2>2. guest[p].deciding \in BOOLEAN
    BY <1>1 DEF GuestTypes
  <2>3. late \in BOOLEAN
    BY <2>2
  <2> QED
    BY <2>1, <2>3 DEF NoGuest
<1>5. program' \in [Hosts -> BOOLEAN] /\ to_guest' \in [Hosts -> Seq(HostFrames)]
  BY <1>1, <1>3 DEF GuestTypes, FrameTypes
<1>6. guest' = [guest EXCEPT ![p] = g]
  BY <1>2
<1> HIDE DEF g
<1>7. /\ GuestTypes' /\ guest'[p] = g
      /\ \A q \in Hosts : q # p => guest'[q] = guest[q]
  BY <1>4, <1>5, <1>6, GuestTyped
<1> QED
  BY <1>3, <1>4, <1>5, <1>7, SpeakerKeeps

LEMMA ReadFrameKeeps ==
  ASSUME NestedAssumption, NestedInv, NEW p \in Hosts, ReadFrame(p)
  PROVE  NestedInv'
<1>1. GuestTypes /\ FrameTypes
  BY TypeParts DEF NestedInv, TypesInv
<1> DEFINE q == to_guest[p]
           n == Len(q)
           frame == Head(q)
           t == Tail(q)
           g == [guest[p] EXCEPT !.contacted = TRUE,
                  !.focused = frame = "FocusGained" \/ (@ /\ frame # "FocusLost")]
<1>2. /\ GuestActs /\ UNCHANGED <<program, ended>> /\ q # <<>>
      /\ to_guest' = [to_guest EXCEPT ![p] = t]
      /\ (\E f \in GuestFrames : Writes(p, f)) \/ from_guest' = from_guest
      /\ IF guest[p].on THEN guest' = [guest EXCEPT ![p] = g] ELSE guest' = guest
  <2>1. "Pong" \in GuestFrames
    BY DEF GuestFrames
  <2> QED
    BY <1>1, <2>1 DEF ReadFrame, GuestTypes
<1>3. q \in Seq(HostFrames)
  BY <1>1 DEF FrameTypes
<1>4. /\ n \in Nat /\ n >= 1 /\ frame = q[1] /\ t \in Seq(HostFrames) /\ Len(t) = n - 1
      /\ \A i \in 1 .. n - 1 : t[i] = q[i + 1] /\ i + 1 \in 1 .. n
  BY <1>2, <1>3, TailFacts
<1>5. /\ to_guest' \in [Hosts -> Seq(HostFrames)] /\ to_guest'[p] = t
      /\ \A r \in Hosts : r # p => to_guest'[r] = to_guest[r]
  BY <1>1, <1>2, <1>4 DEF FrameTypes
<1>6. program' \in [Hosts -> BOOLEAN]
  BY <1>1, <1>2 DEF GuestTypes
<1>7. CASE guest[p].on
  <2>1. g \in [on : BOOLEAN, contacted : BOOLEAN, tries : 0 .. Budget, deciding : BOOLEAN,
               focused : BOOLEAN]
        /\ g.focused = (frame = "FocusGained" \/ (guest[p].focused /\ frame # "FocusLost"))
    <3>1. guest[p] \in [on : BOOLEAN, contacted : BOOLEAN, tries : 0 .. Budget, deciding : BOOLEAN,
                        focused : BOOLEAN]
      BY <1>1 DEF GuestTypes
    <3> HIDE DEF frame
    <3> QED
      BY <3>1
  <2> HIDE DEF g, q, n, t, frame
  <2>2. /\ GuestTypes' /\ guest'[p] = g
        /\ \A r \in Hosts : r # p => guest'[r] = guest[r]
    BY <1>2, <1>6, <1>7, <2>1, GuestTyped
  <2>3. ASSUME guest[p].focused, \A i \in 1 .. n : q[i] # "FocusLost"
        PROVE  Knows(p)'
    <3>1. g.focused
      BY <1>4, <2>1, <2>3
    <3>2. \A i \in 1 .. n - 1 : t[i] # "FocusLost"
      BY <1>4, <2>3
    <3> QED
      BY <1>4, <1>5, <2>2, <3>1, <3>2 DEF Knows
  <2>4. ASSUME NEW i \in 1 .. n, q[i] = "FocusGained", \A j \in 1 .. n : j > i => q[j] # "FocusLost"
        PROVE  Knows(p)'
    <3>1. CASE i = 1
      <4>1. g.focused
        BY <1>4, <2>1, <2>4, <3>1
      <4>2. ASSUME NEW j \in 1 .. n - 1
            PROVE  t[j] # "FocusLost"
        <5>1. j + 1 \in 1 .. n /\ j + 1 > i
          BY <1>4, <3>1
        <5>2. q[j + 1] # "FocusLost"
          BY <2>4, <5>1
        <5> QED
          BY <1>4, <5>2
      <4> QED
        BY <1>4, <1>5, <2>2, <4>1, <4>2 DEF Knows
    <3>2. CASE i # 1
      <4>1. i - 1 \in 1 .. n - 1 /\ t[i - 1] = "FocusGained"
        <5>1. i - 1 \in 1 .. n - 1 /\ (i - 1) + 1 = i
          BY <1>4, <3>2
        <5> QED
          BY <1>4, <2>4, <5>1
      <4>2. ASSUME NEW j \in 1 .. n - 1, j > i - 1
            PROVE  t[j] # "FocusLost"
        <5>1. j + 1 \in 1 .. n /\ j + 1 > i
          BY <1>4, <4>2
        <5>2. q[j + 1] # "FocusLost"
          BY <2>4, <5>1
        <5> QED
          BY <1>4, <5>2
      <4> QED
        BY <1>4, <1>5, <4>1, <4>2 DEF Knows
    <3> QED
      BY <3>1, <3>2
  <2>5. Knows(p) => Knows(p)'
    BY <2>3, <2>4 DEF Knows, q, n
  <2> QED
    BY <1>2, <1>5, <1>7, <2>2, <2>5, SpeakerKeeps
<1>8. CASE ~guest[p].on
  <2>1. GuestTypes' /\ ~guest'[p].on
    BY <1>1, <1>2, <1>8 DEF GuestTypes
  <2> HIDE DEF g, q, n, t, frame
  <2> QED
    BY <1>2, <1>5, <1>8, <2>1, SpeakerKeeps
<1> QED
  BY <1>7, <1>8

-----------------------------------------------------------------------------
(* The invariant *)

\* In the beginning no keys go anywhere, and no guest runs.
LEMMA NestedInitially ==
  ASSUME NestedAssumption, NestedInit
  PROVE  NestedInv
<1>1. ScreenTypes /\ MainTypes
  BY DEF NestedInit, ScreenTypes, MainTypes
<1>2. FrameTypes
  <2>1. <<>> \in Seq(HostFrames) /\ <<>> \in Seq(GuestFrames)
    OBVIOUS
  <2> QED
    BY <2>1 DEF NestedInit, FrameTypes
<1>3. GuestTypes
  <2>1. 0 \in 0 .. Budget
    BY DEF NestedAssumption
  <2> QED
    BY <2>1 DEF NestedInit, GuestTypes, NoGuest
<1>4. to_server \in Seq(ServerMessages) /\ MessagesInv
  BY DEF NestedInit, MessagesInv
<1>5. HereInv /\ ProgramsInv
  BY DEF NestedInit, HereInv, ProgramsInv
<1>6. FramesInv
  BY DEF NestedInit, FramesInv, Parted
<1>7. RoutesInv
  <2>1. \A c \in Clients : \A p \in Hosts : ~Ends(c, p)
    BY DEF NestedInit, Ends, EndsAt, NestedAssumption, None
  <2> QED
    BY <2>1 DEF NestedInit, RoutesInv
<1>8. KnowsInv
  BY DEF NestedInit, KnowsInv, Concerned, NoGuest
<1> QED
  BY <1>1, <1>2, <1>3, <1>4, <1>5, <1>6, <1>7, <1>8, TypeParts DEF NestedInv, TypesInv

\* Every step keeps it.
LEMMA NestedStep ==
  ASSUME NestedAssumption, NestedInv, [NestedNext]_nestedVars
  PROVE  NestedInv'
<1>1. CASE ScreenThread
  <2>1. ASSUME NEW p \in Hosts, ScreenParses(p)
        PROVE  NestedInv'
    BY <2>1, AnnounceNewKeeps, AnnounceAgainKeeps, AnnounceNowhereKeeps, PongKeeps, ByeKeeps,
       FocusHostKeeps, FocusBeyondKeeps DEF ScreenParses
  <2> QED
    BY <1>1, <2>1, PingTickKeeps, ClosePaneKeeps, ModalChoiceKeeps, AddClientKeeps,
       RemoveClientKeeps DEF ScreenThread
<1>2. CASE KeyPassthroughChanged \/ ClientExit
  BY <1>2, PassthroughKeeps, ClientExitKeeps
<1>3. ASSUME NEW c \in Clients,
             \/ MoveFocus(c) \/ FocusTaken(c) \/ FocusGuest(c) \/ CloseFocusedPane(c)
             \/ AttachClient(c) \/ Leave(c)
      PROVE  NestedInv'
  BY <1>3, MoveFocusKeeps, FocusTakenKeeps, FocusGuestKeeps, CloseFocusedPaneKeeps,
     AttachClientKeeps, LeaveKeeps
<1>4. ASSUME NEW c \in Clients, NEW p \in Hosts, Choose(c, p)
      PROVE  NestedInv'
  BY <1>4, ChooseKeeps
<1>5. ASSUME NEW p \in Hosts,
             \/ PongTimeout(p) \/ Interval(p) \/ StartGuest(p) \/ SwitchSession(p) \/ ReadFrame(p)
             \/ Decide(p) \/ Reannounce(p) \/ Ascend(p) \/ Quit(p) \/ Killed(p) \/ ProgramEnds(p)
      PROVE  NestedInv'
  BY <1>5, PongTimeoutKeeps, IntervalKeeps, StartGuestKeeps, SwitchSessionKeeps, ReadFrameKeeps,
     DecideKeeps, ReannounceKeeps, AscendKeeps, QuitKeeps, KilledKeeps, ProgramEndsKeeps
<1>6. CASE UNCHANGED nestedVars
  <2>1. ScreenTypes /\ MainTypes /\ HereInv
    BY TypeParts DEF NestedInv, TypesInv
  <2> USE <1>6 DEF nestedVars
  <2>2. ScreenTypes' /\ MainTypes' /\ HereInv'
    BY <2>1 DEF ScreenTypes, MainTypes, HereInv
  <2> QED
    BY <2>2, QuietKeeps
<1> QED
  BY <1>1, <1>2, <1>3, <1>4, <1>5, <1>6 DEF NestedNext

\* What is invariant where the host and its guests meet.
THEOREM NestedInvariant == NestedSpec => []NestedInv
<1>1. NestedInit => NestedInv
  BY NestedAssumption, NestedInitially
<1>2. NestedInv /\ [NestedNext]_nestedVars => NestedInv'
  BY NestedAssumption, NestedStep
<1> QED
  BY <1>1, <1>2, PTL DEF NestedSpec

\* The variables keep their types.
THEOREM NestedTypeCorrect == NestedSpec => []NestedTypeOK
<1>1. NestedInv => NestedTypeOK
  BY DEF NestedInv, TypesInv
<1> QED
  BY <1>1, NestedInvariant, PTL

\* Where keys go when Screen's messages have reached the main loop is where they end.
LEMMA SettledEnds ==
  ASSUME NestedInv, Settled, NEW c
  PROVE  /\ \A n \in 0 .. Len(to_server) : EndsAt(n, c, keys_to[c])
         /\ Ends(c, keys_to[c])
<1>1. to_server \in Seq(ServerMessages)
  BY TypeParts DEF NestedInv, TypesInv
<1>2. Len(to_server) \in Nat /\ DOMAIN to_server = 1 .. Len(to_server)
  BY <1>1, LenProperties
<1>3. \A i \in 1 .. Len(to_server) : ~Changes(to_server[i], c)
  BY <1>2 DEF Settled, Changes
<1>4. \A n \in 0 .. Len(to_server) : \A i \in 1 .. n : i \in 1 .. Len(to_server)
  BY <1>2
<1>5. Len(to_server) \in 0 .. Len(to_server)
  BY <1>2
<1> QED
  BY <1>3, <1>4, <1>5 DEF EndsAt, Ends

\* Keys go past the host's key bindings only for clients that are there and have descended into a
\* guest that is alive, or whose pane's end is still to be handled; and the host is shown
\* dimmed to exactly these: whatever guests, panes and clients do between what Screen
\* reports and what the main loop makes of it.
THEOREM KeysGoAsShown == NestedSpec => []KeysAsShown
<1>1. ASSUME NestedInv
      PROVE  KeysAsShown
  <2>1. /\ RoutesInv /\ HereInv /\ MainTypes
    BY <1>1, TypeParts DEF NestedInv, TypesInv
  <2>2. ASSUME Settled, NEW c \in Clients
        PROVE  Ends(c, keys_to[c])
    BY <1>1, <2>2, SettledEnds
  <2>3. ASSUME Settled, NEW c \in Clients, keys_to[c] # None
        PROVE  There(c, keys_to[c]) /\ keys_to[c] \in Hosts
    BY <2>1, <2>2, <2>3 DEF RoutesInv, MainTypes
  <2>4. KeysToLiveGuests
    BY <2>3 DEF KeysToLiveGuests, There, Alive, Doomed
  <2>5. DimmedAsRouted
    <3> SUFFICES ASSUME Settled, NEW c \in Clients, client[c] = "here"
                 PROVE  c \in dimmed <=> keys_to[c] # None
      BY DEF DimmedAsRouted
    <3>1. CASE keys_to[c] # None
      BY <2>3, <3>1 DEF There
    <3>2. CASE keys_to[c] = None
      BY <2>1, <2>2, <3>2 DEF RoutesInv
    <3> QED
      BY <3>1, <3>2
  <2> QED
    BY <2>4, <2>5 DEF KeysAsShown
<1>2. NestedInv => KeysAsShown
  BY <1>1
<1> QED
  BY <1>2, NestedInvariant, PTL

\* A guest that gets a client's keys knows that it has the focus, once it has read what was
\* written to it, also when it was started anew, or suspended and found again.
THEOREM GuestsKnowTheirFocus == NestedSpec => []GuestKnowsFocus
<1>1. ASSUME NestedInv
      PROVE  GuestKnowsFocus
  <2> SUFFICES ASSUME Settled, NEW c \in Clients, NEW p \in Hosts,
                      keys_to[c] = p, focus[c] = p, p \notin strayed, guest[p].on,
                      to_guest[p] = <<>>, ~Announcing(p)
               PROVE  guest[p].focused
    BY DEF GuestKnowsFocus
  <2>1. KnowsInv /\ ScreenTypes
    BY <1>1, TypeParts DEF NestedInv, TypesInv
  <2>2. p # None
    BY NestedAssumption DEF NestedAssumption, None
  <2>3. p \in open
    BY <2>1, <2>2 DEF ScreenTypes
  <2>4. Informed(p) \/ Free(p)
    BY <2>1, <2>3 DEF KnowsInv, Concerned
  <2>5. ~Free(p)
    BY <1>1, SettledEnds DEF Free
  <2>6. Knows(p)
    BY <2>4, <2>5 DEF Informed
  <2> QED
    BY <2>6 DEF Knows
<1>2. NestedInv => GuestKnowsFocus
  BY <1>1
<1> QED
  BY <1>2, NestedInvariant, PTL
=============================================================================
