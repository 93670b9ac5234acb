------------------------ MODULE PromptRequestsProofs ------------------------
(***************************************************************************)
(* What holds of prompts for any clients, plugins and requests: an answer  *)
(* goes to the request its popup was given, every step keeps the promise   *)
(* (PromptPromise, without its liveness), and no client is left with a     *)
(* close dialogue that nobody will answer.                                 *)
(*                                                                         *)
(* The argument: a request that is asked is in one place, either on its    *)
(* way to the plugin thread, once, or pending, and a popup that a request  *)
(* waits for was given this request and no other. So what removes a        *)
(* request from where it is settles it, and nothing brings it back.        *)
(* A close dialogue that its client still has is never removed untold: a   *)
(* withdrawal on its way is of one the client no longer has, since the     *)
(* numbers of dialogues are not used again.                                *)
(***************************************************************************)
EXTENDS PromptRequests, FiniteSetTheorems, SequenceTheorems, TLAPS

Popup == [client : Clients, has : SUBSET Requests, alive : BOOLEAN,
          shown : BOOLEAN, finished : BOOLEAN]

\* The instructions for the two threads, when N are the popups.
ToPlugins(N) ==
  [kind : {"PromptRequest", "PromptPopupFailed", "WithdrawPrompt"}, request : Requests]
    \cup [kind : {"LoadPopup"}, request : Requests, client : Clients]
    \cup [kind : {"PromptReplied"}, popup : N, id : {r.id : r \in Requests}]
    \cup [kind : {"Unload"}, popup : N]
    \cup [kind : {"UnloadPlugin"}, plugin : Plugins]
    \cup [kind : {"RemoveClient"}, client : Clients]

ToScreen(N) ==
  [kind : {"OpenPromptPopup"}, request : Requests]
    \cup [kind : {"CloseDialogueAnswer"}, request : Requests, result : Results]
    \cup [kind : {"AddPopup"}, popup : N, client : Clients]
    \cup [kind : {"ClosePane"}, popup : N]
    \cup [kind : {"RemoveClient"}, client : Clients]

Numbers == 0 .. MaxDialogues

QueuesInv ==
  /\ popups \in Seq(Popup)
  /\ inbox \in Seq(ToPlugins(Popups))
  /\ screen \in Seq(ToScreen(Popups))

CallersInv ==
  /\ setting \in Setting
  /\ asked \in SUBSET Requests
  /\ connected \in SUBSET Clients

DialogueInv ==
  /\ attached \in SUBSET Clients
  /\ next_close_prompt_id \in Numbers
  /\ close_prompts \in [Clients -> Numbers]
  /\ \A c \in Clients :
       close_prompts[c] <= next_close_prompt_id /\ (close_prompts[c] # 0 => c \in attached)
  /\ \A c \in Clients, n \in Numbers : DialogueRequest(c, n) \in asked => n <= next_close_prompt_id

RequestsInv ==
  /\ pending \in [Requests -> {NotPending, Opening} \cup Popups]
  /\ sent \in [Requests -> Seq(Results)]
  /\ \A r \in Requests :
       /\ pending[r] > 0 => popups[pending[r]].has = {r}
       /\ pending[r] # NotPending => r \in asked

\* The message that brings request r to the plugin thread is in q.
Brings(m, r) == m.kind = "PromptRequest" /\ m.request = r
In(q, r) == \E i \in 1 .. Len(q) : Brings(q[i], r)
Once(q) == \A r \in Requests : \A i, j \in 1 .. Len(q) : Brings(q[i], r) /\ Brings(q[j], r) => i = j
Quiet(q) == \A i \in 1 .. Len(q) : q[i].kind # "PromptRequest"

PlacesInv ==
  /\ Once(inbox)
  /\ \A r \in Requests : In(inbox, r) => r \in asked /\ pending[r] = NotPending

IInv == QueuesInv /\ CallersInv /\ DialogueInv /\ RequestsInv /\ PlacesInv

\* What a step does: it keeps the invariant, keeps the promise to every request, and
\* sends answers to requests their popups were given.
AnswerStep ==
  \A r \in Requests : Len(sent'[r]) > Len(sent[r]) /\ Last(sent'[r]) = "answer" =>
    r \in popups[Head(inbox).popup].has

Good == IInv' /\ Promise!Next /\ AnswerStep
-----------------------------------------------------------------------------

\* A request on its way is in the inbox.
LEMMA InFlightIsIn ==
  ASSUME QueuesInv, NEW r
  PROVE  InFlight(r) <=> In(inbox, r)
<1>1. DOMAIN inbox = 1 .. Len(inbox)
  BY DEF QueuesInv
<1> QED
  BY <1>1 DEF InFlight, In, Brings, ToSet

\* The popups are numbered from 1.
LEMMA PopupNumbers ==
  ASSUME QueuesInv
  PROVE  /\ Popups = 1 .. Len(popups)
         /\ Len(popups) \in Nat
         /\ \A n \in Popups : n \in Nat /\ n > 0 /\ popups[n] \in Popup
         /\ \A S \in SUBSET Popups : IsFiniteSet(S)
<1>1. popups \in Seq(Popup)
  BY DEF QueuesInv
<1>2. Popups = 1 .. Len(popups) /\ Len(popups) \in Nat
  BY <1>1 DEF Popups
<1>3. \A n \in Popups : n \in Nat /\ n > 0 /\ popups[n] \in Popup
  BY <1>1, <1>2
<1>4. IsFiniteSet(Popups)
  BY <1>2, FS_Interval
<1> QED
  BY <1>2, <1>3, <1>4, FS_Subset

\* Every instruction for the plugin thread is of a kind it knows.
LEMMA PluginKinds ==
  ASSUME NEW N, NEW m \in ToPlugins(N)
  PROVE  /\ m.kind \in {"PromptRequest", "PromptPopupFailed", "WithdrawPrompt", "LoadPopup",
                        "PromptReplied", "Unload", "UnloadPlugin", "RemoveClient"}
         /\ m.kind \in {"PromptRequest", "PromptPopupFailed", "WithdrawPrompt", "LoadPopup"}
              => m.request \in Requests
         /\ m.kind \in {"PromptReplied", "Unload"} => m.popup \in N
         /\ m.kind \in {"LoadPopup", "RemoveClient"} => m.client \in Clients
BY DEF ToPlugins

\* So is every instruction for the screen thread.
LEMMA ScreenKinds ==
  ASSUME NEW N, NEW m \in ToScreen(N)
  PROVE  /\ m.kind \in {"OpenPromptPopup", "CloseDialogueAnswer", "AddPopup", "ClosePane",
                        "RemoveClient"}
         /\ m.kind \in {"OpenPromptPopup", "CloseDialogueAnswer"} => m.request \in Requests
         /\ m.kind \in {"AddPopup", "ClosePane"} => m.popup \in N
         /\ m.kind \in {"AddPopup", "RemoveClient"} => m.client \in Clients
BY DEF ToScreen

\* More popups, and the instructions are still instructions.
LEMMA KindsGrow ==
  ASSUME NEW N, NEW M, N \subseteq M
  PROVE  /\ \A q \in Seq(ToPlugins(N)) : q \in Seq(ToPlugins(M))
         /\ \A q \in Seq(ToScreen(N)) : q \in Seq(ToScreen(M))
<1>1. ToPlugins(N) \subseteq ToPlugins(M)
  BY DEF ToPlugins
<1>2. ToScreen(N) \subseteq ToScreen(M)
  BY DEF ToScreen
<1> QED
  BY <1>1, <1>2, SeqMonotonic

\* The sequence of a finite set is of its members.
LEMMA SetSequence ==
  ASSUME NEW S, IsFiniteSet(S)
  PROVE  /\ Cardinality(S) \in Nat
         /\ \A k \in 1 .. Cardinality(S) : SetToSeq(S)[k] \in S
<1>1. Cardinality(S) \in Nat /\ ExistsBijection(1 .. Cardinality(S), S)
  BY FS_CardinalityType
<1>2. PICK f \in Bijection(1 .. Cardinality(S), S) : TRUE
  BY <1>1 DEF ExistsBijection
<1>3. f \in [1 .. Cardinality(S) -> S] /\ IsInjective(f)
  BY <1>2 DEF Bijection, Injection, IsInjective
<1>4. SetToSeq(S) \in [1 .. Cardinality(S) -> S]
  BY <1>3 DEF SetToSeq
<1> QED
  BY <1>1, <1>4

LEMMA EachUnload ==
  ASSUME NEW N, NEW S \in SUBSET N, IsFiniteSet(S)
  PROVE  Each(UnloadPopup, S) \in Seq(ToPlugins(N)) /\ Quiet(Each(UnloadPopup, S))
<1> DEFINE s == [k \in 1 .. Cardinality(S) |-> UnloadPopup(SetToSeq(S)[k])]
<1>1. Cardinality(S) \in Nat /\ \A k \in 1 .. Cardinality(S) : SetToSeq(S)[k] \in N
  BY SetSequence
<1>2. \A k \in 1 .. Cardinality(S) :
        UnloadPopup(SetToSeq(S)[k]) \in ToPlugins(N)
  BY <1>1 DEF UnloadPopup, ToPlugins
<1>3. s \in [1 .. Cardinality(S) -> ToPlugins(N)]
  BY <1>2
<1>4. s \in Seq(ToPlugins(N)) /\ Len(s) = Cardinality(S)
  BY <1>1, <1>3
<1>5. \A k \in 1 .. Len(s) : s[k].kind = "Unload"
  BY <1>4 DEF UnloadPopup
<1>6. Each(UnloadPopup, S) = s
  BY DEF Each
<1> QED
  BY <1>4, <1>5, <1>6 DEF Quiet

LEMMA EachClose ==
  ASSUME NEW N, NEW S \in SUBSET N, IsFiniteSet(S)
  PROVE  Each(ClosePane, S) \in Seq(ToScreen(N))
<1> DEFINE s == [k \in 1 .. Cardinality(S) |-> ClosePane(SetToSeq(S)[k])]
<1>1. Cardinality(S) \in Nat /\ \A k \in 1 .. Cardinality(S) : SetToSeq(S)[k] \in N
  BY SetSequence
<1>2. \A k \in 1 .. Cardinality(S) : ClosePane(SetToSeq(S)[k]) \in ToScreen(N)
  BY <1>1 DEF ClosePane, ToScreen
<1>3. s \in [1 .. Cardinality(S) -> ToScreen(N)]
  BY <1>2
<1>4. s \in Seq(ToScreen(N))
  BY <1>1, <1>3
<1>5. Each(ClosePane, S) = s
  BY DEF Each
<1> QED
  BY <1>4, <1>5

LEMMA EachAnswer ==
  ASSUME NEW N, NEW S \in SUBSET Requests, IsFiniteSet(S), NEW result \in Results
  PROVE  Each(LAMBDA r : DialogueAnswer(r, result), S) \in Seq(ToScreen(N))
<1> DEFINE s == [k \in 1 .. Cardinality(S) |-> DialogueAnswer(SetToSeq(S)[k], result)]
<1>1. Cardinality(S) \in Nat /\ \A k \in 1 .. Cardinality(S) : SetToSeq(S)[k] \in Requests
  BY SetSequence
<1>2. \A k \in 1 .. Cardinality(S) : DialogueAnswer(SetToSeq(S)[k], result) \in ToScreen(N)
  BY <1>1 DEF DialogueAnswer, ToScreen
<1>3. s \in [1 .. Cardinality(S) -> ToScreen(N)]
  BY <1>2
<1>4. s \in Seq(ToScreen(N))
  BY <1>1, <1>3
<1>5. Each(LAMBDA r : DialogueAnswer(r, result), S) = s
  BY DEF Each
<1> QED
  BY <1>4, <1>5
-----------------------------------------------------------------------------

\* Other messages after a queue bring nothing more.
LEMMA QuietSuffix ==
  ASSUME NEW M, NEW q \in Seq(M), NEW s \in Seq(M), Quiet(s), Once(q)
  PROVE  /\ q \o s \in Seq(M)
         /\ Once(q \o s)
         /\ \A r : In(q \o s, r) <=> In(q, r)
<1>1. /\ q \o s \in Seq(M)
      /\ Len(q) \in Nat /\ Len(s) \in Nat
      /\ Len(q \o s) = Len(q) + Len(s)
      /\ \A i \in 1 .. Len(q) : (q \o s)[i] = q[i]
      /\ \A i \in 1 .. Len(q) + Len(s) : i > Len(q) => (q \o s)[i] = s[i - Len(q)]
  BY ConcatProperties, LenProperties
<1>3. \A r : \A i \in 1 .. Len(q \o s) :
        Brings((q \o s)[i], r) => i \in 1 .. Len(q) /\ Brings(q[i], r)
  BY <1>1 DEF Brings, Quiet
<1>4. \A r : \A i \in 1 .. Len(q) : Brings(q[i], r) => i \in 1 .. Len(q \o s) /\ Brings((q \o s)[i], r)
  BY <1>1 DEF Brings
<1>5. Once(q \o s)
  BY <1>3 DEF Once
<1>6. \A r : In(q \o s, r) <=> In(q, r)
  BY <1>3, <1>4 DEF In
<1> QED
  BY <1>1, <1>5, <1>6

\* What is left of a queue without its head brings the others.
LEMMA TailQueue ==
  ASSUME NEW M, NEW q \in Seq(M), q # <<>>, Once(q)
  PROVE  /\ Tail(q) \in Seq(M) /\ Head(q) \in M
         /\ Once(Tail(q))
         /\ \A r \in Requests : In(Tail(q), r) <=> In(q, r) /\ ~Brings(Head(q), r)
         /\ \A r : Brings(Head(q), r) => In(q, r)
<1>1. /\ Tail(q) \in Seq(M) /\ Head(q) \in M /\ Head(q) = q[1]
      /\ Len(q) \in Nat /\ Len(q) > 0
      /\ Len(Tail(q)) = Len(q) - 1
      /\ \A i \in 1 .. Len(Tail(q)) : Tail(q)[i] = q[i + 1]
  BY HeadTailProperties
<1>2. Once(Tail(q))
  <2> SUFFICES ASSUME NEW r \in Requests, NEW i \in 1 .. Len(Tail(q)), NEW j \in 1 .. Len(Tail(q)),
                      Brings(Tail(q)[i], r), Brings(Tail(q)[j], r)
               PROVE  i = j
    BY DEF Once
  <2>1. i + 1 \in 1 .. Len(q) /\ j + 1 \in 1 .. Len(q) /\ Brings(q[i + 1], r) /\ Brings(q[j + 1], r)
    BY <1>1
  <2>2. i + 1 = j + 1
    BY <2>1 DEF Once
  <2> QED
    BY <2>2
<1>3. ASSUME NEW r \in Requests
      PROVE  In(Tail(q), r) <=> In(q, r) /\ ~Brings(Head(q), r)
  <2>1. ASSUME In(Tail(q), r) PROVE In(q, r) /\ ~Brings(Head(q), r)
    <3>1. PICK i \in 1 .. Len(Tail(q)) : Brings(Tail(q)[i], r)
      BY <2>1 DEF In
    <3>2. i + 1 \in 1 .. Len(q) /\ Brings(q[i + 1], r) /\ i + 1 # 1
      BY <1>1, <3>1
    <3>3. ~Brings(q[1], r)
      BY <1>1, <3>2 DEF Once
    <3> QED
      BY <1>1, <3>2, <3>3 DEF In
  <2>2. ASSUME In(q, r), ~Brings(Head(q), r) PROVE In(Tail(q), r)
    <3>1. PICK i \in 1 .. Len(q) : Brings(q[i], r)
      BY <2>2 DEF In
    <3>2. i # 1
      BY <1>1, <2>2, <3>1
    <3>3. i - 1 \in 1 .. Len(Tail(q)) /\ Brings(Tail(q)[i - 1], r)
      BY <1>1, <3>1, <3>2
    <3> QED
      BY <3>3 DEF In
  <2> QED
    BY <2>1, <2>2
<1>4. \A r : Brings(Head(q), r) => In(q, r)
  BY <1>1 DEF In
<1> QED
  BY <1>1, <1>2, <1>3, <1>4

\* A request that is asked for the first time is brought once.
LEMMA NewRequest ==
  ASSUME NEW M, NEW q \in Seq(M), NEW r \in Requests, About("PromptRequest", r) \in M,
         Once(q), ~In(q, r)
  PROVE  /\ Append(q, About("PromptRequest", r)) \in Seq(M)
         /\ Once(Append(q, About("PromptRequest", r)))
         /\ \A t : In(Append(q, About("PromptRequest", r)), t) <=> In(q, t) \/ t = r
<1> DEFINE m == About("PromptRequest", r)
           p == Append(q, m)
<1>1. /\ p \in Seq(M) /\ Len(q) \in Nat /\ Len(p) = Len(q) + 1
      /\ \A i \in 1 .. Len(q) : p[i] = q[i]
      /\ p[Len(q) + 1] = m
  BY AppendProperties
<1>2. \A t : Brings(m, t) <=> t = r
  BY DEF Brings, About
<1> HIDE DEF m, p
<1>3. \A i \in 1 .. Len(q) : ~Brings(q[i], r)
  BY DEF In
<1>4. Once(p)
  BY <1>1, <1>2, <1>3 DEF Once
<1>5. \A t : In(p, t) <=> In(q, t) \/ t = r
  <2> SUFFICES ASSUME NEW t PROVE In(p, t) <=> In(q, t) \/ t = r
    OBVIOUS
  <2>1. In(q, t) => In(p, t)
    BY <1>1 DEF In
  <2>2. t = r => In(p, t)
    BY <1>1, <1>2 DEF In
  <2>3. In(p, t) => In(q, t) \/ t = r
    BY <1>1, <1>2 DEF In
  <2> QED
    BY <2>1, <2>2, <2>3
<1> QED
  BY <1>1, <1>4, <1>5 DEF p, m

\* apply_prompt_actions: the head of the inbox is consumed, what is added brings no
\* request, and those told get one result.
LEMMA ApplyFacts ==
  ASSUME IInv, inbox # <<>>, NEW N, Popups \subseteq N,
         NEW after, NEW told \in SUBSET Requests, IsFiniteSet(told),
         NEW result \in Results, NEW closed \in SUBSET N, IsFiniteSet(closed),
         NEW rest \in Seq(ToScreen(N)),
         Apply(after, told, result, closed, rest)
  PROVE  /\ pending' = after
         /\ inbox' \in Seq(ToPlugins(N)) /\ screen' \in Seq(ToScreen(N))
         /\ Once(inbox')
         /\ \A r \in Requests : In(inbox', r) <=> In(inbox, r) /\ ~Brings(Head(inbox), r)
         /\ sent' \in [Requests -> Seq(Results)]
         /\ \A r \in Requests : sent'[r] = IF r \in told THEN Append(sent[r], result) ELSE sent[r]
<1>1. inbox \in Seq(ToPlugins(N)) /\ screen \in Seq(ToScreen(N)) /\ Once(inbox)
  BY KindsGrow DEF IInv, QueuesInv, PlacesInv
<1>2. /\ Tail(inbox) \in Seq(ToPlugins(N)) /\ Once(Tail(inbox))
      /\ \A r \in Requests : In(Tail(inbox), r) <=> In(inbox, r) /\ ~Brings(Head(inbox), r)
  BY <1>1, TailQueue
<1>3. inbox' = Tail(inbox) \o Each(UnloadPopup, closed)
  BY DEF Apply
<1>4. /\ inbox' \in Seq(ToPlugins(N)) /\ Once(inbox')
      /\ \A r \in Requests : In(inbox', r) <=> In(inbox, r) /\ ~Brings(Head(inbox), r)
  <2>1. Each(UnloadPopup, closed) \in Seq(ToPlugins(N)) /\ Quiet(Each(UnloadPopup, closed))
    BY EachUnload
  <2> DEFINE e == Each(UnloadPopup, closed)
  <2> HIDE DEF e
  <2>2. /\ Tail(inbox) \o e \in Seq(ToPlugins(N)) /\ Once(Tail(inbox) \o e)
        /\ \A r : In(Tail(inbox) \o e, r) <=> In(Tail(inbox), r)
    BY <1>2, <2>1, QuietSuffix DEF e
  <2> QED
    BY <1>2, <1>3, <2>2 DEF e
<1>5. screen' \in Seq(ToScreen(N))
  <2> DEFINE d == {r \in told : r.plugin = Dialogue}
  <2>1. IsFiniteSet(d) /\ d \in SUBSET Requests
    BY FS_Subset
  <2>2. Each(LAMBDA r : DialogueAnswer(r, result), d) \in Seq(ToScreen(N))
    BY <2>1, EachAnswer
  <2>3. Each(ClosePane, closed) \in Seq(ToScreen(N))
    BY EachClose
  <2>4. screen' = screen \o rest \o Each(LAMBDA r : DialogueAnswer(r, result), d) \o Each(ClosePane, closed)
    BY DEF Apply
  <2> DEFINE a == Each(LAMBDA r : DialogueAnswer(r, result), d)
             b == Each(ClosePane, closed)
  <2>5. a \in Seq(ToScreen(N)) /\ b \in Seq(ToScreen(N)) /\ screen' = screen \o rest \o a \o b
    BY <2>2, <2>3, <2>4
  <2> HIDE DEF a, b
  <2>6. screen \o rest \in Seq(ToScreen(N))
    BY <1>1, ConcatProperties
  <2>7. screen \o rest \o a \in Seq(ToScreen(N))
    BY <2>5, <2>6, ConcatProperties
  <2> QED
    BY <2>5, <2>7, ConcatProperties
<1>6. /\ pending' = after
      /\ sent' = [r \in Requests |-> IF r \in told THEN Append(sent[r], result) ELSE sent[r]]
  BY DEF Apply
<1>7. \A r \in Requests : sent[r] \in Seq(Results)
  BY DEF IInv, RequestsInv
<1>8. \A r \in Requests : Append(sent[r], result) \in Seq(Results)
  BY <1>7
<1> QED
  BY <1>4, <1>5, <1>6, <1>7, <1>8
-----------------------------------------------------------------------------

\* A request is somewhere when it is on its way or pending.
Here(r) == In(inbox, r) \/ pending[r] # NotPending
OnScreen(r) == pending[r] > 0 /\ popups[pending[r]].shown

\* What may become of a request in a step that sends it nothing: it is brought, its
\* popup is shown or hidden, or it is settled, and this is the end of it.
Quietly(r) ==
  /\ sent'[r] = sent[r]
  /\ r \in asked => r \in asked'
  /\ r \notin asked /\ r \in asked' => Here(r)' /\ ~OnScreen(r)'
  /\ r \in asked /\ ~Here(r) => ~Here(r)'

\* And in a step that sends it a result: this is the end of it too.
Told(r, result) ==
  /\ sent'[r] = Append(sent[r], result)
  /\ r \in asked => Here(r)
  /\ r \in asked' /\ ~Here(r)'
  /\ result = "answer" => r \in popups[Head(inbox).popup].has

\* The phase of a request follows from where it is.
LEMMA PhaseFacts ==
  ASSUME IInv, NEW r \in Requests
  PROVE  /\ r \notin asked => Phase(r) = "new"
         /\ r \in asked /\ Here(r) /\ OnScreen(r) => Phase(r) = "shown"
         /\ r \in asked /\ Here(r) /\ ~OnScreen(r) => Phase(r) = "waiting"
         /\ r \in asked /\ ~Here(r) => Phase(r) = "settled"
<1>1. InFlight(r) <=> In(inbox, r)
  BY InFlightIsIn DEF IInv
<1>2. pending[r] > 0 => pending[r] # NotPending
  BY DEF NotPending
<1> QED
  BY <1>1, <1>2 DEF Phase, Here, OnScreen

LEMMA PhaseFactsNext ==
  ASSUME IInv', NEW r \in Requests
  PROVE  /\ r \notin asked' => Phase(r)' = "new"
         /\ r \in asked' /\ Here(r)' /\ OnScreen(r)' => Phase(r)' = "shown"
         /\ r \in asked' /\ Here(r)' /\ ~OnScreen(r)' => Phase(r)' = "waiting"
         /\ r \in asked' /\ ~Here(r)' => Phase(r)' = "settled"
<1>1. InFlight(r)' <=> In(inbox, r)'
  <2>1. DOMAIN inbox' = 1 .. Len(inbox')
    BY DEF IInv, QueuesInv
  <2> QED
    BY <2>1 DEF InFlight, In, Brings, ToSet
<1>2. pending'[r] > 0 => pending'[r] # NotPending
  BY DEF NotPending
<1> QED
  BY <1>1, <1>2 DEF Phase, Here, OnScreen

\* A step that does one or the other to every request is a good one.
LEMMA Concludes ==
  ASSUME IInv, IInv',
         \A r \in Requests : Quietly(r) \/ \E result \in Results : Told(r, result)
  PROVE  Good
<1>1. Promise!Next
  <2> DEFINE phase == [r \in Requests |-> Phase(r)]
  <2>1. DOMAIN phase' = Requests /\ DOMAIN sent' = Requests
    BY DEF IInv, RequestsInv
  <2>2. ASSUME NEW r \in Requests
        PROVE  Promise!Quietly(r) \/ Promise!Answer(r)
    <3>0. phase[r] = Phase(r) /\ phase'[r] = Phase(r)'
      OBVIOUS
    <3>1. CASE Quietly(r)
      <4>1. /\ sent'[r] = sent[r]
            /\ Phase(r) = "new" => Phase(r)' \in {"new", "waiting"}
            /\ Phase(r) \in {"waiting", "shown"} => Phase(r)' \in {"waiting", "shown", "settled"}
            /\ Phase(r) = "settled" => Phase(r)' = "settled"
            /\ Phase(r) \in {"new", "waiting", "shown", "settled"}
        BY <3>1, PhaseFacts, PhaseFactsNext DEF Quietly
      <4> QED
        BY <3>0, <4>1 DEF Promise!Quietly, Promise!Moves
    <3>2. CASE \E result \in Results : Told(r, result)
      <4>1. PICK result \in Results : Told(r, result)
        BY <3>2
      <4>2. Phase(r) \in {"new", "waiting", "shown"} /\ Phase(r)' = "settled"
        BY <4>1, PhaseFacts, PhaseFactsNext DEF Told
      <4> QED
        BY <3>0, <4>1, <4>2 DEF Promise!Answer, Promise!Moves, Told
    <3> QED
      BY <2>2, <3>1, <3>2
  <2> QED
    BY <2>1, <2>2 DEF Promise!Next
<1>2. AnswerStep
  <2> SUFFICES ASSUME NEW r \in Requests, Len(sent'[r]) > Len(sent[r]), Last(sent'[r]) = "answer"
               PROVE  r \in popups[Head(inbox).popup].has
    BY DEF AnswerStep
  <2>1. sent[r] \in Seq(Results)
    BY DEF IInv, RequestsInv
  <2>2. ~Quietly(r)
    BY <2>1 DEF Quietly
  <2>3. PICK result \in Results : Told(r, result)
    BY <2>2
  <2>4. Last(sent'[r]) = result
    BY <2>1, <2>3 DEF Told, Last
  <2> QED
    BY <2>3, <2>4 DEF Told
<1> QED
  BY <1>1, <1>2 DEF Good
-----------------------------------------------------------------------------

\* What apply_prompt_actions may do to a request: leave it, remove it, start it,
\* attach it to a popup that was given it, or send it a result and remove it.
Left(r, after) == after[r] = pending[r] /\ ~Brings(Head(inbox), r)
Gone(r, after) == after[r] = NotPending /\ ~Brings(Head(inbox), r)
Started(r, after) == after[r] = Opening /\ Brings(Head(inbox), r)
Attached(r, after) ==
  pending[r] = Opening /\ after[r] > 0 /\ popups'[after[r]].has = {r}
Settled(r, after, result) ==
  /\ pending[r] # NotPending /\ after[r] = NotPending
  /\ result = "answer" => r \in popups[Head(inbox).popup].has

\* A step of the plugin thread that does one of these to each request is a good one.
LEMMA PluginThreadStep ==
  ASSUME IInv, inbox # <<>>, UNCHANGED <<setting, asked, closing, screenVars, leaving>>,
         connected' \in SUBSET Clients,
         popups' \in Seq(Popup), Popups \subseteq Popups',
         \A n \in Popups : popups'[n].has = popups[n].has,
         NEW after \in [Requests -> {NotPending, Opening} \cup Popups'],
         NEW told \in SUBSET Requests, IsFiniteSet(told), NEW result \in Results,
         NEW closed \in SUBSET Popups', IsFiniteSet(closed),
         NEW rest \in Seq(ToScreen(Popups')),
         Apply(after, told, result, closed, rest),
         \A r \in Requests :
           \/ r \notin told
              /\ (Left(r, after) \/ Gone(r, after) \/ Started(r, after) \/ Attached(r, after))
           \/ r \in told /\ Settled(r, after, result)
  PROVE  Good
<1>1. /\ pending' = after
      /\ inbox' \in Seq(ToPlugins(Popups')) /\ screen' \in Seq(ToScreen(Popups'))
      /\ Once(inbox')
      /\ \A r \in Requests : In(inbox', r) <=> In(inbox, r) /\ ~Brings(Head(inbox), r)
      /\ sent' \in [Requests -> Seq(Results)]
      /\ \A r \in Requests : sent'[r] = IF r \in told THEN Append(sent[r], result) ELSE sent[r]
  <2> DEFINE N == Popups'
  <2>1. Popups \subseteq N /\ closed \in SUBSET N /\ rest \in Seq(ToScreen(N))
    OBVIOUS
  <2> HIDE DEF N
  <2>2. /\ pending' = after
        /\ inbox' \in Seq(ToPlugins(N)) /\ screen' \in Seq(ToScreen(N))
        /\ Once(inbox')
        /\ \A r \in Requests : In(inbox', r) <=> In(inbox, r) /\ ~Brings(Head(inbox), r)
        /\ sent' \in [Requests -> Seq(Results)]
        /\ \A r \in Requests : sent'[r] = IF r \in told THEN Append(sent[r], result) ELSE sent[r]
    BY <2>1, ApplyFacts
  <2> QED
    BY <2>2 DEF N
<1>2. \A r \in Requests :
        /\ pending[r] \in {NotPending, Opening} \cup Popups
        /\ pending[r] > 0 => pending[r] \in Popups /\ popups[pending[r]].has = {r}
        /\ pending[r] # NotPending => r \in asked
        /\ In(inbox, r) => r \in asked /\ pending[r] = NotPending
        /\ Brings(Head(inbox), r) => In(inbox, r)
  <2>1. \A r \in Requests : pending[r] > 0 => pending[r] \in Popups
    <3>1. \A r \in Requests : pending[r] \in {NotPending, Opening} \cup Popups
      BY DEF IInv, RequestsInv
    <3>2. ~(NotPending > 0) /\ ~(Opening > 0)
      BY DEF NotPending, Opening
    <3> QED
      BY <3>1, <3>2
  <2>2. \A r \in Requests : Brings(Head(inbox), r) => In(inbox, r)
    BY TailQueue DEF IInv, QueuesInv, PlacesInv
  <2> QED
    BY <2>1, <2>2 DEF IInv, RequestsInv, PlacesInv
<1>3. QueuesInv'
  BY <1>1 DEF QueuesInv
<1>4. CallersInv' /\ DialogueInv'
  BY DEF IInv, CallersInv, DialogueInv, screenVars
<1>5. RequestsInv'
  <2>1. asked' = asked
    OBVIOUS
  <2>2. ASSUME NEW r \in Requests
        PROVE  (after[r] > 0 => popups'[after[r]].has = {r}) /\ (after[r] # NotPending => r \in asked)
    <3>1. CASE Left(r, after)
      BY <1>2, <3>1 DEF Left
    <3>2. CASE Gone(r, after)
      BY <3>2 DEF Gone, NotPending
    <3>3. CASE Started(r, after)
      BY <1>2, <3>3 DEF Started, Opening
    <3>4. CASE Attached(r, after)
      BY <1>2, <3>4 DEF Attached, Opening, NotPending
    <3>5. CASE Settled(r, after, result)
      BY <3>5 DEF Settled, NotPending
    <3> QED
      BY <2>2, <3>1, <3>2, <3>3, <3>4, <3>5
  <2> QED
    BY <1>1, <2>1, <2>2 DEF RequestsInv
<1>6. PlacesInv'
  <2>1. asked' = asked
    OBVIOUS
  <2>2. ASSUME NEW r \in Requests, In(inbox', r)
        PROVE  r \in asked /\ after[r] = NotPending
    <3>1. In(inbox, r) /\ ~Brings(Head(inbox), r) /\ r \in asked /\ pending[r] = NotPending
      BY <1>1, <1>2, <2>2
    <3> QED
      BY <3>1 DEF Left, Gone, Started, Attached, Settled, NotPending, Opening
  <2> QED
    BY <1>1, <2>1, <2>2 DEF PlacesInv
<1>7. IInv'
  BY <1>3, <1>4, <1>5, <1>6 DEF IInv
<1>8. ASSUME NEW r \in Requests
      PROVE  Quietly(r) \/ \E t \in Results : Told(r, t)
  <2>0. /\ asked' = asked /\ pending'[r] = after[r]
        /\ In(inbox, r)' <=> In(inbox, r) /\ ~Brings(Head(inbox), r)
    BY <1>1
  <2>1. CASE r \notin told
    <3>1. sent'[r] = sent[r]
      BY <1>1, <2>1
    <3>2. r \in asked /\ ~Here(r) => ~Here(r)'
      BY <1>2, <2>0, <2>1 DEF Here, Left, Gone, Started, Attached, NotPending, Opening
    <3> QED
      BY <2>0, <3>1, <3>2 DEF Quietly
  <2>2. CASE r \in told
    <3>1. Settled(r, after, result)
      BY <2>2
    <3>2. sent'[r] = Append(sent[r], result)
      BY <1>1, <2>2
    <3>3. r \in asked /\ Here(r) /\ ~Here(r)'
      BY <1>2, <2>0, <3>1 DEF Here, Settled
    <3> QED
      BY <2>0, <3>1, <3>2, <3>3 DEF Told, Settled
  <2> QED
    BY <2>1, <2>2
<1> QED
  BY <1>7, <1>8, Concludes

\* callers_gone settles the requests it removes, without a result.
LEMMA CallersGoneGood ==
  ASSUME IInv, inbox # <<>>, UNCHANGED <<setting, asked, closing, screenVars, leaving>>,
         connected' \in SUBSET Clients,
         popups' \in Seq(Popup), Popups' = Popups,
         \A n \in Popups : popups'[n].has = popups[n].has,
         \A r \in Requests : ~Brings(Head(inbox), r),
         NEW gone, CallersGone(gone)
  PROVE  Good
<1> DEFINE after == Removed(gone)
           closed == {n \in Popups : \E r \in gone : pending[r] = n}
<1>1. after \in [Requests -> {NotPending, Opening} \cup Popups']
  BY DEF Removed, IInv, RequestsInv
<1>2. \A r \in Requests : Left(r, after) \/ Gone(r, after)
  BY DEF Removed, Left, Gone
<1>3. closed \in SUBSET Popups' /\ IsFiniteSet(closed)
  BY PopupNumbers DEF IInv
<1>4. Apply(after, {}, "error", closed, <<>>)
  BY DEF CallersGone, Nobody
<1>5. IsFiniteSet({}) /\ {} \in SUBSET Requests /\ "error" \in Results
  BY FS_EmptySet DEF Results
<1>6. <<>> \in Seq(ToScreen(Popups'))
  BY EmptySeq
<1> HIDE DEF after, closed
<1> QED
  BY <1>1, <1>2, <1>3, <1>4, <1>5, <1>6, PluginThreadStep

\* A popup that fails to open, or to load, is an error for its request.
LEMMA FailGood ==
  ASSUME IInv, inbox # <<>>, UNCHANGED <<setting, asked, closing, screenVars, leaving>>,
         \A t \in Requests : ~Brings(Head(inbox), t),
         NEW r \in Requests, Fail(r)
  PROVE  Good
<1> DEFINE after == Removed({r})
           told == {q \in {r} : pending[q] # NotPending}
<1>1. UNCHANGED <<live, connected, popups>> /\ Apply(after, told, "error", {}, <<>>)
  BY DEF Fail
<1>2. Popups' = Popups
  BY <1>1 DEF Popups
<1>3. after \in [Requests -> {NotPending, Opening} \cup Popups']
  BY <1>2 DEF Removed, IInv, RequestsInv
<1>4. \A t \in Requests : \/ t \notin told /\ (Left(t, after) \/ Gone(t, after))
                          \/ t \in told /\ Settled(t, after, "error")
  BY DEF Removed, Left, Gone, Settled
<1>5. told \in SUBSET Requests /\ IsFiniteSet(told)
  BY FS_Singleton, FS_Subset
<1>6. {} \in SUBSET Popups' /\ IsFiniteSet({}) /\ <<>> \in Seq(ToScreen(Popups')) /\ "error" \in Results
  BY FS_EmptySet, EmptySeq DEF Results
<1>7. /\ connected' \in SUBSET Clients
      /\ popups' \in Seq(Popup) /\ Popups \subseteq Popups'
      /\ \A n \in Popups : popups'[n].has = popups[n].has
  BY <1>1, <1>2 DEF IInv, CallersInv, QueuesInv
<1> HIDE DEF after, told
<1> QED
  BY <1>1, <1>3, <1>4, <1>5, <1>6, <1>7, PluginThreadStep

LEMMA StartGood ==
  ASSUME IInv, inbox # <<>>, UNCHANGED <<setting, asked, closing, screenVars, leaving>>,
         Head(inbox).kind = "PromptRequest", Head(inbox).request \in Requests,
         Start(Head(inbox).request)
  PROVE  Good
<1> DEFINE r == Head(inbox).request
           after == [pending EXCEPT ![r] = Opening]
           rest == <<About("OpenPromptPopup", r)>>
<1>1. UNCHANGED <<live, connected, popups>> /\ Apply(after, {}, "error", {}, rest)
  BY DEF Start, Nobody
<1>2. Popups' = Popups
  BY <1>1 DEF Popups
<1>3. after \in [Requests -> {NotPending, Opening} \cup Popups']
  BY <1>2 DEF IInv, RequestsInv
<1>4. \A t \in Requests : Left(t, after) \/ Started(t, after)
  BY DEF Left, Started, Brings, IInv, RequestsInv
<1>5. About("OpenPromptPopup", r) \in ToScreen(Popups')
  BY DEF About, ToScreen
<1>6. rest \in Seq(ToScreen(Popups'))
  BY <1>5
<1>7. {} \in SUBSET Popups' /\ {} \in SUBSET Requests /\ IsFiniteSet({}) /\ "error" \in Results
  BY FS_EmptySet DEF Results
<1>8. /\ connected' \in SUBSET Clients
      /\ popups' \in Seq(Popup) /\ Popups \subseteq Popups'
      /\ \A n \in Popups : popups'[n].has = popups[n].has
  BY <1>1, <1>2 DEF IInv, CallersInv, QueuesInv
<1> HIDE DEF after, rest
<1> QED
  BY <1>1, <1>3, <1>4, <1>6, <1>7, <1>8, PluginThreadStep

\* An answer settles a request that its popup was given, if one waits for it.
LEMMA ReplyGood ==
  ASSUME IInv, inbox # <<>>, UNCHANGED <<setting, asked, closing, screenVars, leaving>>,
         \A t \in Requests : ~Brings(Head(inbox), t),
         Head(inbox).popup \in Popups,
         Reply(Head(inbox).popup, Head(inbox).id)
  PROVE  Good
<1> DEFINE n == Head(inbox).popup
           callers == AnsweredBy(n, Head(inbox).id)
<1>1. UNCHANGED <<live, connected, popups>>
  BY DEF Reply
<1>2. Popups' = Popups
  BY <1>1 DEF Popups
<1>3. {} \in SUBSET Popups' /\ IsFiniteSet({}) /\ <<>> \in Seq(ToScreen(Popups'))
      /\ "answer" \in Results /\ {} \in SUBSET Requests
  BY FS_EmptySet, EmptySeq DEF Results
<1>4. /\ connected' \in SUBSET Clients
      /\ popups' \in Seq(Popup) /\ Popups \subseteq Popups'
      /\ \A k \in Popups : popups'[k].has = popups[k].has
  BY <1>1, <1>2 DEF IInv, CallersInv, QueuesInv
<1>5. CASE callers = {}
  <2>1. Apply(pending, {}, "answer", {}, <<>>)
    BY <1>5 DEF Reply, Nobody
  <2>2. pending \in [Requests -> {NotPending, Opening} \cup Popups']
    BY <1>2 DEF IInv, RequestsInv
  <2>3. \A t \in Requests : Left(t, pending)
    BY DEF Left
  <2> QED
    BY <1>3, <1>4, <2>1, <2>2, <2>3, PluginThreadStep
<1>6. CASE callers # {}
  <2>1. PICK r \in callers : Apply(Removed({r}), {r}, "answer", {}, <<>>)
    BY <1>6 DEF Reply
  <2>2. r \in Requests /\ pending[r] = n
    BY <2>1 DEF AnsweredBy
  <2>3. n > 0 /\ n \in Nat
    BY PopupNumbers DEF IInv
  <2>4. r \in popups[n].has /\ pending[r] # NotPending
    BY <2>2, <2>3 DEF IInv, RequestsInv, NotPending
  <2> DEFINE after == Removed({r})
  <2>5. after \in [Requests -> {NotPending, Opening} \cup Popups']
    BY <1>2 DEF Removed, IInv, RequestsInv
  <2>6. \A t \in Requests : \/ t \notin {r} /\ Left(t, after)
                            \/ t \in {r} /\ Settled(t, after, "answer")
    BY <2>4 DEF Removed, Left, Settled
  <2>7. {r} \in SUBSET Requests /\ IsFiniteSet({r})
    BY <2>2, FS_Singleton
  <2> HIDE DEF after
  <2> QED
    BY <1>3, <1>4, <2>1, <2>5, <2>6, <2>7, PluginThreadStep DEF after
<1> QED
  BY <1>5, <1>6

\* The popup that closes had one request, which is told at most that it was cancelled.
LEMMA PromptClosedGood ==
  ASSUME IInv, inbox # <<>>, UNCHANGED <<setting, asked, closing, screenVars, leaving>>,
         \A t \in Requests : ~Brings(Head(inbox), t),
         NEW n \in Popups, PromptClosed(n)
  PROVE  Good
<1> DEFINE gone == {r \in Requests : pending[r] = n}
           after == Removed(gone)
           told == ToldCancelled(gone)
<1>1. /\ UNCHANGED <<live, connected>> /\ Apply(after, told, "cancelled", {}, <<>>)
      /\ popups' = [popups EXCEPT ![n].alive = FALSE]
  BY DEF PromptClosed
<1>2. n \in Nat /\ n > 0 /\ popups \in Seq(Popup) /\ n \in 1 .. Len(popups) /\ popups[n] \in Popup
      /\ Popups = 1 .. Len(popups)
  BY PopupNumbers DEF IInv, QueuesInv
<1>3. /\ popups' \in Seq(Popup) /\ Popups' = Popups
      /\ \A k \in Popups : popups'[k].has = popups[k].has
  <2> DEFINE p == [popups[n] EXCEPT !.alive = FALSE]
  <2>1. p \in Popup /\ p.has = popups[n].has
    BY <1>2 DEF Popup
  <2>2. popups' = [popups EXCEPT ![n] = p]
    BY <1>1
  <2> HIDE DEF p
  <2>3. /\ popups' \in Seq(Popup) /\ Len(popups') = Len(popups)
        /\ \A k \in 1 .. Len(popups) : popups'[k] = IF k = n THEN p ELSE popups[k]
    BY <1>2, <2>1, <2>2, ExceptSeq
  <2>4. Popups' = 1 .. Len(popups')
    BY <2>3 DEF Popups
  <2> QED
    BY <1>2, <2>1, <2>3, <2>4
<1>4. after \in [Requests -> {NotPending, Opening} \cup Popups']
  BY <1>3 DEF Removed, IInv, RequestsInv
<1>5. n # NotPending
  BY <1>2 DEF NotPending
<1>6. \A t \in Requests : \/ t \notin told /\ (Left(t, after) \/ Gone(t, after))
                          \/ t \in told /\ Settled(t, after, "cancelled")
  BY <1>5 DEF Removed, Left, Gone, Settled, ToldCancelled
<1>7. told \in SUBSET Requests /\ IsFiniteSet(told)
  <2>1. \A q, r \in gone : q = r
    BY <1>2 DEF IInv, RequestsInv
  <2>2. told \subseteq gone
    BY DEF ToldCancelled
  <2>3. told = {} \/ \E r : told = {r}
    BY <2>1, <2>2
  <2> QED
    BY <2>2, <2>3, FS_EmptySet, FS_Singleton
<1>8. {} \in SUBSET Popups' /\ IsFiniteSet({}) /\ <<>> \in Seq(ToScreen(Popups'))
      /\ "cancelled" \in Results
  BY FS_EmptySet, EmptySeq DEF Results
<1>9. connected' \in SUBSET Clients
  BY <1>1 DEF IInv, CallersInv
<1> HIDE DEF gone, after, told
<1> QED
  BY <1>1, <1>3, <1>4, <1>6, <1>7, <1>8, <1>9, PluginThreadStep

\* A popup that is loaded is given the request if this is still opening, and closes
\* otherwise.
LEMMA AttachGood ==
  ASSUME IInv, inbox # <<>>, UNCHANGED <<setting, asked, closing, screenVars, leaving>>,
         \A t \in Requests : ~Brings(Head(inbox), t),
         NEW r \in Requests, NEW owner \in Clients, Attach(r, owner)
  PROVE  Good
<1> DEFINE n == Len(popups) + 1
           wanted == {q \in {r} : pending[q] = Opening}
           after == [q \in Requests |-> IF q \in wanted THEN n ELSE pending[q]]
           closed == ClosedByAttach(r, n)
<1>1. PICK c \in RunsFor(owner) :
        /\ popups' = Append(popups, [client |-> c, has |-> wanted, alive |-> TRUE,
                                     shown |-> FALSE, finished |-> FALSE])
        /\ Apply(after, {}, "error", closed, <<AddPopup(n, c)>>)
  BY DEF Attach, Nobody
<1>2. connected' \in SUBSET Clients /\ c \in Clients
  BY DEF Attach, RunsFor, IInv, CallersInv
<1>3. popups \in Seq(Popup) /\ Len(popups) \in Nat /\ Popups = 1 .. Len(popups)
  BY PopupNumbers DEF IInv, QueuesInv
<1>4. /\ popups' \in Seq(Popup) /\ Popups' = 1 .. n /\ Popups \subseteq Popups' /\ n \in Popups'
      /\ \A k \in Popups : popups'[k].has = popups[k].has
      /\ popups'[n].has = wanted
  <2> DEFINE p == [client |-> c, has |-> wanted, alive |-> TRUE, shown |-> FALSE, finished |-> FALSE]
  <2>1. p \in Popup /\ p.has = wanted
    BY <1>2 DEF Popup
  <2>2. popups' = Append(popups, p)
    BY <1>1
  <2> HIDE DEF p
  <2>3. /\ popups' \in Seq(Popup) /\ Len(popups') = n
        /\ \A k \in 1 .. Len(popups) : popups'[k] = popups[k]
        /\ popups'[n] = p
    BY <1>3, <2>1, <2>2, AppendProperties
  <2>4. Popups' = 1 .. Len(popups')
    BY <2>3 DEF Popups
  <2> QED
    BY <1>3, <2>1, <2>3, <2>4
<1>5. after \in [Requests -> {NotPending, Opening} \cup Popups']
  BY <1>4 DEF IInv, RequestsInv
<1>6. \A t \in Requests : Left(t, after) \/ Attached(t, after)
  <2> SUFFICES ASSUME NEW t \in Requests PROVE Left(t, after) \/ Attached(t, after)
    OBVIOUS
  <2>1. CASE t \in wanted
    <3>1. t = r /\ wanted = {t} /\ pending[t] = Opening /\ after[t] = n
      BY <2>1
    <3>2. n > 0
      BY <1>3
    <3> QED
      BY <1>4, <3>1, <3>2 DEF Attached
  <2>2. CASE t \notin wanted
    BY <2>2 DEF Left
  <2> QED
    BY <2>1, <2>2
<1>7. closed \in SUBSET Popups' /\ IsFiniteSet(closed)
  BY <1>4, FS_EmptySet, FS_Singleton DEF ClosedByAttach
<1>8. AddPopup(n, c) \in ToScreen(Popups')
  BY <1>2, <1>4 DEF AddPopup, ToScreen
<1>9. <<AddPopup(n, c)>> \in Seq(ToScreen(Popups')) /\ "error" \in Results
      /\ {} \in SUBSET Requests /\ IsFiniteSet({})
  BY <1>8, FS_EmptySet DEF Results
<1> DEFINE rest == <<AddPopup(n, c)>>
<1> HIDE DEF wanted, after, closed, n, rest
<1> QED
  BY <1>1, <1>2, <1>4, <1>5, <1>6, <1>7, <1>9, PluginThreadStep DEF rest

\* What a client leaves behind on the plugin thread.
LEMMA InstancesGoneGood ==
  ASSUME IInv, inbox # <<>>, UNCHANGED <<setting, asked, closing, screenVars, leaving>>,
         \A t \in Requests : ~Brings(Head(inbox), t),
         NEW c \in Clients, InstancesGone(c)
  PROVE  Good
<1>1. /\ connected' = connected \ {c}
      /\ popups' = [n \in Popups |-> IF popups[n].client = c
                                     THEN [popups[n] EXCEPT !.alive = FALSE] ELSE popups[n]]
  BY DEF InstancesGone
<1>2. Popups = 1 .. Len(popups) /\ Len(popups) \in Nat /\ \A n \in Popups : popups[n] \in Popup
  BY PopupNumbers DEF IInv
<1>3. \A n \in Popups : popups'[n] \in Popup /\ popups'[n].has = popups[n].has
  BY <1>1, <1>2 DEF Popup
<1>4. Popups' = Popups
  BY <1>1 DEF Popups
<1>5. popups' \in [1 .. Len(popups) -> Popup]
  BY <1>1, <1>2, <1>3
<1>6. popups' \in Seq(Popup)
  BY <1>2, <1>5
<1>7. connected' \in SUBSET Clients
  BY <1>1 DEF IInv, CallersInv
<1> DEFINE gone == {r \in PluginRequests : r.client = c /\ <<r.plugin, c>> \in live}
<1>8. CallersGone(gone)
  BY DEF InstancesGone
<1> HIDE DEF gone
<1> QED
  BY <1>3, <1>4, <1>6, <1>7, <1>8, CallersGoneGood

\* Whatever instruction the plugin thread takes.
LEMMA PluginThreadGood ==
  ASSUME IInv, PluginThread
  PROVE  Good
<1> DEFINE m == Head(inbox)
<1>1. inbox # <<>> /\ UNCHANGED <<setting, asked, closing, screenVars, leaving>>
  BY DEF PluginThread
<1>2. m \in ToPlugins(Popups)
  BY <1>1, HeadTailProperties DEF IInv, QueuesInv
<1>3. m.kind # "PromptRequest" => \A t \in Requests : ~Brings(m, t)
  BY DEF Brings
<1>4. UNCHANGED <<live, connected, popups>> =>
        /\ connected' \in SUBSET Clients
        /\ popups' \in Seq(Popup) /\ Popups' = Popups
        /\ \A n \in Popups : popups'[n].has = popups[n].has
  BY DEF IInv, CallersInv, QueuesInv, Popups
<1>5. CASE m.kind = "PromptRequest"
  BY <1>1, <1>2, <1>5, PluginKinds, StartGood DEF PluginThread
<1>6. CASE m.kind = "LoadPopup"
  <2>1. m.request \in Requests /\ m.client \in Clients
    BY <1>2, <1>6, PluginKinds
  <2>2. Attach(m.request, m.client) \/ Fail(m.request)
    BY <1>6 DEF PluginThread
  <2> QED
    BY <1>1, <1>3, <1>6, <2>1, <2>2, AttachGood, FailGood
<1>7. CASE m.kind = "PromptReplied"
  <2>1. m.popup \in Popups
    BY <1>2, <1>7, PluginKinds
  <2>2. Reply(m.popup, m.id)
    BY <1>7 DEF PluginThread
  <2> QED
    BY <1>1, <1>3, <1>7, <2>1, <2>2, ReplyGood
<1>8. CASE m.kind = "PromptPopupFailed"
  <2>1. m.request \in Requests
    BY <1>2, <1>8, PluginKinds
  <2>2. Fail(m.request)
    BY <1>8 DEF PluginThread
  <2> QED
    BY <1>1, <1>3, <1>8, <2>1, <2>2, FailGood
<1>9. CASE m.kind = "WithdrawPrompt"
  <2>1. CallersGone({m.request}) /\ UNCHANGED <<live, connected, popups>>
    BY <1>9 DEF PluginThread
  <2> QED
    BY <1>1, <1>3, <1>4, <1>9, <2>1, CallersGoneGood
<1>10. CASE m.kind = "Unload"
  <2>1. m.popup \in Popups
    BY <1>2, <1>10, PluginKinds
  <2>2. PromptClosed(m.popup)
    BY <1>10 DEF PluginThread
  <2> QED
    BY <1>1, <1>3, <1>10, <2>1, <2>2, PromptClosedGood
<1>11. CASE m.kind = "UnloadPlugin"
  <2> DEFINE gone == {r \in Requests : r.plugin = m.plugin}
  <2>1. CallersGone(gone) /\ UNCHANGED <<connected, popups>>
    BY <1>11 DEF PluginThread, CallerClosed
  <2>2. /\ connected' \in SUBSET Clients
        /\ popups' \in Seq(Popup) /\ Popups' = Popups
        /\ \A n \in Popups : popups'[n].has = popups[n].has
    BY <2>1 DEF IInv, CallersInv, QueuesInv, Popups
  <2> HIDE DEF gone
  <2> QED
    BY <1>1, <1>3, <1>11, <2>1, <2>2, CallersGoneGood
<1>12. CASE m.kind = "RemoveClient"
  <2>1. m.client \in Clients
    BY <1>2, <1>12, PluginKinds
  <2>2. InstancesGone(m.client)
    BY <1>12 DEF PluginThread
  <2> QED
    BY <1>1, <1>3, <1>12, <2>1, <2>2, InstancesGoneGood
<1> QED
  BY <1>2, <1>5, <1>6, <1>7, <1>8, <1>9, <1>10, <1>11, <1>12, PluginKinds
-----------------------------------------------------------------------------

\* A step of another actor leaves what is pending alone, and may ask.
LEMMA OtherStep ==
  ASSUME IInv, UNCHANGED <<setting, connected, pending>>, DialogueInv',
         popups' \in Seq(Popup), Popups' = Popups,
         \A n \in Popups : popups'[n].has = popups[n].has,
         inbox' \in Seq(ToPlugins(Popups)), Once(inbox'), screen' \in Seq(ToScreen(Popups)),
         asked' \in SUBSET Requests, sent' \in [Requests -> Seq(Results)],
         \A r \in Requests :
           \/ /\ r \in asked <=> r \in asked'
              /\ In(inbox', r) <=> In(inbox, r)
              /\ sent'[r] = sent[r]
           \/ /\ r \notin asked /\ r \in asked'
              /\ \/ In(inbox', r) /\ sent'[r] = sent[r]
                 \/ ~In(inbox', r) /\ sent'[r] = Append(sent[r], "error")
  PROVE  Good
<1>1. \A r \in Requests :
        /\ pending[r] > 0 => pending[r] \in Popups /\ popups[pending[r]].has = {r}
        /\ pending[r] # NotPending => r \in asked
        /\ In(inbox, r) => r \in asked /\ pending[r] = NotPending
  <2>1. \A r \in Requests : pending[r] > 0 => pending[r] \in Popups
    <3>1. \A r \in Requests : pending[r] \in {NotPending, Opening} \cup Popups
      BY DEF IInv, RequestsInv
    <3>2. ~(NotPending > 0) /\ ~(Opening > 0)
      BY DEF NotPending, Opening
    <3> QED
      BY <3>1, <3>2
  <2> QED
    BY <2>1 DEF IInv, RequestsInv, PlacesInv
<1>2. QueuesInv' /\ CallersInv'
  BY DEF IInv, QueuesInv, CallersInv
<1>3. \A r \in asked : r \in Requests => r \in asked'
  OBVIOUS
<1>4. RequestsInv'
  <2>1. pending' \in [Requests -> {NotPending, Opening} \cup Popups']
    BY DEF IInv, RequestsInv
  <2> QED
    BY <1>1, <1>3, <2>1 DEF RequestsInv
<1>5. PlacesInv'
  BY <1>1 DEF PlacesInv
<1>6. IInv'
  BY <1>2, <1>4, <1>5 DEF IInv
<1>7. ASSUME NEW r \in Requests
      PROVE  Quietly(r) \/ \E t \in Results : Told(r, t)
  <2>1. CASE /\ r \in asked <=> r \in asked'
             /\ In(inbox', r) <=> In(inbox, r)
             /\ sent'[r] = sent[r]
    BY <2>1 DEF Quietly, Here
  <2>2. CASE r \notin asked /\ r \in asked' /\ In(inbox', r) /\ sent'[r] = sent[r]
    <3>1. pending[r] = NotPending
      BY <1>1, <2>2
    <3>2. ~OnScreen(r)'
      BY <3>1 DEF OnScreen, NotPending
    <3> QED
      BY <2>2, <3>2 DEF Quietly, Here
  <2>3. CASE r \notin asked /\ r \in asked' /\ ~In(inbox', r) /\ sent'[r] = Append(sent[r], "error")
    <3>1. pending[r] = NotPending
      BY <1>1, <2>3
    <3>2. Told(r, "error")
      BY <2>3, <3>1 DEF Told, Here
    <3> QED
      BY <3>2 DEF Results
  <2> QED
    BY <2>1, <2>2, <2>3
<1> QED
  BY <1>6, <1>7, Concludes

\* Nothing is asked when what is added to the inbox brings no request.
LEMMA QuietStep ==
  ASSUME IInv, UNCHANGED <<setting, connected, pending, asked, sent>>, DialogueInv',
         popups' \in Seq(Popup), Popups' = Popups,
         \A n \in Popups : popups'[n].has = popups[n].has,
         screen' \in Seq(ToScreen(Popups)),
         NEW s \in Seq(ToPlugins(Popups)), Quiet(s), inbox' = inbox \o s
  PROVE  Good
<1>1. inbox \in Seq(ToPlugins(Popups)) /\ Once(inbox)
  BY DEF IInv, QueuesInv, PlacesInv
<1>2. /\ inbox' \in Seq(ToPlugins(Popups)) /\ Once(inbox')
      /\ \A r : In(inbox', r) <=> In(inbox, r)
  BY <1>1, QuietSuffix
<1>3. asked' \in SUBSET Requests /\ sent' \in [Requests -> Seq(Results)]
  BY DEF IInv, CallersInv, RequestsInv
<1> QED
  BY <1>2, <1>3, OtherStep

\* Nor when one message is added that brings none.
LEMMA QuietAppend ==
  ASSUME QueuesInv, NEW m \in ToPlugins(Popups), m.kind # "PromptRequest"
  PROVE  /\ <<m>> \in Seq(ToPlugins(Popups)) /\ Quiet(<<m>>)
         /\ Append(inbox, m) = inbox \o <<m>>
<1>1. inbox \in Seq(ToPlugins(Popups))
  BY DEF QueuesInv
<1> QED
  BY <1>1, AppendIsConcat DEF Quiet

\* Nor when nothing is added.
LEMMA NothingAdded ==
  ASSUME QueuesInv
  PROVE  <<>> \in Seq(ToPlugins(Popups)) /\ Quiet(<<>>) /\ inbox = inbox \o <<>>
<1>1. inbox \in Seq(ToPlugins(Popups))
  BY DEF QueuesInv
<1> QED
  BY <1>1, ConcatEmptySeq DEF Quiet

\* Showing or hiding a popup changes nothing else of it.
LEMMA ShownFacts ==
  ASSUME QueuesInv, NEW n \in Popups, NEW yes \in BOOLEAN, popups' = Shown(n, yes)
  PROVE  /\ popups' \in Seq(Popup) /\ Popups' = Popups
         /\ \A k \in Popups : popups'[k].has = popups[k].has
<1>1. popups \in Seq(Popup) /\ n \in 1 .. Len(popups) /\ popups[n] \in Popup
      /\ Popups = 1 .. Len(popups)
  BY PopupNumbers DEF QueuesInv
<1> DEFINE p == [popups[n] EXCEPT !.shown = yes]
<1>2. p \in Popup /\ p.has = popups[n].has
  BY <1>1 DEF Popup
<1>3. popups' = [popups EXCEPT ![n] = p]
  BY DEF Shown
<1> HIDE DEF p
<1>4. /\ popups' \in Seq(Popup) /\ Len(popups') = Len(popups)
      /\ \A k \in 1 .. Len(popups) : popups'[k] = IF k = n THEN p ELSE popups[k]
  BY <1>1, <1>2, <1>3, ExceptSeq
<1>5. Popups' = 1 .. Len(popups')
  BY <1>4 DEF Popups
<1> QED
  BY <1>1, <1>2, <1>4, <1>5

\* Popups that stay as they are.
LEMMA SamePopups ==
  ASSUME QueuesInv, popups' = popups
  PROVE  /\ popups' \in Seq(Popup) /\ Popups' = Popups
         /\ \A k \in Popups : popups'[k].has = popups[k].has
BY DEF QueuesInv, Popups

\* The close dialogues stay as they are.
LEMMA SameDialogues ==
  ASSUME DialogueInv, UNCHANGED <<screenVars, asked>>
  PROVE  DialogueInv'
BY DEF DialogueInv, screenVars

\* A withdrawal brings no request.
LEMMA WithdrawalFacts ==
  ASSUME PromptAssumption, DialogueInv, NEW c \in Clients
  PROVE  Withdrawal(c) \in Seq(ToPlugins(Popups)) /\ Quiet(Withdrawal(c))
<1>1. CASE close_prompts[c] = 0
  BY <1>1 DEF Withdrawal, Quiet
<1>2. CASE close_prompts[c] # 0
  <2> DEFINE r == DialogueRequest(c, close_prompts[c])
             m == About("WithdrawPrompt", r)
  <2>1. close_prompts[c] \in 1 .. MaxDialogues
    BY <1>2 DEF DialogueInv, Numbers, PromptAssumption
  <2>2. r \in Requests
    BY <2>1 DEF Requests
  <2> HIDE DEF r
  <2>3. m \in ToPlugins(Popups) /\ m.kind = "WithdrawPrompt"
    BY <2>2 DEF About, ToPlugins
  <2>4. Withdrawal(c) = <<m>>
    BY <1>2 DEF Withdrawal, r
  <2> HIDE DEF m
  <2> QED
    BY <2>3, <2>4 DEF Quiet
<1> QED
  BY <1>1, <1>2

LEMMA ScreenThreadGood ==
  ASSUME PromptAssumption, IInv, ScreenThread
  PROVE  Good
<1> DEFINE m == Head(screen)
<1>1. /\ screen # <<>> /\ screen' = Tail(screen)
      /\ UNCHANGED <<setting, asked, live, closing, connected, pending, sent>>
  BY DEF ScreenThread, callerVars
<1>2. QueuesInv /\ DialogueInv
  BY DEF IInv
<1>3. m \in ToScreen(Popups) /\ screen' \in Seq(ToScreen(Popups))
  BY <1>1, <1>2, HeadTailProperties DEF QueuesInv
<1>4. CASE m.kind = "OpenPromptPopup"
  <2> DEFINE r == m.request
             out == IF r.owner \in attached THEN Load(r, r.owner) ELSE About("PromptPopupFailed", r)
  <2>1. r \in Requests
    BY <1>3, <1>4, ScreenKinds
  <2>2. inbox' = Append(inbox, out) /\ UNCHANGED <<popups, screenVars, leaving>>
    BY <1>4 DEF ScreenThread, OpenPromptPopup
  <2>3. out \in ToPlugins(Popups) /\ out.kind # "PromptRequest"
    BY <1>2, <2>1 DEF Load, About, ToPlugins, DialogueInv
  <2> HIDE DEF out
  <2> QED
    BY <1>1, <1>2, <1>3, <2>2, <2>3, QuietAppend, SamePopups, SameDialogues, QuietStep
<1>5. CASE m.kind = "AddPopup"
  <2> DEFINE n == m.popup
             out == UnloadPopup(n)
  <2>1. n \in Popups
    BY <1>3, <1>5, ScreenKinds
  <2>2. /\ UNCHANGED screenVars
        /\ \/ popups' = Shown(n, TRUE) /\ inbox' = inbox
           \/ popups' = popups /\ inbox' = Append(inbox, out)
    BY <1>5 DEF ScreenThread, OnAddPopup
  <2>3. out \in ToPlugins(Popups) /\ out.kind # "PromptRequest"
    BY <2>1 DEF UnloadPopup, ToPlugins
  <2>4. DialogueInv'
    BY <1>1, <1>2, <2>2, SameDialogues
  <2> HIDE DEF out
  <2>5. CASE popups' = Shown(n, TRUE) /\ inbox' = inbox
    BY <1>1, <1>2, <1>3, <2>1, <2>4, <2>5, NothingAdded, ShownFacts, QuietStep
  <2>6. CASE popups' = popups /\ inbox' = Append(inbox, out)
    BY <1>1, <1>2, <1>3, <2>3, <2>4, <2>6, QuietAppend, SamePopups, QuietStep
  <2> QED
    BY <2>2, <2>5, <2>6
<1>6. CASE m.kind = "ClosePane"
  <2> DEFINE n == m.popup
  <2>1. n \in Popups
    BY <1>3, <1>6, ScreenKinds
  <2>2. popups' = Shown(n, FALSE) /\ UNCHANGED <<inbox, screenVars, leaving>>
    BY <1>6 DEF ScreenThread, OnClosePane
  <2> QED
    BY <1>1, <1>2, <1>3, <2>1, <2>2, NothingAdded, ShownFacts, SameDialogues, QuietStep
<1>7. CASE m.kind = "CloseDialogueAnswer"
  <2>1. /\ UNCHANGED <<attached, next_close_prompt_id, inbox, popups>>
        /\ \/ close_prompts' = close_prompts
           \/ close_prompts' = [close_prompts EXCEPT ![m.request.client] = 0]
    BY <1>7 DEF ScreenThread, CloseDialogueAnswer
  <2>2. DialogueInv'
    BY <1>1, <1>2, <2>1 DEF DialogueInv, Numbers, PromptAssumption
  <2> QED
    BY <1>1, <1>2, <1>3, <2>1, <2>2, NothingAdded, SamePopups, QuietStep
<1>8. CASE m.kind = "RemoveClient"
  <2> DEFINE c == m.client
             closed == {n \in Popups : popups[n].shown /\ popups[n].client = c}
  <2>1. c \in Clients
    BY <1>3, <1>8, ScreenKinds
  <2>2. /\ inbox' = inbox \o Each(UnloadPopup, closed) \o Withdrawal(c)
        /\ popups' = [n \in Popups |-> IF n \in closed THEN [popups[n] EXCEPT !.shown = FALSE]
                                       ELSE popups[n]]
        /\ close_prompts' = [close_prompts EXCEPT ![c] = 0]
        /\ attached' = attached \ {c}
        /\ UNCHANGED next_close_prompt_id
    BY <1>8 DEF ScreenThread, ScreenRemovesClient, DialogueForgotten
  <2>3. Each(UnloadPopup, closed) \in Seq(ToPlugins(Popups)) /\ Quiet(Each(UnloadPopup, closed))
    <3>1. closed \in SUBSET Popups /\ IsFiniteSet(closed)
      BY <1>2, PopupNumbers
    <3> HIDE DEF closed
    <3> QED
      BY <3>1, EachUnload
  <2> DEFINE e == Each(UnloadPopup, closed)
  <2>4. Withdrawal(c) \in Seq(ToPlugins(Popups)) /\ Quiet(Withdrawal(c))
    BY <1>2, <2>1, WithdrawalFacts
  <2>5. /\ e \o Withdrawal(c) \in Seq(ToPlugins(Popups)) /\ Quiet(e \o Withdrawal(c))
        /\ inbox' = inbox \o (e \o Withdrawal(c))
    <3>1. e \in Seq(ToPlugins(Popups)) /\ Quiet(e) /\ inbox' = inbox \o e \o Withdrawal(c)
      BY <2>2, <2>3
    <3> HIDE DEF e
    <3>2. inbox \in Seq(ToPlugins(Popups))
      BY <1>2 DEF QueuesInv
    <3>3. inbox' = inbox \o (e \o Withdrawal(c))
      BY <2>4, <3>1, <3>2, ConcatAssociative
    <3>4. /\ e \o Withdrawal(c) \in Seq(ToPlugins(Popups))
          /\ Len(e) \in Nat /\ Len(Withdrawal(c)) \in Nat
          /\ Len(e \o Withdrawal(c)) = Len(e) + Len(Withdrawal(c))
          /\ \A i \in 1 .. Len(e) + Len(Withdrawal(c)) :
               (e \o Withdrawal(c))[i] = IF i <= Len(e) THEN e[i] ELSE Withdrawal(c)[i - Len(e)]
      BY <2>4, <3>1, ConcatProperties, LenProperties
    <3>5. Quiet(e \o Withdrawal(c))
      BY <2>4, <3>1, <3>4 DEF Quiet
    <3> QED
      BY <3>3, <3>4, <3>5
  <2>6. /\ popups' \in Seq(Popup) /\ Popups' = Popups
        /\ \A k \in Popups : popups'[k].has = popups[k].has
    <3>1. Popups = 1 .. Len(popups) /\ Len(popups) \in Nat /\ \A n \in Popups : popups[n] \in Popup
      BY <1>2, PopupNumbers
    <3>2. \A n \in Popups : popups'[n] \in Popup /\ popups'[n].has = popups[n].has
      BY <2>2, <3>1 DEF Popup
    <3>3. Popups' = Popups
      BY <2>2 DEF Popups
    <3>4. popups' \in [1 .. Len(popups) -> Popup]
      BY <2>2, <3>1, <3>2
    <3> QED
      BY <3>1, <3>2, <3>3, <3>4
  <2>7. DialogueInv'
    BY <1>1, <1>2, <2>1, <2>2 DEF DialogueInv, Numbers, PromptAssumption
  <2> HIDE DEF e, closed
  <2> QED
    BY <1>1, <1>3, <2>5, <2>6, <2>7, QuietStep
<1> QED
  BY <1>3, <1>4, <1>5, <1>6, <1>7, <1>8, ScreenKinds

\* A close dialogue asks under a number of its own.
LEMMA ConfirmQuitGood ==
  ASSUME PromptAssumption, IInv, NEW c \in Clients, ConfirmQuit(c)
  PROVE  Good
<1>1. /\ c \in attached
      /\ UNCHANGED <<setting, live, closing, attached, connected, screen, pending, popups, sent>>
  BY DEF ConfirmQuit
<1>2. QueuesInv /\ DialogueInv /\ screen' \in Seq(ToScreen(Popups))
  BY <1>1 DEF IInv, QueuesInv
<1>3. CASE close_prompts[c] # 0
  <2>1. /\ inbox' = inbox \o Withdrawal(c)
        /\ close_prompts' = [close_prompts EXCEPT ![c] = 0]
        /\ UNCHANGED <<asked, next_close_prompt_id>>
    BY <1>3 DEF ConfirmQuit
  <2>2. DialogueInv'
    BY <1>1, <1>2, <2>1 DEF DialogueInv, Numbers, PromptAssumption
  <2> QED
    BY <1>1, <1>2, <2>1, <2>2, WithdrawalFacts, SamePopups, QuietStep
<1>4. CASE close_prompts[c] = 0
  <2> DEFINE n == next_close_prompt_id + 1
             r == DialogueRequest(c, n)
  <2>1. /\ n <= setting.dialogues
        /\ next_close_prompt_id' = n
        /\ close_prompts' = [close_prompts EXCEPT ![c] = n]
        /\ asked' = asked \cup {r}
        /\ inbox' = Append(inbox, About("PromptRequest", r))
    BY <1>4 DEF ConfirmQuit
  <2>2. n \in 1 .. MaxDialogues /\ n > next_close_prompt_id /\ n \in Numbers
    <3>1. setting.dialogues \in 0 .. MaxDialogues
      BY DEF IInv, CallersInv, Setting
    <3> QED
      BY <1>2, <2>1, <3>1 DEF DialogueInv, Numbers, PromptAssumption
  <2>3. r \in Requests
    BY <2>2 DEF Requests
  <2>4. r \notin asked
    BY <1>2, <2>2 DEF DialogueInv, Numbers
  <2>5. ~In(inbox, r)
    BY <2>3, <2>4 DEF IInv, PlacesInv
  <2>6. /\ inbox' \in Seq(ToPlugins(Popups)) /\ Once(inbox')
        /\ \A t : In(inbox', t) <=> In(inbox, t) \/ t = r
    <3> HIDE DEF r
    <3>1. About("PromptRequest", r) \in ToPlugins(Popups)
      BY <2>3 DEF About, ToPlugins
    <3>2. inbox \in Seq(ToPlugins(Popups)) /\ Once(inbox)
      BY DEF IInv, QueuesInv, PlacesInv
    <3> QED
      BY <2>1, <2>3, <2>5, <3>1, <3>2, NewRequest
  <2>7. DialogueInv'
    <3>1. \A d \in Clients, k \in Numbers : DialogueRequest(d, k) \in asked' => k <= n
      <4> SUFFICES ASSUME NEW d \in Clients, NEW k \in Numbers, DialogueRequest(d, k) \in asked'
                   PROVE  k <= n
        OBVIOUS
      <4>1. CASE DialogueRequest(d, k) \in asked
        BY <1>2, <2>2, <4>1 DEF DialogueInv, Numbers
      <4>2. CASE DialogueRequest(d, k) = r
        <5>1. DialogueRequest(d, k).id = k /\ r.id = n
          BY DEF DialogueRequest
        <5> QED
          BY <2>2, <4>2, <5>1 DEF Numbers
      <4> QED
        BY <2>1, <4>1, <4>2
    <3>2. close_prompts' \in [Clients -> Numbers]
      BY <1>2, <2>1, <2>2 DEF DialogueInv
    <3>3. \A d \in Clients : close_prompts'[d] <= n /\ (close_prompts'[d] # 0 => d \in attached)
      BY <1>1, <1>2, <2>1, <2>2 DEF DialogueInv, Numbers
    <3> QED
      BY <1>1, <1>2, <2>1, <2>2, <3>1, <3>2, <3>3 DEF DialogueInv
  <2>8. asked' \in SUBSET Requests /\ sent' \in [Requests -> Seq(Results)]
    BY <1>1, <2>1, <2>3 DEF IInv, CallersInv, RequestsInv
  <2> HIDE DEF r
  <2> QED
    BY <1>1, <1>2, <2>1, <2>4, <2>6, <2>7, <2>8, SamePopups, OtherStep
<1> QED
  BY <1>3, <1>4

\* A plugin asks, and an invalid request is answered at once.
LEMMA AskGood ==
  ASSUME PromptAssumption, IInv, NEW r \in PluginRequests, NEW valid \in BOOLEAN, Ask(r, valid)
  PROVE  Good
<1>1. /\ r \notin asked /\ asked' = asked \cup {r}
      /\ inbox' = IF valid THEN Append(inbox, About("PromptRequest", r)) ELSE inbox
      /\ sent' = IF valid THEN sent ELSE [sent EXCEPT ![r] = Append(@, "error")]
      /\ UNCHANGED <<setting, connected, screen, pending, popups, screenVars>>
  BY DEF Ask
<1>2. r \in Requests /\ r.plugin # Dialogue
  BY DEF Requests, PromptAssumption
<1>3. /\ QueuesInv /\ screen' \in Seq(ToScreen(Popups))
      /\ inbox \in Seq(ToPlugins(Popups)) /\ Once(inbox)
      /\ sent \in [Requests -> Seq(Results)]
      /\ asked' \in SUBSET Requests
  BY <1>1, <1>2 DEF IInv, QueuesInv, PlacesInv, RequestsInv, CallersInv
<1>4. DialogueInv'
  <2>1. \A c, n : DialogueRequest(c, n) # r
    BY <1>2 DEF DialogueRequest
  <2> QED
    BY <1>1, <2>1 DEF IInv, DialogueInv, screenVars
<1>5. ~In(inbox, r)
  BY <1>1, <1>2 DEF IInv, PlacesInv
<1>6. CASE valid
  <2>1. About("PromptRequest", r) \in ToPlugins(Popups)
    BY <1>2 DEF About, ToPlugins
  <2>2. /\ inbox' \in Seq(ToPlugins(Popups)) /\ Once(inbox')
        /\ \A t : In(inbox', t) <=> In(inbox, t) \/ t = r
    BY <1>1, <1>2, <1>3, <1>5, <1>6, <2>1, NewRequest
  <2>3. sent' = sent
    BY <1>1, <1>6
  <2> QED
    BY <1>1, <1>3, <1>4, <2>2, <2>3, SamePopups, OtherStep
<1>7. CASE ~valid
  <2>1. /\ inbox' = inbox
        /\ sent' = [sent EXCEPT ![r] = Append(sent[r], "error")]
    BY <1>1, <1>7
  <2>2. Append(sent[r], "error") \in Seq(Results)
    BY <1>2, <1>3 DEF Results
  <2>3. /\ sent' \in [Requests -> Seq(Results)]
        /\ sent'[r] = Append(sent[r], "error")
        /\ \A t \in Requests : t # r => sent'[t] = sent[t]
    BY <1>2, <1>3, <2>1, <2>2
  <2> QED
    BY <1>1, <1>3, <1>4, <1>5, <2>1, <2>3, SamePopups, OtherStep
<1> QED
  BY <1>6, <1>7

LEMMA AnswerGood ==
  ASSUME IInv, NEW n \in Popups, NEW r \in Requests, Answer(n, r)
  PROVE  Good
<1> DEFINE s == (IF r.notice THEN <<>> ELSE <<Replied(n, r.id)>>) \o <<UnloadPopup(n)>>
<1>1. /\ popups' = [popups EXCEPT ![n].finished = TRUE]
      /\ inbox' = inbox \o (IF r.notice THEN <<>> ELSE <<Replied(n, r.id)>>) \o <<UnloadPopup(n)>>
      /\ screen' = Append(screen, ClosePane(n))
      /\ UNCHANGED <<setting, connected, pending, asked, sent, screenVars>>
  BY DEF Answer, callerVars
<1>2. QueuesInv /\ DialogueInv
  BY DEF IInv
<1>3. /\ s \in Seq(ToPlugins(Popups)) /\ Quiet(s)
      /\ inbox' = inbox \o s
  <2> DEFINE a == IF r.notice THEN <<>> ELSE <<Replied(n, r.id)>>
             b == <<UnloadPopup(n)>>
             u == UnloadPopup(n)
             v == Replied(n, r.id)
  <2>1. u \in ToPlugins(Popups) /\ u.kind = "Unload"
    BY DEF UnloadPopup, ToPlugins
  <2>2. v \in ToPlugins(Popups) /\ v.kind = "PromptReplied"
    BY DEF Replied, ToPlugins
  <2>3. b = <<u>> /\ (a = <<>> \/ a = <<v>>) /\ s = a \o b /\ inbox' = inbox \o a \o b
    BY <1>1
  <2> HIDE DEF a, b, u, v, s
  <2>4. a \in Seq(ToPlugins(Popups)) /\ b \in Seq(ToPlugins(Popups)) /\ inbox \in Seq(ToPlugins(Popups))
    <3>1. <<u>> \in Seq(ToPlugins(Popups)) /\ <<v>> \in Seq(ToPlugins(Popups))
          /\ <<>> \in Seq(ToPlugins(Popups))
      BY <2>1, <2>2
    <3>2. inbox \in Seq(ToPlugins(Popups))
      BY <1>2 DEF QueuesInv
    <3> QED
      BY <2>3, <3>1, <3>2
  <2>5. inbox' = inbox \o s
    BY <2>3, <2>4, ConcatAssociative
  <2>6. s \in Seq(ToPlugins(Popups))
    BY <2>3, <2>4, ConcatProperties
  <2>7. Quiet(s)
    <3>1. CASE a = <<>>
      BY <2>1, <2>3, <2>4, <3>1, ConcatEmptySeq DEF Quiet
    <3>2. CASE a = <<v>>
      <4>1. Len(a) = 1 /\ Len(b) = 1 /\ a[1] = v /\ b[1] = u
        BY <2>3, <3>2
      <4>2. /\ Len(a \o b) = Len(a) + Len(b)
            /\ \A i \in 1 .. Len(a) + Len(b) :
                 (a \o b)[i] = IF i <= Len(a) THEN a[i] ELSE b[i - Len(a)]
        BY <2>4, ConcatProperties
      <4>3. Len(s) = 2 /\ s[1] = v /\ s[2] = u
        BY <2>3, <4>1, <4>2
      <4> QED
        BY <2>1, <2>2, <4>3 DEF Quiet
    <3> QED
      BY <2>3, <3>1, <3>2
  <2> QED
    BY <2>5, <2>6, <2>7
<1>4. /\ popups' \in Seq(Popup) /\ Popups' = Popups
      /\ \A k \in Popups : popups'[k].has = popups[k].has
  <2> DEFINE p == [popups[n] EXCEPT !.finished = TRUE]
  <2>1. popups \in Seq(Popup) /\ n \in 1 .. Len(popups) /\ popups[n] \in Popup
        /\ Popups = 1 .. Len(popups)
    BY <1>2, PopupNumbers DEF QueuesInv
  <2>2. p \in Popup /\ p.has = popups[n].has
    BY <2>1 DEF Popup
  <2>3. popups' = [popups EXCEPT ![n] = p]
    BY <1>1
  <2> HIDE DEF p
  <2>4. /\ popups' \in Seq(Popup) /\ Len(popups') = Len(popups)
        /\ \A k \in 1 .. Len(popups) : popups'[k] = IF k = n THEN p ELSE popups[k]
    BY <2>1, <2>2, <2>3, ExceptSeq
  <2>5. Popups' = 1 .. Len(popups')
    BY <2>4 DEF Popups
  <2> QED
    BY <2>1, <2>2, <2>4, <2>5
<1>5. screen' \in Seq(ToScreen(Popups))
  <2>1. ClosePane(n) \in ToScreen(Popups)
    BY DEF ClosePane, ToScreen
  <2> QED
    BY <1>1, <1>2, <2>1, AppendProperties DEF QueuesInv
<1>6. DialogueInv'
  BY <1>1, <1>2, SameDialogues
<1> HIDE DEF s
<1> QED
  BY <1>1, <1>3, <1>4, <1>5, <1>6, QuietStep

\* What a user, a plugin and the main loop do otherwise.
LEMMA ClosePopupGood ==
  ASSUME IInv, NEW n \in Popups, ClosePopup(n)
  PROVE  Good
<1>1. /\ popups' = Shown(n, FALSE) /\ inbox' = Append(inbox, UnloadPopup(n))
      /\ UNCHANGED <<setting, asked, connected, screen, pending, sent, screenVars>>
  BY DEF ClosePopup, callerVars
<1>2. UnloadPopup(n) \in ToPlugins(Popups) /\ UnloadPopup(n).kind # "PromptRequest"
  BY DEF UnloadPopup, ToPlugins
<1>3. QueuesInv /\ DialogueInv /\ screen' \in Seq(ToScreen(Popups))
  BY <1>1 DEF IInv, QueuesInv
<1> QED
  BY <1>1, <1>2, <1>3, QuietAppend, ShownFacts, SameDialogues, QuietStep

LEMMA UnloadCallerGood ==
  ASSUME PromptAssumption, IInv, NEW p \in Plugins, UnloadCaller(p)
  PROVE  Good
<1>1. /\ inbox' = Append(inbox, UnloadPlugin(p))
      /\ UNCHANGED <<setting, asked, connected, screen, pending, popups, sent, screenVars>>
  BY DEF UnloadCaller
<1>2. UnloadPlugin(p) \in ToPlugins(Popups) /\ UnloadPlugin(p).kind # "PromptRequest"
  BY DEF UnloadPlugin, ToPlugins
<1>3. QueuesInv /\ DialogueInv /\ screen' \in Seq(ToScreen(Popups))
  BY <1>1 DEF IInv, QueuesInv
<1> QED
  BY <1>1, <1>2, <1>3, QuietAppend, SamePopups, SameDialogues, QuietStep

LEMMA LeaveGood ==
  ASSUME IInv, NEW c \in Clients, Leave(c)
  PROVE  Good
<1>1. UNCHANGED <<setting, asked, connected, inbox, screen, pending, popups, sent, screenVars>>
  BY DEF Leave, callerVars
<1>2. QueuesInv /\ DialogueInv /\ screen' \in Seq(ToScreen(Popups))
  BY <1>1 DEF IInv, QueuesInv
<1> QED
  BY <1>1, <1>2, NothingAdded, SamePopups, SameDialogues, QuietStep

LEMMA MainLoopGood ==
  ASSUME IInv, NEW c \in Clients, MainLoop(c)
  PROVE  Good
<1> DEFINE m == RemoveClient(c)
<1>1. /\ \/ screen' = Append(screen, m) /\ inbox' = inbox
         \/ screen' = screen /\ inbox' = Append(inbox, m)
      /\ UNCHANGED <<setting, asked, connected, pending, popups, sent, screenVars>>
  BY DEF MainLoop, callerVars
<1>2. m \in ToPlugins(Popups) /\ m.kind # "PromptRequest" /\ m \in ToScreen(Popups)
  BY DEF RemoveClient, ToPlugins, ToScreen
<1>3. QueuesInv /\ DialogueInv /\ screen \in Seq(ToScreen(Popups))
  BY DEF IInv, QueuesInv
<1> HIDE DEF m
<1>4. CASE screen' = Append(screen, m) /\ inbox' = inbox
  <2>1. screen' \in Seq(ToScreen(Popups))
    BY <1>2, <1>3, <1>4, AppendProperties
  <2> QED
    BY <1>1, <1>3, <1>4, <2>1, NothingAdded, SamePopups, SameDialogues, QuietStep
<1>5. CASE screen' = screen /\ inbox' = Append(inbox, m)
  BY <1>1, <1>2, <1>3, <1>5, QuietAppend, SamePopups, SameDialogues, QuietStep
<1> QED
  BY <1>1, <1>4, <1>5

LEMMA NextGood ==
  ASSUME PromptAssumption, IInv, Next
  PROVE  Good
<1>1. CASE PluginThread
  BY <1>1, PluginThreadGood
<1>2. CASE ScreenThread
  BY <1>2, ScreenThreadGood
<1>3. CASE \E c \in Clients : ConfirmQuit(c) \/ Leave(c) \/ MainLoop(c)
  BY <1>3, ConfirmQuitGood, LeaveGood, MainLoopGood
<1>4. CASE \E n \in Popups : ClosePopup(n)
  BY <1>4, ClosePopupGood
<1>5. CASE \E n \in Popups, r \in Requests : Answer(n, r)
  BY <1>5, AnswerGood
<1>6. CASE \E r \in PluginRequests, valid \in BOOLEAN : Ask(r, valid)
  BY <1>6, AskGood
<1>7. CASE \E p \in Plugins : UnloadCaller(p)
  BY <1>7, UnloadCallerGood
<1> QED
  BY <1>1, <1>2, <1>3, <1>4, <1>5, <1>6, <1>7 DEF Next

\* The invariant holds at first, and then nothing has been asked.
LEMMA InitIInv ==
  ASSUME PromptAssumption, Init
  PROVE  IInv /\ Promise!Init
<1>1. Popups = {}
  BY DEF Init, Popups
<1>2. QueuesInv
  BY DEF Init, QueuesInv
<1>3. CallersInv
  BY DEF Init, CallersInv, PromptAssumption
<1>4. DialogueInv
  BY DEF Init, DialogueInv, Numbers, PromptAssumption
<1>5. RequestsInv
  <2>1. <<>> \in Seq(Results)
    OBVIOUS
  <2>2. ~(NotPending > 0)
    BY DEF NotPending
  <2> QED
    BY <2>1, <2>2 DEF Init, RequestsInv
<1>6. PlacesInv
  BY DEF Init, PlacesInv, Once, In
<1>7. \A r \in Requests : Phase(r) = "new"
  BY DEF Init, Phase
<1>8. Promise!Init
  BY <1>7 DEF Init, Promise!Init
<1> QED
  BY <1>2, <1>3, <1>4, <1>5, <1>6, <1>8 DEF IInv

LEMMA NextIInv ==
  ASSUME PromptAssumption, IInv, [Next]_vars
  PROVE  IInv' /\ [Promise!Next]_(Promise!vars) /\ [AnswerStep]_vars
<1>1. CASE Next
  BY <1>1, NextGood DEF Good
<1>2. CASE UNCHANGED vars
  <2>1. UNCHANGED <<setting, asked, connected, inbox, screen, pending, popups, sent, screenVars>>
    BY <1>2 DEF vars, callerVars
  <2>2. IInv'
    BY <2>1 DEF IInv, QueuesInv, CallersInv, DialogueInv, RequestsInv, PlacesInv, screenVars, Popups
  <2>3. \A r \in Requests : Phase(r)' = Phase(r)
    BY <2>1 DEF Phase, InFlight
  <2>4. UNCHANGED Promise!vars
    BY <2>1, <2>3 DEF Promise!vars
  <2> QED
    BY <1>2, <2>2, <2>4
<1> QED
  BY <1>1, <1>2

LEMMA SpecIInv == Spec => []IInv
<1>1. Init => IInv
  BY InitIInv, PromptAssumption
<1>2. IInv /\ [Next]_vars => IInv'
  BY NextIInv, PromptAssumption
<1> QED
  BY <1>1, <1>2, PTL DEF Spec
-----------------------------------------------------------------------------

\* Every variable keeps its type: a popup that a request waits for was given this
\* request and no other, and only a client that is attached has a close dialogue.
THEOREM PromptTypeCorrect == Spec => []TypeOK
<1>1. IInv => TypeOK
  <2> SUFFICES ASSUME IInv PROVE TypeOK
    OBVIOUS
  <2>1. asked \subseteq Requests /\ connected \subseteq Clients /\ attached \subseteq Clients
    BY DEF IInv, CallersInv, DialogueInv
  <2>2. \A r \in Requests :
          /\ pending[r] \in {NotPending, Opening} \cup Popups
          /\ pending[r] > 0 => popups[pending[r]].has = {r}
          /\ pending[r] # NotPending => r \in asked
          /\ sent[r] \in Seq(Results)
    BY DEF IInv, RequestsInv
  <2>3. \A c \in Clients : close_prompts[c] \in 0 .. next_close_prompt_id
                           /\ (close_prompts[c] # 0 => c \in attached)
    BY PromptAssumption DEF IInv, DialogueInv, Numbers
  <2> QED
    BY <2>1, <2>2, <2>3 DEF TypeOK
<1> QED
  BY <1>1, SpecIInv, PTL

\* reply: an answer goes to the request that its popup was given, whatever the other
\* requests with the same number, and whoever leaves or is unloaded meanwhile.
THEOREM AnswersReachTheirRequests == Spec => AnswersItsRequest
<1>1. IInv /\ [Next]_vars => [AnswerStep]_vars
  BY NextIInv, PromptAssumption
<1>2. AnswersItsRequest <=> [][AnswerStep]_vars
  BY PTL DEF AnswersItsRequest, AnswerStep
<1> QED
  BY <1>1, <1>2, SpecIInv, PTL DEF Spec

\* Every step keeps the promise: a request gets at most one result, and nothing comes
\* of it once it is settled.
THEOREM PromiseKeptSafely == Spec => Promise!Init /\ [][Promise!Next]_(Promise!vars)
<1>1. Init => Promise!Init
  BY InitIInv, PromptAssumption
<1>2. IInv /\ [Next]_vars => [Promise!Next]_(Promise!vars)
  BY NextIInv, PromptAssumption
<1> QED
  BY <1>1, <1>2, SpecIInv, PTL DEF Spec
-----------------------------------------------------------------------------

\* The answer to close dialogue r is in q.
Answers(m, r) == m.kind = "CloseDialogueAnswer" /\ m.request = r
Answered(q, r) == \E i \in 1 .. Len(q) : Answers(q[i], r)

\* The close dialogue of client c, if it has one, is on its way, pending or answered.
DialogueOf(c) == DialogueRequest(c, close_prompts[c])
Tracked(r) == Here(r) \/ Answered(screen, r)

\* A message that withdraws a close dialogue withdraws one its client no longer has.
Forgotten(m) ==
  m.kind = "WithdrawPrompt" =>
    /\ m.request.id \in 1 .. next_close_prompt_id
    /\ close_prompts[m.request.client] # m.request.id

TrackedInv ==
  /\ \A c \in Clients : close_prompts[c] # 0 => Tracked(DialogueOf(c))
  /\ \A i \in 1 .. Len(inbox) : Forgotten(inbox[i])

\* A client's close dialogue is a request of its own.
LEMMA DialogueFacts ==
  ASSUME PromptAssumption, DialogueInv, NEW c \in Clients, close_prompts[c] # 0
  PROVE  /\ DialogueOf(c) \in Requests /\ DialogueOf(c).plugin = Dialogue
         /\ DialogueOf(c).client = c /\ DialogueOf(c).id = close_prompts[c]
         /\ ~DialogueOf(c).notice
<1>1. close_prompts[c] \in 1 .. MaxDialogues
  BY DEF DialogueInv, Numbers, PromptAssumption
<1>2. DialogueOf(c) \in Requests
  BY <1>1 DEF DialogueOf, Requests
<1> QED
  BY <1>2 DEF DialogueOf, DialogueRequest

\* Every request is for a client.
LEMMA RequestClients ==
  ASSUME PromptAssumption, NEW r \in Requests
  PROVE  r.client \in Clients
BY DEF Requests, PromptAssumption, Request, DialogueRequest

\* The popups that are closed are only unloaded.
LEMMA UnloadsOnly ==
  ASSUME NEW S, IsFiniteSet(S)
  PROVE  \A k \in 1 .. Len(Each(UnloadPopup, S)) : Each(UnloadPopup, S)[k].kind = "Unload"
<1> DEFINE s == [k \in 1 .. Cardinality(S) |-> UnloadPopup(SetToSeq(S)[k])]
<1>1. Len(s) = Cardinality(S)
  BY FS_CardinalityType
<1>2. \A k \in 1 .. Len(s) : s[k].kind = "Unload"
  BY <1>1 DEF UnloadPopup
<1>3. Each(UnloadPopup, S) = s
  BY DEF Each
<1> QED
  BY <1>2, <1>3

\* What is in a queue stays in it when more is added.
LEMMA StaysQueued ==
  ASSUME NEW M, NEW q \in Seq(M), NEW s \in Seq(M), NEW r
  PROVE  /\ In(q, r) => In(q \o s, r)
         /\ Answered(q, r) => Answered(q \o s, r)
         /\ Answered(s, r) => Answered(q \o s, r)
<1>1. /\ Len(q) \in Nat /\ Len(s) \in Nat
      /\ Len(q \o s) = Len(q) + Len(s)
      /\ \A i \in 1 .. Len(q) : (q \o s)[i] = q[i]
      /\ \A i \in 1 .. Len(q) + Len(s) : i > Len(q) => (q \o s)[i] = s[i - Len(q)]
  BY ConcatProperties, LenProperties
<1>2. \A i \in 1 .. Len(q) : i \in 1 .. Len(q \o s)
  BY <1>1
<1>3. \A i \in 1 .. Len(s) : i + Len(q) \in 1 .. Len(q \o s) /\ (q \o s)[i + Len(q)] = s[i]
  BY <1>1
<1> QED
  BY <1>1, <1>2, <1>3 DEF In, Answered

\* Every message of two queues, one after the other, is of one of them.
LEMMA QueuedBefore ==
  ASSUME NEW M, NEW q \in Seq(M), NEW s \in Seq(M), NEW i \in 1 .. Len(q \o s)
  PROVE  \/ i \in 1 .. Len(q) /\ (q \o s)[i] = q[i]
         \/ \E j \in 1 .. Len(s) : (q \o s)[i] = s[j]
<1>1. /\ Len(q) \in Nat /\ Len(s) \in Nat
      /\ Len(q \o s) = Len(q) + Len(s)
      /\ \A k \in 1 .. Len(q) : (q \o s)[k] = q[k]
      /\ \A k \in 1 .. Len(q) + Len(s) : k > Len(q) => (q \o s)[k] = s[k - Len(q)]
  BY ConcatProperties, LenProperties
<1>2. CASE i <= Len(q)
  BY <1>1, <1>2
<1>3. CASE i > Len(q)
  <2>1. i - Len(q) \in 1 .. Len(s) /\ (q \o s)[i] = s[i - Len(q)]
    BY <1>1, <1>3
  <2> QED
    BY <2>1
<1> QED
  BY <1>1, <1>2, <1>3

\* The answer to one close dialogue.
LEMMA OneAnswer ==
  ASSUME NEW N, NEW r \in Requests, r.plugin = Dialogue, NEW result \in Results
  PROVE  Answered(Each(LAMBDA x : DialogueAnswer(x, result), {x \in {r} : x.plugin = Dialogue}), r)
<1> DEFINE S == {x \in {r} : x.plugin = Dialogue}
           s == [k \in 1 .. Cardinality(S) |-> DialogueAnswer(SetToSeq(S)[k], result)]
<1>1. S = {r}
  OBVIOUS
<1>2. IsFiniteSet(S) /\ Cardinality(S) = 1
  BY <1>1, FS_Singleton
<1>3. SetToSeq(S)[1] = r
  BY <1>1, <1>2, SetSequence
<1>4. Len(s) = 1 /\ s[1] = DialogueAnswer(r, result)
  BY <1>2, <1>3
<1>5. Each(LAMBDA x : DialogueAnswer(x, result), S) = s
  BY DEF Each
<1> HIDE DEF s
<1>6. Answers(s[1], r) /\ 1 \in 1 .. Len(s)
  BY <1>4 DEF Answers, DialogueAnswer
<1>7. Answered(s, r)
  BY <1>6 DEF Answered
<1> QED
  BY <1>5, <1>7

\* What apply_prompt_actions leaves of a close dialogue: it is left as it is, still pending,
\* or told, and then its answer is on its way to the screen thread.
LEMMA ApplyTracks ==
  ASSUME IInv, inbox # <<>>, NEW N, Popups \subseteq N,
         NEW after, NEW told \in SUBSET Requests, IsFiniteSet(told),
         NEW result \in Results, NEW closed \in SUBSET N, IsFiniteSet(closed),
         NEW rest \in Seq(ToScreen(N)),
         Apply(after, told, result, closed, rest),
         NEW r \in Requests, r.plugin = Dialogue, Tracked(r),
         \/ told = {r}
         \/ after[r] # NotPending
         \/ Left(r, after)
  PROVE  Tracked(r)'
<1> DEFINE a == Each(LAMBDA x : DialogueAnswer(x, result), {x \in told : x.plugin = Dialogue})
           b == Each(ClosePane, closed)
<1>1. screen' = screen \o rest \o a \o b /\ pending' = after
  BY DEF Apply
<1>2. a \in Seq(ToScreen(N)) /\ b \in Seq(ToScreen(N))
  <2> DEFINE d == {x \in told : x.plugin = Dialogue}
  <2>1. IsFiniteSet(d) /\ d \in SUBSET Requests
    BY FS_Subset
  <2>2. Each(LAMBDA x : DialogueAnswer(x, result), d) \in Seq(ToScreen(N))
    BY <2>1, EachAnswer
  <2>3. Each(ClosePane, closed) \in Seq(ToScreen(N))
    BY EachClose
  <2> QED
    BY <2>2, <2>3
<1>3. screen \in Seq(ToScreen(N))
  BY KindsGrow DEF IInv, QueuesInv
<1>4. told = {r} => Answered(a, r)
  BY OneAnswer
<1> HIDE DEF a, b
<1>5. screen \o rest \in Seq(ToScreen(N)) /\ screen \o rest \o a \in Seq(ToScreen(N))
  BY <1>2, <1>3, ConcatProperties
<1>6. Answered(screen, r) => Answered(screen', r)
  BY <1>1, <1>2, <1>3, <1>5, StaysQueued
<1>7. CASE told = {r}
  BY <1>1, <1>2, <1>4, <1>5, <1>7, StaysQueued DEF Tracked
<1>8. CASE after[r] # NotPending
  BY <1>1, <1>8 DEF Tracked, Here
<1>9. CASE Left(r, after)
  <2>1. In(inbox', r) <=> In(inbox, r) /\ ~Brings(Head(inbox), r)
    BY ApplyFacts
  <2> QED
    BY <1>1, <1>6, <1>9, <2>1 DEF Tracked, Here, Left
<1> QED
  BY <1>7, <1>8, <1>9

\* And it withdraws nothing.
LEMMA ApplyForgets ==
  ASSUME IInv, TrackedInv, inbox # <<>>, UNCHANGED screenVars, NEW N, Popups \subseteq N,
         NEW after, NEW told, NEW result, NEW closed \in SUBSET N, IsFiniteSet(closed),
         NEW rest, Apply(after, told, result, closed, rest)
  PROVE  \A i \in 1 .. Len(inbox') : Forgotten(inbox[i])'
<1> DEFINE e == Each(UnloadPopup, closed)
<1>1. inbox' = Tail(inbox) \o e
  BY DEF Apply
<1>2. e \in Seq(ToPlugins(N)) /\ \A k \in 1 .. Len(e) : e[k].kind = "Unload"
  BY EachUnload, UnloadsOnly
<1> HIDE DEF e
<1>3. inbox \in Seq(ToPlugins(N)) /\ Tail(inbox) \in Seq(ToPlugins(N))
  BY KindsGrow, HeadTailProperties DEF IInv, QueuesInv
<1>4. /\ Len(Tail(inbox)) = Len(inbox) - 1 /\ Len(inbox) \in Nat
      /\ \A j \in 1 .. Len(Tail(inbox)) : Tail(inbox)[j] = inbox[j + 1]
  BY <1>3, HeadTailProperties
<1> SUFFICES ASSUME NEW i \in 1 .. Len(inbox'), inbox'[i].kind = "WithdrawPrompt"
             PROVE  Forgotten(inbox[i])'
  BY DEF Forgotten
<1>5. i \in 1 .. Len(Tail(inbox)) /\ inbox'[i] = Tail(inbox)[i]
  <2> DEFINE q == Tail(inbox)
  <2>1. q \in Seq(ToPlugins(N)) /\ e \in Seq(ToPlugins(N)) /\ inbox' = q \o e
    BY <1>1, <1>2, <1>3
  <2> HIDE DEF q
  <2>2. \/ i \in 1 .. Len(q) /\ (q \o e)[i] = q[i]
        \/ \E j \in 1 .. Len(e) : (q \o e)[i] = e[j]
    BY <2>1, QueuedBefore
  <2>3. ~\E j \in 1 .. Len(e) : (q \o e)[i] = e[j]
    BY <1>2, <2>1
  <2> QED
    BY <2>1, <2>2, <2>3 DEF q
<1>6. i + 1 \in 1 .. Len(inbox) /\ inbox'[i] = inbox[i + 1]
  BY <1>4, <1>5
<1>7. Forgotten(inbox[i + 1])
  BY <1>6 DEF TrackedInv
<1> QED
  BY <1>6, <1>7 DEF Forgotten, screenVars

\* So a step of the plugin thread tracks the close dialogues.
LEMMA PluginThreadTracks ==
  ASSUME PromptAssumption, IInv, TrackedInv, inbox # <<>>, UNCHANGED screenVars,
         NEW N, Popups \subseteq N,
         NEW after, NEW told \in SUBSET Requests, IsFiniteSet(told),
         NEW result \in Results, NEW closed \in SUBSET N, IsFiniteSet(closed),
         NEW rest \in Seq(ToScreen(N)),
         Apply(after, told, result, closed, rest),
         \A c \in Clients : close_prompts[c] # 0 =>
           \/ told = {DialogueOf(c)}
           \/ after[DialogueOf(c)] # NotPending
           \/ Left(DialogueOf(c), after)
  PROVE  TrackedInv'
<1>1. \A i \in 1 .. Len(inbox') : Forgotten(inbox[i])'
  BY ApplyForgets
<1>2. ASSUME NEW c \in Clients, close_prompts'[c] # 0
      PROVE  Tracked(DialogueOf(c))'
  <2>0. PICK r : r = DialogueOf(c)
    OBVIOUS
  <2>1. close_prompts[c] # 0 /\ DialogueOf(c)' = r
    BY <1>2, <2>0 DEF screenVars, DialogueOf
  <2>2. r \in Requests /\ r.plugin = Dialogue /\ Tracked(r)
    BY <2>0, <2>1, DialogueFacts DEF IInv, TrackedInv
  <2>3. told = {r} \/ after[r] # NotPending \/ Left(r, after)
    BY <2>0, <2>1
  <2>4. Tracked(r)'
    BY <2>2, <2>3, ApplyTracks
  <2> QED
    BY <2>1, <2>4 DEF Tracked, Here
<1> QED
  BY <1>1, <1>2 DEF TrackedInv

\* The instructions of the plugin thread that can concern a close dialogue.
LEMMA StartTracks ==
  ASSUME PromptAssumption, IInv, TrackedInv, inbox # <<>>, UNCHANGED screenVars,
         Head(inbox).kind = "PromptRequest", Head(inbox).request \in Requests,
         Start(Head(inbox).request)
  PROVE  TrackedInv'
<1> DEFINE q == Head(inbox).request
           after == [pending EXCEPT ![q] = Opening]
           rest == <<About("OpenPromptPopup", q)>>
<1>1. Apply(after, {}, "error", {}, rest)
  BY DEF Start, Nobody
<1>2. rest \in Seq(ToScreen(Popups))
  <2>1. About("OpenPromptPopup", q) \in ToScreen(Popups)
    BY DEF About, ToScreen
  <2> QED
    BY <2>1
<1>3. {} \in SUBSET Popups /\ {} \in SUBSET Requests /\ IsFiniteSet({}) /\ "error" \in Results
  BY FS_EmptySet DEF Results
<1>4. ASSUME NEW r \in Requests
      PROVE  after[r] # NotPending \/ Left(r, after)
  BY DEF Left, Brings, IInv, RequestsInv, Opening, NotPending
<1>5. \A c \in Clients : close_prompts[c] # 0 => DialogueOf(c) \in Requests
  BY DialogueFacts DEF IInv
<1> HIDE DEF after, rest
<1> QED
  BY <1>1, <1>2, <1>3, <1>4, <1>5, PluginThreadTracks

LEMMA FailTracks ==
  ASSUME PromptAssumption, IInv, TrackedInv, inbox # <<>>, UNCHANGED screenVars,
         \A t \in Requests : ~Brings(Head(inbox), t),
         NEW q \in Requests, Fail(q)
  PROVE  TrackedInv'
<1> DEFINE after == Removed({q})
           told == {t \in {q} : pending[t] # NotPending}
<1>1. Apply(after, told, "error", {}, <<>>)
  BY DEF Fail
<1>2. <<>> \in Seq(ToScreen(Popups))
  BY EmptySeq
<1>3. {} \in SUBSET Popups /\ told \in SUBSET Requests /\ IsFiniteSet(told)
      /\ IsFiniteSet({}) /\ "error" \in Results
  BY FS_EmptySet, FS_Singleton, FS_Subset DEF Results
<1>4. ASSUME NEW r \in Requests
      PROVE  told = {r} \/ Left(r, after)
  <2>1. CASE r # q
    BY <2>1 DEF Left, Removed
  <2>2. CASE r = q /\ pending[q] = NotPending
    BY <2>2 DEF Left, Removed
  <2>3. CASE r = q /\ pending[q] # NotPending
    BY <2>3
  <2> QED
    BY <2>1, <2>2, <2>3
<1>5. \A c \in Clients : close_prompts[c] # 0 => DialogueOf(c) \in Requests
  BY DialogueFacts DEF IInv
<1> HIDE DEF after, told
<1> QED
  BY <1>1, <1>2, <1>3, <1>4, <1>5, PluginThreadTracks

LEMMA AttachTracks ==
  ASSUME PromptAssumption, IInv, TrackedInv, inbox # <<>>, UNCHANGED screenVars,
         \A t \in Requests : ~Brings(Head(inbox), t),
         NEW q \in Requests, NEW owner \in Clients, Attach(q, owner)
  PROVE  TrackedInv'
<1> DEFINE n == Len(popups) + 1
           wanted == {t \in {q} : pending[t] = Opening}
           after == [t \in Requests |-> IF t \in wanted THEN n ELSE pending[t]]
           closed == ClosedByAttach(q, n)
           N == Popups \cup {n}
<1>1. PICK c \in RunsFor(owner) : Apply(after, {}, "error", closed, <<AddPopup(n, c)>>)
  BY DEF Attach, Nobody
<1>2. c \in Clients
  BY DEF RunsFor, IInv, CallersInv
<1>3. n \in Nat /\ n > 0
  BY PopupNumbers DEF IInv
<1>4. closed \in SUBSET N /\ IsFiniteSet(closed) /\ Popups \subseteq N
  BY FS_EmptySet, FS_Singleton DEF ClosedByAttach
<1> DEFINE rest == <<AddPopup(n, c)>>
<1>5. rest \in Seq(ToScreen(N))
  <2>1. AddPopup(n, c) \in ToScreen(N)
    BY <1>2 DEF AddPopup, ToScreen
  <2> QED
    BY <2>1
<1>6. {} \in SUBSET Requests /\ IsFiniteSet({}) /\ "error" \in Results
  BY FS_EmptySet DEF Results
<1>7. ASSUME NEW r \in Requests
      PROVE  after[r] # NotPending \/ Left(r, after)
  BY <1>3 DEF Left, NotPending
<1>8. \A k \in Clients : close_prompts[k] # 0 => DialogueOf(k) \in Requests
  BY DialogueFacts DEF IInv
<1>9. Apply(after, {}, "error", closed, rest)
  BY <1>1
<1> HIDE DEF after, closed, rest, N
<1> QED
  BY <1>4, <1>5, <1>6, <1>7, <1>8, <1>9, PluginThreadTracks

LEMMA ReplyTracks ==
  ASSUME PromptAssumption, IInv, TrackedInv, inbox # <<>>, UNCHANGED screenVars,
         \A t \in Requests : ~Brings(Head(inbox), t),
         NEW n, NEW id, Reply(n, id)
  PROVE  TrackedInv'
<1>1. <<>> \in Seq(ToScreen(Popups)) /\ {} \in SUBSET Popups /\ {} \in SUBSET Requests
      /\ IsFiniteSet({}) /\ "answer" \in Results
  BY EmptySeq, FS_EmptySet DEF Results
<1>2. \A c \in Clients : close_prompts[c] # 0 => DialogueOf(c) \in Requests
  BY DialogueFacts DEF IInv
<1>3. CASE Apply(pending, Nobody, "answer", {}, <<>>)
  <2>1. Apply(pending, {}, "answer", {}, <<>>)
    BY <1>3 DEF Nobody
  <2>2. \A r \in Requests : Left(r, pending)
    BY DEF Left
  <2> QED
    BY <1>1, <1>2, <2>1, <2>2, PluginThreadTracks
<1>4. CASE \E q \in AnsweredBy(n, id) : Apply(Removed({q}), {q}, "answer", {}, <<>>)
  <2>1. PICK q \in AnsweredBy(n, id) : Apply(Removed({q}), {q}, "answer", {}, <<>>)
    BY <1>4
  <2>2. q \in Requests /\ IsFiniteSet({q})
    BY FS_Singleton DEF AnsweredBy
  <2> DEFINE after == Removed({q})
             told == {q}
  <2>3. ASSUME NEW r \in Requests
        PROVE  told = {r} \/ Left(r, after)
    BY DEF Left, Removed
  <2>4. Apply(after, told, "answer", {}, <<>>) /\ told \in SUBSET Requests /\ IsFiniteSet(told)
    BY <2>1, <2>2
  <2> HIDE DEF after, told
  <2> QED
    BY <1>1, <1>2, <2>3, <2>4, PluginThreadTracks
<1> QED
  BY <1>3, <1>4 DEF Reply

LEMMA PromptClosedTracks ==
  ASSUME PromptAssumption, IInv, TrackedInv, inbox # <<>>, UNCHANGED screenVars,
         \A t \in Requests : ~Brings(Head(inbox), t),
         NEW n \in Popups, PromptClosed(n)
  PROVE  TrackedInv'
<1> DEFINE gone == {r \in Requests : pending[r] = n}
           after == Removed(gone)
           told == ToldCancelled(gone)
<1>1. Apply(after, told, "cancelled", {}, <<>>)
  BY DEF PromptClosed
<1>2. \A q, r \in gone : q = r
  <2>1. n > 0
    BY PopupNumbers DEF IInv
  <2>2. \A r \in Requests : pending[r] > 0 => popups[pending[r]].has = {r}
    BY DEF IInv, RequestsInv
  <2>3. \A r \in gone : popups[n].has = {r}
    BY <2>1, <2>2
  <2> HIDE DEF gone
  <2> QED
    BY <2>3
<1>3. told \subseteq gone
  BY DEF ToldCancelled
<1>4. told \in SUBSET Requests /\ IsFiniteSet(told)
  <2>1. gone \in SUBSET Requests
    OBVIOUS
  <2> HIDE DEF gone, told
  <2>2. told = {} \/ \E r : told = {r}
    BY <1>2, <1>3
  <2>3. IsFiniteSet(told)
    BY <2>2, FS_EmptySet, FS_Singleton
  <2> QED
    BY <1>3, <2>1, <2>3
<1>5. {} \in SUBSET Popups /\ IsFiniteSet({}) /\ <<>> \in Seq(ToScreen(Popups))
      /\ "cancelled" \in Results
  BY FS_EmptySet, EmptySeq DEF Results
<1>6. ASSUME NEW r \in Requests, ~r.notice
      PROVE  told = {r} \/ Left(r, after)
  <2>1. CASE r \in gone
    <3>1. r \in told
      BY <1>6, <2>1 DEF ToldCancelled
    <3> QED
      BY <1>2, <1>3, <3>1
  <2>2. CASE r \notin gone
    BY <2>2 DEF Left, Removed
  <2> QED
    BY <2>1, <2>2
<1>7. \A c \in Clients : close_prompts[c] # 0 => DialogueOf(c) \in Requests /\ ~DialogueOf(c).notice
  BY DialogueFacts DEF IInv
<1> HIDE DEF gone, after, told
<1> QED
  BY <1>1, <1>4, <1>5, <1>6, <1>7, PluginThreadTracks

\* callers_gone removes no close dialogue that a client still has.
LEMMA CallersGoneTracks ==
  ASSUME PromptAssumption, IInv, TrackedInv, inbox # <<>>, UNCHANGED screenVars,
         \A t \in Requests : ~Brings(Head(inbox), t),
         NEW gone, CallersGone(gone),
         \A c \in Clients : close_prompts[c] # 0 => DialogueOf(c) \notin gone
  PROVE  TrackedInv'
<1> DEFINE after == Removed(gone)
           closed == {n \in Popups : \E r \in gone : pending[r] = n}
<1>1. Apply(after, {}, "error", closed, <<>>)
  BY DEF CallersGone, Nobody
<1>2. closed \in SUBSET Popups /\ IsFiniteSet(closed)
  BY PopupNumbers DEF IInv
<1>3. {} \in SUBSET Requests /\ IsFiniteSet({}) /\ <<>> \in Seq(ToScreen(Popups)) /\ "error" \in Results
  BY FS_EmptySet, EmptySeq DEF Results
<1>4. \A c \in Clients : close_prompts[c] # 0 => Left(DialogueOf(c), after)
  <2>1. \A r \in Requests : r \notin gone => Left(r, after)
    BY DEF Left, Removed
  <2>2. \A c \in Clients : close_prompts[c] # 0 => DialogueOf(c) \in Requests
    BY DialogueFacts DEF IInv
  <2> QED
    BY <2>1, <2>2
<1> HIDE DEF after, closed
<1> QED
  BY <1>1, <1>2, <1>3, <1>4, PluginThreadTracks

\* Whatever instruction the plugin thread takes, it tracks the close dialogues.
LEMMA PluginThreadKeepsTrack ==
  ASSUME PromptAssumption, IInv, TrackedInv, PluginThread
  PROVE  TrackedInv'
<1> DEFINE m == Head(inbox)
<1>1. inbox # <<>> /\ UNCHANGED screenVars
  BY DEF PluginThread
<1>2. m \in ToPlugins(Popups) /\ m = inbox[1] /\ 1 \in 1 .. Len(inbox)
  BY <1>1, HeadTailProperties DEF IInv, QueuesInv
<1>3. m.kind # "PromptRequest" => \A t \in Requests : ~Brings(m, t)
  BY DEF Brings
<1>4. \A c \in Clients : close_prompts[c] # 0 =>
        /\ DialogueOf(c) \in Requests /\ DialogueOf(c).plugin = Dialogue
        /\ DialogueOf(c).client = c /\ DialogueOf(c).id = close_prompts[c]
  BY DialogueFacts DEF IInv
<1>5. CASE m.kind = "PromptRequest"
  BY <1>1, <1>2, <1>5, PluginKinds, StartTracks DEF PluginThread
<1>6. CASE m.kind = "LoadPopup"
  <2>1. m.request \in Requests /\ m.client \in Clients
    BY <1>2, <1>6, PluginKinds
  <2>2. Attach(m.request, m.client) \/ Fail(m.request)
    BY <1>6 DEF PluginThread
  <2> QED
    BY <1>1, <1>3, <1>6, <2>1, <2>2, AttachTracks, FailTracks
<1>7. CASE m.kind = "PromptReplied"
  <2>1. Reply(m.popup, m.id)
    BY <1>7 DEF PluginThread
  <2> QED
    BY <1>1, <1>3, <1>7, <2>1, ReplyTracks
<1>8. CASE m.kind = "PromptPopupFailed"
  <2>1. m.request \in Requests
    BY <1>2, <1>8, PluginKinds
  <2>2. Fail(m.request)
    BY <1>8 DEF PluginThread
  <2> QED
    BY <1>1, <1>3, <1>8, <2>1, <2>2, FailTracks
<1>9. CASE m.kind = "WithdrawPrompt"
  <2>1. CallersGone({m.request})
    BY <1>9 DEF PluginThread
  <2>2. close_prompts[m.request.client] # m.request.id
    BY <1>2, <1>9 DEF TrackedInv, Forgotten
  <2>3. \A c \in Clients : close_prompts[c] # 0 => DialogueOf(c) \notin {m.request}
    BY <1>4, <2>2
  <2> DEFINE gone == {m.request}
  <2> HIDE DEF gone
  <2> QED
    BY <1>1, <1>3, <1>9, <2>1, <2>3, CallersGoneTracks DEF gone
<1>10. CASE m.kind = "Unload"
  <2>1. m.popup \in Popups
    BY <1>2, <1>10, PluginKinds
  <2>2. PromptClosed(m.popup)
    BY <1>10 DEF PluginThread
  <2> QED
    BY <1>1, <1>3, <1>10, <2>1, <2>2, PromptClosedTracks
<1>11. CASE m.kind = "UnloadPlugin"
  <2> DEFINE gone == {r \in Requests : r.plugin = m.plugin}
  <2>1. CallersGone(gone)
    BY <1>11 DEF PluginThread, CallerClosed
  <2>2. m.plugin \in Plugins
    BY <1>2, <1>11 DEF ToPlugins
  <2>3. \A c \in Clients : close_prompts[c] # 0 => DialogueOf(c) \notin gone
    BY <1>4, <2>2 DEF PromptAssumption
  <2> HIDE DEF gone
  <2> QED
    BY <1>1, <1>3, <1>11, <2>1, <2>3, CallersGoneTracks
<1>12. CASE m.kind = "RemoveClient"
  <2> DEFINE gone == {r \in PluginRequests : r.client = m.client /\ <<r.plugin, m.client>> \in live}
  <2>1. CallersGone(gone)
    BY <1>12 DEF PluginThread, InstancesGone
  <2>2. \A r \in gone : r.plugin # Dialogue
    BY DEF PromptAssumption
  <2>3. \A c \in Clients : close_prompts[c] # 0 => DialogueOf(c) \notin gone
    BY <1>4, <2>2
  <2> HIDE DEF gone
  <2> QED
    BY <1>1, <1>3, <1>12, <2>1, <2>3, CallersGoneTracks
<1> QED
  BY <1>2, <1>5, <1>6, <1>7, <1>8, <1>9, <1>10, <1>11, <1>12, PluginKinds

\* A step of another actor that adds to the inbox, and may end a close dialogue.
LEMMA OthersTrack ==
  ASSUME PromptAssumption, IInv, TrackedInv, UNCHANGED <<pending, next_close_prompt_id>>,
         NEW s \in Seq(ToPlugins(Popups)), inbox' = inbox \o s,
         \A i \in 1 .. Len(s) : Forgotten(s[i])',
         \A c \in Clients :
           \/ close_prompts'[c] = 0
           \/ /\ close_prompts'[c] = close_prompts[c]
              /\ Answered(screen, DialogueOf(c)) => Answered(screen', DialogueOf(c))
  PROVE  TrackedInv'
<1>1. inbox \in Seq(ToPlugins(Popups))
  BY DEF IInv, QueuesInv
<1>2. ASSUME NEW c \in Clients, close_prompts'[c] # 0
      PROVE  Tracked(DialogueOf(c))'
  <2>1. PICK r : r = DialogueOf(c)
    OBVIOUS
  <2>2. close_prompts[c] # 0 /\ DialogueOf(c)' = r
    BY <1>2, <2>1 DEF DialogueOf
  <2>3. Tracked(r)
    BY <2>1, <2>2 DEF TrackedInv
  <2>4. In(inbox, r) => In(inbox', r)
    BY <1>1, StaysQueued
  <2>5. Answered(screen, r) => Answered(screen', r)
    BY <1>2, <2>1
  <2>6. Tracked(r)'
    BY <2>3, <2>4, <2>5 DEF Tracked, Here
  <2> QED
    BY <2>2, <2>6 DEF Tracked, Here
<1>3. ASSUME NEW i \in 1 .. Len(inbox')
      PROVE  Forgotten(inbox[i])'
  <2>1. CASE i \in 1 .. Len(inbox) /\ inbox'[i] = inbox[i]
    <3>1. Forgotten(inbox[i])
      BY <2>1 DEF TrackedInv
    <3>2. inbox[i].kind = "WithdrawPrompt" => inbox[i].request.client \in Clients
      BY <1>1, <2>1, PluginKinds, RequestClients
    <3>3. inbox[i].kind = "WithdrawPrompt" => inbox[i].request.id # 0
      BY <3>1 DEF Forgotten
    <3> QED
      BY <2>1, <3>1, <3>2, <3>3 DEF Forgotten
  <2>2. CASE \E j \in 1 .. Len(s) : inbox'[i] = s[j]
    BY <2>2 DEF Forgotten
  <2> QED
    BY <1>1, <2>1, <2>2, QueuedBefore
<1> QED
  BY <1>2, <1>3 DEF TrackedInv

\* Most of them leave the close dialogues alone.
LEMMA BystanderTracks ==
  ASSUME PromptAssumption, IInv, TrackedInv,
         UNCHANGED <<pending, next_close_prompt_id, close_prompts>>,
         NEW s \in Seq(ToPlugins(Popups)), inbox' = inbox \o s,
         \A i \in 1 .. Len(s) : s[i].kind # "WithdrawPrompt",
         \A c \in Clients : close_prompts[c] # 0 =>
           (Answered(screen, DialogueOf(c)) => Answered(screen', DialogueOf(c)))
  PROVE  TrackedInv'
<1>1. \A i \in 1 .. Len(s) : Forgotten(s[i])'
  BY DEF Forgotten
<1>2. \A c \in Clients :
        \/ close_prompts'[c] = 0
        \/ /\ close_prompts'[c] = close_prompts[c]
           /\ Answered(screen, DialogueOf(c)) => Answered(screen', DialogueOf(c))
  OBVIOUS
<1> QED
  BY <1>1, <1>2, OthersTrack

\* A message is one more, or there is none.
LEMMA OneMore ==
  ASSUME IInv, NEW m \in ToPlugins(Popups)
  PROVE  /\ <<m>> \in Seq(ToPlugins(Popups)) /\ Append(inbox, m) = inbox \o <<m>>
         /\ \A i \in 1 .. Len(<<m>>) : <<m>>[i] = m
         /\ <<>> \in Seq(ToPlugins(Popups)) /\ inbox = inbox \o <<>> /\ Len(<<>>) = 0
<1>1. inbox \in Seq(ToPlugins(Popups))
  BY DEF IInv, QueuesInv
<1>2. <<m>> \in Seq(ToPlugins(Popups)) /\ \A i \in 1 .. Len(<<m>>) : <<m>>[i] = m
  OBVIOUS
<1>3. Append(inbox, m) = inbox \o <<m>>
  BY <1>1, AppendIsConcat
<1>4. <<>> \in Seq(ToPlugins(Popups)) /\ inbox = inbox \o <<>> /\ Len(<<>>) = 0
  BY <1>1, ConcatEmptySeq
<1> QED
  BY <1>2, <1>3, <1>4

\* What is added to the screen thread's queue hides no answer.
LEMMA AnswersStay ==
  ASSUME IInv, NEW m \in ToScreen(Popups)
  PROVE  \A r : Answered(screen, r) => Answered(Append(screen, m), r)
<1>1. screen \in Seq(ToScreen(Popups))
  BY DEF IInv, QueuesInv
<1>2. /\ Len(Append(screen, m)) = Len(screen) + 1 /\ Len(screen) \in Nat
      /\ \A i \in 1 .. Len(screen) : Append(screen, m)[i] = screen[i]
  BY <1>1, AppendProperties
<1> QED
  BY <1>2 DEF Answered

\* The withdrawal of a client's close dialogue is forgotten when the client is.
LEMMA WithdrawalForgotten ==
  ASSUME PromptAssumption, IInv, NEW c \in Clients, UNCHANGED next_close_prompt_id,
         close_prompts' = [close_prompts EXCEPT ![c] = 0],
         NEW s, s = Withdrawal(c)
  PROVE  \A i \in 1 .. Len(s) : Forgotten(s[i])'
<1>1. CASE close_prompts[c] = 0
  BY <1>1 DEF Withdrawal
<1>2. CASE close_prompts[c] # 0
  <2> DEFINE m == About("WithdrawPrompt", DialogueOf(c))
  <2>1. Withdrawal(c) = <<m>>
    BY <1>2 DEF Withdrawal, DialogueOf
  <2>2. m.request.id = close_prompts[c] /\ m.request.client = c
    BY <1>2, DialogueFacts DEF IInv, About
  <2>3. close_prompts[c] \in 1 .. next_close_prompt_id
    BY <1>2 DEF IInv, DialogueInv, Numbers, PromptAssumption
  <2>4. close_prompts'[c] = 0
    BY DEF IInv, DialogueInv
  <2> HIDE DEF m
  <2>5. Len(s) = 1 /\ s[1] = m
    BY <2>1
  <2> SUFFICES ASSUME NEW i \in 1 .. Len(s)
               PROVE  Forgotten(s[i])'
    OBVIOUS
  <2>6. s[i].request.id = close_prompts[c] /\ s[i].request.client = c
    BY <2>2, <2>5
  <2> QED
    BY <2>3, <2>4, <2>6 DEF Forgotten
<1> QED
  BY <1>1, <1>2

\* The screen thread forgets a client's close dialogue when it takes its answer, and
\* withdraws it when the client goes.
LEMMA ScreenThreadTracks ==
  ASSUME PromptAssumption, IInv, TrackedInv, ScreenThread
  PROVE  TrackedInv'
<1> DEFINE m == Head(screen)
<1>1. /\ screen # <<>> /\ screen' = Tail(screen)
      /\ UNCHANGED <<setting, asked, live, closing, connected, pending, sent>>
  BY DEF ScreenThread, callerVars
<1>2. QueuesInv /\ DialogueInv
  BY DEF IInv
<1>3. m \in ToScreen(Popups)
  BY <1>1, <1>2, HeadTailProperties DEF QueuesInv
<1>4. ASSUME NEW r, ~Answers(m, r), Answered(screen, r) PROVE Answered(screen', r)
  <2>1. /\ screen \in Seq(ToScreen(Popups))
        /\ Len(Tail(screen)) = Len(screen) - 1 /\ Len(screen) \in Nat /\ Len(screen) > 0
        /\ m = screen[1]
        /\ \A k \in 1 .. Len(Tail(screen)) : Tail(screen)[k] = screen[k + 1]
    BY <1>1, <1>2, HeadTailProperties DEF QueuesInv
  <2>2. PICK k \in 1 .. Len(screen) : Answers(screen[k], r)
    BY <1>4 DEF Answered
  <2>3. k # 1
    BY <1>4, <2>1, <2>2
  <2>4. k - 1 \in 1 .. Len(screen') /\ screen'[k - 1] = screen[k]
    BY <1>1, <2>1, <2>3
  <2> QED
    BY <2>2, <2>4 DEF Answered
<1>5. m.kind # "CloseDialogueAnswer" =>
        \A c \in Clients : Answered(screen, DialogueOf(c)) => Answered(screen', DialogueOf(c))
  BY <1>4 DEF Answers
<1>6. CASE m.kind = "OpenPromptPopup"
  <2> DEFINE r == m.request
             out == IF r.owner \in attached THEN Load(r, r.owner) ELSE About("PromptPopupFailed", r)
  <2>1. r \in Requests
    BY <1>3, <1>6, ScreenKinds
  <2>2. inbox' = Append(inbox, out) /\ UNCHANGED screenVars
    BY <1>6 DEF ScreenThread, OpenPromptPopup
  <2>3. out \in ToPlugins(Popups) /\ out.kind # "WithdrawPrompt"
    BY <1>2, <2>1 DEF Load, About, ToPlugins, DialogueInv
  <2> DEFINE s == <<out>>
  <2> HIDE DEF out
  <2>4. /\ s \in Seq(ToPlugins(Popups)) /\ inbox' = inbox \o s
        /\ \A i \in 1 .. Len(s) : s[i].kind # "WithdrawPrompt"
    BY <2>2, <2>3, OneMore
  <2> HIDE DEF s
  <2> QED
    BY <1>1, <1>5, <1>6, <2>2, <2>4, BystanderTracks DEF screenVars
<1>7. CASE m.kind = "AddPopup"
  <2> DEFINE out == UnloadPopup(m.popup)
             s == <<out>>
             none == <<>>
  <2>1. m.popup \in Popups
    BY <1>3, <1>7, ScreenKinds
  <2>2. UNCHANGED screenVars /\ (inbox' = inbox \/ inbox' = Append(inbox, out))
    BY <1>7 DEF ScreenThread, OnAddPopup
  <2>3. out \in ToPlugins(Popups) /\ out.kind # "WithdrawPrompt"
    BY <2>1 DEF UnloadPopup, ToPlugins
  <2> HIDE DEF out
  <2>4. /\ s \in Seq(ToPlugins(Popups)) /\ Append(inbox, out) = inbox \o s
        /\ \A i \in 1 .. Len(s) : s[i].kind # "WithdrawPrompt"
        /\ none \in Seq(ToPlugins(Popups)) /\ inbox = inbox \o none
        /\ \A i \in 1 .. Len(none) : none[i].kind # "WithdrawPrompt"
    BY <2>3, OneMore
  <2> HIDE DEF s, none
  <2> QED
    BY <1>1, <1>5, <1>7, <2>2, <2>4, BystanderTracks DEF screenVars
<1>8. CASE m.kind = "ClosePane"
  <2> DEFINE none == <<>>
  <2>1. UNCHANGED screenVars /\ inbox' = inbox
    BY <1>8 DEF ScreenThread, OnClosePane
  <2>2. none \in Seq(ToPlugins(Popups)) /\ inbox' = inbox \o none
        /\ \A i \in 1 .. Len(none) : none[i].kind # "WithdrawPrompt"
    BY <1>2, <2>1, NothingAdded
  <2> HIDE DEF none
  <2> QED
    BY <1>1, <1>5, <1>8, <2>1, <2>2, BystanderTracks DEF screenVars
<1>9. CASE m.kind = "CloseDialogueAnswer"
  <2> DEFINE r == m.request
             none == <<>>
  <2>1. /\ UNCHANGED <<attached, next_close_prompt_id, inbox, popups>>
        /\ IF close_prompts[r.client] # r.id THEN close_prompts' = close_prompts
           ELSE close_prompts' = [close_prompts EXCEPT ![r.client] = 0]
    BY <1>9 DEF ScreenThread, CloseDialogueAnswer
  <2>2. /\ none \in Seq(ToPlugins(Popups)) /\ inbox' = inbox \o none
        /\ \A i \in 1 .. Len(none) : Forgotten(none[i])'
    BY <1>2, <2>1, NothingAdded
  <2>3. close_prompts \in [Clients -> Numbers]
    BY <1>2 DEF DialogueInv
  <2>4. ASSUME NEW c \in Clients, close_prompts'[c] # 0
        PROVE  /\ close_prompts'[c] = close_prompts[c]
               /\ Answered(screen, DialogueOf(c)) => Answered(screen', DialogueOf(c))
    <3>1. close_prompts'[c] = close_prompts[c]
      BY <2>1, <2>3, <2>4
    <3>2. DialogueOf(c) # r
      <4>1. DialogueOf(c).client = c /\ DialogueOf(c).id = close_prompts[c]
        BY <1>2, <2>4, <3>1, DialogueFacts
      <4> QED
        BY <2>1, <2>3, <2>4, <4>1
    <3> QED
      BY <1>4, <3>1, <3>2 DEF Answers
  <2> HIDE DEF none
  <2> QED
    BY <1>1, <2>1, <2>2, <2>4, OthersTrack
<1>10. CASE m.kind = "RemoveClient"
  <2> DEFINE c == m.client
             closed == {n \in Popups : popups[n].shown /\ popups[n].client = c}
             e == Each(UnloadPopup, closed)
  <2>1. c \in Clients
    BY <1>3, <1>10, ScreenKinds
  <2>2. /\ inbox' = inbox \o e \o Withdrawal(c)
        /\ close_prompts' = [close_prompts EXCEPT ![c] = 0]
        /\ UNCHANGED next_close_prompt_id
    BY <1>10 DEF ScreenThread, ScreenRemovesClient, DialogueForgotten
  <2>3. PICK w : w = Withdrawal(c)
    OBVIOUS
  <2>4. PICK u : u = e
    OBVIOUS
  <2>5. u \in Seq(ToPlugins(Popups)) /\ \A k \in 1 .. Len(u) : u[k].kind = "Unload"
    <3>1. closed \in SUBSET Popups /\ IsFiniteSet(closed)
      BY <1>2, PopupNumbers
    <3> HIDE DEF closed
    <3> QED
      BY <2>4, <3>1, EachUnload, UnloadsOnly
  <2> HIDE DEF c, e
  <2>6. w \in Seq(ToPlugins(Popups)) /\ \A k \in 1 .. Len(w) : Forgotten(w[k])'
    BY <1>2, <2>1, <2>2, <2>3, WithdrawalFacts, WithdrawalForgotten
  <2>7. inbox \in Seq(ToPlugins(Popups))
    BY <1>2 DEF QueuesInv
  <2>8. inbox' = inbox \o (u \o w) /\ u \o w \in Seq(ToPlugins(Popups))
    BY <2>2, <2>3, <2>4, <2>5, <2>6, <2>7, ConcatAssociative, ConcatProperties
  <2>9. ASSUME NEW k \in 1 .. Len(u \o w) PROVE Forgotten((u \o w)[k])'
    <3>1. \/ k \in 1 .. Len(u) /\ (u \o w)[k] = u[k]
          \/ \E j \in 1 .. Len(w) : (u \o w)[k] = w[j]
      BY <2>5, <2>6, QueuedBefore
    <3>2. CASE k \in 1 .. Len(u) /\ (u \o w)[k] = u[k]
      BY <2>5, <3>2 DEF Forgotten
    <3>3. CASE \E j \in 1 .. Len(w) : (u \o w)[k] = w[j]
      BY <2>6, <3>3
    <3> QED
      BY <3>1, <3>2, <3>3
  <2>10. ASSUME NEW d \in Clients, close_prompts'[d] # 0
         PROVE  /\ close_prompts'[d] = close_prompts[d]
                /\ Answered(screen, DialogueOf(d)) => Answered(screen', DialogueOf(d))
    BY <1>2, <1>5, <1>10, <2>2, <2>10 DEF DialogueInv
  <2>11. PICK s : s = u \o w
    OBVIOUS
  <2> QED
    BY <1>1, <2>2, <2>8, <2>9, <2>10, <2>11, OthersTrack
<1> QED
  BY <1>3, <1>6, <1>7, <1>8, <1>9, <1>10, ScreenKinds

\* A client asks to quit: its new close dialogue is on its way, under a number of its own.
LEMMA ConfirmQuitTracks ==
  ASSUME PromptAssumption, IInv, TrackedInv, NEW c \in Clients, ConfirmQuit(c)
  PROVE  TrackedInv'
<1>1. UNCHANGED <<setting, attached, screen, pending>>
  BY DEF ConfirmQuit
<1>2. DialogueInv /\ inbox \in Seq(ToPlugins(Popups))
  BY DEF IInv, QueuesInv
<1>3. CASE close_prompts[c] # 0
  <2>1. /\ inbox' = inbox \o Withdrawal(c)
        /\ close_prompts' = [close_prompts EXCEPT ![c] = 0]
        /\ UNCHANGED next_close_prompt_id
    BY <1>3 DEF ConfirmQuit
  <2>2. PICK s : s = Withdrawal(c)
    OBVIOUS
  <2>3. s \in Seq(ToPlugins(Popups)) /\ inbox' = inbox \o s /\ \A i \in 1 .. Len(s) : Forgotten(s[i])'
    BY <1>2, <2>1, <2>2, WithdrawalFacts, WithdrawalForgotten
  <2>4. \A d \in Clients : close_prompts'[d] = 0 \/ close_prompts'[d] = close_prompts[d]
    BY <1>2, <2>1 DEF DialogueInv
  <2>5. \A d \in Clients : Answered(screen, DialogueOf(d)) => Answered(screen', DialogueOf(d))
    BY <1>1
  <2> QED
    BY <1>1, <2>1, <2>3, <2>4, <2>5, OthersTrack
<1>4. CASE close_prompts[c] = 0
  <2> DEFINE n == next_close_prompt_id + 1
  <2>1. PICK r : r = DialogueRequest(c, n)
    OBVIOUS
  <2>2. /\ next_close_prompt_id' = n
        /\ close_prompts' = [close_prompts EXCEPT ![c] = n]
        /\ inbox' = Append(inbox, About("PromptRequest", r))
        /\ n <= setting.dialogues
    BY <1>4, <2>1 DEF ConfirmQuit
  <2>3. /\ next_close_prompt_id \in Nat /\ n \in 1 .. MaxDialogues
        /\ close_prompts \in [Clients -> Numbers]
    <3>1. setting.dialogues \in 0 .. MaxDialogues
      BY DEF IInv, CallersInv, Setting
    <3> QED
      BY <1>2, <2>2, <3>1 DEF DialogueInv, Numbers, PromptAssumption
  <2>4. PICK m : m = About("PromptRequest", r)
    OBVIOUS
  <2>5. r \in Requests
    BY <2>1, <2>3 DEF Requests
  <2>6. m \in ToPlugins(Popups) /\ Brings(m, r) /\ m.kind # "WithdrawPrompt"
    BY <2>4, <2>5 DEF About, ToPlugins, Brings
  <2>7. /\ Len(inbox') = Len(inbox) + 1 /\ Len(inbox) \in Nat
        /\ \A i \in 1 .. Len(inbox) : inbox'[i] = inbox[i]
        /\ inbox'[Len(inbox) + 1] = m
    BY <1>2, <2>2, <2>4, <2>6, AppendProperties
  <2> HIDE DEF n
  <2>8. ASSUME NEW d \in Clients, close_prompts'[d] # 0
        PROVE  Tracked(DialogueOf(d))'
    <3>1. CASE d = c
      <4>1. DialogueOf(d)' = r
        BY <2>1, <2>2, <2>3, <3>1 DEF DialogueOf
      <4>2. In(inbox', r)
        BY <2>6, <2>7 DEF In
      <4> QED
        BY <4>1, <4>2 DEF Tracked, Here
    <3>2. CASE d # c
      <4>1. close_prompts'[d] = close_prompts[d]
        BY <2>2, <2>3, <3>2
      <4>2. PICK q : q = DialogueOf(d)
        OBVIOUS
      <4>3. DialogueOf(d)' = q /\ Tracked(q)
        BY <2>8, <4>1, <4>2 DEF DialogueOf, TrackedInv
      <4>4. In(inbox, q) => In(inbox', q)
        BY <2>7 DEF In
      <4> QED
        BY <1>1, <4>3, <4>4 DEF Tracked, Here
    <3> QED
      BY <3>1, <3>2
  <2>9. ASSUME NEW i \in 1 .. Len(inbox')
        PROVE  Forgotten(inbox[i])'
    <3>1. CASE i \in 1 .. Len(inbox)
      <4>1. inbox'[i] = inbox[i] /\ Forgotten(inbox[i])
        BY <2>7, <3>1 DEF TrackedInv
      <4>2. CASE inbox[i].kind = "WithdrawPrompt"
        <5>1. inbox[i].request.client \in Clients
          BY <1>2, <3>1, <4>2, PluginKinds, RequestClients
        <5>2. inbox[i].request.id \in 1 .. next_close_prompt_id
          BY <4>1, <4>2 DEF Forgotten
        <5>3. inbox[i].request.id \in 1 .. n /\ inbox[i].request.id # n
          BY <2>3, <5>2 DEF n
        <5>4. close_prompts'[inbox[i].request.client] # inbox[i].request.id
          BY <2>2, <2>3, <4>1, <4>2, <5>1, <5>3 DEF Forgotten
        <5> QED
          BY <2>2, <4>1, <5>3, <5>4 DEF Forgotten
      <4>3. CASE inbox[i].kind # "WithdrawPrompt"
        BY <4>1, <4>3 DEF Forgotten
      <4> QED
        BY <4>2, <4>3
    <3>2. CASE i = Len(inbox) + 1
      BY <2>6, <2>7, <3>2 DEF Forgotten
    <3> QED
      BY <2>7, <3>1, <3>2
  <2> QED
    BY <2>8, <2>9 DEF TrackedInv
<1> QED
  BY <1>3, <1>4

\* What other actors add to the inbox withdraws nothing.
LEMMA NoneTracks ==
  ASSUME PromptAssumption, IInv, TrackedInv,
         UNCHANGED <<pending, next_close_prompt_id, close_prompts, inbox>>,
         \A r : Answered(screen, r) => Answered(screen', r)
  PROVE  TrackedInv'
<1> DEFINE none == <<>>
<1>1. none \in Seq(ToPlugins(Popups)) /\ inbox' = inbox \o none
      /\ \A i \in 1 .. Len(none) : none[i].kind # "WithdrawPrompt"
  BY NothingAdded DEF IInv
<1> HIDE DEF none
<1> QED
  BY <1>1, BystanderTracks

LEMMA OneTracks ==
  ASSUME PromptAssumption, IInv, TrackedInv,
         UNCHANGED <<pending, next_close_prompt_id, close_prompts>>,
         NEW m \in ToPlugins(Popups), m.kind # "WithdrawPrompt", inbox' = Append(inbox, m),
         \A r : Answered(screen, r) => Answered(screen', r)
  PROVE  TrackedInv'
<1> DEFINE s == <<m>>
<1>1. s \in Seq(ToPlugins(Popups)) /\ inbox' = inbox \o s
      /\ \A i \in 1 .. Len(s) : s[i].kind # "WithdrawPrompt"
  BY OneMore
<1> HIDE DEF s
<1> QED
  BY <1>1, BystanderTracks

LEMMA PluginsTrack ==
  ASSUME PromptAssumption, IInv, TrackedInv,
         \/ \E c \in Clients : Leave(c) \/ MainLoop(c)
         \/ \E n \in Popups : ClosePopup(n)
         \/ \E n \in Popups, r \in Requests : Answer(n, r)
         \/ \E r \in PluginRequests, valid \in BOOLEAN : Ask(r, valid)
         \/ \E p \in Plugins : UnloadCaller(p)
  PROVE  TrackedInv'
<1>1. ASSUME NEW c \in Clients, Leave(c) PROVE TrackedInv'
  BY <1>1, NoneTracks DEF Leave, screenVars
<1>2. ASSUME NEW c \in Clients, MainLoop(c) PROVE TrackedInv'
  <2> DEFINE m == RemoveClient(c)
  <2>1. /\ UNCHANGED <<pending, next_close_prompt_id, close_prompts>>
        /\ \/ screen' = Append(screen, m) /\ inbox' = inbox
           \/ screen' = screen /\ inbox' = Append(inbox, m)
    BY <1>2 DEF MainLoop, screenVars
  <2>2. m \in ToPlugins(Popups) /\ m \in ToScreen(Popups) /\ m.kind # "WithdrawPrompt"
    BY DEF RemoveClient, ToPlugins, ToScreen
  <2> HIDE DEF m
  <2>3. CASE screen' = Append(screen, m) /\ inbox' = inbox
    BY <2>1, <2>2, <2>3, AnswersStay, NoneTracks
  <2>4. CASE screen' = screen /\ inbox' = Append(inbox, m)
    BY <2>1, <2>2, <2>4, OneTracks
  <2> QED
    BY <2>1, <2>3, <2>4
<1>3. ASSUME NEW n \in Popups, ClosePopup(n) PROVE TrackedInv'
  <2> DEFINE m == UnloadPopup(n)
  <2>1. /\ UNCHANGED <<pending, next_close_prompt_id, close_prompts, screen>>
        /\ inbox' = Append(inbox, m)
    BY <1>3 DEF ClosePopup, screenVars
  <2>2. m \in ToPlugins(Popups) /\ m.kind # "WithdrawPrompt"
    BY DEF UnloadPopup, ToPlugins
  <2> HIDE DEF m
  <2> QED
    BY <2>1, <2>2, OneTracks
<1>4. ASSUME NEW n \in Popups, NEW r \in Requests, Answer(n, r) PROVE TrackedInv'
  <2>1. /\ UNCHANGED <<pending, next_close_prompt_id, close_prompts>>
        /\ inbox' = inbox \o (IF r.notice THEN <<>> ELSE <<Replied(n, r.id)>>) \o <<UnloadPopup(n)>>
        /\ screen' = Append(screen, ClosePane(n))
    BY <1>4 DEF Answer, screenVars
  <2>2. ClosePane(n) \in ToScreen(Popups)
    BY DEF ClosePane, ToScreen
  <2>3. \A q : Answered(screen, q) => Answered(screen', q)
    BY <2>1, <2>2, AnswersStay
  <2> DEFINE u == UnloadPopup(n)
             w == Replied(n, r.id)
  <2>4. /\ u \in ToPlugins(Popups) /\ u.kind # "WithdrawPrompt"
        /\ w \in ToPlugins(Popups) /\ w.kind # "WithdrawPrompt"
    BY DEF UnloadPopup, Replied, ToPlugins
  <2>5. inbox' = inbox \o (IF r.notice THEN <<>> ELSE <<w>>) \o <<u>>
    BY <2>1
  <2> HIDE DEF u, w
  <2>6. inbox \in Seq(ToPlugins(Popups))
    BY DEF IInv, QueuesInv
  <2>7. CASE r.notice
    <3>1. inbox' = Append(inbox, u)
      BY <2>4, <2>5, <2>6, <2>7, AppendIsConcat, ConcatEmptySeq
    <3> QED
      BY <2>1, <2>3, <2>4, <3>1, OneTracks
  <2>8. CASE ~r.notice
    <3> DEFINE p == <<w>>
               q == <<u>>
               s == p \o q
    <3>1. /\ p \in Seq(ToPlugins(Popups)) /\ q \in Seq(ToPlugins(Popups))
          /\ \A i \in 1 .. Len(p) : p[i] = w
          /\ \A i \in 1 .. Len(q) : q[i] = u
      BY <2>4
    <3>0. inbox' = inbox \o p \o q
      BY <2>5, <2>8
    <3> HIDE DEF p, q
    <3>2. s \in Seq(ToPlugins(Popups)) /\ inbox' = inbox \o s
      BY <2>6, <3>0, <3>1, ConcatAssociative, ConcatProperties
    <3>3. ASSUME NEW i \in 1 .. Len(s) PROVE s[i].kind # "WithdrawPrompt"
      <4>1. \/ i \in 1 .. Len(p) /\ s[i] = p[i]
            \/ \E j \in 1 .. Len(q) : s[i] = q[j]
        BY <3>1, QueuedBefore
      <4> QED
        BY <2>4, <3>1, <4>1
    <3> HIDE DEF s
    <3> QED
      BY <2>1, <2>3, <3>2, <3>3, BystanderTracks
  <2> QED
    BY <2>7, <2>8
<1>5. ASSUME NEW r \in PluginRequests, NEW valid \in BOOLEAN, Ask(r, valid) PROVE TrackedInv'
  <2> DEFINE m == About("PromptRequest", r)
  <2>1. /\ UNCHANGED <<pending, next_close_prompt_id, close_prompts, screen>>
        /\ inbox' = Append(inbox, m) \/ inbox' = inbox
    BY <1>5 DEF Ask, screenVars
  <2>2. m \in ToPlugins(Popups) /\ m.kind # "WithdrawPrompt"
    BY DEF About, ToPlugins, Requests
  <2> HIDE DEF m
  <2> QED
    BY <2>1, <2>2, OneTracks, NoneTracks
<1>6. ASSUME NEW p \in Plugins, UnloadCaller(p) PROVE TrackedInv'
  <2> DEFINE m == UnloadPlugin(p)
  <2>1. /\ UNCHANGED <<pending, next_close_prompt_id, close_prompts, screen>>
        /\ inbox' = Append(inbox, m)
    BY <1>6 DEF UnloadCaller, screenVars
  <2>2. m \in ToPlugins(Popups) /\ m.kind # "WithdrawPrompt"
    BY DEF UnloadPlugin, ToPlugins
  <2> HIDE DEF m
  <2> QED
    BY <2>1, <2>2, OneTracks
<1> QED
  BY <1>1, <1>2, <1>3, <1>4, <1>5, <1>6

\* close_prompts: a client that has a close dialogue has a request for it on its way,
\* pending, or answered, for any number of clients, plugins and dialogues: its next wish
\* to quit never withdraws a dialogue nobody sees.
THEOREM DialoguesAreTracked == Spec => []DialogueTracked
<1>1. Init => TrackedInv
  <2> SUFFICES ASSUME Init PROVE TrackedInv
    OBVIOUS
  <2> QED
    BY DEF Init, TrackedInv
<1>2. IInv /\ TrackedInv /\ [Next]_vars => TrackedInv'
  <2> SUFFICES ASSUME IInv, TrackedInv, [Next]_vars PROVE TrackedInv'
    OBVIOUS
  <2>1. CASE PluginThread
    BY <2>1, PromptAssumption, PluginThreadKeepsTrack
  <2>2. CASE ScreenThread
    BY <2>2, PromptAssumption, ScreenThreadTracks
  <2>3. CASE \E c \in Clients : ConfirmQuit(c)
    BY <2>3, PromptAssumption, ConfirmQuitTracks
  <2>4. CASE UNCHANGED vars
    BY <2>4 DEF vars, callerVars, screenVars, TrackedInv, Tracked, Here, DialogueOf, Forgotten
  <2> QED
    BY <2>1, <2>2, <2>3, <2>4, PromptAssumption, PluginsTrack DEF Next
<1>3. IInv /\ TrackedInv => DialogueTracked
  <2> SUFFICES ASSUME IInv, TrackedInv, NEW c \in Clients, close_prompts[c] # 0
               PROVE  LET r == DialogueRequest(c, close_prompts[c]) IN
                      \/ InFlight(r)
                      \/ pending[r] # NotPending
                      \/ \E m \in ToSet(screen) : m.kind = "CloseDialogueAnswer" /\ m.request = r
    BY DEF DialogueTracked
  <2>1. PICK r : r = DialogueRequest(c, close_prompts[c])
    OBVIOUS
  <2>2. Tracked(r)
    BY <2>1 DEF TrackedInv, DialogueOf
  <2>3. In(inbox, r) <=> InFlight(r)
    BY InFlightIsIn DEF IInv
  <2>4. DOMAIN screen = 1 .. Len(screen)
    BY DEF IInv, QueuesInv
  <2>5. Answered(screen, r) =>
          \E m \in ToSet(screen) : m.kind = "CloseDialogueAnswer" /\ m.request = r
    BY <2>4 DEF Answered, Answers, ToSet
  <2> QED
    BY <2>1, <2>2, <2>3, <2>5 DEF Tracked, Here
<1> QED
  BY <1>1, <1>2, <1>3, SpecIInv, PTL DEF Spec
=============================================================================
