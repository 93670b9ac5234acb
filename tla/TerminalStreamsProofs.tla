------------------------ MODULE TerminalStreamsProofs ------------------------
(***************************************************************************)
(* For any terminals, subscribers, capacities and bounds: no terminal is   *)
(* read for nobody (ReadersHavePanes), nothing is kept for subscribers of  *)
(* a pane that is gone (NothingOfClosedPanes), the output of a program     *)
(* reaches its pane whole and in order (StreamsArriveWhole), and a         *)
(* subscriber is told of a gap exactly if there is one (GapsNoticed).      *)
(*                                                                         *)
(* The argument for the first: whatever takes a pane away, or the hope of  *)
(* one, tells the pty thread in the same step; and a command that is to    *)
(* run again has its pane, or the pty thread is told behind the request    *)
(* that the pane is closed.                                                *)
(*                                                                         *)
(* For the third (WayInv): what is on the way of a stream was sent, and    *)
(* what is further on was sent before, in each place and between them.     *)
(* Nothing of it is lost, since only Screen drops output, of a stream that *)
(* is read no more, or of a pane that will not be: a pane is announced     *)
(* once, and is there from then on until it is closed, for good. So what   *)
(* is pushed to the history of a pane is never stale, and always the next  *)
(* of its stream, or the first of a new one.                               *)
(*                                                                         *)
(* For the last (GapInv): hence a history has no hole, the loop of advance *)
(* finds a gap if it begins behind the cursor, and the cursor is where its *)
(* subscriber looked last.                                                 *)
(***************************************************************************)
EXTENDS TerminalStreams, SequenceTheorems, TLAPS, NaturalsInduction, WellFoundedInduction

ScreenEvents == [kind : {"ClosePane", "HoldPane"}, pane : Terminals]
ToScreen ==
  ScreenEvents
  \cup [kind : {"NotifyPaneClosed"}, pane : Terminals]
  \cup [kind : {"NewPane"}, pane : Terminals, held : BOOLEAN]
  \cup [kind : {"PtyOutput"}, pane : Terminals, generation : Nat, sequence : Int]
ToPty == [kind : {"ClosePane", "ReRunCommandInPane"}, pane : Terminals]

PtyTypes ==
  /\ announcing \in Terminals \cup {None}
  /\ stream \in [Terminals -> Nat]
  /\ readers \in Seq([pane : Terminals, read : Nat, hand : BOOLEAN])
  /\ to_pty \in Seq(ToPty)

ScreenTypes ==
  /\ to_screen \in Seq(ToScreen)
  /\ panes \in [Terminals -> {"absent", "open", "held"}]
  /\ events \in [Terminals -> Seq(ScreenEvents)]

SubscriberTypes ==
  /\ rings = [t \in Terminals |-> rings[t]]
  /\ watching \in [Subscribers -> SUBSET Terminals]

\* A command that is to run again has its pane, or is stopped after it.
RerunsHavePanes ==
  \A t \in Terminals, i \in 1 .. Len(to_pty) :
    to_pty[i] = Event("ReRunCommandInPane", t) =>
      HasPane(t) \/ \E j \in i + 1 .. Len(to_pty) : to_pty[j] = Event("ClosePane", t)

IInv ==
  /\ PtyTypes /\ ScreenTypes /\ SubscriberTypes
  /\ RerunsHavePanes /\ ReadersHavePanes /\ NothingOfClosedPanes

-----------------------------------------------------------------------------
(* Channels *)

\* What is in a channel is in it still when something is added.
LEMMA SentAppend ==
  ASSUME NEW S, NEW q \in Seq(S), NEW e, NEW kind, NEW t
  PROVE  /\ Sent(kind, t, q) => Sent(kind, t, Append(q, e))
         /\ e.kind = kind /\ e.pane = t => Sent(kind, t, Append(q, e))
<1>1. /\ DOMAIN q = 1 .. Len(q) /\ Len(q) \in Nat
      /\ DOMAIN Append(q, e) = 1 .. Len(q) + 1
      /\ \A i \in 1 .. Len(q) : Append(q, e)[i] = q[i]
      /\ Append(q, e)[Len(q) + 1] = e
  BY AppendProperties, LenProperties
<1>2. Sent(kind, t, q) => Sent(kind, t, Append(q, e))
  BY <1>1 DEF Sent
<1>3. e.kind = kind /\ e.pane = t => Sent(kind, t, Append(q, e))
  BY <1>1 DEF Sent
<1> QED
  BY <1>2, <1>3

LEMMA SentConcat ==
  ASSUME NEW S, NEW q \in Seq(S), NEW T, NEW r \in Seq(T), NEW kind, NEW t, Sent(kind, t, q)
  PROVE  Sent(kind, t, q \o r)
<1>1. PICK i \in 1 .. Len(q) : q[i].kind = kind /\ q[i].pane = t
  BY LenProperties DEF Sent
<1>2. i \in DOMAIN (q \o r) /\ (q \o r)[i] = q[i]
  BY <1>1
<1> QED
  BY <1>1, <1>2 DEF Sent

\* What is in a channel is its head or behind it.
LEMMA SentTail ==
  ASSUME NEW S, NEW q \in Seq(S), q # <<>>, NEW kind, NEW t, Sent(kind, t, q),
         ~(Head(q).kind = kind /\ Head(q).pane = t)
  PROVE  Sent(kind, t, Tail(q))
<1>1. PICK i \in 1 .. Len(q) : q[i].kind = kind /\ q[i].pane = t
  BY LenProperties DEF Sent
<1>2. i # 1
  BY <1>1
<1>3. i - 1 \in DOMAIN Tail(q) /\ Tail(q)[i - 1] = q[i]
  BY <1>1, <1>2, HeadTailProperties, LenProperties
<1> QED
  BY <1>1, <1>3 DEF Sent

-----------------------------------------------------------------------------
(* Types *)

LEMMA EventTypes ==
  ASSUME NEW t \in Terminals
  PROVE  /\ \A k \in {"ClosePane", "HoldPane"} : Event(k, t) \in ScreenEvents
         /\ \A k \in {"ClosePane", "HoldPane", "NotifyPaneClosed"} : Event(k, t) \in ToScreen
         /\ \A k \in {"ClosePane", "ReRunCommandInPane"} : Event(k, t) \in ToPty
         /\ \A h \in BOOLEAN : NewPane(t, h) \in ToScreen
         /\ \A g \in Nat, n \in Int : Output(t, g, n) \in ToScreen
  BY DEF ScreenEvents, ToScreen, ToPty, Event, NewPane, Output

\* The first of a channel is a message of a terminal.
LEMMA Heads ==
  ASSUME PtyTypes, ScreenTypes
  PROVE  /\ to_screen # <<>> => Head(to_screen) \in ToScreen /\ Head(to_screen).pane \in Terminals
                                  /\ Tail(to_screen) \in Seq(ToScreen)
         /\ to_pty # <<>> => Head(to_pty) \in ToPty /\ Head(to_pty).pane \in Terminals
                               /\ Tail(to_pty) \in Seq(ToPty)
<1>1. ASSUME NEW S, NEW q \in Seq(S), q # <<>>
      PROVE  Head(q) \in S /\ Tail(q) \in Seq(S)
  BY <1>1, HeadTailProperties
<1>2. to_screen \in Seq(ToScreen) /\ to_pty \in Seq(ToPty)
  BY DEF PtyTypes, ScreenTypes
<1>3. (\A m \in ToScreen : m.pane \in Terminals) /\ (\A m \in ToPty : m.pane \in Terminals)
  BY DEF ToScreen, ScreenEvents, ToPty
<1> QED
  BY <1>1, <1>2, <1>3

\* The channels with one message more.
LEMMA Longer ==
  ASSUME PtyTypes, ScreenTypes
  PROVE  /\ \A m \in ToPty : Append(to_pty, m) \in Seq(ToPty)
         /\ \A m \in ToScreen : Append(to_screen, m) \in Seq(ToScreen)
         /\ \A m \in ToScreen : to_screen # <<>> => Append(Tail(to_screen), m) \in Seq(ToScreen)
<1>1. ASSUME NEW S, NEW q \in Seq(S), NEW m \in S
      PROVE  Append(q, m) \in Seq(S)
  BY <1>1, AppendProperties
<1> QED
  BY <1>1, Heads DEF PtyTypes, ScreenTypes

LEMMA PtyTypesKept ==
  ASSUME StreamsAssumption, PtyTypes, ScreenTypes, [Next]_vars
  PROVE  PtyTypes'
<1>1. None \in Nat /\ Len(readers) + 1 \in Nat
  BY LenProperties DEF PtyTypes, None
<1> DEFINE Reader == [pane : Terminals, read : Nat, hand : BOOLEAN]
<1>2. ASSUME NEW t \in Terminals, StartReader(t)
      PROVE  stream' \in [Terminals -> Nat] /\ readers' \in Seq(Reader)
  <2>1. [pane |-> t, read |-> 0, hand |-> FALSE] \in Reader
    OBVIOUS
  <2> HIDE DEF Reader
  <2>2. readers \in Seq(Reader)
    BY DEF PtyTypes, Reader
  <2> QED
    BY <1>1, <1>2, <2>1, <2>2, AppendProperties DEF PtyTypes, StartReader
<1>3. ASSUME NEW t \in Terminals, StopReader(t)
      PROVE  stream' \in [Terminals -> Nat] /\ readers' \in Seq(Reader)
  BY <1>1, <1>3 DEF PtyTypes, StopReader
<1>4. ASSUME NEW t \in Terminals, NEW h \in BOOLEAN, SpawnTerminal(t, h)
      PROVE  PtyTypes'
  <2>1. to_pty' = to_pty /\ announcing' \in Terminals \cup {None}
    BY <1>4 DEF SpawnTerminal, PtyTypes
  <2>2. \/ StartReader(t) \/ UNCHANGED <<stream, readers>>
    BY <1>4 DEF SpawnTerminal
  <2> QED
    BY <1>2, <2>1, <2>2 DEF PtyTypes
<1>5. CASE Announce
  BY <1>5 DEF Announce, PtyTypes, None
<1>6. CASE PtyClosePane
  BY <1>3, <1>6, Heads DEF PtyClosePane, PtyTakes, PtyTypes
<1>7. CASE ReRunCommandInPane
  <2>1. StartReader(Head(to_pty).pane) \/ StopReader(Head(to_pty).pane)
    BY <1>7 DEF ReRunCommandInPane
  <2>2. to_pty' = Tail(to_pty) /\ to_pty # <<>> /\ announcing' = announcing
    BY <1>7 DEF ReRunCommandInPane, PtyTakes
  <2> QED
    BY <1>2, <1>3, <2>1, <2>2, Heads DEF PtyTypes
<1>8. ASSUME ScreenThread
      PROVE  PtyTypes'
  <2>1. UNCHANGED <<announcing, stream, readers>>
    BY <1>8 DEF ScreenThread, CreatePane, RefusePane, PtyOutput, ClosePane, HoldPane,
                NotifyPaneClosed, ptyVars
  <2>2. \/ to_pty' = to_pty
        \/ to_screen # <<>> /\ to_pty' = Append(to_pty, Event("ClosePane", Head(to_screen).pane))
    BY <1>8 DEF ScreenThread, CreatePane, RefusePane, PtyOutput, ClosePane, HoldPane,
                NotifyPaneClosed, ScreenTakes
  <2>3. to_pty' \in Seq(ToPty)
    <3>1. to_screen # <<>> => Event("ClosePane", Head(to_screen).pane) \in ToPty
      BY Heads, EventTypes
    <3> QED
      BY <2>2, <3>1, Longer DEF PtyTypes
  <2> QED
    BY <2>1, <2>3 DEF PtyTypes
<1>9. ASSUME NEW g \in DOMAIN readers, ReadChunk(g) \/ SendChunk(g)
      PROVE  PtyTypes'
  <2> HIDE DEF Reader
  <2>0. readers \in Seq(Reader)
    BY DEF PtyTypes, Reader
  <2>1. readers[g] \in Reader
    BY <2>0, ElementOfSeq, LenProperties
  <2>2. UNCHANGED <<announcing, stream, to_pty>>
    BY <1>9 DEF ReadChunk, SendChunk, ptyVars
  <2>3. \E r \in Reader : readers' = [readers EXCEPT ![g] = r]
    <3>1. CASE ReadChunk(g)
      <4> DEFINE r == [pane |-> readers[g].pane, read |-> readers[g].read + 1, hand |-> TRUE]
      <4>1. readers' = [readers EXCEPT ![g] = r]
        BY <3>1 DEF ReadChunk
      <4>2. r \in Reader
        BY <2>1 DEF Reader
      <4> QED
        BY <4>1, <4>2
    <3>2. CASE SendChunk(g)
      <4>1. readers' = [readers EXCEPT ![g] = [readers[g] EXCEPT !.hand = FALSE]]
        BY <3>2 DEF SendChunk
      <4> QED
        BY <2>1, <4>1 DEF Reader
    <3> QED
      BY <1>9, <3>1, <3>2
  <2>4. readers' \in Seq(Reader)
    BY <2>0, <2>3, ExceptSeq, LenProperties
  <2> QED
    BY <2>2, <2>4 DEF PtyTypes, Reader
<1>10. ASSUME NEW t \in Terminals,
              ChildExits(t) \/ CloseFocusedPane(t) \/ RerunPane(t) \/ Deliver(t)
       PROVE  PtyTypes'
  <2>1. UNCHANGED <<announcing, stream, readers>>
    BY <1>10 DEF ChildExits, CloseFocusedPane, RerunPane, Deliver, ptyVars
  <2>2. to_pty' \in {to_pty, Append(to_pty, Event("ClosePane", t)),
                     Append(to_pty, Event("ReRunCommandInPane", t))}
    BY <1>10 DEF ChildExits, CloseFocusedPane, RerunPane, Deliver
  <2>3. to_pty' \in Seq(ToPty)
    BY <2>2, EventTypes, Longer DEF PtyTypes
  <2> QED
    BY <2>1, <2>3 DEF PtyTypes
<1>11. ASSUME NEW s \in Subscribers, NEW T \in SUBSET Terminals, Subscribe(s, T)
       PROVE  PtyTypes'
  BY <1>11 DEF Subscribe, PtyTypes, ptyVars
<1>12. CASE UNCHANGED vars
  BY <1>12 DEF vars, PtyTypes
<1> QED
  BY <1>4, <1>5, <1>6, <1>7, <1>8, <1>9, <1>10, <1>11, <1>12 DEF Next, PtyThread

LEMMA ScreenTypesKept ==
  ASSUME StreamsAssumption, PtyTypes, ScreenTypes, [Next]_vars
  PROVE  ScreenTypes'
<1>1. \A t \in Terminals : panes[t] \in {"absent", "open", "held"} /\ events[t] \in Seq(ScreenEvents)
  BY DEF ScreenTypes
<1>2. ASSUME NEW t \in Terminals, NEW h \in BOOLEAN, SpawnTerminal(t, h)
      PROVE  ScreenTypes'
  <2>1. UNCHANGED <<panes, events>>
    BY <1>2 DEF SpawnTerminal, screenVars
  <2>2. \/ to_screen' = to_screen
        \/ to_screen' = Append(to_screen, NewPane(t, TRUE))
        \/ to_screen' = to_screen \o <<NewPane(t, FALSE), Event("HoldPane", t)>>
    BY <1>2 DEF SpawnTerminal
  <2>3. NewPane(t, TRUE) \in ToScreen /\ <<NewPane(t, FALSE), Event("HoldPane", t)>> \in Seq(ToScreen)
    <3>1. ASSUME NEW S, NEW a \in S, NEW b \in S
          PROVE  <<a, b>> \in Seq(S)
      OBVIOUS
    <3> QED
      BY <3>1, EventTypes
  <2>4. to_screen' \in Seq(ToScreen)
    <3>1. ASSUME NEW S, NEW q \in Seq(S), NEW r \in Seq(S)
          PROVE  q \o r \in Seq(S)
      BY ConcatProperties
    <3>2. to_screen \in Seq(ToScreen)
      BY DEF ScreenTypes
    <3>3. to_screen \o <<NewPane(t, FALSE), Event("HoldPane", t)>> \in Seq(ToScreen)
      BY <2>3, <3>1, <3>2
    <3> QED
      BY <2>2, <2>3, <3>2, <3>3, Longer
  <2> QED
    BY <2>1, <2>4 DEF ScreenTypes
<1>3. CASE Announce
  <2>1. announcing \in Terminals
    BY <1>3 DEF Announce, PtyTypes
  <2> QED
    BY <1>3, <2>1, EventTypes, Longer DEF Announce, ScreenTypes, screenVars
<1>4. CASE PtyClosePane
  BY <1>4 DEF PtyClosePane, ScreenTypes, screenVars
<1>5. CASE ReRunCommandInPane
  <2>1. Head(to_pty).pane \in Terminals
    BY <1>5, Heads DEF ReRunCommandInPane, PtyTakes
  <2>2. to_screen' \in {to_screen, Append(to_screen, Event("HoldPane", Head(to_pty).pane))}
    BY <1>5 DEF ReRunCommandInPane
  <2>3. to_screen' \in Seq(ToScreen)
    BY <2>1, <2>2, EventTypes, Longer DEF ScreenTypes
  <2> QED
    BY <1>5, <2>3 DEF ReRunCommandInPane, ScreenTypes, screenVars
<1>6. CASE CreatePane
  <2> DEFINE t == Head(to_screen).pane
  <2>1. t \in Terminals /\ Tail(to_screen) \in Seq(ToScreen)
    BY <1>6, Heads DEF CreatePane, ScreenTakes
  <2>2. events[t] \in Seq(ToScreen)
    <3>1. ASSUME NEW S, NEW T, S \subseteq T, NEW q \in Seq(S)
          PROVE  q \in Seq(T)
      BY <3>1
    <3>2. ScreenEvents \subseteq ToScreen
      BY DEF ToScreen
    <3>3. events[t] \in Seq(ScreenEvents)
      BY <1>1, <2>1
    <3> QED
      BY <3>1, <3>2, <3>3
  <2>3. to_screen' = Tail(to_screen) \o events[t]
    BY <1>6 DEF CreatePane
  <2>4. to_screen' \in Seq(ToScreen)
    BY <2>1, <2>2, <2>3, ConcatProperties
  <2>5. panes' \in [Terminals -> {"absent", "open", "held"}]
    BY <1>6, <2>1 DEF CreatePane, ScreenTypes
  <2>6. events' = [events EXCEPT ![t] = <<>>]
    BY <1>6 DEF CreatePane, DropPending
  <2>7. events' \in [Terminals -> Seq(ScreenEvents)]
    BY <2>6, EmptySeq DEF ScreenTypes
  <2> QED
    BY <2>4, <2>5, <2>7 DEF ScreenTypes
<1>7. CASE RefusePane
  <2>1. to_screen' \in Seq(ToScreen)
    BY <1>7, Heads DEF RefusePane, ScreenTakes
  <2>2. events' = [events EXCEPT ![Head(to_screen).pane] = <<>>] /\ panes' = panes
    BY <1>7 DEF RefusePane, DropPending
  <2> QED
    BY <2>1, <2>2, EmptySeq DEF ScreenTypes
<1>8. CASE PtyOutput
  BY <1>8, Heads DEF PtyOutput, ScreenTakes, ScreenTypes
<1>9. ASSUME to_screen # <<>>, Head(to_screen).kind \in {"ClosePane", "HoldPane"}, Wait(Head(to_screen))
      PROVE  events' \in [Terminals -> Seq(ScreenEvents)]
  <2>1. Head(to_screen) \in ScreenEvents /\ Head(to_screen).pane \in Terminals
    BY <1>9, Heads DEF ToScreen, ScreenEvents
  <2>2. Append(events[Head(to_screen).pane], Head(to_screen)) \in Seq(ScreenEvents)
    BY <1>1, <2>1, AppendProperties
  <2> QED
    BY <1>9, <2>2, EmptySeq DEF Wait, DropPending, ScreenTypes
<1>10. CASE ClosePane
  <2>1. to_screen # <<>> /\ Head(to_screen).kind = "ClosePane" /\ Head(to_screen).pane \in Terminals
    BY <1>10, Heads DEF ClosePane, ScreenTakes
  <2>2. to_screen' \in {Tail(to_screen), Append(Tail(to_screen), Event("NotifyPaneClosed", Head(to_screen).pane))}
    BY <1>10 DEF ClosePane
  <2>3. to_screen' \in Seq(ToScreen)
    BY <2>1, <2>2, Heads, EventTypes, Longer
  <2>4. panes' \in [Terminals -> {"absent", "open", "held"}]
    BY <1>10 DEF ClosePane, ScreenTypes
  <2>5. events' = events \/ Wait(Head(to_screen))
    BY <1>10 DEF ClosePane, pendingVars
  <2>6. events' \in [Terminals -> Seq(ScreenEvents)]
    BY <1>9, <2>1, <2>5 DEF ScreenTypes
  <2> QED
    BY <2>3, <2>4, <2>6 DEF ScreenTypes
<1>11. CASE HoldPane
  <2>1. to_screen # <<>> /\ Head(to_screen).kind = "HoldPane" /\ to_screen' = Tail(to_screen)
    BY <1>11 DEF HoldPane, ScreenTakes
  <2>2. panes' \in [Terminals -> {"absent", "open", "held"}]
    BY <1>11 DEF HoldPane, ScreenTypes
  <2>3. events' = events \/ Wait(Head(to_screen))
    BY <1>11 DEF HoldPane, pendingVars
  <2>4. events' \in [Terminals -> Seq(ScreenEvents)]
    BY <1>9, <2>1, <2>3 DEF ScreenTypes
  <2> QED
    BY <2>1, <2>2, <2>4, Heads DEF ScreenTypes
<1>12. CASE NotifyPaneClosed
  BY <1>12, Heads DEF NotifyPaneClosed, ScreenTakes, ScreenTypes, pendingVars
<1>13. ASSUME NEW g \in DOMAIN readers, ReadChunk(g) \/ SendChunk(g)
       PROVE  ScreenTypes'
  <2> DEFINE Reader == [pane : Terminals, read : Nat, hand : BOOLEAN]
             m == Output(readers[g].pane, g, readers[g].read - 1)
  <2>0. readers \in Seq(Reader)
    BY DEF PtyTypes
  <2> HIDE DEF Reader
  <2>1. readers[g] \in Reader /\ g \in Nat
    BY <2>0, ElementOfSeq, LenProperties
  <2>2. m \in ToScreen
    <3>1. readers[g].pane \in Terminals /\ readers[g].read - 1 \in Int
      BY <2>1 DEF Reader
    <3> QED
      BY <2>1, <3>1, EventTypes
  <2> HIDE DEF m
  <2>3. to_screen' = to_screen \/ to_screen' = Append(to_screen, m)
    BY <1>13 DEF ReadChunk, SendChunk, m
  <2>4. to_screen' \in Seq(ToScreen)
    BY <2>2, <2>3, Longer DEF ScreenTypes
  <2>5. UNCHANGED <<panes, events>>
    BY <1>13 DEF ReadChunk, SendChunk, screenVars
  <2> QED
    BY <2>4, <2>5 DEF ScreenTypes
<1>14. ASSUME NEW t \in Terminals,
              ChildExits(t) \/ CloseFocusedPane(t) \/ RerunPane(t) \/ Deliver(t)
       PROVE  ScreenTypes'
  <2>1. \/ to_screen' = to_screen
        \/ \E k \in {"ClosePane", "HoldPane", "NotifyPaneClosed"} :
             to_screen' = Append(to_screen, Event(k, t))
    BY <1>14 DEF ChildExits, CloseFocusedPane, RerunPane, Deliver
  <2>2. to_screen' \in Seq(ToScreen)
    BY <2>1, EventTypes, Longer DEF ScreenTypes
  <2>3. events' = events /\ panes' \in [Terminals -> {"absent", "open", "held"}]
    BY <1>14 DEF ChildExits, CloseFocusedPane, RerunPane, Deliver, screenVars, pendingVars, ScreenTypes
  <2> QED
    BY <2>2, <2>3 DEF ScreenTypes
<1>15. ASSUME NEW s \in Subscribers, NEW T \in SUBSET Terminals, Subscribe(s, T)
       PROVE  ScreenTypes'
  BY <1>15 DEF Subscribe, ScreenTypes, screenVars
<1>16. CASE UNCHANGED vars
  BY <1>16 DEF vars, ScreenTypes
<1> QED
  BY <1>2, <1>3, <1>4, <1>5, <1>6, <1>7, <1>8, <1>10, <1>11, <1>12, <1>13, <1>14, <1>15, <1>16
     DEF Next, PtyThread, ScreenThread

LEMMA SubscriberTypesKept ==
  ASSUME SubscriberTypes, PtyTypes, ScreenTypes, [Next]_vars
  PROVE  SubscriberTypes'
<1>1. CASE PtyThread \/ UNCHANGED vars \/ (\E t \in Terminals, h \in BOOLEAN : SpawnTerminal(t, h))
           \/ (\E g \in DOMAIN readers : ReadChunk(g) \/ SendChunk(g))
  BY <1>1 DEF PtyThread, Announce, PtyClosePane, ReRunCommandInPane, vars, SpawnTerminal, ReadChunk,
              SendChunk, screenVars, subscriberVars, SubscriberTypes
<1>2. CASE CreatePane
  BY <1>2 DEF CreatePane, subscriberVars, SubscriberTypes
<1>3. CASE RefusePane \/ ClosePane \/ HoldPane
  BY <1>3 DEF RefusePane, ClosePane, HoldPane, subscriberVars, SubscriberTypes
<1>4. CASE PtyOutput
  BY <1>4 DEF PtyOutput, subscriberVars, SubscriberTypes
<1>5. CASE NotifyPaneClosed
  BY <1>5 DEF NotifyPaneClosed, SubscriberTypes
<1>6. ASSUME NEW t \in Terminals,
             ChildExits(t) \/ CloseFocusedPane(t) \/ RerunPane(t) \/ Deliver(t)
      PROVE  SubscriberTypes'
  BY <1>6 DEF ChildExits, CloseFocusedPane, RerunPane, Deliver, screenVars, subscriberVars, SubscriberTypes
<1>7. ASSUME NEW s \in Subscribers, NEW T \in SUBSET Terminals, Subscribe(s, T)
      PROVE  SubscriberTypes'
  BY <1>7 DEF Subscribe, screenVars, SubscriberTypes
<1> QED
  BY <1>1, <1>2, <1>3, <1>4, <1>5, <1>6, <1>7 DEF Next, ScreenThread

-----------------------------------------------------------------------------
(* Panes and readers *)

\* Whatever takes a pane away, or the hope of one, tells the pty thread.
LEMMA PaneGoesWithClose ==
  ASSUME StreamsAssumption, PtyTypes, ScreenTypes, [Next]_vars, NEW u \in Terminals, HasPane(u)
  PROVE  HasPane(u)' \/ to_pty' = Append(to_pty, Event("ClosePane", u))
<1> DEFINE Announced == Sent("NewPane", u, to_screen)
<1>0. u # None /\ to_screen \in Seq(ToScreen)
  BY DEF StreamsAssumption, ScreenTypes
<1>1. panes[u] # "absent" \/ announcing = u \/ Announced
  BY DEF HasPane
<1>2. ASSUME NEW e, Announced
      PROVE  Sent("NewPane", u, Append(to_screen, e))
  BY <1>0, <1>2, SentAppend
<1>3. ASSUME NEW q \in Seq(ToScreen), Announced
      PROVE  Sent("NewPane", u, to_screen \o q)
  BY <1>0, <1>3, SentConcat
<1>4. ASSUME to_screen # <<>>, Announced, Head(to_screen).kind # "NewPane" \/ Head(to_screen).pane # u
      PROVE  Sent("NewPane", u, Tail(to_screen))
  BY <1>0, <1>4, SentTail
<1>5. ASSUME to_screen # <<>>, Announced, Head(to_screen).kind # "NewPane" \/ Head(to_screen).pane # u,
             NEW e
      PROVE  Sent("NewPane", u, Append(Tail(to_screen), e))
  BY <1>4, <1>5, Heads, SentAppend
<1> HIDE DEF Announced
<1>6. (panes[u] # "absent" \/ announcing = u \/ Announced)
        /\ UNCHANGED announcing /\ panes'[u] = panes[u] /\ (Announced => Sent("NewPane", u, to_screen'))
      => HasPane(u)'
  BY DEF HasPane
<1>7. panes'[u] # "absent" => HasPane(u)'
  BY DEF HasPane
<1>8. ASSUME NEW t \in Terminals, NEW h \in BOOLEAN, SpawnTerminal(t, h)
      PROVE  HasPane(u)'
  <2>1. panes[u] # "absent" \/ Announced
    BY <1>0, <1>1, <1>8 DEF SpawnTerminal
  <2>2. <<NewPane(t, FALSE), Event("HoldPane", t)>> \in Seq(ToScreen)
    <3>1. ASSUME NEW S, NEW a \in S, NEW b \in S
          PROVE  <<a, b>> \in Seq(S)
      OBVIOUS
    <3> QED
      BY <3>1, EventTypes
  <2>3. \/ to_screen' = to_screen
        \/ to_screen' = Append(to_screen, NewPane(t, TRUE))
        \/ to_screen' = to_screen \o <<NewPane(t, FALSE), Event("HoldPane", t)>>
    BY <1>8 DEF SpawnTerminal
  <2>4. Announced => Sent("NewPane", u, to_screen')
    BY <1>2, <1>3, <2>2, <2>3 DEF Announced
  <2>5. panes' = panes
    BY <1>8 DEF SpawnTerminal, screenVars
  <2> QED
    BY <2>1, <2>4, <2>5 DEF HasPane
<1>9. CASE Announce
  <2>1. Announced => Sent("NewPane", u, to_screen')
    BY <1>2, <1>9 DEF Announce
  <2>2. announcing = u => Sent("NewPane", u, to_screen')
    BY <1>0, <1>9, SentAppend DEF Announce, NewPane
  <2> QED
    BY <1>1, <1>9, <2>1, <2>2 DEF Announce, screenVars, HasPane
<1>10. CASE PtyClosePane
  BY <1>1, <1>6, <1>10 DEF PtyClosePane, screenVars, Announced
<1>11. CASE ReRunCommandInPane
  BY <1>1, <1>2, <1>6, <1>11 DEF ReRunCommandInPane, screenVars, Announced
<1>12. CASE CreatePane
  <2>1. to_screen # <<>> /\ Head(to_screen).pane \in Terminals /\ Tail(to_screen) \in Seq(ToScreen)
    BY <1>12, Heads DEF CreatePane, ScreenTakes
  <2>2. CASE Head(to_screen).pane = u
    <3>1. panes'[u] # "absent"
      BY <1>12, <2>2 DEF CreatePane, ScreenTypes
    <3> QED
      BY <1>7, <3>1
  <2>3. CASE Head(to_screen).pane # u
    <3>1. events[Head(to_screen).pane] \in Seq(ScreenEvents)
      BY <2>1 DEF ScreenTypes
    <3>2. to_screen' = Tail(to_screen) \o events[Head(to_screen).pane]
      BY <1>12 DEF CreatePane
    <3>3. Announced => Sent("NewPane", u, to_screen')
      BY <1>4, <2>1, <2>3, <3>1, <3>2, SentConcat
    <3>4. panes'[u] = panes[u] /\ announcing' = announcing
      BY <1>12, <2>3 DEF CreatePane, ScreenTypes, ptyVars
    <3> QED
      BY <1>1, <1>6, <3>3, <3>4
  <2> QED
    BY <2>2, <2>3
<1>13. CASE RefusePane
  <2>1. to_screen # <<>> /\ to_screen' = Tail(to_screen) /\ panes' = panes /\ announcing' = announcing
        /\ to_pty' = Append(to_pty, Event("ClosePane", Head(to_screen).pane))
    BY <1>13 DEF RefusePane, ScreenTakes, ptyVars
  <2> QED
    BY <1>1, <1>4, <1>6, <2>1
<1>14. CASE PtyOutput
  <2>1. /\ to_screen # <<>> /\ to_screen' = Tail(to_screen) /\ panes' = panes /\ announcing' = announcing
        /\ Head(to_screen).kind # "NewPane"
    BY <1>14 DEF PtyOutput, ScreenTakes, ptyVars
  <2> QED
    BY <1>1, <1>4, <1>6, <2>1
<1>15. CASE ClosePane
  <2>1. /\ to_screen # <<>> /\ announcing' = announcing /\ Head(to_screen).kind # "NewPane"
        /\ to_pty' = Append(to_pty, Event("ClosePane", Head(to_screen).pane))
    BY <1>15 DEF ClosePane, ScreenTakes, ptyVars
  <2>2. CASE Head(to_screen).pane # u
    <3>1. panes'[u] = panes[u]
      BY <1>15, <2>2 DEF ClosePane, ScreenTypes
    <3>2. to_screen' = Tail(to_screen)
            \/ to_screen' = Append(Tail(to_screen), Event("NotifyPaneClosed", Head(to_screen).pane))
      BY <1>15 DEF ClosePane
    <3>3. Announced => Sent("NewPane", u, to_screen')
      BY <1>4, <1>5, <2>1, <3>2
    <3> QED
      BY <1>1, <1>6, <2>1, <3>1, <3>3
  <2> QED
    BY <2>1, <2>2
<1>16. CASE HoldPane
  <2>1. /\ to_screen # <<>> /\ to_screen' = Tail(to_screen) /\ announcing' = announcing
        /\ Head(to_screen).kind # "NewPane"
    BY <1>16 DEF HoldPane, ScreenTakes, ptyVars
  <2>2. panes'[u] = panes[u] \/ panes'[u] # "absent"
    BY <1>16 DEF HoldPane, ScreenTypes
  <2> QED
    BY <1>1, <1>4, <1>6, <1>7, <2>1, <2>2
<1>17. CASE NotifyPaneClosed
  <2>1. /\ to_screen # <<>> /\ to_screen' = Tail(to_screen) /\ panes' = panes /\ announcing' = announcing
        /\ Head(to_screen).kind # "NewPane"
    BY <1>17 DEF NotifyPaneClosed, ScreenTakes, ptyVars
  <2> QED
    BY <1>1, <1>4, <1>6, <2>1
<1>18. ASSUME NEW g \in DOMAIN readers, ReadChunk(g) \/ SendChunk(g)
       PROVE  HasPane(u)'
  <2>1. panes' = panes /\ announcing' = announcing
    BY <1>18 DEF ReadChunk, SendChunk, ptyVars, screenVars
  <2>2. Announced => Sent("NewPane", u, to_screen')
    <3>1. to_screen' = to_screen
            \/ to_screen' = Append(to_screen, Output(readers[g].pane, g, readers[g].read - 1))
      BY <1>18 DEF ReadChunk, SendChunk
    <3> QED
      BY <1>2, <3>1 DEF Announced
  <2> QED
    BY <1>1, <1>6, <2>1, <2>2
<1>19. ASSUME NEW t \in Terminals, ChildExits(t) \/ CloseFocusedPane(t) \/ RerunPane(t) \/ Deliver(t)
       PROVE  HasPane(u)' \/ to_pty' = Append(to_pty, Event("ClosePane", u))
  <2>1. announcing' = announcing
    BY <1>19 DEF ChildExits, CloseFocusedPane, RerunPane, Deliver, ptyVars
  <2>2. Announced => Sent("NewPane", u, to_screen')
    <3>1. to_screen' = to_screen \/ \E e : to_screen' = Append(to_screen, e)
      BY <1>19 DEF ChildExits, CloseFocusedPane, RerunPane, Deliver
    <3> QED
      BY <1>2, <3>1 DEF Announced
  <2>3. \/ panes'[u] = panes[u] \/ panes'[u] = "open"
        \/ to_pty' = Append(to_pty, Event("ClosePane", u))
    BY <1>19 DEF ChildExits, CloseFocusedPane, RerunPane, Deliver, screenVars, ScreenTypes
  <2> QED
    BY <1>1, <1>6, <1>7, <2>1, <2>2, <2>3
<1>20. ASSUME NEW s \in Subscribers, NEW T \in SUBSET Terminals, Subscribe(s, T)
       PROVE  HasPane(u)'
  BY <1>1, <1>6, <1>20 DEF Subscribe, screenVars, ptyVars, Announced
<1>21. CASE UNCHANGED vars
  BY <1>1, <1>6, <1>21 DEF vars, Announced
<1> QED
  BY <1>8, <1>9, <1>10, <1>11, <1>12, <1>13, <1>14, <1>15, <1>16, <1>17, <1>18, <1>19, <1>20, <1>21
     DEF Next, PtyThread, ScreenThread

\* What a step does to the pty thread's channel.
LEMMA PtyChannel ==
  ASSUME StreamsAssumption, PtyTypes, ScreenTypes, [Next]_vars
  PROVE  \/ to_pty' = to_pty /\ \A u \in Terminals : stream'[u] = stream[u] \/ HasPane(u)'
         \/ /\ to_pty # <<>> /\ to_pty' = Tail(to_pty)
            /\ \A u \in Terminals \ {Head(to_pty).pane} : stream'[u] = stream[u]
            /\ Head(to_pty).kind = "ClosePane" => stream'[Head(to_pty).pane] = None
         \/ stream' = stream /\ \E t \in Terminals :
              \/ to_pty' = Append(to_pty, Event("ClosePane", t))
              \/ to_pty' = Append(to_pty, Event("ReRunCommandInPane", t)) /\ HasPane(t)'
<1>1. ASSUME NEW t \in Terminals, NEW h \in BOOLEAN, SpawnTerminal(t, h)
      PROVE  to_pty' = to_pty /\ \A u \in Terminals : stream'[u] = stream[u] \/ HasPane(u)'
  <2>1. \/ stream' = [stream EXCEPT ![t] = Len(readers) + 1] /\ announcing' = t
        \/ stream' = stream
    BY <1>1 DEF SpawnTerminal, StartReader
  <2> QED
    BY <1>1, <2>1 DEF SpawnTerminal, PtyTypes, HasPane
<1>2. CASE Announce
  BY <1>2 DEF Announce
<1>3. CASE PtyClosePane
  BY <1>3, Heads DEF PtyClosePane, PtyTakes, StopReader, PtyTypes
<1>4. CASE ReRunCommandInPane
  <2>1. \E g : stream' = [stream EXCEPT ![Head(to_pty).pane] = g]
    BY <1>4 DEF ReRunCommandInPane, StartReader, StopReader
  <2>2. to_pty # <<>> /\ to_pty' = Tail(to_pty) /\ Head(to_pty).kind # "ClosePane"
    BY <1>4 DEF ReRunCommandInPane, PtyTakes
  <2> QED
    BY <2>1, <2>2 DEF PtyTypes
<1>5. CASE ScreenThread
  <2>1. stream' = stream
    BY <1>5 DEF ScreenThread, CreatePane, RefusePane, PtyOutput, ClosePane, HoldPane,
                NotifyPaneClosed, ptyVars
  <2>2. \/ to_pty' = to_pty
        \/ to_screen # <<>> /\ to_pty' = Append(to_pty, Event("ClosePane", Head(to_screen).pane))
    BY <1>5 DEF ScreenThread, CreatePane, RefusePane, PtyOutput, ClosePane, HoldPane,
                NotifyPaneClosed, ScreenTakes
  <2> QED
    BY <2>1, <2>2, Heads
<1>6. ASSUME NEW g \in DOMAIN readers, ReadChunk(g) \/ SendChunk(g)
      PROVE  to_pty' = to_pty /\ stream' = stream
  BY <1>6 DEF ReadChunk, SendChunk, ptyVars
<1>7. ASSUME NEW t \in Terminals, ChildExits(t) \/ CloseFocusedPane(t) \/ Deliver(t)
      PROVE  stream' = stream /\ to_pty' \in {to_pty, Append(to_pty, Event("ClosePane", t))}
  BY <1>7 DEF ChildExits, CloseFocusedPane, Deliver, ptyVars
<1>8. ASSUME NEW t \in Terminals, RerunPane(t)
      PROVE  stream' = stream /\ to_pty' = Append(to_pty, Event("ReRunCommandInPane", t)) /\ HasPane(t)'
  BY <1>8 DEF RerunPane, ptyVars, ScreenTypes, HasPane
<1>9. ASSUME NEW s \in Subscribers, NEW T \in SUBSET Terminals, Subscribe(s, T)
      PROVE  to_pty' = to_pty /\ stream' = stream
  BY <1>9 DEF Subscribe, ptyVars
<1>10. CASE UNCHANGED vars
  BY <1>10 DEF vars
<1> QED
  BY <1>1, <1>2, <1>3, <1>4, <1>5, <1>6, <1>7, <1>8, <1>9, <1>10 DEF Next, PtyThread

LEMMA ReadersKept ==
  ASSUME StreamsAssumption, IInv, [Next]_vars
  PROVE  ReadersHavePanes'
<1> SUFFICES ASSUME NEW u \in Terminals, stream'[u] # None
             PROVE  HasPane(u)' \/ Sent("ClosePane", u, to_pty')
  BY DEF ReadersHavePanes
<1>1. to_pty \in Seq(ToPty)
  BY DEF IInv, PtyTypes
<1>2. HasPane(u) => HasPane(u)' \/ to_pty' = Append(to_pty, Event("ClosePane", u))
  BY PaneGoesWithClose DEF IInv
<1>3. to_pty' = Append(to_pty, Event("ClosePane", u)) => Sent("ClosePane", u, to_pty')
  BY <1>1, SentAppend DEF Event
<1>4. stream[u] # None => HasPane(u) \/ Sent("ClosePane", u, to_pty)
  BY DEF IInv, ReadersHavePanes
<1>5. CASE to_pty' = to_pty /\ \A t \in Terminals : stream'[t] = stream[t] \/ HasPane(t)'
  BY <1>2, <1>3, <1>4, <1>5
<1>6. CASE /\ to_pty # <<>> /\ to_pty' = Tail(to_pty)
           /\ \A t \in Terminals \ {Head(to_pty).pane} : stream'[t] = stream[t]
           /\ Head(to_pty).kind = "ClosePane" => stream'[Head(to_pty).pane] = None
  <2>1. CASE u # Head(to_pty).pane
    <3>1. Sent("ClosePane", u, to_pty) => Sent("ClosePane", u, to_pty')
      BY <1>1, <1>6, <2>1, SentTail
    <3> QED
      BY <1>2, <1>3, <1>4, <1>6, <2>1, <3>1
  <2>2. CASE u = Head(to_pty).pane
    <3>1. to_pty[1] = Event("ReRunCommandInPane", u)
      <4>1. Head(to_pty) \in ToPty /\ Head(to_pty).kind # "ClosePane" /\ to_pty[1] = Head(to_pty)
        BY <1>1, <1>6, <2>2, Heads DEF IInv
      <4> QED
        BY <2>2, <4>1 DEF ToPty, Event
    <3>2. HasPane(u) \/ \E j \in 2 .. Len(to_pty) : to_pty[j] = Event("ClosePane", u)
      <4>1. 1 \in 1 .. Len(to_pty)
        BY <1>1, <1>6
      <4> QED
        BY <3>1, <4>1 DEF IInv, RerunsHavePanes
    <3>3. ASSUME NEW j \in 2 .. Len(to_pty), to_pty[j] = Event("ClosePane", u)
          PROVE  Sent("ClosePane", u, to_pty')
      <4>1. j - 1 \in DOMAIN to_pty' /\ to_pty'[j - 1] = to_pty[j]
        BY <1>1, <1>6, HeadTailProperties, LenProperties
      <4> QED
        BY <3>3, <4>1 DEF Sent, Event
    <3> QED
      BY <1>2, <1>3, <3>2, <3>3
  <2> QED
    BY <2>1, <2>2
<1>7. ASSUME stream' = stream, NEW e, to_pty' = Append(to_pty, e)
      PROVE  HasPane(u)' \/ Sent("ClosePane", u, to_pty')
  BY <1>1, <1>2, <1>3, <1>4, <1>7, SentAppend
<1> QED
  BY <1>5, <1>6, <1>7, PtyChannel DEF IInv

LEMMA RerunsKept ==
  ASSUME StreamsAssumption, IInv, [Next]_vars
  PROVE  RerunsHavePanes'
<1> DEFINE Rerun(t) == Event("ReRunCommandInPane", t)
           Close(t) == Event("ClosePane", t)
           Ends(q, i, t) == \E j \in i + 1 .. Len(q) : q[j] = Close(t)
<1>1. to_pty \in Seq(ToPty) /\ Len(to_pty) \in Nat
  BY LenProperties DEF IInv, PtyTypes
<1>2. SUFFICES ASSUME NEW t \in Terminals, NEW i \in 1 .. Len(to_pty'), to_pty'[i] = Rerun(t)
               PROVE  HasPane(t)' \/ Ends(to_pty', i, t)
  BY DEF RerunsHavePanes
<1>3. \A k \in 1 .. Len(to_pty) : to_pty[k] = Rerun(t) => HasPane(t) \/ Ends(to_pty, k, t)
  BY DEF IInv, RerunsHavePanes
<1>4. HasPane(t) => HasPane(t)' \/ to_pty' = Append(to_pty, Close(t))
  BY PaneGoesWithClose DEF IInv
<1>5. Rerun(t) # Close(t)
  BY DEF Event
<1> HIDE DEF Rerun, Close
<1>6. ASSUME NEW e
      PROVE  /\ Len(Append(to_pty, e)) = Len(to_pty) + 1 /\ Append(to_pty, e)[Len(to_pty) + 1] = e
             /\ \A n \in 1 .. Len(to_pty) : Append(to_pty, e)[n] = to_pty[n]
  BY <1>1, AppendProperties
<1>7. CASE to_pty' = to_pty
  <2>1. to_pty # Append(to_pty, Close(t))
    BY <1>1, <1>6
  <2> QED
    BY <1>2, <1>3, <1>4, <1>7, <2>1
<1>8. CASE to_pty # <<>> /\ to_pty' = Tail(to_pty)
  <2>1. /\ Len(to_pty') = Len(to_pty) - 1
        /\ \A k \in 1 .. Len(to_pty') : to_pty'[k] = to_pty[k + 1]
    BY <1>1, <1>8, HeadTailProperties
  <2>2. i + 1 \in 1 .. Len(to_pty) /\ to_pty[i + 1] = Rerun(t)
    BY <1>1, <1>2, <2>1
  <2>3. to_pty' # Append(to_pty, Close(t))
    BY <1>1, <1>6, <2>1
  <2>4. ASSUME Ends(to_pty, i + 1, t)
        PROVE  Ends(to_pty', i, t)
    <3>1. PICK j \in i + 2 .. Len(to_pty) : to_pty[j] = Close(t)
      BY <2>4
    <3>2. j - 1 \in i + 1 .. Len(to_pty') /\ to_pty'[j - 1] = to_pty[j]
      BY <1>1, <2>1, <3>1
    <3> QED
      BY <3>1, <3>2
  <2> QED
    BY <1>3, <1>4, <2>2, <2>3, <2>4
<1>9. ASSUME NEW e, to_pty' = Append(to_pty, e), e = Rerun(t) => HasPane(t)'
      PROVE  HasPane(t)' \/ Ends(to_pty', i, t)
  <2>1. CASE i = Len(to_pty) + 1
    BY <1>2, <1>6, <1>9, <2>1
  <2>2. CASE i \in 1 .. Len(to_pty)
    <3>1. HasPane(t) \/ Ends(to_pty, i, t)
      BY <1>2, <1>3, <1>6, <1>9, <2>2
    <3>2. Ends(to_pty, i, t) => Ends(to_pty', i, t)
      BY <1>1, <1>6, <1>9, <2>2
    <3>3. e = Close(t) => Ends(to_pty', i, t)
      BY <1>1, <1>6, <1>9, <2>2
    <3>4. ASSUME to_pty' = Append(to_pty, Close(t))
          PROVE  e = Close(t)
      <4>1. Append(to_pty, e)[Len(to_pty) + 1] = e
        BY <1>6
      <4>2. Append(to_pty, Close(t))[Len(to_pty) + 1] = Close(t)
        BY <1>6
      <4> QED
        BY <1>9, <3>4, <4>1, <4>2
    <3> QED
      BY <1>4, <3>1, <3>2, <3>3, <3>4
  <2> QED
    BY <1>1, <1>2, <1>6, <1>9, <2>1, <2>2
<1>10. \A u \in Terminals : Rerun(u) = Rerun(t) => u = t
  BY DEF Rerun, Event
<1>11. \A u \in Terminals : Close(u) # Rerun(t)
  BY DEF Rerun, Close, Event
<1>12. ASSUME NEW u \in Terminals, to_pty' = Append(to_pty, Event("ClosePane", u))
       PROVE  HasPane(t)' \/ Ends(to_pty', i, t)
  BY <1>9, <1>11, <1>12 DEF Close
<1>13. ASSUME NEW u \in Terminals, to_pty' = Append(to_pty, Event("ReRunCommandInPane", u)), HasPane(u)'
       PROVE  HasPane(t)' \/ Ends(to_pty', i, t)
  <2>1. Rerun(u) = Rerun(t) => HasPane(t)'
    BY <1>10, <1>13
  <2> QED
    BY <1>9, <1>13, <2>1 DEF Rerun
<1> QED
  BY <1>7, <1>8, <1>12, <1>13, PtyChannel DEF IInv

-----------------------------------------------------------------------------
(* Panes and subscribers *)

Kept(t) == rings[t] # NoRing \/ \E s \in Subscribers : t \in watching[s]

\* What is kept of a pane is of a pane that is there.
LEMMA KeptOfPanes ==
  ASSUME PtyTypes, ScreenTypes, SubscriberTypes, [Next]_vars, NEW t \in Terminals, Kept(t)'
  PROVE  Kept(t) \/ panes'[t] # "absent"
<1>1. CASE PtyThread \/ UNCHANGED vars \/ (\E u \in Terminals, h \in BOOLEAN : SpawnTerminal(u, h))
           \/ (\E g \in DOMAIN readers : ReadChunk(g) \/ SendChunk(g))
  BY <1>1 DEF PtyThread, Announce, PtyClosePane, ReRunCommandInPane, vars, SpawnTerminal, ReadChunk,
              SendChunk, screenVars, subscriberVars, Kept
<1>2. CASE CreatePane
  <2> DEFINE u == Head(to_screen).pane
  <2>1. /\ panes' = [panes EXCEPT ![u] = IF Head(to_screen).held THEN "held" ELSE "open"]
        /\ \E v : rings' = [rings EXCEPT ![u] = v]
        /\ watching' = watching
    BY <1>2 DEF CreatePane, subscriberVars
  <2> HIDE DEF u
  <2>2. CASE t = u
    BY <2>1, <2>2 DEF ScreenTypes
  <2>3. CASE t # u
    BY <2>1, <2>3 DEF SubscriberTypes, Kept
  <2> QED
    BY <2>2, <2>3
<1>3. CASE RefusePane \/ ClosePane \/ HoldPane
  BY <1>3 DEF RefusePane, ClosePane, HoldPane, subscriberVars, Kept
<1>4. CASE PtyOutput
  <2> DEFINE u == Head(to_screen).pane
  <2>1. /\ panes' = panes /\ watching' = watching
        /\ \/ panes[u] # "absent" /\ \E v : rings' = [rings EXCEPT ![u] = v]
           \/ rings' = rings
    BY <1>4 DEF PtyOutput, subscriberVars
  <2> QED
    BY <2>1 DEF SubscriberTypes, Kept
<1>5. CASE NotifyPaneClosed
  BY <1>5 DEF NotifyPaneClosed, SubscriberTypes, Kept
<1>6. ASSUME NEW u \in Terminals,
             ChildExits(u) \/ CloseFocusedPane(u) \/ RerunPane(u) \/ Deliver(u)
      PROVE  Kept(t)
  BY <1>6 DEF ChildExits, CloseFocusedPane, RerunPane, Deliver, screenVars, subscriberVars, Kept
<1>7. ASSUME NEW s \in Subscribers, NEW T \in SUBSET Terminals, Subscribe(s, T)
      PROVE  Kept(t) \/ panes'[t] # "absent"
  BY <1>7 DEF Subscribe, screenVars, SubscriberTypes, Kept
<1> QED
  BY <1>1, <1>2, <1>3, <1>4, <1>5, <1>6, <1>7 DEF Next, ScreenThread

\* A pane goes with the news of it, and the news arrives before nothing is kept.
LEMMA PaneGoesWithNews ==
  ASSUME PtyTypes, ScreenTypes, SubscriberTypes, [Next]_vars, NEW u \in Terminals, Kept(u)',
         panes[u] # "absent" \/ Sent("NotifyPaneClosed", u, to_screen)
  PROVE  panes'[u] # "absent" \/ Sent("NotifyPaneClosed", u, to_screen')
<1> DEFINE News == Sent("NotifyPaneClosed", u, to_screen)
           Goal == panes'[u] # "absent" \/ Sent("NotifyPaneClosed", u, to_screen')
<1>1. to_screen \in Seq(ToScreen)
  BY DEF ScreenTypes
<1>2. ASSUME NEW e
      PROVE  News => Sent("NotifyPaneClosed", u, Append(to_screen, e))
  BY <1>1, SentAppend
<1>3. ASSUME to_screen # <<>>, Head(to_screen).kind # "NotifyPaneClosed" \/ Head(to_screen).pane # u
      PROVE  /\ News => Sent("NotifyPaneClosed", u, Tail(to_screen))
             /\ \A e : News => Sent("NotifyPaneClosed", u, Append(Tail(to_screen), e))
  <2>1. News => Sent("NotifyPaneClosed", u, Tail(to_screen))
    BY <1>1, <1>3, SentTail
  <2> QED
    BY <1>3, <2>1, Heads, SentAppend
<1>4. panes'[u] = panes[u] /\ (News => Sent("NotifyPaneClosed", u, to_screen')) => Goal
  OBVIOUS
<1>5. ASSUME NEW t \in Terminals, NEW h \in BOOLEAN, SpawnTerminal(t, h)
      PROVE  Goal
  <2>1. <<NewPane(t, FALSE), Event("HoldPane", t)>> \in Seq(ToScreen)
    <3>1. ASSUME NEW S, NEW a \in S, NEW b \in S
          PROVE  <<a, b>> \in Seq(S)
      OBVIOUS
    <3> QED
      BY <3>1, EventTypes
  <2>2. \/ to_screen' = to_screen
        \/ to_screen' = Append(to_screen, NewPane(t, TRUE))
        \/ to_screen' = to_screen \o <<NewPane(t, FALSE), Event("HoldPane", t)>>
    BY <1>5 DEF SpawnTerminal
  <2>3. News => Sent("NotifyPaneClosed", u, to_screen')
    BY <1>1, <1>2, <2>1, <2>2, SentConcat
  <2> QED
    BY <1>4, <1>5, <2>3 DEF SpawnTerminal, screenVars
<1>6. CASE PtyThread
  <2>1. to_screen' = to_screen \/ \E e : to_screen' = Append(to_screen, e)
    BY <1>6 DEF PtyThread, Announce, PtyClosePane, ReRunCommandInPane
  <2>2. panes' = panes
    BY <1>6 DEF PtyThread, Announce, PtyClosePane, ReRunCommandInPane, screenVars
  <2> QED
    BY <1>2, <1>4, <2>1, <2>2
<1>7. CASE CreatePane
  <2>1. to_screen # <<>> /\ Head(to_screen).kind # "NotifyPaneClosed" /\ Head(to_screen).pane \in Terminals
    BY <1>7, Heads DEF CreatePane, ScreenTakes
  <2>2. events[Head(to_screen).pane] \in Seq(ScreenEvents) /\ Tail(to_screen) \in Seq(ToScreen)
    BY <2>1, Heads DEF ScreenTypes
  <2>3. to_screen' = Tail(to_screen) \o events[Head(to_screen).pane]
    BY <1>7 DEF CreatePane
  <2>4. News => Sent("NotifyPaneClosed", u, to_screen')
    BY <1>3, <2>1, <2>2, <2>3, SentConcat
  <2>5. panes[u] # "absent" => panes'[u] # "absent"
    BY <1>7 DEF CreatePane, ScreenTypes
  <2> QED
    BY <2>4, <2>5
<1>8. CASE RefusePane \/ PtyOutput
  <2>1. /\ to_screen # <<>> /\ Head(to_screen).kind # "NotifyPaneClosed"
        /\ to_screen' = Tail(to_screen) /\ panes' = panes
    BY <1>8 DEF RefusePane, PtyOutput, ScreenTakes
  <2> QED
    BY <1>3, <1>4, <2>1
<1>9. CASE ClosePane
  <2>1. to_screen # <<>> /\ Head(to_screen).kind # "NotifyPaneClosed" /\ Tail(to_screen) \in Seq(ToScreen)
    BY <1>9, Heads DEF ClosePane, ScreenTakes
  <2>2. \/ to_screen' = Tail(to_screen) /\ panes' = panes
        \/ /\ to_screen' = Append(Tail(to_screen), Event("NotifyPaneClosed", Head(to_screen).pane))
           /\ panes' = [panes EXCEPT ![Head(to_screen).pane] = "absent"]
    BY <1>9 DEF ClosePane
  <2>3. Head(to_screen).pane = u
          => Sent("NotifyPaneClosed", u, Append(Tail(to_screen), Event("NotifyPaneClosed", Head(to_screen).pane)))
    BY <2>1, SentAppend DEF Event
  <2> QED
    BY <1>3, <2>1, <2>2, <2>3 DEF ScreenTypes
<1>10. CASE HoldPane
  <2>1. /\ to_screen # <<>> /\ Head(to_screen).kind # "NotifyPaneClosed" /\ to_screen' = Tail(to_screen)
    BY <1>10 DEF HoldPane, ScreenTakes
  <2>2. panes[u] # "absent" => panes'[u] # "absent"
    BY <1>10 DEF HoldPane, ScreenTypes
  <2> QED
    BY <1>3, <2>1, <2>2
<1>11. CASE NotifyPaneClosed
  <2>1. to_screen # <<>> /\ to_screen' = Tail(to_screen) /\ panes' = panes
    BY <1>11 DEF NotifyPaneClosed, ScreenTakes
  <2>2. Head(to_screen).pane # u
    BY <1>11 DEF NotifyPaneClosed, SubscriberTypes, Kept
  <2> QED
    BY <1>3, <1>4, <2>1, <2>2
<1>12. ASSUME NEW g \in DOMAIN readers, ReadChunk(g) \/ SendChunk(g)
       PROVE  Goal
  <2>1. panes' = panes /\ (to_screen' = to_screen \/ \E e : to_screen' = Append(to_screen, e))
    BY <1>12 DEF ReadChunk, SendChunk, screenVars
  <2> QED
    BY <1>2, <1>4, <2>1
<1>13. ASSUME NEW t \in Terminals, ChildExits(t) \/ RerunPane(t) \/ Deliver(t)
       PROVE  Goal
  <2>1. to_screen' = to_screen \/ \E e : to_screen' = Append(to_screen, e)
    BY <1>13 DEF ChildExits, RerunPane, Deliver
  <2>2. panes[u] # "absent" => panes'[u] # "absent"
    BY <1>13 DEF ChildExits, RerunPane, Deliver, screenVars, ScreenTypes
  <2> QED
    BY <1>2, <2>1, <2>2
<1>14. ASSUME NEW t \in Terminals, CloseFocusedPane(t)
       PROVE  Goal
  <2>1. /\ to_screen' = Append(to_screen, Event("NotifyPaneClosed", t))
        /\ panes' = [panes EXCEPT ![t] = "absent"]
    BY <1>14 DEF CloseFocusedPane
  <2>2. t = u => Sent("NotifyPaneClosed", u, to_screen')
    BY <1>1, <2>1, SentAppend DEF Event
  <2> QED
    BY <1>2, <2>1, <2>2 DEF ScreenTypes
<1>15. ASSUME NEW s \in Subscribers, NEW T \in SUBSET Terminals, Subscribe(s, T)
       PROVE  Goal
  BY <1>15 DEF Subscribe, screenVars
<1>16. CASE UNCHANGED vars
  BY <1>16 DEF vars
<1> QED
  BY <1>5, <1>6, <1>7, <1>8, <1>9, <1>10, <1>11, <1>12, <1>13, <1>14, <1>15, <1>16
     DEF Next, ScreenThread

LEMMA SubscribersKept ==
  ASSUME StreamsAssumption, IInv, [Next]_vars
  PROVE  NothingOfClosedPanes'
<1> SUFFICES ASSUME NEW t \in Terminals, Kept(t)'
             PROVE  panes'[t] # "absent" \/ Sent("NotifyPaneClosed", t, to_screen')
  BY DEF NothingOfClosedPanes, Kept
<1>1. CASE Kept(t)
  <2>1. panes[t] # "absent" \/ Sent("NotifyPaneClosed", t, to_screen)
    BY <1>1 DEF IInv, NothingOfClosedPanes, Kept
  <2> QED
    BY <2>1, PaneGoesWithNews DEF IInv
<1>2. CASE ~Kept(t)
  BY <1>2, KeptOfPanes DEF IInv
<1> QED
  BY <1>1, <1>2

-----------------------------------------------------------------------------

LEMMA InitIInv ==
  ASSUME StreamsAssumption, Init
  PROVE  IInv
<1>1. PtyTypes
  BY EmptySeq DEF Init, PtyTypes, None
<1>2. ScreenTypes /\ SubscriberTypes
  BY EmptySeq DEF Init, ScreenTypes, SubscriberTypes
<1>3. RerunsHavePanes /\ ReadersHavePanes /\ NothingOfClosedPanes
  BY DEF Init, RerunsHavePanes, ReadersHavePanes, NothingOfClosedPanes
<1> QED
  BY <1>1, <1>2, <1>3 DEF IInv

LEMMA NextIInv ==
  ASSUME StreamsAssumption, IInv, [Next]_vars
  PROVE  IInv'
<1>1. PtyTypes' /\ ScreenTypes' /\ SubscriberTypes'
  BY PtyTypesKept, ScreenTypesKept, SubscriberTypesKept DEF IInv
<1> QED
  BY <1>1, RerunsKept, ReadersKept, SubscribersKept DEF IInv

LEMMA SpecIInv == Spec => []IInv
<1>1. Init => IInv
  BY InitIInv, StreamsAssumption
<1>2. IInv /\ [Next]_vars => IInv'
  BY NextIInv, StreamsAssumption
<1> QED
  BY <1>1, <1>2, PTL DEF Spec

\* No terminal is read for nobody, whatever happens between the start of its reader and
\* the creation of its pane: it has its pane, or the pty thread is told to stop. And the
\* history and the subscriptions of a pane do not outlive it but for the time the news of
\* its end is on its way.
THEOREM PanesTakeAllWithThem == Spec => []NothingOutlivesPanes
<1>1. IInv => NothingOutlivesPanes
  BY DEF IInv, NothingOutlivesPanes
<1> QED
  BY <1>1, SpecIInv, PTL

-----------------------------------------------------------------------------
(* The way of the output *)

IsOutput(e) == e.kind = "PtyOutput"
Chunk(e) == <<e.generation, e.sequence>>

\* how many chunks of a stream were sent
SentOf(g) == IF readers[g].hand THEN readers[g].read - 1 ELSE readers[g].read

WasSent(t, c) ==
  c[1] \in DOMAIN readers /\ readers[c[1]].pane = t /\ 0 <= c[2] /\ c[2] < SentOf(c[1])

OutputEvents == [kind : {"PtyOutput"}, pane : Terminals, generation : Nat, sequence : Int]
Rings == [generation : Nat, sequences : Seq(Int), newest : Int]

StoreTypes ==
  /\ spawned \subseteq Terminals
  /\ child = [t \in Terminals |-> child[t]]
  /\ live = {stream[t] : t \in Terminals} \ {None}
  /\ output \in [Terminals -> Seq(OutputEvents)]
  /\ fed \in [Terminals -> Seq(Nat \X Int)]
  /\ rings \in [Terminals -> Rings]

\* Nothing is about a terminal that was not spawned.
OnlySpawned ==
  /\ \A i \in DOMAIN to_screen : to_screen[i].pane \in spawned
  /\ \A i \in DOMAIN to_pty : to_pty[i].pane \in spawned
  /\ \A t \in Terminals : \A i \in DOMAIN events[t] : events[t][i].pane \in spawned
  /\ \A g \in DOMAIN readers : readers[g].pane \in spawned
  /\ \A t \in Terminals \ spawned :
       /\ stream[t] = None /\ child[t] # "running" /\ announcing # t /\ t \notin never_created
       /\ panes[t] = "absent" /\ fed[t] = <<>> /\ rings[t] = NoRing

\* The generations of a terminal ascend, and the one that is read is the last.
Generated ==
  /\ \A g \in DOMAIN readers : readers[g].hand => readers[g].read >= 1
  /\ \A t \in Terminals : stream[t] # None =>
       /\ stream[t] \in DOMAIN readers /\ readers[stream[t]].pane = t
       /\ \A g \in DOMAIN readers : readers[g].pane = t => g <= stream[t]

\* A pane is announced once, is there from then on until it is closed, and is not
\* announced again.
OneLife ==
  /\ \A i, j \in DOMAIN to_screen :
       to_screen[i].kind = "NewPane" /\ to_screen[j].kind = "NewPane"
         /\ to_screen[i].pane = to_screen[j].pane
         => i = j
  /\ \A t \in Terminals :
       /\ announcing = t => ~Sent("NewPane", t, to_screen)
       /\ announcing = t \/ Sent("NewPane", t, to_screen) =>
            panes[t] = "absent" /\ fed[t] = <<>> /\ rings[t] = NoRing
       /\ HasPane(t) => t \notin never_created /\ ~Sent("NotifyPaneClosed", t, to_screen)
       /\ panes[t] # "absent" => output[t] = <<>>

\* Whatever is somewhere was sent, and what is further on was sent before.
AllSent ==
  /\ \A i \in DOMAIN to_screen :
       IsOutput(to_screen[i]) => WasSent(to_screen[i].pane, Chunk(to_screen[i]))
  /\ \A t \in Terminals :
       /\ \A i \in DOMAIN output[t] : WasSent(t, Chunk(output[t][i]))
       /\ \A k \in DOMAIN fed[t] : WasSent(t, fed[t][k])

Earlier(c, d) == c[1] = d[1] => c[2] < d[2]
Ascend(c, d) == c[1] < d[1] \/ (c[1] = d[1] /\ c[2] < d[2])

InOrder ==
  /\ \A i, j \in DOMAIN to_screen :
       i < j /\ IsOutput(to_screen[i]) /\ IsOutput(to_screen[j])
         => Earlier(Chunk(to_screen[i]), Chunk(to_screen[j]))
  /\ \A t \in Terminals :
       /\ \A i, j \in DOMAIN output[t] :
            i < j => Earlier(Chunk(output[t][i]), Chunk(output[t][j]))
       /\ \A i \in DOMAIN output[t], j \in DOMAIN to_screen :
            IsOutput(to_screen[j]) => Earlier(Chunk(output[t][i]), Chunk(to_screen[j]))
       /\ \A k \in DOMAIN fed[t], i \in DOMAIN output[t] :
            Earlier(fed[t][k], Chunk(output[t][i]))
       /\ \A k \in DOMAIN fed[t], j \in DOMAIN to_screen :
            IsOutput(to_screen[j]) => Earlier(fed[t][k], Chunk(to_screen[j]))
       /\ \A j, k \in DOMAIN fed[t] : j < k => Ascend(fed[t][j], fed[t][k])

\* A ring is of what the pane was given last, and holds numbers without a hole.
LastOf(ring, f) == ring # NoRing => f # <<>> /\ f[Len(f)] = <<ring.generation, ring.newest>>
WithoutHole(ring) ==
  ring # NoRing =>
    /\ ring.sequences # <<>>
    /\ \A i \in DOMAIN ring.sequences :
         ring.sequences[i] = ring.newest - Len(ring.sequences) + i

\* What a pane has been given, and its ring.
Given(ring, f) ==
  /\ ring \in Rings /\ f \in Seq(Nat \X Int)
  /\ LastOf(ring, f) /\ WithoutHole(ring)
  /\ ring = NoRing => f = <<>>
  /\ \A j \in DOMAIN f : 0 <= f[j][2]
  /\ \A j, k \in DOMAIN f : j < k => Ascend(f[j], f[k])

PanesGiven == \A t \in Terminals : panes[t] # "absent" => Given(rings[t], fed[t])

Somewhere(t, c) ==
  \/ \E k \in DOMAIN fed[t] : fed[t][k] = c
  \/ \E i \in DOMAIN output[t] : Chunk(output[t][i]) = c
  \/ \E j \in DOMAIN to_screen : IsOutput(to_screen[j]) /\ Chunk(to_screen[j]) = c

\* Nothing that was sent of a stream that is read is lost.
NothingLost ==
  \A t \in Terminals : stream[t] # None /\ HasPane(t) =>
    \A n \in 0 .. SentOf(stream[t]) - 1 : Somewhere(t, <<stream[t], n>>)

WayInv ==
  StoreTypes /\ OnlySpawned /\ Generated /\ OneLife /\ AllSent /\ InOrder /\ PanesGiven /\ NothingLost

\* What a pane was given of a stream begins with its first chunk, and misses none.
Whole(f) ==
  \A k \in DOMAIN f : \A n \in 0 .. f[k][2] - 1 : \E j \in 1 .. k - 1 : f[j] = <<f[k][1], n>>
FedWhole == \A t \in Terminals : Whole(fed[t])

CursorTypes ==
  /\ cursors \in [Subscribers -> [Terminals -> [generation : Nat, next : Int]]]
  /\ looked \in [Subscribers -> [Terminals -> Nat]]

\* A cursor is where its subscriber looked last.
IsLook(c, l, f) ==
  /\ l \in 0 .. Len(f)
  /\ c.generation = None => c.next = 0 /\ l = 0
  /\ c.generation # None => l > 0 /\ f[l] = <<c.generation, c.next - 1>>
CursorsAreLooks ==
  \A s \in Subscribers : \A t \in watching[s] :
    panes[t] # "absent" => IsLook(cursors[s][t], looked[s][t], fed[t])
GapInv == FedWhole /\ CursorTypes /\ CursorsAreLooks

-----------------------------------------------------------------------------
(* What steps do to the parts *)

Rest(d) == IF d = 0 THEN to_screen ELSE Tail(to_screen)

\* A step takes the first d messages of Screen's channel and adds some.
Adds(d, added) ==
  /\ d = 1 => to_screen # <<>> /\ (IsOutput(Head(to_screen)) => PtyOutput)
  /\ to_screen' = Rest(d) \o added
  /\ \A i \in DOMAIN added : added[i].pane \in spawned'
  /\ \A i \in DOMAIN added : IsOutput(added[i]) =>
       d = 0 /\ \E g \in DOMAIN readers :
         SendChunk(g) /\ added = <<Output(readers[g].pane, g, readers[g].read - 1)>>
  /\ \A i \in DOMAIN added : added[i].kind = "NewPane" =>
       /\ added[i].pane \notin spawned \/ announcing = added[i].pane
       /\ announcing' # added[i].pane
  /\ \A i, j \in DOMAIN added :
       added[i].kind = "NewPane" /\ added[j].kind = "NewPane" => i = j
  /\ \A i \in DOMAIN added : added[i].kind = "NotifyPaneClosed" =>
       panes[added[i].pane] # "absent" /\ panes'[added[i].pane] = "absent"

\* Two ways in which a step adds to the channel: nothing, and one message.
LEMMA AddsNone ==
  ASSUME NEW d \in {0, 1}, d = 1 => to_screen # <<>> /\ (IsOutput(Head(to_screen)) => PtyOutput),
         ScreenTypes, PtyTypes, to_screen' = Rest(d)
  PROVE  Adds(d, <<>>) /\ <<>> \in Seq(ToScreen)
<1>1. Rest(d) \in Seq(ToScreen)
  BY Heads DEF Rest, ScreenTypes
<1>2. Rest(d) \o <<>> = Rest(d) /\ DOMAIN <<>> = {} /\ <<>> \in Seq(ToScreen)
  BY <1>1, EmptySeq, ConcatEmptySeq
<1> QED
  BY <1>2 DEF Adds

LEMMA AddsOne ==
  ASSUME NEW d \in {0, 1}, d = 1 => to_screen # <<>> /\ (IsOutput(Head(to_screen)) => PtyOutput),
         ScreenTypes, PtyTypes, NEW m \in ToScreen,
         to_screen' = Append(Rest(d), m), m.pane \in spawned', m.kind # "NewPane", ~IsOutput(m),
         m.kind = "NotifyPaneClosed" => panes[m.pane] # "absent" /\ panes'[m.pane] = "absent"
  PROVE  Adds(d, <<m>>) /\ <<m>> \in Seq(ToScreen)
<1>1. Rest(d) \in Seq(ToScreen)
  BY Heads DEF Rest, ScreenTypes
<1>2. Rest(d) \o <<m>> = Append(Rest(d), m)
  <2>1. ASSUME NEW S, NEW q \in Seq(S), NEW e \in S
        PROVE  q \o <<e>> = Append(q, e)
    OBVIOUS
  <2> QED
    BY <1>1, <2>1
<1>3. DOMAIN <<m>> = {1} /\ <<m>>[1] = m /\ <<m>> \in Seq(ToScreen)
  <2>1. ASSUME NEW S, NEW e \in S
        PROVE  DOMAIN <<e>> = {1} /\ <<e>>[1] = e /\ <<e>> \in Seq(S)
    OBVIOUS
  <2> QED
    BY <2>1
<1> HIDE DEF ToScreen
<1> QED
  BY <1>2, <1>3 DEF Adds

\* The heads of the channels are of terminals that were spawned.
LEMMA SpawnedHeads ==
  ASSUME PtyTypes, ScreenTypes, OnlySpawned
  PROVE  /\ to_screen # <<>> => 1 \in DOMAIN to_screen /\ Head(to_screen) = to_screen[1]
                                  /\ Head(to_screen).pane \in spawned /\ Head(to_screen).pane \in Terminals
         /\ to_pty # <<>> => Head(to_pty).pane \in spawned /\ Head(to_pty).pane \in Terminals
<1>1. to_screen # <<>> => 1 \in DOMAIN to_screen /\ Head(to_screen) = to_screen[1]
  BY HeadTailProperties, LenProperties DEF ScreenTypes
<1>2. to_pty # <<>> => 1 \in DOMAIN to_pty /\ Head(to_pty) = to_pty[1]
  BY HeadTailProperties, LenProperties DEF PtyTypes
<1> QED
  BY <1>1, <1>2, Heads DEF OnlySpawned

\* A message of Screen's that brings only what waited for a pane, if anything.
LEMMA TakenStep ==
  ASSUME PtyTypes, ScreenTypes, OnlySpawned, CreatePane \/ RefusePane \/ PtyOutput \/ NotifyPaneClosed
  PROVE  \E added \in Seq(ToScreen) :
           Adds(1, added) /\ \A i \in DOMAIN added : added[i].kind \in {"ClosePane", "HoldPane"}
<1>1. CASE CreatePane
  <2> DEFINE added == events[Head(to_screen).pane]
  <2>1. to_screen # <<>> /\ to_screen' = Tail(to_screen) \o added /\ spawned' = spawned
        /\ ~IsOutput(Head(to_screen))
    BY <1>1 DEF CreatePane, ScreenTakes, ptyVars, IsOutput
  <2>2. added \in Seq(ScreenEvents) /\ \A i \in DOMAIN added : added[i].pane \in spawned
    BY SpawnedHeads, <2>1 DEF ScreenTypes, OnlySpawned
  <2> HIDE DEF added
  <2>3. \A i \in DOMAIN added : added[i] \in ScreenEvents
    BY <2>2, ElementOfSeq, LenProperties
  <2>4. \A i \in DOMAIN added : added[i].kind \in {"ClosePane", "HoldPane"} /\ ~IsOutput(added[i])
    BY <2>3 DEF ScreenEvents, IsOutput
  <2>5. added \in Seq(ToScreen)
    <3>1. ASSUME NEW S, NEW T, S \subseteq T, NEW q \in Seq(S)
          PROVE  q \in Seq(T)
      BY <3>1
    <3>2. ScreenEvents \subseteq ToScreen
      BY DEF ToScreen
    <3> QED
      BY <2>2, <3>1, <3>2
  <2>6. Adds(1, added)
    <3>1. to_screen' = Rest(1) \o added /\ \A i \in DOMAIN added : added[i].pane \in spawned'
      BY <2>1, <2>2 DEF Rest
    <3> QED
      BY <2>1, <2>4, <3>1 DEF Adds
  <2> QED
    BY <2>4, <2>5, <2>6
<1>2. CASE RefusePane \/ PtyOutput \/ NotifyPaneClosed
  <2>1. to_screen # <<>> /\ to_screen' = Rest(1) /\ (IsOutput(Head(to_screen)) => PtyOutput)
    BY <1>2 DEF RefusePane, NotifyPaneClosed, PtyOutput, ScreenTakes, Rest, IsOutput
  <2>2. Adds(1, <<>>) /\ <<>> \in Seq(ToScreen)
    BY <2>1, AddsNone
  <2>3. \A i \in DOMAIN <<>> : <<>>[i].kind \in {"ClosePane", "HoldPane"}
    OBVIOUS
  <2> QED
    BY <2>2, <2>3
<1> QED
  BY <1>1, <1>2

\* Every step takes at most the first message of Screen's channel, and adds some.
LEMMA ChannelStep ==
  ASSUME StreamsAssumption, PtyTypes, ScreenTypes, OnlySpawned, spawned \subseteq Terminals, [Next]_vars
  PROVE  \E d \in {0, 1}, added \in Seq(ToScreen) : Adds(d, added)
<1> DEFINE Goal == \E d \in {0, 1}, added \in Seq(ToScreen) : Adds(d, added)
<1>0. /\ to_screen # <<>> => Head(to_screen) \in ToScreen /\ Head(to_screen).pane \in Terminals
                             /\ Head(to_screen).pane \in spawned
      /\ to_pty # <<>> => Head(to_pty) \in ToPty /\ Head(to_pty).pane \in Terminals
                             /\ Head(to_pty).pane \in spawned
  BY Heads, SpawnedHeads
<1>1. ASSUME NEW t \in Terminals, NEW k \in {"ClosePane", "HoldPane", "NotifyPaneClosed"}
      PROVE  /\ Event(k, t) \in ToScreen /\ Event(k, t).pane = t /\ Event(k, t).kind = k
             /\ Event(k, t).kind # "NewPane" /\ ~IsOutput(Event(k, t))
  BY EventTypes DEF Event, IsOutput
<1>2. ASSUME to_screen' = to_screen
      PROVE  Goal
  <2>1. to_screen' = Rest(0)
    BY <1>2 DEF Rest
  <2>2. Adds(0, <<>>) /\ <<>> \in Seq(ToScreen)
    BY <2>1, AddsNone
  <2> QED
    BY <2>2
<1>3. ASSUME to_screen # <<>>, to_screen' = Tail(to_screen), ~IsOutput(Head(to_screen))
      PROVE  Goal
  <2>1. to_screen' = Rest(1)
    BY <1>3 DEF Rest
  <2>2. Adds(1, <<>>) /\ <<>> \in Seq(ToScreen)
    BY <1>3, <2>1, AddsNone
  <2> QED
    BY <2>2
<1>4. ASSUME NEW t \in Terminals, t \in spawned', NEW k \in {"ClosePane", "HoldPane"},
             to_screen' = Append(to_screen, Event(k, t))
      PROVE  Goal
  <2> DEFINE m == Event(k, t)
  <2>1. to_screen' = Append(Rest(0), m)
    BY <1>4 DEF Rest
  <2>2. m \in ToScreen /\ m.pane = t /\ m.kind # "NewPane" /\ ~IsOutput(m) /\ m.kind # "NotifyPaneClosed"
    BY <1>1
  <2> HIDE DEF m
  <2>3. Adds(0, <<m>>) /\ <<m>> \in Seq(ToScreen)
    BY <1>4, <2>1, <2>2, AddsOne
  <2> QED
    BY <2>3
<1>5. ASSUME NEW t \in Terminals, t \in spawned', panes[t] # "absent", panes'[t] = "absent",
             \/ to_screen' = Append(to_screen, Event("NotifyPaneClosed", t))
             \/ /\ to_screen # <<>> /\ ~IsOutput(Head(to_screen))
                /\ to_screen' = Append(Tail(to_screen), Event("NotifyPaneClosed", t))
      PROVE  Goal
  <2> DEFINE m == Event("NotifyPaneClosed", t)
  <2>1. m \in ToScreen /\ m.pane = t /\ m.kind # "NewPane" /\ ~IsOutput(m)
    BY <1>1
  <2>2. PICK d \in {0, 1} : /\ d = 1 => to_screen # <<>> /\ (IsOutput(Head(to_screen)) => PtyOutput)
                            /\ to_screen' = Append(Rest(d), m)
    BY <1>5 DEF Rest
  <2> HIDE DEF m
  <2>3. Adds(d, <<m>>) /\ <<m>> \in Seq(ToScreen)
    BY <1>5, <2>1, <2>2, AddsOne
  <2> QED
    BY <2>3
<1>6. ASSUME NEW t \in Terminals, NEW h \in BOOLEAN, SpawnTerminal(t, h)
      PROVE  Goal
  <2> DEFINE n == NewPane(t, TRUE)
             two == <<NewPane(t, FALSE), Event("HoldPane", t)>>
  <2>1. t \in spawned' /\ t \notin spawned /\ announcing = None /\ t # None
    BY <1>6 DEF SpawnTerminal, StreamsAssumption
  <2>2. to_screen \in Seq(ToScreen)
    BY DEF ScreenTypes
  <2>3. CASE to_screen' = to_screen
    BY <1>2, <2>3
  <2>4. CASE to_screen' = Append(to_screen, n) /\ announcing' = announcing
    <3>1. n \in ToScreen /\ n.pane = t /\ n.kind = "NewPane" /\ ~IsOutput(n)
      BY EventTypes DEF NewPane, IsOutput
    <3> HIDE DEF n
    <3>2. to_screen' = Rest(0) \o <<n>> /\ DOMAIN <<n>> = {1} /\ <<n>>[1] = n /\ <<n>> \in Seq(ToScreen)
      <4>1. ASSUME NEW S, NEW q \in Seq(S), NEW e \in S
            PROVE  q \o <<e>> = Append(q, e) /\ DOMAIN <<e>> = {1} /\ <<e>>[1] = e /\ <<e>> \in Seq(S)
        OBVIOUS
      <4> QED
        BY <2>2, <2>4, <3>1, <4>1 DEF Rest
    <3>3. Adds(0, <<n>>)
      BY <2>1, <2>4, <3>1, <3>2 DEF Adds
    <3> QED
      BY <3>2, <3>3
  <2>5. CASE to_screen' = to_screen \o two /\ announcing' = announcing
    <3> DEFINE a == NewPane(t, FALSE)
               b == Event("HoldPane", t)
    <3>1. /\ a \in ToScreen /\ a.pane = t /\ a.kind = "NewPane" /\ ~IsOutput(a)
          /\ b \in ToScreen /\ b.pane = t /\ b.kind = "HoldPane" /\ ~IsOutput(b)
      BY <1>1, EventTypes DEF NewPane, IsOutput
    <3>2. to_screen' = to_screen \o <<a, b>>
      BY <2>5
    <3> HIDE DEF a, b
    <3>3. DOMAIN <<a, b>> = {1, 2} /\ <<a, b>>[1] = a /\ <<a, b>>[2] = b /\ <<a, b>> \in Seq(ToScreen)
      <4>1. ASSUME NEW S, NEW e \in S, NEW f \in S
            PROVE  DOMAIN <<e, f>> = {1, 2} /\ <<e, f>>[1] = e /\ <<e, f>>[2] = f /\ <<e, f>> \in Seq(S)
        OBVIOUS
      <4> QED
        BY <3>1, <4>1
    <3>4. Adds(0, <<a, b>>)
      BY <2>1, <2>5, <3>1, <3>2, <3>3 DEF Adds, Rest
    <3> QED
      BY <3>3, <3>4
  <2> QED
    BY <1>6, <2>3, <2>4, <2>5 DEF SpawnTerminal
<1>7. CASE Announce
  <2> DEFINE n == NewPane(announcing, FALSE)
  <2>1. announcing \in Terminals /\ announcing \in spawned /\ announcing # None
    BY <1>7 DEF Announce, PtyTypes, OnlySpawned
  <2>2. to_screen' = Append(to_screen, n) /\ announcing' = None /\ spawned' = spawned
    BY <1>7 DEF Announce
  <2>3. n \in ToScreen /\ n.pane = announcing /\ n.kind = "NewPane" /\ ~IsOutput(n)
    BY <2>1, EventTypes DEF NewPane, IsOutput
  <2> HIDE DEF n
  <2>4. to_screen' = Rest(0) \o <<n>> /\ DOMAIN <<n>> = {1} /\ <<n>>[1] = n /\ <<n>> \in Seq(ToScreen)
    <3>1. ASSUME NEW S, NEW q \in Seq(S), NEW e \in S
          PROVE  q \o <<e>> = Append(q, e) /\ DOMAIN <<e>> = {1} /\ <<e>>[1] = e /\ <<e>> \in Seq(S)
      OBVIOUS
    <3>2. to_screen \in Seq(ToScreen)
      BY DEF ScreenTypes
    <3> QED
      BY <2>2, <2>3, <3>1, <3>2 DEF Rest
  <2>5. Adds(0, <<n>>)
    BY <2>1, <2>2, <2>3, <2>4 DEF Adds
  <2> QED
    BY <2>4, <2>5
<1>8. CASE PtyClosePane
  BY <1>2, <1>8 DEF PtyClosePane
<1>9. CASE ReRunCommandInPane
  <2>1. to_pty # <<>> /\ spawned' = spawned
    BY <1>9 DEF ReRunCommandInPane, PtyTakes
  <2>2. to_screen' = to_screen \/ to_screen' = Append(to_screen, Event("HoldPane", Head(to_pty).pane))
    BY <1>9 DEF ReRunCommandInPane
  <2> QED
    BY <1>0, <1>2, <1>4, <2>1, <2>2
<1>10. CASE CreatePane \/ RefusePane \/ PtyOutput \/ NotifyPaneClosed
  BY <1>10, TakenStep
<1>11. CASE HoldPane
  BY <1>3, <1>11 DEF HoldPane, ScreenTakes, IsOutput
<1>12. CASE ClosePane
  <2>1. to_screen # <<>> /\ spawned' = spawned /\ ~IsOutput(Head(to_screen))
    BY <1>12 DEF ClosePane, ScreenTakes, ptyVars, IsOutput
  <2>2. \/ to_screen' = Tail(to_screen)
        \/ /\ to_screen' = Append(Tail(to_screen), Event("NotifyPaneClosed", Head(to_screen).pane))
           /\ panes[Head(to_screen).pane] # "absent" /\ panes'[Head(to_screen).pane] = "absent"
    BY <1>0, <1>12, <2>1 DEF ClosePane, ScreenTypes
  <2> QED
    BY <1>0, <1>3, <1>5, <2>1, <2>2
<1>13. ASSUME NEW g \in DOMAIN readers, ReadChunk(g)
       PROVE  Goal
  BY <1>2, <1>13 DEF ReadChunk
<1>14. ASSUME NEW g \in DOMAIN readers, SendChunk(g)
       PROVE  Goal
  <2> DEFINE m == Output(readers[g].pane, g, readers[g].read - 1)
  <2>1. readers[g] \in [pane : Terminals, read : Nat, hand : BOOLEAN] /\ g \in Nat
    <3> DEFINE Reader == [pane : Terminals, read : Nat, hand : BOOLEAN]
    <3>1. readers \in Seq(Reader)
      BY DEF PtyTypes
    <3> HIDE DEF Reader
    <3>2. readers[g] \in Reader /\ g \in Nat
      BY <3>1, ElementOfSeq, LenProperties
    <3> QED
      BY <3>2 DEF Reader
  <2>2. readers[g].pane \in Terminals /\ readers[g].read - 1 \in Int
    BY <2>1
  <2>3. m \in ToScreen /\ m.pane = readers[g].pane /\ m.kind = "PtyOutput"
    BY <2>1, <2>2, EventTypes DEF Output
  <2>4. to_screen' = Append(to_screen, m) /\ spawned' = spawned
    BY <1>14 DEF SendChunk, ptyVars
  <2>5. m.pane \in spawned
    BY <2>3 DEF OnlySpawned
  <2> HIDE DEF m
  <2>6. to_screen' = Rest(0) \o <<m>> /\ DOMAIN <<m>> = {1} /\ <<m>>[1] = m /\ <<m>> \in Seq(ToScreen)
    <3>1. ASSUME NEW S, NEW q \in Seq(S), NEW e \in S
          PROVE  q \o <<e>> = Append(q, e) /\ DOMAIN <<e>> = {1} /\ <<e>>[1] = e /\ <<e>> \in Seq(S)
      OBVIOUS
    <3>2. to_screen \in Seq(ToScreen)
      BY DEF ScreenTypes
    <3> QED
      BY <2>3, <2>4, <3>1, <3>2 DEF Rest
  <2>7. Adds(0, <<m>>)
    BY <1>14, <2>3, <2>4, <2>5, <2>6 DEF Adds, m
  <2> QED
    BY <2>6, <2>7
<1>15. ASSUME NEW t \in Terminals, ChildExits(t)
       PROVE  Goal
  <2>1. t \in spawned /\ spawned' = spawned
    BY <1>15 DEF ChildExits, OnlySpawned, ptyVars
  <2>2. to_screen' = Append(to_screen, Event("HoldPane", t)) \/ to_screen' = Append(to_screen, Event("ClosePane", t))
    BY <1>15 DEF ChildExits
  <2> QED
    BY <1>4, <2>1, <2>2
<1>16. ASSUME NEW t \in Terminals, CloseFocusedPane(t)
       PROVE  Goal
  <2>1. t \in spawned /\ spawned' = spawned
    BY <1>16 DEF CloseFocusedPane, OnlySpawned, ptyVars
  <2>2. panes[t] # "absent" /\ panes'[t] = "absent" /\ to_screen' = Append(to_screen, Event("NotifyPaneClosed", t))
    BY <1>16 DEF CloseFocusedPane, ScreenTypes
  <2> QED
    BY <1>5, <2>1, <2>2
<1>17. ASSUME NEW t \in Terminals, RerunPane(t) \/ Deliver(t)
       PROVE  Goal
  BY <1>2, <1>17 DEF RerunPane, Deliver
<1>18. ASSUME NEW s \in Subscribers, NEW T \in SUBSET Terminals, Subscribe(s, T)
       PROVE  Goal
  BY <1>2, <1>18 DEF Subscribe
<1>19. CASE UNCHANGED vars
  BY <1>2, <1>19 DEF vars
<1> QED
  BY <1>6, <1>7, <1>8, <1>9, <1>10, <1>11, <1>12, <1>13, <1>14, <1>15, <1>16, <1>17, <1>18, <1>19
     DEF Next, PtyThread, ScreenThread

\* Where the messages of Screen's channel are after a step.
LEMMA NewScreen ==
  ASSUME PtyTypes, ScreenTypes, NEW d \in {0, 1}, NEW added \in Seq(ToScreen), Adds(d, added)
  PROVE  /\ \A i \in DOMAIN to_screen' :
              /\ i \in Nat /\ i >= 1
              /\ \/ i + d \in DOMAIN to_screen /\ to_screen'[i] = to_screen[i + d]
                 \/ /\ i - (Len(to_screen) - d) \in DOMAIN added
                    /\ to_screen'[i] = added[i - (Len(to_screen) - d)]
         /\ \A j \in DOMAIN to_screen :
              j # 1 \/ d = 0 => j - d \in DOMAIN to_screen' /\ to_screen'[j - d] = to_screen[j]
         /\ \A k \in DOMAIN added : k \in Nat /\ k >= 1
         /\ Len(to_screen) \in Nat /\ DOMAIN to_screen = 1 .. Len(to_screen)
         /\ d = 1 => 1 \in DOMAIN to_screen /\ Head(to_screen) = to_screen[1]
<1> DEFINE q == to_screen
           rest == Rest(d)
           new == rest \o added
<1>1. q \in Seq(ToScreen) /\ (d = 1 => q # <<>>) /\ to_screen' = new
  BY DEF ScreenTypes, Adds
<1>2. Len(q) \in Nat /\ DOMAIN q = 1 .. Len(q) /\ Len(added) \in Nat /\ DOMAIN added = 1 .. Len(added)
  BY <1>1, LenProperties
<1>3. d = 1 => 1 \in DOMAIN q /\ Head(q) = q[1]
  BY <1>1, <1>2, HeadTailProperties
<1>4. /\ rest \in Seq(ToScreen) /\ Len(rest) = Len(q) - d /\ DOMAIN rest = 1 .. Len(q) - d
      /\ \A i \in 1 .. Len(q) - d : rest[i] = q[i + d]
  <2>1. CASE d = 0
    BY <1>1, <1>2, <2>1 DEF Rest
  <2>2. CASE d = 1
    <3>1. rest = Tail(q)
      BY <2>2 DEF Rest
    <3>2. /\ Tail(q) \in Seq(ToScreen) /\ Len(Tail(q)) = Len(q) - 1
          /\ \A i \in 1 .. Len(Tail(q)) : Tail(q)[i] = q[i + 1]
      BY <1>1, <2>2, HeadTailProperties
    <3>3. DOMAIN Tail(q) = 1 .. Len(q) - 1
      BY <3>2, LenProperties
    <3> QED
      BY <2>2, <3>1, <3>2, <3>3
  <2> QED
    BY <2>1, <2>2
<1> HIDE DEF rest
<1>5. /\ Len(new) = Len(q) - d + Len(added) /\ DOMAIN new = 1 .. Len(q) - d + Len(added)
      /\ \A i \in 1 .. Len(q) - d : new[i] = rest[i]
      /\ \A i \in 1 .. Len(added) : new[Len(q) - d + i] = added[i]
  <2>1. ASSUME NEW S, NEW u \in Seq(S), NEW v \in Seq(S)
        PROVE  /\ Len(u \o v) = Len(u) + Len(v) /\ DOMAIN (u \o v) = 1 .. Len(u) + Len(v)
               /\ \A i \in 1 .. Len(u) : (u \o v)[i] = u[i]
               /\ \A i \in 1 .. Len(v) : (u \o v)[Len(u) + i] = v[i]
    OBVIOUS
  <2>2. /\ Len(new) = Len(rest) + Len(added) /\ DOMAIN new = 1 .. Len(rest) + Len(added)
        /\ \A i \in 1 .. Len(rest) : new[i] = rest[i]
        /\ \A i \in 1 .. Len(added) : new[Len(rest) + i] = added[i]
    <3>1. rest \in Seq(ToScreen) /\ added \in Seq(ToScreen)
      BY <1>4
    <3> QED
      BY ONLY <2>1, <3>1 DEF new
  <2> QED
    BY <1>4, <2>2
<1> HIDE DEF new
<1>6. ASSUME NEW i \in DOMAIN new
      PROVE  /\ i \in Nat /\ i >= 1
             /\ \/ i + d \in DOMAIN q /\ new[i] = q[i + d]
                \/ /\ i - (Len(q) - d) \in DOMAIN added
                   /\ new[i] = added[i - (Len(q) - d)]
  <2>1. i \in Nat /\ i >= 1 /\ i <= Len(q) - d + Len(added)
    BY <1>2, <1>5, <1>6
  <2>2. CASE i <= Len(q) - d
    <3>1. i \in 1 .. Len(q) - d /\ i + d \in 1 .. Len(q)
      BY <1>2, <2>1, <2>2
    <3>2. new[i] = q[i + d]
      BY <1>4, <1>5, <3>1
    <3> QED
      BY <1>2, <2>1, <3>1, <3>2
  <2>3. CASE i > Len(q) - d
    <3> DEFINE k == i - (Len(q) - d)
    <3>1. k \in 1 .. Len(added) /\ Len(q) - d + k = i
      BY <1>2, <2>1, <2>3
    <3> QED
      BY <1>2, <1>5, <2>1, <3>1
  <2> QED
    BY <1>2, <2>1, <2>2, <2>3
<1>7. ASSUME NEW j \in DOMAIN q, j # 1 \/ d = 0
      PROVE  j - d \in DOMAIN new /\ new[j - d] = q[j]
  <2>1. j - d \in 1 .. Len(q) - d
    BY <1>2, <1>7
  <2>2. rest[j - d] = q[j]
    BY <1>2, <1>4, <2>1
  <2> QED
    BY <1>2, <1>5, <2>1, <2>2
<1> QED
  BY <1>1, <1>2, <1>3, <1>6, <1>7

\* What a step does to panes.
LEMMA PaneSteps ==
  ASSUME StreamsAssumption, PtyTypes, ScreenTypes, StoreTypes, [Next]_vars, NEW t \in Terminals
  PROVE  /\ panes'[t] # "absent" =>
              panes[t] # "absent" \/ (CreatePane /\ Head(to_screen).pane = t)
         /\ announcing' = t =>
              announcing = t \/ (t \notin spawned /\ panes' = panes /\ stream'[t] = Len(readers) + 1)
         /\ spawned \subseteq spawned' /\ spawned' \subseteq Terminals
         /\ t \in never_created' => t \in never_created \/ (RefusePane /\ Head(to_screen).pane = t)
<1>0. t # None
  BY DEF StreamsAssumption
<1>1. ASSUME NEW u \in Terminals, NEW h \in BOOLEAN, SpawnTerminal(u, h)
      PROVE  /\ UNCHANGED <<panes, never_created>> /\ spawned' = spawned \cup {u} /\ u \notin spawned
             /\ announcing' = announcing \/ (announcing' = u /\ stream'[u] = Len(readers) + 1)
  BY <1>1 DEF SpawnTerminal, StartReader, screenVars, PtyTypes
<1>2. CASE Announce
  BY <1>0, <1>2 DEF Announce, screenVars, StoreTypes
<1>3. CASE PtyClosePane
  BY <1>3 DEF PtyClosePane, screenVars, StoreTypes
<1>4. CASE ReRunCommandInPane
  BY <1>4 DEF ReRunCommandInPane, screenVars, StoreTypes
<1>5. CASE CreatePane
  BY <1>5 DEF CreatePane, ptyVars, StoreTypes, ScreenTypes
<1>6. CASE RefusePane
  <2>1. never_created' \subseteq never_created \cup {Head(to_screen).pane}
    BY <1>6 DEF RefusePane, Remember
  <2> QED
    BY <1>6, <2>1 DEF RefusePane, ptyVars, StoreTypes
<1>7. CASE PtyOutput
  BY <1>7 DEF PtyOutput, ptyVars, StoreTypes
<1>8. CASE ClosePane
  <2>1. never_created' \subseteq never_created /\ panes' \in {panes, [panes EXCEPT ![Head(to_screen).pane] = "absent"]}
    BY <1>8 DEF ClosePane, Wait
  <2> QED
    BY <1>8, <2>1 DEF ClosePane, ptyVars, StoreTypes, ScreenTypes
<1>9. CASE HoldPane
  <2>1. never_created' \subseteq never_created
    BY <1>9 DEF HoldPane, Wait
  <2>2. panes' = panes \/ (panes[Head(to_screen).pane] # "absent" /\ panes' = [panes EXCEPT ![Head(to_screen).pane] = "held"])
    BY <1>9 DEF HoldPane
  <2> QED
    BY <1>9, <2>1, <2>2 DEF HoldPane, ptyVars, StoreTypes, ScreenTypes
<1>10. CASE NotifyPaneClosed
  BY <1>10 DEF NotifyPaneClosed, ptyVars, StoreTypes
<1>11. ASSUME NEW g \in DOMAIN readers, ReadChunk(g) \/ SendChunk(g)
       PROVE  UNCHANGED <<panes, announcing, spawned, never_created>>
  BY <1>11 DEF ReadChunk, SendChunk, ptyVars, screenVars
<1>12. ASSUME NEW u \in Terminals, ChildExits(u) \/ CloseFocusedPane(u) \/ RerunPane(u) \/ Deliver(u)
       PROVE  /\ UNCHANGED <<announcing, spawned, never_created>>
              /\ panes'[t] # "absent" => panes[t] # "absent"
  BY <1>12 DEF ChildExits, CloseFocusedPane, RerunPane, Deliver, ptyVars, screenVars, ScreenTypes
<1>13. ASSUME NEW s \in Subscribers, NEW T \in SUBSET Terminals, Subscribe(s, T)
       PROVE  UNCHANGED <<panes, announcing, spawned, never_created>>
  BY <1>13 DEF Subscribe, ptyVars, screenVars
<1>14. CASE UNCHANGED vars
  BY <1>14 DEF vars, StoreTypes
<1>15. spawned \subseteq Terminals
  BY DEF StoreTypes
<1> QED
  BY <1>0, <1>1, <1>2, <1>3, <1>4, <1>5, <1>6, <1>7, <1>8, <1>9, <1>10, <1>11, <1>12, <1>13, <1>14, <1>15
     DEF Next, PtyThread, ScreenThread

\* What a step does to what a pane was given, and to what waits for it.
Untouched(t) == fed'[t] = fed[t] /\ output'[t] = output[t] /\ rings'[t] = rings[t]

LEMMA StoreSteps ==
  ASSUME PtyTypes, ScreenTypes, StoreTypes, [Next]_vars, NEW t \in Terminals
  PROVE  \/ Untouched(t)
         \/ /\ to_screen # <<>> /\ Head(to_screen).pane = t
            /\ \/ CreatePane \/ PtyOutput
               \/ RefusePane /\ fed'[t] = fed[t] /\ rings'[t] = rings[t] /\ output'[t] = <<>>
               \/ t \in never_created /\ fed'[t] = fed[t] /\ rings'[t] = rings[t] /\ output'[t] = <<>>
                    /\ panes[t] = "absent" /\ panes'[t] = "absent"
               \/ NotifyPaneClosed /\ fed'[t] = fed[t] /\ rings'[t] = NoRing /\ output'[t] = output[t]
<1> DEFINE h == Head(to_screen).pane
           Same == UNCHANGED <<fed, output, rings>>
<1>0. Same => Untouched(t)
  BY DEF Untouched
<1>1. CASE PtyThread \/ UNCHANGED vars \/ (\E u \in Terminals, b \in BOOLEAN : SpawnTerminal(u, b))
           \/ (\E g \in DOMAIN readers : ReadChunk(g) \/ SendChunk(g))
           \/ (\E u \in Terminals : ChildExits(u) \/ CloseFocusedPane(u) \/ RerunPane(u) \/ Deliver(u))
           \/ (\E s \in Subscribers, T \in SUBSET Terminals : Subscribe(s, T))
  <2>1. Same
    BY <1>1 DEF PtyThread, Announce, PtyClosePane, ReRunCommandInPane, vars, SpawnTerminal, ReadChunk,
                SendChunk, ChildExits, CloseFocusedPane, RerunPane, Deliver, Subscribe, screenVars,
                pendingVars
  <2> QED
    BY <1>0, <2>1
<1>2. CASE CreatePane
  BY <1>2 DEF CreatePane, DropPending, StoreTypes, ScreenTakes, Untouched
<1>3. CASE RefusePane
  BY <1>3 DEF RefusePane, DropPending, StoreTypes, ScreenTakes, Untouched
<1>4. CASE PtyOutput
  <2>1. h # t => Untouched(t)
    BY <1>4 DEF PtyOutput, StoreTypes, Untouched
  <2> QED
    BY <1>4, <2>1 DEF PtyOutput, ScreenTakes
<1>5. ASSUME to_screen # <<>>, Wait(Head(to_screen)), panes[h] = "absent", UNCHANGED <<fed, rings, panes>>
      PROVE  \/ Untouched(t)
             \/ /\ h = t /\ t \in never_created /\ fed'[t] = fed[t] /\ rings'[t] = rings[t]
                /\ output'[t] = <<>> /\ panes[t] = "absent" /\ panes'[t] = "absent"
  BY <1>5 DEF Wait, DropPending, StoreTypes, Untouched
<1>6. CASE ClosePane
  <2>1. Same \/ (Wait(Head(to_screen)) /\ panes[h] = "absent" /\ UNCHANGED <<fed, rings, panes>>)
    BY <1>6 DEF ClosePane, pendingVars
  <2> QED
    BY <1>0, <1>5, <1>6, <2>1 DEF ClosePane, ScreenTakes
<1>7. CASE HoldPane
  <2>1. Same \/ (Wait(Head(to_screen)) /\ panes[h] = "absent" /\ UNCHANGED <<fed, rings, panes>>)
    BY <1>7 DEF HoldPane, pendingVars
  <2> QED
    BY <1>0, <1>5, <1>7, <2>1 DEF HoldPane, ScreenTakes
<1>8. CASE NotifyPaneClosed
  <2>1. rings' = [rings EXCEPT ![h] = NoRing] /\ UNCHANGED <<fed, output>>
    BY <1>8 DEF NotifyPaneClosed, pendingVars
  <2> QED
    BY <1>8, <2>1 DEF NotifyPaneClosed, ScreenTakes, StoreTypes, Untouched
<1> QED
  BY <1>1, <1>2, <1>3, <1>4, <1>6, <1>7, <1>8 DEF Next, ScreenThread

-----------------------------------------------------------------------------
(* What a pane is given *)

\* A ring with the next chunk of its stream, or the first of another, has no hole.
LEMMA PushedFacts ==
  ASSUME StreamsAssumption, NEW ring \in Rings, NEW o \in OutputEvents, o.generation # None,
         WithoutHole(ring), ring # NoRing /\ ring.generation = o.generation => ring.newest = o.sequence - 1
  PROVE  /\ Pushed(ring, o) \in Rings /\ Pushed(ring, o) # NoRing
         /\ Pushed(ring, o).generation = o.generation /\ Pushed(ring, o).newest = o.sequence
         /\ WithoutHole(Pushed(ring, o))
<1> DEFINE old == IF ring.generation = o.generation THEN ring.sequences ELSE <<>>
           kept == Append(old, o.sequence)
           new == IF Len(kept) > EventCapacity THEN Recent(kept) ELSE kept
<1>0. EventCapacity \in Nat /\ EventCapacity >= 1
  BY DEF StreamsAssumption
<1>1. o.sequence \in Int /\ o.generation \in Nat /\ ring.sequences \in Seq(Int) /\ ring.newest \in Int
  BY DEF OutputEvents, Rings
<1>2. old \in Seq(Int) /\ Len(old) \in Nat
  BY <1>1, EmptySeq, LenProperties
<1>3. \A i \in 1 .. Len(old) : old[i] = o.sequence - 1 - Len(old) + i
  <2>1. CASE ring.generation = o.generation
    <3>1. ring # NoRing
      BY <2>1 DEF NoRing
    <3>2. DOMAIN ring.sequences = 1 .. Len(ring.sequences) /\ old = ring.sequences
      BY <1>1, <2>1, LenProperties
    <3> QED
      BY <2>1, <3>1, <3>2 DEF WithoutHole
  <2>2. CASE ring.generation # o.generation
    BY <2>2
  <2> QED
    BY <2>1, <2>2
<1> HIDE DEF old
<1>4. /\ kept \in Seq(Int) /\ Len(kept) = Len(old) + 1 /\ Len(kept) \in Nat
      /\ \A i \in 1 .. Len(old) : kept[i] = old[i]
      /\ kept[Len(old) + 1] = o.sequence
  BY <1>1, <1>2, AppendProperties
<1>5. \A i \in 1 .. Len(kept) : kept[i] = o.sequence - Len(kept) + i
  <2>1. ASSUME NEW i \in 1 .. Len(kept), i # Len(kept)
        PROVE  kept[i] = o.sequence - Len(kept) + i
    <3>1. i \in 1 .. Len(old)
      BY <1>2, <1>4, <2>1
    <3>2. kept[i] = o.sequence - 1 - Len(old) + i
      BY <1>3, <1>4, <3>1
    <3> QED
      BY <1>1, <1>2, <1>4, <2>1, <3>2
  <2>2. kept[Len(kept)] = o.sequence - Len(kept) + Len(kept)
    BY <1>1, <1>2, <1>4
  <2> QED
    BY <2>1, <2>2
<1> HIDE DEF kept
<1>6. /\ new \in Seq(Int) /\ Len(new) \in Nat /\ Len(new) >= 1
      /\ \A i \in 1 .. Len(new) : new[i] = o.sequence - Len(new) + i
  <2>1. CASE Len(kept) > EventCapacity
    <3> DEFINE m == Len(kept) - EventCapacity + 1
    <3>1. new = SubSeq(kept, m, Len(kept))
      BY <2>1 DEF Recent
    <3>2. m \in 1 .. Len(kept) /\ Len(kept) - m + 1 = EventCapacity
      BY <1>0, <1>4, <2>1
    <3>3. /\ new \in Seq(Int) /\ Len(new) = EventCapacity
          /\ \A i \in 1 .. EventCapacity : new[i] = kept[m + i - 1] /\ m + i - 1 \in 1 .. Len(kept)
      <4>1. ASSUME NEW q \in Seq(Int), NEW n \in 1 .. Len(q)
            PROVE  /\ SubSeq(q, n, Len(q)) \in Seq(Int) /\ Len(SubSeq(q, n, Len(q))) = Len(q) - n + 1
                   /\ \A i \in 1 .. Len(q) - n + 1 : SubSeq(q, n, Len(q))[i] = q[n + i - 1]
        BY SubSeqProperties
      <4>2. /\ new \in Seq(Int) /\ Len(new) = EventCapacity
            /\ \A i \in 1 .. EventCapacity : new[i] = kept[m + i - 1]
        <5>1. kept \in Seq(Int) /\ m \in 1 .. Len(kept)
          BY <1>4, <3>2
        <5> HIDE DEF m
        <5>2. /\ SubSeq(kept, m, Len(kept)) \in Seq(Int)
              /\ Len(SubSeq(kept, m, Len(kept))) = Len(kept) - m + 1
              /\ \A i \in 1 .. Len(kept) - m + 1 : SubSeq(kept, m, Len(kept))[i] = kept[m + i - 1]
          BY ONLY <4>1, <5>1
        <5> QED
          BY <3>1, <3>2, <5>2
      <4>3. \A i \in 1 .. EventCapacity : m + i - 1 \in 1 .. Len(kept)
        BY <1>0, <1>4, <3>2
      <4> QED
        BY <4>2, <4>3
    <3>4. ASSUME NEW i \in 1 .. Len(new)
          PROVE  new[i] = o.sequence - Len(new) + i
      <4>1. new[i] = o.sequence - Len(kept) + (m + i - 1)
        BY <1>5, <3>3
      <4>2. ASSUME NEW a \in Int, NEW b \in Int, NEW c \in Int, NEW e \in Int
            PROVE  a - b + ((b - c + 1) + e - 1) = a - c + e
        OBVIOUS
      <4>3. o.sequence \in Int /\ Len(kept) \in Int /\ EventCapacity \in Int /\ i \in Int /\ Len(new) = EventCapacity
        BY <1>0, <1>1, <1>4, <3>3
      <4> QED
        BY <4>1, <4>2, <4>3
    <3> QED
      BY <1>0, <3>3, <3>4
  <2>2. CASE ~(Len(kept) > EventCapacity)
    BY <1>2, <1>4, <1>5, <2>2
  <2> QED
    BY <2>1, <2>2
<1>7. Pushed(ring, o) = [generation |-> o.generation, sequences |-> new, newest |-> o.sequence]
  BY DEF Pushed, new, kept, old
<1> HIDE DEF new
<1>8. Pushed(ring, o) \in Rings /\ Pushed(ring, o).generation # None
  BY <1>1, <1>6, <1>7 DEF Rings
<1>9. DOMAIN new = 1 .. Len(new) /\ new # <<>>
  BY <1>6, LenProperties
<1> QED
  BY <1>6, <1>7, <1>8, <1>9 DEF NoRing, WithoutHole

\* A chunk of the stream that is read, behind what the pane was given and without a hole,
\* is given to the pane.
LEMMA ApplyGives ==
  ASSUME StreamsAssumption, NEW ring, NEW f, Given(ring, f), NEW o \in OutputEvents,
         o.generation \in live, None \notin live, 0 <= o.sequence,
         \A j \in DOMAIN f : Ascend(f[j], Chunk(o)),
         o.sequence = 0 \/ \E j \in DOMAIN f : f[j] = <<o.generation, o.sequence - 1>>
  PROVE  /\ Apply([ring |-> ring, fed |-> f], o)
              = [ring |-> Pushed(ring, o), fed |-> Append(f, Chunk(o))]
         /\ Given(Pushed(ring, o), Append(f, Chunk(o)))
<1>1. /\ o.sequence \in Int /\ o.generation \in Nat /\ o.generation # None
      /\ Chunk(o) = <<o.generation, o.sequence>> /\ Chunk(o) \in Nat \X Int
      /\ Chunk(o)[1] = o.generation /\ Chunk(o)[2] = o.sequence
  BY DEF OutputEvents, Chunk
<1>2. ring \in Rings /\ ring.generation \in Nat /\ ring.newest \in Int
  BY DEF Given, Rings
<1>3. f \in Seq(Nat \X Int) /\ Len(f) \in Nat /\ DOMAIN f = 1 .. Len(f)
      /\ \A j \in DOMAIN f : f[j] \in Nat \X Int
  BY LenProperties, ElementOfSeq DEF Given
<1>4. ring # NoRing =>
        /\ Len(f) \in DOMAIN f /\ f[Len(f)] = <<ring.generation, ring.newest>>
        /\ 0 <= ring.newest
  BY <1>2, <1>3, EmptySeq DEF Given, LastOf
<1>5. ring # NoRing => Ascend(<<ring.generation, ring.newest>>, Chunk(o))
  BY <1>4
<1>6. ~Stale(ring, o)
  BY <1>1, <1>2, <1>5 DEF Stale, Ascend
<1>7. ring # NoRing /\ ring.generation = o.generation => ring.newest = o.sequence - 1
  <2> SUFFICES ASSUME ring # NoRing, ring.generation = o.generation
               PROVE  ring.newest = o.sequence - 1
    OBVIOUS
  <2>1. ring.newest < o.sequence
    BY <1>1, <1>2, <1>5 DEF Ascend
  <2>2. CASE o.sequence = 0
    BY <1>2, <1>4, <2>1, <2>2
  <2>3. ASSUME NEW j \in DOMAIN f, f[j] = <<o.generation, o.sequence - 1>>
        PROVE  ring.newest = o.sequence - 1
    <3>1. CASE j = Len(f)
      BY <1>4, <2>3, <3>1
    <3>2. CASE j # Len(f)
      <4>1. j < Len(f) /\ Len(f) \in DOMAIN f
        BY <1>3, <1>4, <3>2
      <4>2. Ascend(f[j], f[Len(f)])
        BY <4>1 DEF Given
      <4>3. Ascend(<<o.generation, o.sequence - 1>>, <<o.generation, ring.newest>>)
        BY <1>4, <2>3, <4>2
      <4> QED
        BY <1>1, <1>2, <2>1, <4>3 DEF Ascend
    <3> QED
      BY <3>1, <3>2
  <2> QED
    BY <2>2, <2>3
<1>8. /\ Pushed(ring, o) \in Rings /\ Pushed(ring, o) # NoRing
      /\ Pushed(ring, o).generation = o.generation /\ Pushed(ring, o).newest = o.sequence
      /\ WithoutHole(Pushed(ring, o))
  BY <1>1, <1>2, <1>7, PushedFacts DEF Given
<1> DEFINE g == Append(f, Chunk(o))
<1>9. /\ g \in Seq(Nat \X Int) /\ Len(g) = Len(f) + 1 /\ DOMAIN g = 1 .. Len(f) + 1
      /\ \A j \in 1 .. Len(f) : g[j] = f[j]
      /\ g[Len(f) + 1] = Chunk(o) /\ g # <<>>
  <2>1. ASSUME NEW S, NEW q \in Seq(S), NEW e \in S
        PROVE  /\ Append(q, e) \in Seq(S) /\ Len(Append(q, e)) = Len(q) + 1
               /\ DOMAIN Append(q, e) = 1 .. Len(q) + 1
               /\ \A j \in 1 .. Len(q) : Append(q, e)[j] = q[j]
               /\ Append(q, e)[Len(q) + 1] = e /\ Append(q, e) # <<>>
    BY <2>1, AppendProperties, LenProperties
  <2>2. f \in Seq(Nat \X Int) /\ Chunk(o) \in Nat \X Int
    BY <1>1, <1>3
  <2>3. DOMAIN g = 1 .. Len(f) + 1 /\ g \in Seq(Nat \X Int) /\ Len(g) = Len(f) + 1
    BY ONLY <2>1, <2>2 DEF g
  <2>4. (\A j \in 1 .. Len(f) : g[j] = f[j]) /\ g[Len(f) + 1] = Chunk(o) /\ g # <<>>
    BY ONLY <2>1, <2>2 DEF g
  <2> QED
    BY <2>3, <2>4
<1> HIDE DEF g
<1>10. Apply([ring |-> ring, fed |-> f], o) = [ring |-> Pushed(ring, o), fed |-> g]
  BY <1>6 DEF Apply, g, Chunk
<1>11. LastOf(Pushed(ring, o), g)
  BY <1>1, <1>8, <1>9 DEF LastOf
<1>12. \A j \in DOMAIN g : 0 <= g[j][2]
  <2> SUFFICES ASSUME NEW j \in 1 .. Len(f) + 1 PROVE 0 <= g[j][2]
    BY <1>9
  <2>1. CASE j = Len(f) + 1
    BY <1>1, <1>9, <2>1
  <2>2. CASE j # Len(f) + 1
    <3>1. j \in 1 .. Len(f)
      BY <1>3, <2>2
    <3>2. j \in DOMAIN f /\ g[j] = f[j]
      BY <1>3, <1>9, <3>1
    <3> QED
      BY <3>2 DEF Given
  <2> QED
    BY <2>1, <2>2
<1>13. \A j, k \in DOMAIN g : j < k => Ascend(g[j], g[k])
  <2> SUFFICES ASSUME NEW j \in 1 .. Len(f) + 1, NEW k \in 1 .. Len(f) + 1, j < k
               PROVE  Ascend(g[j], g[k])
    BY <1>9
  <2>1. j \in DOMAIN f /\ g[j] = f[j]
    <3>1. j \in 1 .. Len(f)
      BY <1>3
    <3> QED
      BY <1>3, <1>9, <3>1
  <2>2. CASE k = Len(f) + 1
    BY <1>9, <2>1, <2>2
  <2>3. CASE k # Len(f) + 1
    <3>1. k \in 1 .. Len(f)
      <4>1. Len(f) \in Nat
        BY <1>3
      <4> QED
        BY ONLY <4>1, <2>3, k \in 1 .. Len(f) + 1
    <3>2. k \in DOMAIN f /\ g[k] = f[k]
      BY <1>3, <1>9, <3>1
    <3> QED
      BY <2>1, <3>2 DEF Given
  <2> QED
    BY <2>2, <2>3
<1> QED
  BY <1>8, <1>9, <1>10, <1>11, <1>12, <1>13 DEF Given, g

\* A set of numbers has a least one.
LEMMA LeastNatural ==
  ASSUME NEW S, S \subseteq Nat, S # {}
  PROVE  \E m \in S : \A k \in S : m <= k
<1>1. PICK m \in S : \A k \in S : ~(<<k, m>> \in OpToRel(<, Nat))
  BY NatLessThanWellFounded, WFMin
<1>2. \A k \in S : ~(k < m)
  BY <1>1 DEF OpToRel
<1> QED
  BY <1>2

\* The recursion of Applied, unfolded.
LEMMA AppliedUnfolds ==
  ASSUME NEW store, NEW waiting \in Seq(OutputEvents)
  PROVE  \E after : /\ Applied(store, waiting) = after[Len(waiting)]
                    /\ after[0] = store
                    /\ \A k \in 1 .. Len(waiting) : after[k] = Apply(after[k - 1], waiting[k])
<1> DEFINE Step(f, k) == IF k = 0 THEN store ELSE Apply(f[k - 1], waiting[k])
           IsPart(n, f) == \A k \in 0 .. n : f[k] = Step(f, k)
           Bad == {n \in Nat : ~\E f : f = [k \in 0 .. n |-> f[k]] /\ IsPart(n, f)}
           after == CHOOSE f : f = [k \in 0 .. Len(waiting) |-> Step(f, k)]
<1>1. Applied(store, waiting) = after[Len(waiting)]
  BY DEF Applied
<1>2. ASSUME NEW n \in Bad
      PROVE  \E m \in Bad : m < n
  <2>1. n # 0
    <3>1. IsPart(0, [k \in 0 .. 0 |-> store])
      OBVIOUS
    <3> QED
      BY <1>2, <3>1
  <2>2. n - 1 \in Nat /\ n - 1 < n /\ n \in Nat
    BY <2>1
  <2>3. ASSUME NEW f, f = [k \in 0 .. n - 1 |-> f[k]], IsPart(n - 1, f)
        PROVE  FALSE
    <3> DEFINE h == [k \in 0 .. n |-> IF k = n THEN Apply(f[n - 1], waiting[n]) ELSE f[k]]
    <3>1. ASSUME NEW k \in 0 .. n
          PROVE  h[k] = Step(h, k)
      <4>1. CASE k = n
        BY <2>1, <2>2, <4>1
      <4>2. CASE k # n
        <5>1. k \in 0 .. n - 1
          BY <2>2, <4>2
        <5>2. f[k] = Step(f, k)
          BY <2>3, <5>1
        <5>3. k # 0 => k - 1 \in 0 .. n /\ k - 1 # n
          BY <2>2
        <5> QED
          BY <4>2, <5>2, <5>3
      <4> QED
        BY <4>1, <4>2
    <3>2. IsPart(n, h) /\ h = [k \in 0 .. n |-> h[k]]
      BY <3>1
    <3> QED
      BY <1>2, <3>2
  <2>4. n - 1 \in Bad
    BY <2>2, <2>3
  <2> QED
    BY <2>2, <2>4
<1>3. Bad = {}
  <2> SUFFICES ASSUME Bad # {}
               PROVE  FALSE
    OBVIOUS
  <2>1. Bad \subseteq Nat
    OBVIOUS
  <2> HIDE DEF Bad
  <2>2. PICK m \in Bad : \A k \in Bad : m <= k
    BY <2>1, LeastNatural
  <2>3. PICK k \in Bad : k < m
    BY <1>2
  <2> QED
    BY <2>1, <2>2, <2>3
<1>4. Len(waiting) \in Nat
  BY LenProperties
<1>5. \E f : f = [k \in 0 .. Len(waiting) |-> Step(f, k)]
  <2>1. PICK f : f = [k \in 0 .. Len(waiting) |-> f[k]] /\ IsPart(Len(waiting), f)
    BY <1>3, <1>4
  <2>2. f = [k \in 0 .. Len(waiting) |-> Step(f, k)]
    BY <2>1
  <2> QED
    BY <2>2
<1>6. after = [k \in 0 .. Len(waiting) |-> Step(after, k)]
  BY <1>5
<1> HIDE DEF after
<1>7. after[0] = store /\ \A k \in 1 .. Len(waiting) : after[k] = Apply(after[k - 1], waiting[k])
  BY <1>4, <1>6
<1> QED
  BY <1>1, <1>7

\* Of what waited for a new pane, a store holds the first k events' chunks of the stream
\* that is read.
GivenFirst(store, waiting, k) ==
  /\ store = [ring |-> store.ring, fed |-> store.fed]
  /\ Given(store.ring, store.fed)
  /\ \A j \in DOMAIN store.fed : \E i \in 1 .. k :
       waiting[i].generation \in live /\ store.fed[j] = Chunk(waiting[i])
  /\ \A i \in 1 .. k : waiting[i].generation \in live =>
       \E j \in DOMAIN store.fed : store.fed[j] = Chunk(waiting[i])

\* What waits for a pane is in order, and whole of the stream that is read.
MayBeGiven(waiting) ==
  /\ waiting \in Seq(OutputEvents)
  /\ \A i \in DOMAIN waiting : 0 <= waiting[i].sequence
  /\ \A i, j \in DOMAIN waiting :
       i < j /\ waiting[i].generation \in live /\ waiting[j].generation \in live
         => Ascend(Chunk(waiting[i]), Chunk(waiting[j]))
  /\ \A i \in DOMAIN waiting : waiting[i].generation \in live =>
       waiting[i].sequence = 0 \/ \E j \in 1 .. i - 1 :
         Chunk(waiting[j]) = <<waiting[i].generation, waiting[i].sequence - 1>>

\* One event more of what waited.
LEMMA GiveNext ==
  ASSUME StreamsAssumption, None \notin live, NEW waiting, MayBeGiven(waiting),
         NEW k \in 1 .. Len(waiting), NEW store, GivenFirst(store, waiting, k - 1)
  PROVE  GivenFirst(Apply(store, waiting[k]), waiting, k)
<1> DEFINE o == waiting[k]
           f == store.fed
           next == Apply(store, o)
<1>1. /\ o \in OutputEvents /\ 0 <= o.sequence /\ k \in Nat /\ k >= 1
      /\ DOMAIN waiting = 1 .. Len(waiting) /\ Len(waiting) \in Nat
  BY ElementOfSeq, LenProperties DEF MayBeGiven
<1>2. /\ store = [ring |-> store.ring, fed |-> f] /\ Given(store.ring, f)
      /\ \A j \in DOMAIN f : \E i \in 1 .. k - 1 :
           waiting[i].generation \in live /\ f[j] = Chunk(waiting[i])
      /\ \A i \in 1 .. k - 1 : waiting[i].generation \in live =>
           \E j \in DOMAIN f : f[j] = Chunk(waiting[i])
  BY DEF GivenFirst
<1>3. CASE o.generation \notin live
  <2>1. next = store
    BY <1>3 DEF Apply
  <2>2. \A i \in 1 .. k : waiting[i].generation \in live => i \in 1 .. k - 1
    BY <1>1, <1>3
  <2>3. \A i \in 1 .. k - 1 : i \in 1 .. k
    BY <1>1
  <2> HIDE DEF o, next
  <2> QED
    BY <1>2, <2>1, <2>2, <2>3 DEF GivenFirst, o, next
<1>4. CASE o.generation \in live
  <2> HIDE DEF f, next
  <2>1. ASSUME NEW j \in DOMAIN f
        PROVE  Ascend(f[j], Chunk(o))
    <3>1. PICK i \in 1 .. k - 1 : waiting[i].generation \in live /\ f[j] = Chunk(waiting[i])
      BY <1>2
    <3>2. i \in DOMAIN waiting /\ k \in DOMAIN waiting /\ i < k
      BY <1>1
    <3> QED
      BY <1>4, <3>1, <3>2 DEF MayBeGiven
  <2>2. o.sequence = 0 \/ \E j \in DOMAIN f : f[j] = <<o.generation, o.sequence - 1>>
    <3>1. k \in DOMAIN waiting
      BY <1>1
    <3>2. o.sequence = 0 \/ \E i \in 1 .. k - 1 : Chunk(waiting[i]) = <<o.generation, o.sequence - 1>>
      BY <1>4, <3>1 DEF MayBeGiven
    <3>3. ASSUME NEW i \in 1 .. k - 1, Chunk(waiting[i]) = <<o.generation, o.sequence - 1>>
          PROVE  \E j \in DOMAIN f : f[j] = <<o.generation, o.sequence - 1>>
      <4>1. waiting[i].generation \in live
        BY <1>4, <3>3 DEF Chunk
      <4> QED
        BY <1>2, <3>3, <4>1
    <3> QED
      BY <3>2, <3>3
  <2>3. /\ next = [ring |-> Pushed(store.ring, o), fed |-> Append(f, Chunk(o))]
        /\ Given(Pushed(store.ring, o), Append(f, Chunk(o)))
    <3> HIDE DEF o
    <3>1. o \in OutputEvents /\ o.generation \in live /\ 0 <= o.sequence /\ Given(store.ring, f)
      BY <1>1, <1>2, <1>4
    <3>2. /\ Apply([ring |-> store.ring, fed |-> f], o) = [ring |-> Pushed(store.ring, o), fed |-> Append(f, Chunk(o))]
          /\ Given(Pushed(store.ring, o), Append(f, Chunk(o)))
      BY <2>1, <2>2, <3>1, ApplyGives
    <3> QED
      BY <1>2, <3>2 DEF next
  <2> DEFINE g == Append(f, Chunk(o))
             r == Pushed(store.ring, o)
  <2>4. /\ Len(f) \in Nat /\ DOMAIN f = 1 .. Len(f) /\ DOMAIN g = 1 .. Len(f) + 1
        /\ \A j \in 1 .. Len(f) : g[j] = f[j]
        /\ g[Len(f) + 1] = Chunk(o)
    <3>1. f \in Seq(Nat \X Int)
      BY <1>2 DEF Given
    <3>2. ASSUME NEW S, NEW q \in Seq(S), NEW e
          PROVE  /\ Len(q) \in Nat /\ DOMAIN q = 1 .. Len(q) /\ DOMAIN Append(q, e) = 1 .. Len(q) + 1
                 /\ \A j \in 1 .. Len(q) : Append(q, e)[j] = q[j]
                 /\ Append(q, e)[Len(q) + 1] = e
      OBVIOUS
    <3> QED
      BY ONLY <3>1, <3>2 DEF g
  <2> HIDE DEF g, r, o
  <2>5. next.ring = r /\ next.fed = g /\ next = [ring |-> next.ring, fed |-> next.fed]
    BY <2>3 DEF g, r
  <2>6. ASSUME NEW j \in DOMAIN g
        PROVE  \E i \in 1 .. k : waiting[i].generation \in live /\ g[j] = Chunk(waiting[i])
    <3>1. CASE j = Len(f) + 1
      BY <1>1, <1>4, <2>4, <3>1 DEF o
    <3>2. CASE j # Len(f) + 1
      <4>1. j \in DOMAIN f /\ g[j] = f[j]
        BY <2>4, <3>2
      <4>2. PICK i \in 1 .. k - 1 : waiting[i].generation \in live /\ f[j] = Chunk(waiting[i])
        BY <1>2, <4>1
      <4>3. i \in 1 .. k
        BY <1>1
      <4> QED
        BY <4>1, <4>2, <4>3
    <3> QED
      BY <3>1, <3>2
  <2>7. ASSUME NEW i \in 1 .. k, waiting[i].generation \in live
        PROVE  \E j \in DOMAIN g : g[j] = Chunk(waiting[i])
    <3>1. CASE i = k
      BY <2>4, <3>1 DEF o
    <3>2. CASE i # k
      <4>1. i \in 1 .. k - 1
        BY <1>1, <3>2
      <4>2. PICK j \in DOMAIN f : f[j] = Chunk(waiting[i])
        BY <1>2, <2>7, <4>1
      <4>3. j \in DOMAIN g /\ g[j] = f[j]
        BY <2>4
      <4> QED
        BY <4>2, <4>3
    <3> QED
      BY <3>1, <3>2
  <2>8. Given(next.ring, next.fed)
    BY <2>3, <2>5 DEF g, r
  <2>9. GivenFirst(next, waiting, k)
    BY <2>5, <2>6, <2>7, <2>8 DEF GivenFirst
  <2> QED
    BY <2>9 DEF next, o
<1> QED
  BY <1>3, <1>4

\* All of what waited.
LEMMA AppliedGives ==
  ASSUME StreamsAssumption, None \notin live, NEW waiting, MayBeGiven(waiting)
  PROVE  GivenFirst(Applied([ring |-> NoRing, fed |-> <<>>], waiting), waiting, Len(waiting))
<1> DEFINE base == [ring |-> NoRing, fed |-> <<>>]
<1>1. waiting \in Seq(OutputEvents) /\ Len(waiting) \in Nat
  BY LenProperties DEF MayBeGiven
<1>2. PICK after : /\ Applied(base, waiting) = after[Len(waiting)]
                   /\ after[0] = base
                   /\ \A k \in 1 .. Len(waiting) : after[k] = Apply(after[k - 1], waiting[k])
  BY <1>1, AppliedUnfolds
<1>3. GivenFirst(base, waiting, 0)
  <2>1. NoRing \in Rings /\ <<>> \in Seq(Nat \X Int) /\ DOMAIN <<>> = {}
    BY EmptySeq DEF NoRing, Rings, None
  <2>2. Given(NoRing, <<>>)
    BY <2>1 DEF Given, LastOf, WithoutHole
  <2> QED
    BY <2>1, <2>2 DEF GivenFirst
<1> DEFINE Bad == {k \in Nat : k <= Len(waiting) /\ ~GivenFirst(after[k], waiting, k)}
<1>4. Bad = {}
  <2> SUFFICES ASSUME Bad # {}
               PROVE  FALSE
    OBVIOUS
  <2>1. Bad \subseteq Nat
    OBVIOUS
  <2>2. PICK m \in Bad : \A k \in Bad : m <= k
    <3> HIDE DEF Bad
    <3> QED
      BY <2>1, LeastNatural
  <2>3. m # 0
    BY <1>2, <1>3
  <2>4. m - 1 \in Nat /\ m - 1 \notin Bad /\ m \in 1 .. Len(waiting)
    BY <1>1, <2>2, <2>3
  <2>5. GivenFirst(after[m - 1], waiting, m - 1)
    BY <1>1, <2>4
  <2>6. GivenFirst(Apply(after[m - 1], waiting[m]), waiting, m)
    BY <2>4, <2>5, GiveNext
  <2> QED
    BY <1>2, <2>4, <2>6
<1> QED
  BY <1>1, <1>2, <1>4

-----------------------------------------------------------------------------
(* Streams *)

\* What a step does to the readers and the streams.
ReadersGoOn ==
  /\ \A g \in DOMAIN readers :
       /\ g \in DOMAIN readers' /\ readers'[g].pane = readers[g].pane
       /\ SentOf(g)' = SentOf(g) \/ (SendChunk(g) /\ SentOf(g)' = SentOf(g) + 1)
  /\ \A g \in DOMAIN readers' : readers'[g].hand => readers'[g].read >= 1
  /\ \A g \in DOMAIN readers' : g \notin DOMAIN readers =>
       /\ g = Len(readers) + 1 /\ SentOf(g)' = 0
       /\ stream'[readers'[g].pane] = g /\ readers'[g].pane \in spawned'
  /\ \A t \in Terminals :
       \/ stream'[t] = stream[t] \/ stream'[t] = None
       \/ /\ stream'[t] = Len(readers) + 1 /\ stream'[t] \in DOMAIN readers'
          /\ readers'[stream'[t]].pane = t

LEMMA ReaderSteps ==
  ASSUME StreamsAssumption, PtyTypes, ScreenTypes, OnlySpawned, Generated, [Next]_vars
  PROVE  ReadersGoOn
<1> DEFINE Reader == [pane : Terminals, read : Nat, hand : BOOLEAN]
           New(t) == [pane |-> t, read |-> 0, hand |-> FALSE]
<1>0. /\ readers \in Seq(Reader) /\ Len(readers) \in Nat /\ DOMAIN readers = 1 .. Len(readers)
      /\ \A g \in DOMAIN readers : readers[g] \in Reader
      /\ stream \in [Terminals -> Nat]
      /\ \A g \in DOMAIN readers : readers[g].hand => readers[g].read >= 1
  <2>1. readers \in Seq(Reader) /\ stream \in [Terminals -> Nat]
    BY DEF PtyTypes
  <2> HIDE DEF Reader
  <2>2. \A g \in DOMAIN readers : readers[g] \in Reader
    BY <2>1, ElementOfSeq, LenProperties
  <2>3. Len(readers) \in Nat /\ DOMAIN readers = 1 .. Len(readers)
    BY <2>1, LenProperties
  <2> QED
    BY <2>1, <2>2, <2>3 DEF Generated
<1>1. ASSUME UNCHANGED readers, \A t \in Terminals : stream'[t] = stream[t] \/ stream'[t] = None
      PROVE  ReadersGoOn
  BY <1>0, <1>1 DEF SentOf, ReadersGoOn
<1>2. ASSUME NEW t \in Terminals, StartReader(t), t \in spawned'
      PROVE  ReadersGoOn
  <2>1. New(t) \in Reader
    OBVIOUS
  <2>2. readers' = Append(readers, New(t)) /\ stream' = [stream EXCEPT ![t] = Len(readers) + 1]
    BY <1>2 DEF StartReader
  <2>3. /\ DOMAIN readers' = 1 .. Len(readers) + 1
        /\ \A g \in 1 .. Len(readers) : readers'[g] = readers[g]
        /\ readers'[Len(readers) + 1] = New(t)
    <3> HIDE DEF Reader, New
    <3>1. ASSUME NEW S, NEW q \in Seq(S), NEW e
          PROVE  /\ DOMAIN Append(q, e) = 1 .. Len(q) + 1
                 /\ \A j \in 1 .. Len(q) : Append(q, e)[j] = q[j]
                 /\ Append(q, e)[Len(q) + 1] = e
      OBVIOUS
    <3> QED
      BY <1>0, <2>2, <3>1
  <2>4. ASSUME NEW g \in DOMAIN readers
        PROVE  g \in DOMAIN readers' /\ readers'[g] = readers[g] /\ SentOf(g)' = SentOf(g)
    BY <1>0, <2>3 DEF SentOf
  <2>5. /\ \A g \in DOMAIN readers' : g \notin DOMAIN readers => g = Len(readers) + 1
        /\ readers'[Len(readers) + 1] = New(t) /\ Len(readers) + 1 \in DOMAIN readers'
    BY <1>0, <2>3
  <2>6. ASSUME NEW n, n = Len(readers) + 1
        PROVE  SentOf(n)' = 0
    <3>1. readers'[n] = New(t)
      BY <2>5, <2>6
    <3> QED
      BY <3>1 DEF SentOf
  <2>7. stream'[t] = Len(readers) + 1 /\ \A u \in Terminals \ {t} : stream'[u] = stream[u]
    BY <1>0, <2>2
  <2>8. \A g \in DOMAIN readers' : readers'[g].hand => readers'[g].read >= 1
    <3> SUFFICES ASSUME NEW g \in DOMAIN readers', readers'[g].hand
                 PROVE  readers'[g].read >= 1
      OBVIOUS
    <3>1. g \in DOMAIN readers
      BY <2>5
    <3> QED
      BY <1>0, <2>4, <3>1
  <2>9. ASSUME NEW g \in DOMAIN readers', g \notin DOMAIN readers
        PROVE  /\ g = Len(readers) + 1 /\ SentOf(g)' = 0
               /\ stream'[readers'[g].pane] = g /\ readers'[g].pane \in spawned'
    BY <1>2, <2>5, <2>6, <2>7, <2>9
  <2>10. ASSUME NEW u \in Terminals
         PROVE  \/ stream'[u] = stream[u]
                \/ /\ stream'[u] = Len(readers) + 1 /\ stream'[u] \in DOMAIN readers'
                   /\ readers'[stream'[u]].pane = u
    BY <2>5, <2>7
  <2> QED
    BY <2>4, <2>8, <2>9, <2>10 DEF ReadersGoOn
<1>3. ASSUME NEW t \in Terminals, StopReader(t)
      PROVE  ReadersGoOn
  <2>1. UNCHANGED readers /\ \A u \in Terminals : stream'[u] = stream[u] \/ stream'[u] = None
    BY <1>0, <1>3 DEF StopReader
  <2> QED
    BY <1>1, <2>1
<1>4. ASSUME NEW t \in Terminals, NEW h \in BOOLEAN, SpawnTerminal(t, h)
      PROVE  ReadersGoOn
  <2>1. t \in spawned' /\ (StartReader(t) \/ UNCHANGED <<stream, readers>>)
    BY <1>4 DEF SpawnTerminal
  <2> QED
    BY <1>1, <1>2, <2>1
<1>5. to_pty # <<>> => Head(to_pty).pane \in Terminals /\ Head(to_pty).pane \in spawned
  <2>1. to_pty # <<>> => 1 \in DOMAIN to_pty /\ Head(to_pty) = to_pty[1]
    BY HeadTailProperties, LenProperties DEF PtyTypes
  <2> QED
    BY <2>1, Heads DEF OnlySpawned
<1>6. CASE PtyClosePane
  <2>1. PICK t \in Terminals : StopReader(t)
    BY <1>5, <1>6 DEF PtyClosePane, PtyTakes
  <2> QED
    BY <1>3, <2>1
<1>7. CASE ReRunCommandInPane
  <2>1. spawned' = spawned /\ to_pty # <<>> /\ (StartReader(Head(to_pty).pane) \/ StopReader(Head(to_pty).pane))
    BY <1>7 DEF ReRunCommandInPane, PtyTakes
  <2>2. PICK t \in Terminals : t \in spawned' /\ (StartReader(t) \/ StopReader(t))
    BY <1>5, <2>1
  <2> QED
    BY <1>2, <1>3, <2>2
<1>8. ASSUME NEW g \in DOMAIN readers, ReadChunk(g) \/ SendChunk(g)
      PROVE  ReadersGoOn
  <2>1. UNCHANGED stream
    BY <1>8 DEF ReadChunk, SendChunk, ptyVars
  <2>2. readers[g].read \in Nat /\ readers[g].hand \in BOOLEAN
    BY <1>0
  <2>3. CASE ReadChunk(g)
    <3>1. ~readers[g].hand /\ readers' = [readers EXCEPT ![g] = [pane |-> readers[g].pane, read |-> readers[g].read + 1, hand |-> TRUE]]
      BY <2>3 DEF ReadChunk
    <3>2. DOMAIN readers' = DOMAIN readers /\ \A h \in DOMAIN readers : h # g => readers'[h] = readers[h]
      BY <1>0, <3>1
    <3>3. readers'[g].pane = readers[g].pane /\ readers'[g].hand /\ readers'[g].read = readers[g].read + 1
      BY <1>0, <3>1
    <3>4. \A h \in DOMAIN readers : SentOf(h)' = SentOf(h)
      BY <2>2, <3>1, <3>2, <3>3 DEF SentOf
    <3>5. \A h \in DOMAIN readers' : readers'[h].hand => readers'[h].read >= 1
      BY <1>0, <2>2, <3>2, <3>3
    <3>6. \A h \in DOMAIN readers : readers'[h].pane = readers[h].pane
      BY <3>2, <3>3
    <3> QED
      BY <2>1, <3>2, <3>4, <3>5, <3>6 DEF ReadersGoOn
  <2>4. CASE SendChunk(g)
    <3>1. readers[g].hand /\ readers' = [readers EXCEPT ![g] = [readers[g] EXCEPT !.hand = FALSE]]
      BY <2>4 DEF SendChunk
    <3>2. DOMAIN readers' = DOMAIN readers /\ \A h \in DOMAIN readers : h # g => readers'[h] = readers[h]
      BY <1>0, <3>1
    <3>3. readers'[g].pane = readers[g].pane /\ ~readers'[g].hand /\ readers'[g].read = readers[g].read
      BY <1>0, <3>1
    <3>4. \A h \in DOMAIN readers : h # g => SentOf(h)' = SentOf(h)
      BY <3>2 DEF SentOf
    <3>5. SentOf(g)' = SentOf(g) + 1
      BY <2>2, <3>1, <3>3 DEF SentOf
    <3>6. \A h \in DOMAIN readers' : readers'[h].hand => readers'[h].read >= 1
      BY <1>0, <2>2, <3>2, <3>3
    <3>7. \A h \in DOMAIN readers : readers'[h].pane = readers[h].pane
      BY <3>2, <3>3
    <3> QED
      BY <2>1, <2>4, <3>2, <3>4, <3>5, <3>6, <3>7 DEF ReadersGoOn
  <2> QED
    BY <1>8, <2>3, <2>4
<1>9. CASE Announce \/ UNCHANGED vars \/ ScreenThread
           \/ (\E u \in Terminals : ChildExits(u) \/ CloseFocusedPane(u) \/ RerunPane(u) \/ Deliver(u))
           \/ (\E s \in Subscribers, T \in SUBSET Terminals : Subscribe(s, T))
  <2>1. UNCHANGED <<readers, stream>>
    BY <1>9 DEF Announce, vars, ScreenThread, CreatePane, RefusePane, PtyOutput, ClosePane, HoldPane,
                NotifyPaneClosed, ChildExits, CloseFocusedPane, RerunPane, Deliver, Subscribe, ptyVars
  <2> QED
    BY <1>1, <2>1
<1> QED
  BY <1>4, <1>6, <1>7, <1>8, <1>9 DEF Next, PtyThread

\* What is added to a channel, or waits, is of a terminal that was spawned.
LEMMA PtySpawned ==
  ASSUME StreamsAssumption, PtyTypes, ScreenTypes, OnlySpawned, spawned \subseteq spawned', [Next]_vars
  PROVE  \A i \in DOMAIN to_pty' : to_pty'[i].pane \in spawned'
<1> DEFINE Goal == \A i \in DOMAIN to_pty' : to_pty'[i].pane \in spawned'
<1>0. to_pty \in Seq(ToPty) /\ \A i \in DOMAIN to_pty : to_pty[i].pane \in spawned
  BY DEF PtyTypes, OnlySpawned
<1>1. to_pty' = to_pty => Goal
  BY <1>0
<1>2. ASSUME NEW u \in spawned, NEW k, to_pty' = Append(to_pty, Event(k, u))
      PROVE  Goal
  <2>1. ASSUME NEW S, NEW q \in Seq(S), NEW e, NEW i \in DOMAIN Append(q, e)
        PROVE  (i \in DOMAIN q /\ Append(q, e)[i] = q[i]) \/ Append(q, e)[i] = e
    BY <2>1
  <2>2. \A i \in DOMAIN to_pty' : (i \in DOMAIN to_pty /\ to_pty'[i] = to_pty[i]) \/ to_pty'[i] = Event(k, u)
    BY <1>0, <1>2, <2>1
  <2>3. Event(k, u).pane = u
    BY DEF Event
  <2> QED
    BY <1>0, <2>2, <2>3
<1>3. ASSUME to_pty # <<>>, to_pty' = Tail(to_pty)
      PROVE  Goal
  <2>1. ASSUME NEW S, NEW q \in Seq(S), q # <<>>, NEW i \in DOMAIN Tail(q)
        PROVE  i + 1 \in DOMAIN q /\ Tail(q)[i] = q[i + 1]
    BY <2>1
  <2> QED
    BY <1>0, <1>3, <2>1
<1>4. CASE ScreenThread
  <2>1. \/ to_pty' = to_pty
        \/ to_screen # <<>> /\ to_pty' = Append(to_pty, Event("ClosePane", Head(to_screen).pane))
    BY <1>4 DEF ScreenThread, CreatePane, RefusePane, PtyOutput, ClosePane, HoldPane,
                NotifyPaneClosed, ScreenTakes
  <2>2. CASE to_screen # <<>> /\ to_pty' = Append(to_pty, Event("ClosePane", Head(to_screen).pane))
    <3>1. PICK u \in spawned : u = Head(to_screen).pane
      BY <2>2, SpawnedHeads
    <3> QED
      BY <1>2, <2>2, <3>1
  <2> QED
    BY <1>1, <2>1, <2>2
<1>5. ASSUME NEW u \in Terminals, CloseFocusedPane(u) \/ RerunPane(u)
      PROVE  Goal
  <2>1. u \in spawned
    BY <1>5 DEF CloseFocusedPane, RerunPane, OnlySpawned
  <2>2. \E k : to_pty' = Append(to_pty, Event(k, u))
    BY <1>5 DEF CloseFocusedPane, RerunPane
  <2> QED
    BY <1>2, <2>1, <2>2
<1>6. CASE PtyClosePane \/ ReRunCommandInPane
  BY <1>3, <1>6 DEF PtyClosePane, ReRunCommandInPane, PtyTakes
<1>7. CASE Announce \/ UNCHANGED vars \/ (\E u \in Terminals, b \in BOOLEAN : SpawnTerminal(u, b))
           \/ (\E g \in DOMAIN readers : ReadChunk(g) \/ SendChunk(g))
           \/ (\E u \in Terminals : ChildExits(u) \/ Deliver(u))
           \/ (\E s \in Subscribers, T \in SUBSET Terminals : Subscribe(s, T))
  <2>1. to_pty' = to_pty
    BY <1>7 DEF Announce, vars, SpawnTerminal, ReadChunk, SendChunk, ChildExits, Deliver, Subscribe
  <2> QED
    BY <1>1, <2>1
<1> QED
  BY <1>4, <1>5, <1>6, <1>7 DEF Next, PtyThread

LEMMA EventsSpawned ==
  ASSUME PtyTypes, ScreenTypes, OnlySpawned, spawned \subseteq spawned', [Next]_vars, NEW t \in Terminals
  PROVE  \A i \in DOMAIN events'[t] : events'[t][i].pane \in spawned'
<1>0. /\ events \in [Terminals -> Seq(ScreenEvents)] /\ events[t] \in Seq(ScreenEvents)
      /\ \A i \in DOMAIN events[t] : events[t][i].pane \in spawned
  BY DEF ScreenTypes, OnlySpawned
<1>1. \/ events'[t] = events[t] \/ events'[t] = <<>>
      \/ to_screen # <<>> /\ events'[t] = Append(events[t], Head(to_screen))
  <2>1. CASE PtyThread \/ UNCHANGED vars \/ (\E u \in Terminals, b \in BOOLEAN : SpawnTerminal(u, b))
             \/ (\E g \in DOMAIN readers : ReadChunk(g) \/ SendChunk(g))
             \/ (\E u \in Terminals : ChildExits(u) \/ CloseFocusedPane(u) \/ RerunPane(u) \/ Deliver(u))
             \/ (\E s \in Subscribers, T \in SUBSET Terminals : Subscribe(s, T))
    <3>1. UNCHANGED events
      BY <2>1 DEF PtyThread, Announce, PtyClosePane, ReRunCommandInPane, vars, SpawnTerminal, ReadChunk,
                  SendChunk, ChildExits, CloseFocusedPane, RerunPane, Deliver, Subscribe, screenVars,
                  pendingVars
    <3> QED
      BY <3>1
  <2>2. CASE CreatePane \/ RefusePane \/ PtyOutput \/ NotifyPaneClosed
    BY <1>0, <2>2 DEF CreatePane, RefusePane, PtyOutput, NotifyPaneClosed, DropPending, pendingVars
  <2>3. CASE ClosePane
    BY <1>0, <2>3 DEF ClosePane, Wait, DropPending, pendingVars, ScreenTakes
  <2>4. CASE HoldPane
    BY <1>0, <2>4 DEF HoldPane, Wait, DropPending, pendingVars, ScreenTakes
  <2> QED
    BY <2>1, <2>2, <2>3, <2>4 DEF Next, ScreenThread
<1>2. CASE events'[t] = events[t] \/ events'[t] = <<>>
  BY <1>0, <1>2
<1>3. CASE to_screen # <<>> /\ events'[t] = Append(events[t], Head(to_screen))
  <2>1. ASSUME NEW S, NEW q \in Seq(S), NEW e, NEW i \in DOMAIN Append(q, e)
        PROVE  (i \in DOMAIN q /\ Append(q, e)[i] = q[i]) \/ Append(q, e)[i] = e
    BY <2>1
  <2>2. \A i \in DOMAIN events'[t] : (i \in DOMAIN events[t] /\ events'[t][i] = events[t][i])
                                       \/ events'[t][i] = Head(to_screen)
    BY <1>0, <1>3, <2>1
  <2> QED
    BY <1>0, <1>3, <2>2, SpawnedHeads
<1> QED
  BY <1>1, <1>2, <1>3

\* Only programs of terminals that were spawned run and end.
LEMMA ChildSteps ==
  ASSUME PtyTypes, ScreenTypes, StoreTypes, OnlySpawned, [Next]_vars
  PROVE  /\ child' = [t \in Terminals |-> child'[t]]
         /\ \A t \in Terminals : t \notin spawned' => child'[t] = child[t]
<1>0. child = [t \in Terminals |-> child[t]]
  BY DEF StoreTypes
<1>1. ASSUME NEW u, u \in spawned', NEW v, child' = [child EXCEPT ![u] = v]
      PROVE  /\ child' = [t \in Terminals |-> child'[t]]
             /\ \A t \in Terminals : t \notin spawned' => child'[t] = child[t]
  BY <1>0, <1>1
<1>2. ASSUME child' = child
      PROVE  /\ child' = [t \in Terminals |-> child'[t]]
             /\ \A t \in Terminals : t \notin spawned' => child'[t] = child[t]
  BY <1>0, <1>2
<1>3. ASSUME NEW t \in Terminals, NEW h \in BOOLEAN, SpawnTerminal(t, h)
      PROVE  child' = child \/ (t \in spawned' /\ \E v : child' = [child EXCEPT ![t] = v])
  BY <1>3 DEF SpawnTerminal
<1>4. CASE ReRunCommandInPane
  <2>1. PICK u : u = Head(to_pty).pane
    OBVIOUS
  <2>2. u \in spawned' /\ \E v : child' = [child EXCEPT ![u] = v]
    BY <1>4, <2>1, SpawnedHeads DEF ReRunCommandInPane, PtyTakes
  <2> QED
    BY <1>1, <2>2
<1>5. ASSUME NEW t \in Terminals, ChildExits(t)
      PROVE  t \in spawned' /\ \E v : child' = [child EXCEPT ![t] = v]
  BY <1>5 DEF ChildExits, OnlySpawned, ptyVars
<1>6. CASE Announce \/ PtyClosePane \/ UNCHANGED vars \/ ScreenThread
             \/ (\E g \in DOMAIN readers : ReadChunk(g) \/ SendChunk(g))
             \/ (\E u \in Terminals : CloseFocusedPane(u) \/ RerunPane(u) \/ Deliver(u))
             \/ (\E s \in Subscribers, T \in SUBSET Terminals : Subscribe(s, T))
  <2>1. child' = child
    BY <1>6 DEF Announce, PtyClosePane, vars, ScreenThread, CreatePane, RefusePane, PtyOutput, ClosePane,
                HoldPane, NotifyPaneClosed, ReadChunk, SendChunk, CloseFocusedPane, RerunPane, Deliver,
                Subscribe
  <2> QED
    BY <1>2, <2>1
<1> QED
  BY <1>1, <1>2, <1>3, <1>4, <1>5, <1>6 DEF Next, PtyThread

\* The invariants of the life of terminals are kept.
LEMMA OnlySpawnedKept ==
  ASSUME StreamsAssumption, PtyTypes, ScreenTypes, StoreTypes, OnlySpawned, Generated, [Next]_vars
  PROVE  OnlySpawned'
<1>1. \A t \in Terminals :
        /\ panes'[t] # "absent" => panes[t] # "absent" \/ (CreatePane /\ Head(to_screen).pane = t)
        /\ announcing' = t =>
              announcing = t \/ (t \notin spawned /\ panes' = panes /\ stream'[t] = Len(readers) + 1)
        /\ t \in never_created' => t \in never_created \/ (RefusePane /\ Head(to_screen).pane = t)
  BY PaneSteps
<1>2. spawned \subseteq spawned'
  <2>1. CASE \E t \in Terminals : TRUE
    BY <2>1, PaneSteps
  <2>2. CASE ~\E t \in Terminals : TRUE
    BY <2>2 DEF StoreTypes
  <2> QED
    BY <2>1, <2>2
<1>3. ReadersGoOn
  BY ReaderSteps
<1>4. \A i \in DOMAIN to_screen' : to_screen'[i].pane \in spawned'
  <2>1. PICK d \in {0, 1}, added \in Seq(ToScreen) : Adds(d, added)
    BY ChannelStep DEF StoreTypes
  <2>2. \A i \in DOMAIN to_screen' :
          \/ i + d \in DOMAIN to_screen /\ to_screen'[i] = to_screen[i + d]
          \/ /\ i - (Len(to_screen) - d) \in DOMAIN added
             /\ to_screen'[i] = added[i - (Len(to_screen) - d)]
    BY <2>1, NewScreen
  <2>3. \A i \in DOMAIN added : added[i].pane \in spawned'
    BY <2>1 DEF Adds
  <2> QED
    BY <1>2, <2>2, <2>3 DEF OnlySpawned
<1>5. \A i \in DOMAIN to_pty' : to_pty'[i].pane \in spawned'
  BY <1>2, PtySpawned
<1>6. \A t \in Terminals : \A i \in DOMAIN events'[t] : events'[t][i].pane \in spawned'
  BY <1>2, EventsSpawned
<1>7. \A g \in DOMAIN readers' : readers'[g].pane \in spawned'
  BY <1>2, <1>3 DEF ReadersGoOn, OnlySpawned
<1>8. ASSUME NEW t \in Terminals, t \notin spawned'
      PROVE  /\ stream'[t] = None /\ child'[t] # "running" /\ announcing' # t /\ t \notin never_created'
             /\ panes'[t] = "absent" /\ fed'[t] = <<>> /\ rings'[t] = NoRing
  <2>1. /\ t \notin spawned /\ stream[t] = None /\ child[t] # "running" /\ announcing # t
        /\ t \notin never_created /\ panes[t] = "absent" /\ fed[t] = <<>> /\ rings[t] = NoRing
    BY <1>2, <1>8 DEF OnlySpawned
  <2>2. to_screen # <<>> => Head(to_screen).pane # t
    BY <2>1, SpawnedHeads
  <2>3. stream'[t] = None
    BY <1>3, <1>7, <1>8, <2>1 DEF ReadersGoOn
  <2>4. announcing' # t
    <3>1. Len(readers) + 1 # None
      BY LenProperties DEF PtyTypes, None
    <3> QED
      BY <1>1, <2>1, <2>3, <3>1
  <2>5. child'[t] # "running"
    BY <1>8, <2>1, ChildSteps
  <2>6. t \notin never_created' /\ panes'[t] = "absent"
    <3>1. ~(CreatePane /\ Head(to_screen).pane = t) /\ ~(RefusePane /\ Head(to_screen).pane = t)
      BY <2>2 DEF CreatePane, RefusePane, ScreenTakes
    <3> QED
      BY <1>1, <2>1, <3>1 
  <2>7. Untouched(t)
    BY <2>2, StoreSteps
  <2> QED
    BY <2>1, <2>3, <2>4, <2>5, <2>6, <2>7 DEF Untouched
<1> QED
  BY <1>4, <1>5, <1>6, <1>7, <1>8 DEF OnlySpawned

LEMMA GeneratedKept ==
  ASSUME StreamsAssumption, PtyTypes, ScreenTypes, OnlySpawned, Generated, [Next]_vars
  PROVE  Generated'
<1>1. ReadersGoOn
  BY ReaderSteps
<1>2. Len(readers) \in Nat /\ DOMAIN readers = 1 .. Len(readers)
  BY LenProperties DEF PtyTypes
<1>3. ASSUME NEW t \in Terminals, stream'[t] # None
      PROVE  /\ stream'[t] \in DOMAIN readers' /\ readers'[stream'[t]].pane = t
             /\ \A g \in DOMAIN readers' : readers'[g].pane = t => g <= stream'[t]
  <2>1. CASE stream'[t] = stream[t] /\ stream'[t] # Len(readers) + 1
    <3>1. /\ stream[t] \in DOMAIN readers /\ readers[stream[t]].pane = t
          /\ \A g \in DOMAIN readers : readers[g].pane = t => g <= stream[t]
      BY <1>3, <2>1 DEF Generated
    <3>2. \A g \in DOMAIN readers' : g \in DOMAIN readers \/ (g = Len(readers) + 1 /\ stream'[readers'[g].pane] = g)
      BY <1>1 DEF ReadersGoOn
    <3>3. \A g \in DOMAIN readers : g \in DOMAIN readers' /\ readers'[g].pane = readers[g].pane
      BY <1>1 DEF ReadersGoOn
    <3> QED
      BY <2>1, <3>1, <3>2, <3>3
  <2>2. CASE stream'[t] = Len(readers) + 1 /\ stream'[t] \in DOMAIN readers' /\ readers'[stream'[t]].pane = t
    <3>1. \A g \in DOMAIN readers' : g \in DOMAIN readers \/ g = Len(readers) + 1
      BY <1>1 DEF ReadersGoOn
    <3> QED
      BY <1>2, <2>2, <3>1
  <2>3. stream[t] # None => stream[t] # Len(readers) + 1
    BY <1>2 DEF Generated
  <2> QED
    BY <1>1, <1>3, <2>1, <2>2, <2>3 DEF ReadersGoOn
<1> QED
  BY <1>1, <1>3 DEF Generated, ReadersGoOn

-----------------------------------------------------------------------------
(* Panes *)

Coming(t) == announcing = t \/ Sent("NewPane", t, to_screen)

\* A pane that comes after a step came before, or its terminal was just spawned.
LEMMA ComingSteps ==
  ASSUME StreamsAssumption, PtyTypes, ScreenTypes, StoreTypes, OnlySpawned, Generated, OneLife,
         [Next]_vars, NEW t \in Terminals, Coming(t)'
  PROVE  /\ Coming(t) \/ t \notin spawned
         /\ ~(to_screen # <<>> /\ Head(to_screen).pane = t /\ (CreatePane \/ RefusePane))
         /\ panes'[t] = "absent"
<1>1. PICK d \in {0, 1}, added \in Seq(ToScreen) : Adds(d, added)
  BY ChannelStep DEF StoreTypes
<1>2. Coming(t) \/ t \notin spawned
  <2>1. CASE announcing' = t
    BY <2>1, PaneSteps DEF Coming
  <2>2. ASSUME NEW i \in DOMAIN to_screen', to_screen'[i].kind = "NewPane", to_screen'[i].pane = t
        PROVE  Coming(t) \/ t \notin spawned
    <3>1. CASE i + d \in DOMAIN to_screen /\ to_screen'[i] = to_screen[i + d]
      BY <2>2, <3>1 DEF Coming, Sent
    <3>2. CASE /\ i - (Len(to_screen) - d) \in DOMAIN added
               /\ to_screen'[i] = added[i - (Len(to_screen) - d)]
      BY <1>1, <2>2, <3>2 DEF Adds, Coming
    <3> QED
      BY <1>1, <3>1, <3>2, NewScreen
  <2> QED
    BY <2>1, <2>2 DEF Coming, Sent
<1>3. ASSUME to_screen # <<>>, Head(to_screen).pane = t, CreatePane \/ RefusePane
      PROVE  FALSE
  <2>1. /\ 1 \in DOMAIN to_screen /\ to_screen[1].pane = t /\ to_screen[1].kind = "NewPane"
    BY <1>3, SpawnedHeads DEF CreatePane, RefusePane, ScreenTakes
  <2>2. announcing # t
    BY <2>1 DEF OneLife, Sent
  <2>3. t \in spawned
    BY <2>1 DEF OnlySpawned
  <2>4. announcing' # t
    BY <2>2, <2>3, PaneSteps
  <2>5. PICK i \in DOMAIN to_screen' : to_screen'[i].kind = "NewPane" /\ to_screen'[i].pane = t
    BY <2>4 DEF Coming, Sent
  <2>6. PICK rest \in Seq(ToScreen) :
          Adds(1, rest) /\ \A k \in DOMAIN rest : rest[k].kind \in {"ClosePane", "HoldPane"}
    BY <1>3, TakenStep
  <2>7. CASE i + 1 \in DOMAIN to_screen /\ to_screen'[i] = to_screen[i + 1]
    <3>1. i >= 1 /\ i \in Nat
      BY <2>6, NewScreen
    <3>2. i + 1 = 1
      BY <2>1, <2>5, <2>7 DEF OneLife
    <3> QED
      BY <3>1, <3>2
  <2>8. CASE /\ i - (Len(to_screen) - 1) \in DOMAIN rest
             /\ to_screen'[i] = rest[i - (Len(to_screen) - 1)]
    BY <2>5, <2>6, <2>8
  <2> QED
    BY <2>6, <2>7, <2>8, NewScreen
<1>4. panes[t] = "absent"
  BY <1>2 DEF OneLife, OnlySpawned, Coming
<1>5. panes'[t] = "absent"
  <2>1. CreatePane => to_screen # <<>>
    BY DEF CreatePane, ScreenTakes
  <2> QED
    BY <1>3, <1>4, <2>1, PaneSteps
<1> QED
  BY <1>2, <1>3, <1>5

\* A pane that is there or comes was so before, or its terminal was just spawned.
LEMMA HasPaneSteps ==
  ASSUME StreamsAssumption, PtyTypes, ScreenTypes, StoreTypes, OnlySpawned, Generated, OneLife,
         [Next]_vars, NEW t \in Terminals, HasPane(t)'
  PROVE  /\ HasPane(t) \/ t \notin spawned
         /\ ~(to_screen # <<>> /\ Head(to_screen).pane = t /\ RefusePane)
<1>1. CASE Coming(t)'
  BY <1>1, ComingSteps DEF Coming, HasPane
<1>2. CASE panes'[t] # "absent"
  <2>1. CASE panes[t] # "absent"
    <3>1. ~(to_screen # <<>> /\ Head(to_screen).pane = t /\ RefusePane)
      <4> SUFFICES ASSUME to_screen # <<>>, Head(to_screen).pane = t, RefusePane
                   PROVE  FALSE
        OBVIOUS
      <4>1. Sent("NewPane", t, to_screen)
        BY SpawnedHeads DEF RefusePane, ScreenTakes, Sent
      <4> QED
        BY <2>1, <4>1 DEF OneLife
    <3> QED
      BY <2>1, <3>1 DEF HasPane
  <2>2. CASE CreatePane /\ Head(to_screen).pane = t
    <3>1. Sent("NewPane", t, to_screen)
      BY <2>2, SpawnedHeads DEF CreatePane, ScreenTakes, Sent
    <3>2. ~RefusePane
      <4>1. CreatePane => panes'[t] # "absent"
        BY <2>2, SpawnedHeads DEF CreatePane, ScreenTakes, ScreenTypes
      <4>2. RefusePane => panes'[t] = panes[t]
        BY DEF RefusePane
      <4>3. panes[t] = "absent"
        BY <3>1 DEF OneLife
      <4> QED
        BY <2>2, <4>1, <4>2, <4>3
    <3> QED
      BY <3>1, <3>2 DEF HasPane
  <2> QED
    BY <1>2, <2>1, <2>2, PaneSteps
<1> QED
  BY <1>1, <1>2 DEF HasPane, Coming

LEMMA OneLifeKept ==
  ASSUME StreamsAssumption, PtyTypes, ScreenTypes, StoreTypes, OnlySpawned, Generated, OneLife,
         [Next]_vars
  PROVE  OneLife'
<1>1. PICK d \in {0, 1}, added \in Seq(ToScreen) : Adds(d, added)
  BY ChannelStep DEF StoreTypes
<1>2. \A i \in DOMAIN to_screen' :
        \/ i + d \in DOMAIN to_screen /\ to_screen'[i] = to_screen[i + d]
        \/ /\ i - (Len(to_screen) - d) \in DOMAIN added
           /\ to_screen'[i] = added[i - (Len(to_screen) - d)]
  BY <1>1, NewScreen
<1>3. \A i \in DOMAIN to_screen' : i \in Nat
  BY <1>1, NewScreen
<1>4. Len(to_screen) \in Nat
  BY <1>1, NewScreen
<1>5. ASSUME NEW i \in DOMAIN to_screen', NEW j \in DOMAIN to_screen',
             to_screen'[i].kind = "NewPane", to_screen'[j].kind = "NewPane",
             to_screen'[i].pane = to_screen'[j].pane
      PROVE  i = j
  <2> DEFINE old(k) == k + d \in DOMAIN to_screen /\ to_screen'[k] = to_screen[k + d]
             new(k) == k - (Len(to_screen) - d) \in DOMAIN added
                         /\ to_screen'[k] = added[k - (Len(to_screen) - d)]
  <2>1. CASE old(i) /\ old(j)
    <3>1. i + d = j + d
      BY <1>5, <2>1 DEF OneLife
    <3> QED
      BY <1>3, <3>1
  <2>2. CASE new(i) /\ new(j)
    <3>1. i - (Len(to_screen) - d) = j - (Len(to_screen) - d)
      BY <1>1, <1>5, <2>2 DEF Adds
    <3> QED
      BY <1>3, <1>4, <3>1
  <2>3. ASSUME NEW k \in DOMAIN to_screen', NEW l \in DOMAIN to_screen',
               to_screen'[k].kind = "NewPane", to_screen'[l].kind = "NewPane",
               to_screen'[k].pane = to_screen'[l].pane, old(k), new(l)
        PROVE  FALSE
    <3> DEFINE t == to_screen'[k].pane
    <3>1. t \in spawned /\ Sent("NewPane", t, to_screen)
      BY <2>3 DEF OnlySpawned, Sent
    <3>2. t \notin spawned \/ announcing = t
      BY <1>1, <2>3 DEF Adds
    <3>3. t \in Terminals
      BY <3>1 DEF StoreTypes
    <3> HIDE DEF t
    <3> QED
      BY <3>1, <3>2, <3>3 DEF OneLife
  <2> QED
    BY <1>2, <1>5, <2>1, <2>2, <2>3
<1>6. ASSUME NEW t \in Terminals, announcing' = t
      PROVE  ~Sent("NewPane", t, to_screen')
  <2>1. announcing = t \/ t \notin spawned
    BY <1>6, PaneSteps
  <2>2. ASSUME NEW i \in DOMAIN to_screen', to_screen'[i].kind = "NewPane", to_screen'[i].pane = t
        PROVE  FALSE
    <3>1. CASE i + d \in DOMAIN to_screen /\ to_screen'[i] = to_screen[i + d]
      <4>1. t \in spawned /\ Sent("NewPane", t, to_screen)
        BY <2>2, <3>1 DEF OnlySpawned, Sent
      <4> QED
        BY <2>1, <4>1 DEF OneLife
    <3>2. CASE /\ i - (Len(to_screen) - d) \in DOMAIN added
               /\ to_screen'[i] = added[i - (Len(to_screen) - d)]
      BY <1>1, <1>6, <2>2, <3>2 DEF Adds
    <3> QED
      BY <1>2, <3>1, <3>2
  <2> QED
    BY <2>2 DEF Sent
<1>7. ASSUME NEW t \in Terminals, Coming(t)'
      PROVE  panes'[t] = "absent" /\ fed'[t] = <<>> /\ rings'[t] = NoRing
  <2>1. /\ Coming(t) \/ t \notin spawned
        /\ ~(to_screen # <<>> /\ Head(to_screen).pane = t /\ (CreatePane \/ RefusePane))
        /\ panes'[t] = "absent"
    BY <1>7, ComingSteps
  <2>2. panes[t] = "absent" /\ fed[t] = <<>> /\ rings[t] = NoRing
    BY <2>1 DEF OneLife, OnlySpawned, Coming
  <2>3. fed'[t] = fed[t] /\ rings'[t] \in {rings[t], NoRing}
    <3>1. PtyOutput /\ Head(to_screen).pane = t => fed'[t] = fed[t] /\ rings'[t] = rings[t]
      BY <2>2 DEF PtyOutput
    <3> QED
      BY <2>1, <3>1, StoreSteps DEF Untouched
  <2> QED
    BY <2>1, <2>2, <2>3
<1>8. ASSUME NEW t \in Terminals, HasPane(t)'
      PROVE  t \notin never_created' /\ ~Sent("NotifyPaneClosed", t, to_screen')
  <2>1. /\ HasPane(t) \/ t \notin spawned
        /\ ~(to_screen # <<>> /\ Head(to_screen).pane = t /\ RefusePane)
    BY <1>8, HasPaneSteps
  <2>2. t \notin never_created /\ (t \in spawned => ~Sent("NotifyPaneClosed", t, to_screen))
    BY <2>1 DEF OneLife, OnlySpawned
  <2>3. t \notin never_created'
    <3>1. RefusePane => to_screen # <<>>
      BY DEF RefusePane, ScreenTakes
    <3> QED
      BY <2>1, <2>2, <3>1, PaneSteps
  <2>4. ASSUME NEW i \in DOMAIN to_screen', to_screen'[i].kind = "NotifyPaneClosed", to_screen'[i].pane = t
        PROVE  FALSE
    <3>1. CASE i + d \in DOMAIN to_screen /\ to_screen'[i] = to_screen[i + d]
      <4>1. t \in spawned /\ Sent("NotifyPaneClosed", t, to_screen)
        BY <2>4, <3>1 DEF OnlySpawned, Sent
      <4> QED
        BY <2>2, <4>1
    <3>2. CASE /\ i - (Len(to_screen) - d) \in DOMAIN added
               /\ to_screen'[i] = added[i - (Len(to_screen) - d)]
      <4>1. panes[t] # "absent" /\ panes'[t] = "absent"
        BY <1>1, <2>4, <3>2 DEF Adds
      <4>2. Coming(t)'
        BY <1>8, <4>1 DEF HasPane, Coming
      <4>3. Coming(t) \/ t \notin spawned
        BY <4>2, ComingSteps
      <4> QED
        BY <4>1, <4>3 DEF OneLife, OnlySpawned, Coming
    <3> QED
      BY <1>2, <3>1, <3>2
  <2> QED
    BY <2>3, <2>4 DEF Sent
<1>9. ASSUME NEW t \in Terminals, panes'[t] # "absent"
      PROVE  output'[t] = <<>>
  <2>1. CASE CreatePane /\ Head(to_screen).pane = t
    BY <2>1, SpawnedHeads DEF CreatePane, DropPending, ScreenTakes, StoreTypes
  <2>2. CASE panes[t] # "absent" /\ ~(CreatePane /\ Head(to_screen).pane = t)
    <3>1. output[t] = <<>>
      BY <2>2 DEF OneLife
    <3>2. PtyOutput /\ Head(to_screen).pane = t => output'[t] = output[t]
      BY <2>2 DEF PtyOutput
    <3> QED
      BY <2>2, <3>1, <3>2, StoreSteps DEF Untouched
  <2> QED
    BY <1>9, <2>1, <2>2, PaneSteps
<1> QED
  BY <1>5, <1>6, <1>7, <1>8, <1>9 DEF OneLife, Coming

-----------------------------------------------------------------------------
(* The output on its way *)

\* The stream that is live is the one of the terminal.
LEMMA LiveIs ==
  ASSUME StoreTypes, Generated, NEW t \in Terminals, NEW c, WasSent(t, c), c[1] \in live
  PROVE  c[1] = stream[t] /\ stream[t] # None
<1>1. PICK u \in Terminals : c[1] = stream[u] /\ stream[u] # None
  BY DEF StoreTypes
<1>2. readers[c[1]].pane = u
  BY <1>1 DEF Generated
<1> QED
  BY <1>1, <1>2 DEF WasSent

\* What is at the head of Screen's channel is given to its pane, or waits for it.
LEMMA OutputStep ==
  ASSUME StreamsAssumption, PtyTypes, ScreenTypes, WayInv, PtyOutput, NEW t \in Terminals,
         Head(to_screen).pane = t
  PROVE  /\ to_screen # <<>> /\ Head(to_screen) \in OutputEvents /\ IsOutput(Head(to_screen))
         /\ WasSent(t, Chunk(Head(to_screen)))
         /\ \/ /\ panes[t] # "absent" /\ Head(to_screen).generation \in live
               /\ fed'[t] = Append(fed[t], Chunk(Head(to_screen)))
               /\ Given(rings'[t], fed'[t])
               /\ output'[t] = output[t]
            \/ /\ panes[t] = "absent" /\ Head(to_screen).generation \in live /\ t \notin never_created
               /\ fed'[t] = fed[t] /\ rings'[t] = rings[t]
               /\ output'[t] = Append(output[t], Head(to_screen))
            \/ /\ Head(to_screen).generation \notin live \/ t \in never_created
               /\ Untouched(t)
<1> DEFINE o == Head(to_screen)
           store == [ring |-> rings[t], fed |-> fed[t]]
           next == Apply(store, o)
<1>1. /\ to_screen # <<>> /\ IsOutput(o) /\ o.kind = "PtyOutput" /\ 1 \in DOMAIN to_screen /\ o = to_screen[1]
      /\ o \in ToScreen
  BY Heads, SpawnedHeads DEF PtyOutput, ScreenTakes, IsOutput, WayInv
<1>2. o \in OutputEvents
  BY <1>1 DEF ToScreen, ScreenEvents, OutputEvents
<1>3. WasSent(t, Chunk(o))
  BY <1>1 DEF WayInv, AllSent
<1>4. Chunk(o)[1] = o.generation /\ Chunk(o)[2] = o.sequence /\ o.generation \in Nat /\ o.sequence \in Int
  BY <1>2 DEF Chunk, OutputEvents
<1>5. \/ /\ panes[t] # "absent" /\ panes' = panes
         /\ rings'[t] = next.ring /\ fed'[t] = next.fed /\ output'[t] = output[t]
      \/ /\ panes[t] = "absent" /\ rings'[t] = rings[t] /\ fed'[t] = fed[t]
         /\ output'[t] = IF o.generation \in live /\ t \notin never_created THEN Append(output[t], o) ELSE output[t]
  BY DEF PtyOutput, WayInv, StoreTypes
<1> HIDE DEF o
<1>6. CASE panes[t] = "absent"
  <2>1. CASE o.generation \in live /\ t \notin never_created
    BY <1>1, <1>2, <1>3, <1>5, <1>6, <2>1 DEF o
  <2>2. CASE ~(o.generation \in live /\ t \notin never_created)
    BY <1>1, <1>2, <1>3, <1>5, <1>6, <2>2 DEF o, Untouched
  <2> QED
    BY <2>1, <2>2
<1>7. CASE panes[t] # "absent" /\ o.generation \notin live
  <2>1. next = store
    BY <1>7 DEF Apply
  <2> QED
    BY <1>1, <1>2, <1>3, <1>5, <1>7, <2>1 DEF o, Untouched
<1>8. CASE panes[t] # "absent" /\ o.generation \in live
  <2>1. Given(rings[t], fed[t])
    BY <1>8 DEF WayInv, PanesGiven
  <2>2. o.generation = stream[t] /\ stream[t] # None
    BY <1>3, <1>4, <1>8, LiveIs DEF WayInv
  <2>3. None \notin live
    BY DEF WayInv, StoreTypes
  <2>4. 0 <= o.sequence /\ o.sequence < SentOf(stream[t])
    BY <1>3, <1>4, <2>2 DEF WasSent
  <2>5. \A j \in DOMAIN fed[t] : fed[t][j] \in Nat \X Int
    BY ElementOfSeq, LenProperties DEF WayInv, StoreTypes
  <2>6. ASSUME NEW j \in DOMAIN fed[t]
        PROVE  Ascend(fed[t][j], Chunk(o))
    <3>1. WasSent(t, fed[t][j])
      BY DEF WayInv, AllSent
    <3>2. fed[t][j][1] <= stream[t]
      BY <2>2, <3>1 DEF WasSent, WayInv, Generated
    <3>3. Earlier(fed[t][j], Chunk(o))
      BY <1>1 DEF WayInv, InOrder
    <3>4. fed[t][j][1] \in Nat /\ fed[t][j][2] \in Int
      BY <2>5
    <3> QED
      BY <1>4, <2>2, <3>2, <3>3, <3>4 DEF Earlier, Ascend
  <2>7. o.sequence = 0 \/ \E j \in DOMAIN fed[t] : fed[t][j] = <<o.generation, o.sequence - 1>>
    <3> SUFFICES ASSUME o.sequence # 0
                 PROVE  \E j \in DOMAIN fed[t] : fed[t][j] = <<o.generation, o.sequence - 1>>
      OBVIOUS
    <3> DEFINE n == o.sequence - 1
    <3>1. n \in 0 .. SentOf(stream[t]) - 1
      <4>1. SentOf(stream[t]) \in Int
        <5>1. stream[t] \in DOMAIN readers
          BY <2>2 DEF WayInv, Generated
        <5>2. readers[stream[t]].read \in Nat
          <6> DEFINE Reader == [pane : Terminals, read : Nat, hand : BOOLEAN]
          <6>1. readers \in Seq(Reader)
            BY DEF PtyTypes
          <6> HIDE DEF Reader
          <6>2. readers[stream[t]] \in Reader
            BY <5>1, <6>1, ElementOfSeq, LenProperties
          <6> QED
            BY <6>2 DEF Reader
        <5> QED
          BY <5>2 DEF SentOf
      <4> QED
        BY <1>4, <2>4, <4>1
    <3>2. Somewhere(t, <<stream[t], n>>)
      <4>1. HasPane(t)
        BY <1>8 DEF HasPane
      <4> QED
        BY <2>2, <3>1, <4>1 DEF WayInv, NothingLost
    <3>3. output[t] = <<>>
      BY <1>8 DEF WayInv, OneLife
    <3>4. ASSUME NEW j \in DOMAIN to_screen, IsOutput(to_screen[j]), Chunk(to_screen[j]) = <<stream[t], n>>
          PROVE  FALSE
      <4>1. CASE j = 1
        <5>1. Chunk(o) = <<stream[t], n>>
          BY <1>1, <3>4, <4>1
        <5> QED
          BY <1>4, <5>1
      <4>2. CASE j # 1
        <5>1. j > 1 /\ j \in Nat
          BY <4>2, LenProperties DEF ScreenTypes
        <5>2. Earlier(Chunk(o), Chunk(to_screen[j]))
          BY <1>1, <3>4, <5>1 DEF WayInv, InOrder
        <5>3. Earlier(Chunk(o), <<stream[t], n>>)
          BY <3>4, <5>2
        <5> QED
          BY <1>4, <2>2, <5>3 DEF Earlier
      <4> QED
        BY <4>1, <4>2
    <3>5. \E j \in DOMAIN fed[t] : fed[t][j] = <<stream[t], n>>
      BY <3>2, <3>3, <3>4 DEF Somewhere
    <3> QED
      BY <2>2, <3>5
  <2>8. /\ next = [ring |-> Pushed(rings[t], o), fed |-> Append(fed[t], Chunk(o))]
        /\ Given(Pushed(rings[t], o), Append(fed[t], Chunk(o)))
    <3>1. PICK ring, f : ring = rings[t] /\ f = fed[t]
      OBVIOUS
    <3>2. PICK e \in OutputEvents : e = o
      BY <1>2
    <3>3. Given(ring, f) /\ e.generation \in live /\ 0 <= e.sequence
          /\ \A j \in DOMAIN f : Ascend(f[j], Chunk(e))
      BY <1>8, <2>1, <2>4, <2>6, <3>1, <3>2
    <3>4. e.sequence = 0 \/ \E j \in DOMAIN f : f[j] = <<e.generation, e.sequence - 1>>
      BY <2>7, <3>1, <3>2
    <3>5. /\ Apply([ring |-> ring, fed |-> f], e) = [ring |-> Pushed(ring, e), fed |-> Append(f, Chunk(e))]
          /\ Given(Pushed(ring, e), Append(f, Chunk(e)))
      BY <2>3, <3>3, <3>4, ApplyGives
    <3> QED
      BY <3>1, <3>2, <3>5
  <2> HIDE DEF next
  <2>9. fed'[t] = Append(fed[t], Chunk(o)) /\ Given(rings'[t], fed'[t]) /\ output'[t] = output[t]
    BY <1>5, <1>8, <2>8
  <2> QED
    BY <1>1, <1>2, <1>3, <1>8, <2>9 DEF o
<1> QED
  BY <1>6, <1>7, <1>8

\* A new pane is given all that waited of the stream that is read.
LEMMA CreateStep ==
  ASSUME StreamsAssumption, PtyTypes, ScreenTypes, WayInv, CreatePane, NEW t \in Terminals,
         Head(to_screen).pane = t
  PROVE  /\ Coming(t) /\ fed[t] = <<>> /\ output'[t] = <<>>
         /\ Given(rings'[t], fed'[t])
         /\ \A j \in DOMAIN fed'[t] : \E i \in DOMAIN output[t] :
              output[t][i].generation \in live /\ fed'[t][j] = Chunk(output[t][i])
         /\ \A i \in DOMAIN output[t] : output[t][i].generation \in live =>
              \E j \in DOMAIN fed'[t] : fed'[t][j] = Chunk(output[t][i])
<1>1. Sent("NewPane", t, to_screen)
  BY SpawnedHeads DEF CreatePane, ScreenTakes, Sent, WayInv
<1>2. /\ Coming(t) /\ HasPane(t) /\ fed[t] = <<>> /\ rings[t] = NoRing
  BY <1>1 DEF WayInv, OneLife, HasPane, Coming
<1>3. None \notin live
  BY DEF WayInv, StoreTypes
<1>4. PICK waiting : waiting = output[t]
  OBVIOUS
<1>5. /\ waiting \in Seq(OutputEvents) /\ DOMAIN waiting = 1 .. Len(waiting) /\ Len(waiting) \in Nat
      /\ \A i \in DOMAIN waiting : waiting[i] \in OutputEvents
  <2>1. waiting \in Seq(OutputEvents)
    BY <1>4 DEF WayInv, StoreTypes
  <2> QED
    BY <2>1, ElementOfSeq, LenProperties
<1>6. ASSUME NEW i \in DOMAIN waiting
      PROVE  /\ Chunk(waiting[i])[1] = waiting[i].generation /\ Chunk(waiting[i])[2] = waiting[i].sequence
             /\ waiting[i].generation \in Nat /\ waiting[i].sequence \in Int
             /\ WasSent(t, Chunk(waiting[i])) /\ 0 <= waiting[i].sequence
  <2>1. /\ Chunk(waiting[i])[1] = waiting[i].generation /\ Chunk(waiting[i])[2] = waiting[i].sequence
        /\ waiting[i].generation \in Nat /\ waiting[i].sequence \in Int
    BY <1>5 DEF Chunk, OutputEvents
  <2>2. WasSent(t, Chunk(waiting[i]))
    BY <1>4 DEF WayInv, AllSent
  <2> QED
    BY <2>1, <2>2 DEF WasSent
<1>7. ASSUME NEW i \in DOMAIN waiting, waiting[i].generation \in live
      PROVE  waiting[i].generation = stream[t] /\ stream[t] # None
  BY <1>6, <1>7, LiveIs DEF WayInv
<1>8. ASSUME NEW i \in DOMAIN waiting, NEW j \in DOMAIN waiting, i < j
      PROVE  Earlier(Chunk(waiting[i]), Chunk(waiting[j]))
  BY <1>4, <1>8 DEF WayInv, InOrder
<1>9. ASSUME NEW i \in DOMAIN waiting, waiting[i].generation \in live, waiting[i].sequence # 0
      PROVE  \E j \in 1 .. i - 1 : Chunk(waiting[j]) = <<waiting[i].generation, waiting[i].sequence - 1>>
  <2> DEFINE g == stream[t]
             n == waiting[i].sequence - 1
  <2>1. waiting[i].generation = g /\ g # None
    BY <1>7, <1>9
  <2>2. n \in 0 .. SentOf(g) - 1
    <3>1. SentOf(g) \in Int
      <4>1. g \in DOMAIN readers
        BY <2>1 DEF WayInv, Generated
      <4>2. readers[g].read \in Nat
        <5> DEFINE Reader == [pane : Terminals, read : Nat, hand : BOOLEAN]
        <5>1. readers \in Seq(Reader)
          BY DEF PtyTypes
        <5> HIDE DEF Reader
        <5>2. readers[g] \in Reader
          BY <4>1, <5>1, ElementOfSeq, LenProperties
        <5> QED
          BY <5>2 DEF Reader
      <4> QED
        BY <4>2 DEF SentOf
    <3>2. waiting[i].sequence < SentOf(g)
      BY <1>6, <2>1 DEF WasSent
    <3> QED
      BY <1>6, <1>9, <3>1, <3>2
  <2>3. Somewhere(t, <<g, n>>)
    BY <1>2, <2>1, <2>2 DEF WayInv, NothingLost
  <2> HIDE DEF g
  <2>4. ASSUME NEW j \in DOMAIN to_screen, IsOutput(to_screen[j]), Chunk(to_screen[j]) = <<g, n>>
        PROVE  FALSE
    <3>1. Earlier(Chunk(waiting[i]), Chunk(to_screen[j]))
      BY <1>4, <2>4 DEF WayInv, InOrder
    <3>2. Earlier(Chunk(waiting[i]), <<g, n>>)
      BY <2>4, <3>1
    <3> QED
      BY <1>6, <2>1, <3>2 DEF Earlier
  <2>5. PICK j \in DOMAIN waiting : Chunk(waiting[j]) = <<g, n>>
    BY <1>2, <1>4, <2>3, <2>4 DEF Somewhere
  <2>6. ~(i < j)
    <3> SUFFICES ASSUME i < j PROVE FALSE
      OBVIOUS
    <3>1. Earlier(Chunk(waiting[i]), <<g, n>>)
      BY <1>8, <2>5
    <3> QED
      BY <1>6, <2>1, <3>1 DEF Earlier
  <2>7. i # j
    <3>1. Chunk(waiting[i])[2] # n /\ <<g, n>>[2] = n
      BY <1>6
    <3> QED
      BY <2>5, <3>1
  <2>8. j \in 1 .. i - 1
    BY <1>5, <2>6, <2>7
  <2> QED
    BY <2>1, <2>5, <2>8
<1>10. MayBeGiven(waiting)
  <2>1. ASSUME NEW i \in DOMAIN waiting, NEW j \in DOMAIN waiting, i < j,
               waiting[i].generation \in live, waiting[j].generation \in live
        PROVE  Ascend(Chunk(waiting[i]), Chunk(waiting[j]))
    BY <1>6, <1>7, <1>8, <2>1 DEF Ascend, Earlier
  <2> QED
    BY <1>5, <1>6, <1>9, <2>1 DEF MayBeGiven
<1>11. GivenFirst(Applied([ring |-> NoRing, fed |-> <<>>], waiting), waiting, Len(waiting))
  BY <1>3, <1>10, AppliedGives
<1> DEFINE store == Applied([ring |-> NoRing, fed |-> <<>>], waiting)
<1>12. rings'[t] = store.ring /\ fed'[t] = store.fed /\ output'[t] = <<>>
  BY <1>2, <1>4 DEF CreatePane, DropPending, WayInv, StoreTypes
<1> HIDE DEF store
<1>13. Given(rings'[t], fed'[t])
  BY <1>11, <1>12 DEF GivenFirst, store
<1>14. \A j \in DOMAIN fed'[t] : \E i \in DOMAIN waiting :
         waiting[i].generation \in live /\ fed'[t][j] = Chunk(waiting[i])
  BY <1>5, <1>11, <1>12 DEF GivenFirst, store
<1>15. \A i \in DOMAIN waiting : waiting[i].generation \in live =>
         \E j \in DOMAIN fed'[t] : fed'[t][j] = Chunk(waiting[i])
  BY <1>5, <1>11, <1>12 DEF GivenFirst, store
<1> QED
  BY <1>2, <1>4, <1>12, <1>13, <1>14, <1>15

\* The streams that are live are those that are read.
LEMMA LiveKept ==
  ASSUME StreamsAssumption, PtyTypes, ScreenTypes, StoreTypes, Generated, [Next]_vars
  PROVE  live' = {stream'[t] : t \in Terminals} \ {None}
<1>0. /\ live = {stream[t] : t \in Terminals} \ {None} /\ stream \in [Terminals -> Nat] /\ None \in Nat
      /\ Len(readers) + 1 # None
      /\ \A t, u \in Terminals : stream[t] = stream[u] /\ stream[t] # None => t = u
  <2>1. Len(readers) \in Nat
    BY LenProperties DEF PtyTypes
  <2>2. \A t, u \in Terminals : stream[t] = stream[u] /\ stream[t] # None => t = u
    BY DEF Generated
  <2> QED
    BY <2>1, <2>2 DEF StoreTypes, PtyTypes, None
<1>1. ASSUME NEW t \in Terminals, StartReader(t)
      PROVE  live' = {stream'[u] : u \in Terminals} \ {None}
  BY <1>0, <1>1 DEF StartReader
<1>2. ASSUME NEW t \in Terminals, StopReader(t)
      PROVE  live' = {stream'[u] : u \in Terminals} \ {None}
  BY <1>0, <1>2 DEF StopReader
<1>3. ASSUME UNCHANGED <<live, stream>>
      PROVE  live' = {stream'[u] : u \in Terminals} \ {None}
  BY <1>0, <1>3
<1>4. ASSUME NEW t \in Terminals, NEW h \in BOOLEAN, SpawnTerminal(t, h)
      PROVE  StartReader(t) \/ UNCHANGED <<live, stream>>
  BY <1>4 DEF SpawnTerminal
<1>5. CASE PtyClosePane \/ ReRunCommandInPane
  <2>1. PICK t \in Terminals : StartReader(t) \/ StopReader(t)
    BY <1>5, Heads DEF PtyClosePane, ReRunCommandInPane, PtyTakes
  <2> QED
    BY <1>1, <1>2, <2>1
<1>6. CASE Announce \/ UNCHANGED vars \/ ScreenThread
           \/ (\E g \in DOMAIN readers : ReadChunk(g) \/ SendChunk(g))
           \/ (\E u \in Terminals : ChildExits(u) \/ CloseFocusedPane(u) \/ RerunPane(u) \/ Deliver(u))
           \/ (\E s \in Subscribers, T \in SUBSET Terminals : Subscribe(s, T))
  <2>1. UNCHANGED <<live, stream>>
    BY <1>6 DEF Announce, vars, ScreenThread, CreatePane, RefusePane, PtyOutput, ClosePane, HoldPane,
                NotifyPaneClosed, ReadChunk, SendChunk, ChildExits, CloseFocusedPane, RerunPane, Deliver,
                Subscribe, ptyVars
  <2> QED
    BY <1>3, <2>1
<1> QED
  BY <1>1, <1>3, <1>4, <1>5, <1>6 DEF Next, PtyThread

\* What is stored by terminal is stored for each of them.
LEMMA ShapesKept ==
  ASSUME StoreTypes, [Next]_vars
  PROVE  /\ fed' = [t \in Terminals |-> fed'[t]] /\ output' = [t \in Terminals |-> output'[t]]
         /\ rings' = [t \in Terminals |-> rings'[t]]
<1>0. /\ fed = [t \in Terminals |-> fed[t]] /\ output = [t \in Terminals |-> output[t]]
      /\ rings = [t \in Terminals |-> rings[t]]
  BY DEF StoreTypes
<1> DEFINE Same == UNCHANGED <<fed, output, rings>>
           Dropped == (\E t : DropPending(t)) /\ UNCHANGED <<fed, rings>>
<1>1. CASE PtyThread \/ UNCHANGED vars \/ (\E u \in Terminals, b \in BOOLEAN : SpawnTerminal(u, b))
           \/ (\E g \in DOMAIN readers : ReadChunk(g) \/ SendChunk(g))
           \/ (\E u \in Terminals : ChildExits(u) \/ CloseFocusedPane(u) \/ RerunPane(u) \/ Deliver(u))
           \/ (\E s \in Subscribers, T \in SUBSET Terminals : Subscribe(s, T))
  <2>1. Same
    BY <1>1 DEF PtyThread, Announce, PtyClosePane, ReRunCommandInPane, vars, SpawnTerminal, ReadChunk,
                SendChunk, ChildExits, CloseFocusedPane, RerunPane, Deliver, Subscribe, screenVars,
                pendingVars
  <2> QED
    BY <1>0, <2>1
<1>2. CASE Same \/ Dropped
  BY <1>0, <1>2 DEF DropPending
<1>3. CASE CreatePane
  <2>1. \E t, a, b, c : /\ fed' = [fed EXCEPT ![t] = a] /\ output' = [output EXCEPT ![t] = b]
                        /\ rings' = [rings EXCEPT ![t] = c]
    BY <1>3 DEF CreatePane, DropPending
  <2> QED
    BY <1>0, <2>1
<1>4. CASE PtyOutput
  BY <1>0, <1>4 DEF PtyOutput
<1>5. ASSUME Wait(Head(to_screen)), UNCHANGED <<fed, rings>>
      PROVE  Same \/ Dropped
  BY <1>5 DEF Wait
<1>6. CASE ClosePane \/ HoldPane \/ RefusePane
  BY <1>2, <1>5, <1>6 DEF ClosePane, HoldPane, RefusePane, pendingVars
<1>7. CASE NotifyPaneClosed
  <2>1. \E t : rings' = [rings EXCEPT ![t] = NoRing] /\ UNCHANGED <<fed, output>>
    BY <1>7 DEF NotifyPaneClosed, pendingVars
  <2> QED
    BY <1>0, <2>1
<1> QED
  BY <1>1, <1>3, <1>4, <1>6, <1>7 DEF Next, ScreenThread

LEMMA StoreTypesKept ==
  ASSUME StreamsAssumption, PtyTypes, ScreenTypes, WayInv, [Next]_vars
  PROVE  StoreTypes'
<1>1. spawned' \subseteq Terminals
  <2>1. CASE \E t \in Terminals : TRUE
    BY <2>1, PaneSteps DEF WayInv
  <2>2. CASE ~\E t \in Terminals : TRUE
    <3>1. spawned' = spawned
      <4>1. UNCHANGED vars => spawned' = spawned
        BY DEF vars
      <4>2. ScreenThread \/ PtyThread => spawned' = spawned
        BY DEF PtyThread, Announce, PtyClosePane, ReRunCommandInPane, ScreenThread, CreatePane,
               RefusePane, PtyOutput, ClosePane, HoldPane, NotifyPaneClosed, ptyVars
      <4>3. (\E g \in DOMAIN readers : ReadChunk(g) \/ SendChunk(g)) => spawned' = spawned
        BY DEF ReadChunk, SendChunk, ptyVars
      <4>4. (\E s \in Subscribers, T \in SUBSET Terminals : Subscribe(s, T)) => spawned' = spawned
        BY DEF Subscribe, ptyVars
      <4> QED
        BY <2>2, <4>1, <4>2, <4>3, <4>4 DEF Next
    <3> QED
      BY <3>1 DEF WayInv, StoreTypes
  <2> QED
    BY <2>1, <2>2
<1>2. child' = [t \in Terminals |-> child'[t]]
  BY ChildSteps DEF WayInv
<1>3. live' = {stream'[t] : t \in Terminals} \ {None}
  BY LiveKept DEF WayInv
<1>4. ASSUME NEW t \in Terminals
      PROVE  output'[t] \in Seq(OutputEvents) /\ fed'[t] \in Seq(Nat \X Int) /\ rings'[t] \in Rings
  <2>0. output[t] \in Seq(OutputEvents) /\ fed[t] \in Seq(Nat \X Int) /\ rings[t] \in Rings
    BY DEF WayInv, StoreTypes
  <2>1. <<>> \in Seq(OutputEvents) /\ NoRing \in Rings
    BY EmptySeq DEF NoRing, Rings, None
  <2>2. CASE Head(to_screen).pane = t /\ CreatePane
    BY <2>1, <2>2, CreateStep DEF Given
  <2>3. CASE Head(to_screen).pane = t /\ PtyOutput
    <3>1. ASSUME NEW S, NEW q \in Seq(S), NEW e \in S
          PROVE  Append(q, e) \in Seq(S)
      OBVIOUS
    <3>2. Head(to_screen) \in OutputEvents => Append(output[t], Head(to_screen)) \in Seq(OutputEvents)
      BY <2>0, <3>1
    <3> QED
      BY <2>0, <2>3, <3>2, OutputStep DEF Given, Untouched
  <2> QED
    BY <2>0, <2>1, <2>2, <2>3, StoreSteps DEF WayInv, Untouched
<1>5. /\ fed' = [t \in Terminals |-> fed'[t]] /\ output' = [t \in Terminals |-> output'[t]]
      /\ rings' = [t \in Terminals |-> rings'[t]]
  BY ShapesKept DEF WayInv
<1>6. output' \in [Terminals -> Seq(OutputEvents)] /\ fed' \in [Terminals -> Seq(Nat \X Int)]
      /\ rings' \in [Terminals -> Rings]
  BY <1>4, <1>5
<1> QED
  BY <1>1, <1>2, <1>3, <1>6 DEF StoreTypes

\* What was sent stays sent, and what is on its way was sent, or is sent just now.
LEMMA AllSentKept ==
  ASSUME StreamsAssumption, PtyTypes, ScreenTypes, WayInv, [Next]_vars
  PROVE  AllSent'
<1>1. ReadersGoOn
  BY ReaderSteps DEF WayInv
<1>2. \A g \in DOMAIN readers : SentOf(g) \in Int
  <2> DEFINE Reader == [pane : Terminals, read : Nat, hand : BOOLEAN]
  <2>1. readers \in Seq(Reader)
    BY DEF PtyTypes
  <2> HIDE DEF Reader
  <2>2. \A g \in DOMAIN readers : readers[g] \in Reader
    BY <2>1, ElementOfSeq, LenProperties
  <2> QED
    BY <2>2 DEF SentOf, Reader
<1>3. ASSUME NEW t, NEW c, WasSent(t, c), c[2] \in Int
      PROVE  /\ c[1] \in DOMAIN readers' /\ readers'[c[1]].pane = t /\ 0 <= c[2]
             /\ \A g : g = c[1] => c[2] < SentOf(g)'
  <2>1. c[1] \in DOMAIN readers /\ readers[c[1]].pane = t /\ 0 <= c[2] /\ c[2] < SentOf(c[1])
    BY <1>3 DEF WasSent
  <2>2. ASSUME NEW g, g = c[1]
        PROVE  c[2] < SentOf(g)'
    <3>1. SentOf(g)' = SentOf(g) \/ SentOf(g)' = SentOf(g) + 1
      BY <1>1, <2>1, <2>2 DEF ReadersGoOn
    <3> QED
      BY <1>2, <1>3, <2>1, <2>2, <3>1
  <2> QED
    BY <1>1, <2>1, <2>2 DEF ReadersGoOn
<1>5. PICK d \in {0, 1}, added \in Seq(ToScreen) : Adds(d, added)
  BY ChannelStep DEF WayInv, StoreTypes
<1> DEFINE Sound(t, c) ==
             /\ c[1] \in DOMAIN readers' /\ readers'[c[1]].pane = t /\ 0 <= c[2]
             /\ \A g : g = c[1] => c[2] < SentOf(g)'
<1>6. ASSUME NEW i \in DOMAIN to_screen', to_screen'[i].kind = "PtyOutput"
      PROVE  Sound(to_screen'[i].pane, <<to_screen'[i].generation, to_screen'[i].sequence>>)
  <2>1. CASE i + d \in DOMAIN to_screen /\ to_screen'[i] = to_screen[i + d]
    <3>1. WasSent(to_screen[i + d].pane, Chunk(to_screen[i + d])) /\ to_screen[i + d].kind = "PtyOutput"
      BY <1>6, <2>1 DEF WayInv, AllSent, IsOutput
    <3>2. to_screen[i + d] \in ToScreen
      BY <2>1, ElementOfSeq, LenProperties DEF ScreenTypes
    <3>3. Chunk(to_screen[i + d])[2] \in Int
      BY <3>1, <3>2 DEF ToScreen, ScreenEvents, Chunk
    <3> HIDE DEF Sound
    <3>4. Sound(to_screen[i + d].pane, Chunk(to_screen[i + d]))
      BY <1>3, <3>1, <3>3 DEF Sound
    <3> QED
      BY <2>1, <3>4 DEF Chunk
  <2>2. CASE /\ i - (Len(to_screen) - d) \in DOMAIN added
             /\ to_screen'[i] = added[i - (Len(to_screen) - d)]
    <3>1. PICK g \in DOMAIN readers :
            SendChunk(g) /\ added = <<Output(readers[g].pane, g, readers[g].read - 1)>>
      BY <1>5, <1>6, <2>2 DEF Adds, IsOutput
    <3>2. to_screen'[i] = Output(readers[g].pane, g, readers[g].read - 1)
      BY <2>2, <3>1
    <3>3. /\ to_screen'[i].pane = readers[g].pane /\ to_screen'[i].generation = g
          /\ to_screen'[i].sequence = readers[g].read - 1
      BY <3>2 DEF Output
    <3>4. readers[g].hand /\ readers[g].read >= 1
      BY <3>1 DEF SendChunk, WayInv, Generated
    <3>5. readers'[g].read = readers[g].read /\ ~readers'[g].hand /\ readers[g].read \in Nat
      <4> DEFINE Reader == [pane : Terminals, read : Nat, hand : BOOLEAN]
      <4>1. readers \in Seq(Reader)
        BY DEF PtyTypes
      <4>2. readers[g] \in Reader
        <5> HIDE DEF Reader
        <5> QED
          BY <4>1, ElementOfSeq, LenProperties
      <4>3. readers' = [readers EXCEPT ![g].hand = FALSE]
        BY <3>1 DEF SendChunk
      <4> QED
        BY <4>2, <4>3
    <3>6. \A h : h = g => SentOf(h)' = readers[g].read
      BY <3>5 DEF SentOf
    <3>7. g \in DOMAIN readers' /\ readers'[g].pane = readers[g].pane
      BY <1>1 DEF ReadersGoOn
    <3> QED
      BY <3>3, <3>4, <3>5, <3>6, <3>7
  <2> QED
    BY <1>5, <2>1, <2>2, NewScreen
<1>7. ASSUME NEW t \in Terminals
      PROVE  /\ \A i \in DOMAIN output'[t] : Sound(t, Chunk(output'[t][i]))
             /\ \A k \in DOMAIN fed'[t] : Sound(t, fed'[t][k])
  <2>1. /\ \A i \in DOMAIN output[t] : Sound(t, Chunk(output[t][i]))
        /\ \A k \in DOMAIN fed[t] : Sound(t, fed[t][k])
    <3>1. \A i \in DOMAIN output[t] : output[t][i] \in OutputEvents /\ WasSent(t, Chunk(output[t][i]))
      BY ElementOfSeq, LenProperties DEF WayInv, StoreTypes, AllSent
    <3>2. \A i \in DOMAIN output[t] : Chunk(output[t][i])[2] \in Int
      BY <3>1 DEF OutputEvents, Chunk
    <3>3. \A k \in DOMAIN fed[t] : fed[t][k] \in Nat \X Int /\ WasSent(t, fed[t][k])
      BY ElementOfSeq, LenProperties DEF WayInv, StoreTypes, AllSent
    <3>4. \A k \in DOMAIN fed[t] : fed[t][k][2] \in Int
      BY <3>3
    <3> QED
      BY <1>3, <3>1, <3>2, <3>3, <3>4
  <2> HIDE DEF Sound
  <2>2. CASE Head(to_screen).pane = t /\ CreatePane
    BY <2>1, <2>2, CreateStep, EmptySeq
  <2>3. CASE Head(to_screen).pane = t /\ PtyOutput
    <3>1. Head(to_screen) \in OutputEvents /\ WasSent(t, Chunk(Head(to_screen)))
      BY <2>3, OutputStep
    <3>2. Sound(t, Chunk(Head(to_screen)))
      <4>1. Chunk(Head(to_screen))[2] \in Int
        BY <3>1 DEF OutputEvents, Chunk
      <4> QED
        BY <1>3, <3>1, <4>1 DEF Sound
    <3>3. ASSUME NEW S, NEW q \in Seq(S), NEW e, NEW j \in DOMAIN Append(q, e)
          PROVE  (j \in DOMAIN q /\ Append(q, e)[j] = q[j]) \/ Append(q, e)[j] = e
      BY <3>3
    <3>4. \A k \in DOMAIN Append(fed[t], Chunk(Head(to_screen))) :
            Sound(t, Append(fed[t], Chunk(Head(to_screen)))[k])
      BY <2>1, <3>2, <3>3 DEF WayInv, StoreTypes
    <3>5. \A i \in DOMAIN Append(output[t], Head(to_screen)) :
            Sound(t, Chunk(Append(output[t], Head(to_screen))[i]))
      BY <2>1, <3>2, <3>3 DEF WayInv, StoreTypes
    <3> QED
      BY <2>1, <2>3, <3>4, <3>5, OutputStep DEF Untouched
  <2> QED
    BY <2>1, <2>2, <2>3, StoreSteps, EmptySeq DEF WayInv, Untouched
<1> QED
  BY <1>6, <1>7 DEF AllSent, WasSent, IsOutput, Chunk

\* Nothing that was sent of a stream comes after the chunk.
Newest(c) == \A t, b : WasSent(t, b) => Earlier(b, c)

\* The output that is in Screen's channel after a step was in it, or follows all that was sent.
LEMMA ScreenOutputs ==
  ASSUME StreamsAssumption, PtyTypes, ScreenTypes, WayInv, [Next]_vars
  PROVE  \E d \in {0, 1} :
           /\ \A j \in DOMAIN to_screen' : j \in Nat /\ j >= 1
           /\ \A j \in DOMAIN to_screen' : IsOutput(to_screen'[j]) =>
                \/ j + d \in DOMAIN to_screen /\ to_screen'[j] = to_screen[j + d]
                \/ j = Len(to_screen) + 1 /\ d = 0 /\ Newest(Chunk(to_screen'[j]))
<1>1. PICK d \in {0, 1}, added \in Seq(ToScreen) : Adds(d, added)
  BY ChannelStep DEF WayInv, StoreTypes
<1>2. ASSUME NEW j \in DOMAIN to_screen', IsOutput(to_screen'[j]),
             j - (Len(to_screen) - d) \in DOMAIN added,
             to_screen'[j] = added[j - (Len(to_screen) - d)]
      PROVE  j = Len(to_screen) + 1 /\ d = 0 /\ Newest(Chunk(to_screen'[j]))
  <2>1. d = 0 /\ \E g \in DOMAIN readers :
          SendChunk(g) /\ added = <<Output(readers[g].pane, g, readers[g].read - 1)>>
    BY <1>1, <1>2 DEF Adds
  <2>2. PICK g \in DOMAIN readers :
          SendChunk(g) /\ added = <<Output(readers[g].pane, g, readers[g].read - 1)>>
    BY <2>1
  <2>3. /\ j - (Len(to_screen) - d) = 1 /\ to_screen'[j] = Output(readers[g].pane, g, readers[g].read - 1)
    BY <1>2, <2>2
  <2>4. Chunk(to_screen'[j]) = <<g, readers[g].read - 1>>
    BY <2>3 DEF Chunk, Output
  <2>5. SentOf(g) = readers[g].read - 1
    BY <2>2 DEF SendChunk, SentOf
  <2>6. Newest(<<g, readers[g].read - 1>>)
    BY <2>5 DEF Newest, WasSent, Earlier
  <2> QED
    BY <1>1, <2>1, <2>3, <2>4, <2>6, NewScreen
<1> QED
  BY <1>1, <1>2, NewScreen

\* Screen takes output, and a pane's creation, from its channel.
LEMMA TakenOutputs ==
  ASSUME PtyTypes, ScreenTypes, OnlySpawned, CreatePane \/ PtyOutput
  PROVE  \A j \in DOMAIN to_screen' : IsOutput(to_screen'[j]) =>
           j \in Nat /\ j >= 1 /\ j + 1 \in DOMAIN to_screen /\ to_screen'[j] = to_screen[j + 1]
<1>1. PICK rest \in Seq(ToScreen) :
        Adds(1, rest) /\ \A k \in DOMAIN rest : rest[k].kind \in {"ClosePane", "HoldPane"}
  BY TakenStep
<1> QED
  BY <1>1, NewScreen DEF IsOutput

\* Of a stream, what is further on was read before.
LEMMA InOrderKept ==
  ASSUME StreamsAssumption, PtyTypes, ScreenTypes, WayInv, [Next]_vars
  PROVE  InOrder'
<1>1. PICK d \in {0, 1} :
        /\ \A j \in DOMAIN to_screen' : j \in Nat /\ j >= 1
        /\ \A j \in DOMAIN to_screen' : IsOutput(to_screen'[j]) =>
             \/ j + d \in DOMAIN to_screen /\ to_screen'[j] = to_screen[j + d]
             \/ j = Len(to_screen) + 1 /\ d = 0 /\ Newest(Chunk(to_screen'[j]))
  BY ScreenOutputs
<1>2. DOMAIN to_screen = 1 .. Len(to_screen) /\ Len(to_screen) \in Nat
  BY LenProperties DEF ScreenTypes
<1>3. ASSUME NEW i \in DOMAIN to_screen', NEW j \in DOMAIN to_screen', i < j,
             IsOutput(to_screen'[i]), IsOutput(to_screen'[j])
      PROVE  Earlier(Chunk(to_screen'[i]), Chunk(to_screen'[j]))
  <2>1. CASE i + d \in DOMAIN to_screen /\ to_screen'[i] = to_screen[i + d]
    <3>1. CASE j + d \in DOMAIN to_screen /\ to_screen'[j] = to_screen[j + d]
      <4>1. i + d < j + d
        BY <1>1, <1>3
      <4> QED
        BY <1>3, <2>1, <3>1, <4>1 DEF WayInv, InOrder
    <3>2. CASE Newest(Chunk(to_screen'[j]))
      <4>1. WasSent(to_screen[i + d].pane, Chunk(to_screen[i + d]))
        BY <1>3, <2>1 DEF WayInv, AllSent
      <4> QED
        BY <2>1, <3>2, <4>1 DEF Newest
    <3> QED
      BY <1>1, <1>3, <3>1, <3>2
  <2>2. CASE i = Len(to_screen) + 1 /\ d = 0
    <3>1. ~(j + d \in DOMAIN to_screen) /\ j # Len(to_screen) + 1
      BY <1>1, <1>2, <1>3, <2>2
    <3> QED
      BY <1>1, <1>3, <3>1
  <2> QED
    BY <1>1, <1>3, <2>1, <2>2
\* what is beyond the channel stays so, as far as it does not come from its head
<1>4. ASSUME NEW t, NEW c, WasSent(t, c), NEW j \in DOMAIN to_screen', IsOutput(to_screen'[j]),
             \A k \in DOMAIN to_screen : IsOutput(to_screen[k]) => Earlier(c, Chunk(to_screen[k]))
      PROVE  Earlier(c, Chunk(to_screen'[j]))
  BY <1>1, <1>4 DEF Newest
<1>5. ASSUME NEW t \in Terminals
      PROVE  /\ \A i, j \in DOMAIN output'[t] :
                  i < j => Earlier(Chunk(output'[t][i]), Chunk(output'[t][j]))
             /\ \A i \in DOMAIN output'[t], j \in DOMAIN to_screen' :
                  IsOutput(to_screen'[j]) => Earlier(Chunk(output'[t][i]), Chunk(to_screen'[j]))
             /\ \A k \in DOMAIN fed'[t], i \in DOMAIN output'[t] :
                  Earlier(fed'[t][k], Chunk(output'[t][i]))
             /\ \A k \in DOMAIN fed'[t], j \in DOMAIN to_screen' :
                  IsOutput(to_screen'[j]) => Earlier(fed'[t][k], Chunk(to_screen'[j]))
             /\ \A j, k \in DOMAIN fed'[t] : j < k => Ascend(fed'[t][j], fed'[t][k])
  <2> DEFINE o == Head(to_screen)
  <2>1. /\ \A i, j \in DOMAIN output[t] : i < j => Earlier(Chunk(output[t][i]), Chunk(output[t][j]))
        /\ \A i \in DOMAIN output[t], j \in DOMAIN to_screen :
             IsOutput(to_screen[j]) => Earlier(Chunk(output[t][i]), Chunk(to_screen[j]))
        /\ \A k \in DOMAIN fed[t], i \in DOMAIN output[t] : Earlier(fed[t][k], Chunk(output[t][i]))
        /\ \A k \in DOMAIN fed[t], j \in DOMAIN to_screen :
             IsOutput(to_screen[j]) => Earlier(fed[t][k], Chunk(to_screen[j]))
        /\ \A j, k \in DOMAIN fed[t] : j < k => Ascend(fed[t][j], fed[t][k])
    BY DEF WayInv, InOrder
  <2>2. /\ \A i \in DOMAIN output[t] : WasSent(t, Chunk(output[t][i]))
        /\ \A k \in DOMAIN fed[t] : WasSent(t, fed[t][k])
    BY DEF WayInv, AllSent
  <2>3. /\ \A i \in DOMAIN output[t], j \in DOMAIN to_screen' :
             IsOutput(to_screen'[j]) => Earlier(Chunk(output[t][i]), Chunk(to_screen'[j]))
        /\ \A k \in DOMAIN fed[t], j \in DOMAIN to_screen' :
             IsOutput(to_screen'[j]) => Earlier(fed[t][k], Chunk(to_screen'[j]))
    BY <1>4, <2>1, <2>2
  <2>4. CASE fed'[t] = fed[t] /\ (output'[t] = output[t] \/ output'[t] = <<>>)
    BY <2>1, <2>3, <2>4
  <2>5. CASE CreatePane /\ o.pane = t
    <3>1. /\ output'[t] = <<>> /\ Given(rings'[t], fed'[t])
          /\ \A j \in DOMAIN fed'[t] : \E i \in DOMAIN output[t] : fed'[t][j] = Chunk(output[t][i])
      BY <2>5, CreateStep
    <3>2. \A k \in DOMAIN fed'[t], j \in DOMAIN to_screen' :
            IsOutput(to_screen'[j]) => Earlier(fed'[t][k], Chunk(to_screen'[j]))
      BY <2>3, <3>1
    <3>3. \A j, k \in DOMAIN fed'[t] : j < k => Ascend(fed'[t][j], fed'[t][k])
      BY <3>1 DEF Given
    <3> QED
      BY <3>1, <3>2, <3>3
  <2>6. CASE PtyOutput /\ o.pane = t
    <3> DEFINE Last(q, e) == /\ DOMAIN Append(q, e) = 1 .. Len(q) + 1 /\ DOMAIN q = 1 .. Len(q) /\ Len(q) \in Nat
                             /\ \A j \in DOMAIN q : Append(q, e)[j] = q[j]
                             /\ Append(q, e)[Len(q) + 1] = e
    <3>1. ASSUME NEW S, NEW q \in Seq(S), NEW e
          PROVE  Last(q, e)
      OBVIOUS
    <3>2. Last(fed[t], Chunk(o)) /\ Last(output[t], o)
      <4> HIDE DEF Last
      <4> QED
        BY <3>1 DEF WayInv, StoreTypes
    <3>3. 1 \in DOMAIN to_screen /\ o = to_screen[1] /\ IsOutput(o)
      BY <2>6, SpawnedHeads, OutputStep DEF WayInv
    <3>4. ASSUME NEW j \in DOMAIN to_screen', IsOutput(to_screen'[j])
          PROVE  Earlier(Chunk(o), Chunk(to_screen'[j]))
      <4>1. j \in Nat /\ j >= 1 /\ j + 1 \in DOMAIN to_screen /\ to_screen'[j] = to_screen[j + 1]
        BY <2>6, <3>4, TakenOutputs DEF WayInv
      <4>2. 1 < j + 1
        BY <4>1
      <4> QED
        BY <3>3, <3>4, <4>1, <4>2 DEF WayInv, InOrder
    <3>5. CASE /\ panes[t] # "absent"
               /\ fed'[t] = Append(fed[t], Chunk(o))
               /\ Given(rings'[t], fed'[t])
               /\ output'[t] = output[t]
      <4>1. output'[t] = <<>>
        BY <3>5 DEF WayInv, OneLife
      <4>2. \A j, k \in DOMAIN fed'[t] : j < k => Ascend(fed'[t][j], fed'[t][k])
        BY <3>5 DEF Given
      <4>3. \A k \in DOMAIN fed'[t] : (k \in DOMAIN fed[t] /\ fed'[t][k] = fed[t][k]) \/ fed'[t][k] = Chunk(o)
        BY <3>2, <3>5
      <4>4. \A k \in DOMAIN fed'[t], j \in DOMAIN to_screen' :
              IsOutput(to_screen'[j]) => Earlier(fed'[t][k], Chunk(to_screen'[j]))
        BY <2>3, <3>4, <4>3
      <4> QED
        BY <4>1, <4>2, <4>4
    <3>6. CASE fed'[t] = fed[t] /\ output'[t] = Append(output[t], o)
      <4>1. /\ DOMAIN output'[t] = 1 .. Len(output[t]) + 1 /\ DOMAIN output[t] = 1 .. Len(output[t])
            /\ Len(output[t]) \in Nat
            /\ \A j \in DOMAIN output[t] : output'[t][j] = output[t][j]
            /\ output'[t][Len(output[t]) + 1] = o
        BY <3>2, <3>6
      <4>2. \A i \in DOMAIN output'[t] : \/ i \in DOMAIN output[t] /\ output'[t][i] = output[t][i]
                                         \/ i = Len(output[t]) + 1 /\ output'[t][i] = o
        BY <4>1
      <4>3. ASSUME NEW i \in DOMAIN output'[t], NEW j \in DOMAIN output'[t], i < j
            PROVE  Earlier(Chunk(output'[t][i]), Chunk(output'[t][j]))
        <5>1. i \in DOMAIN output[t] /\ output'[t][i] = output[t][i]
          BY <4>1, <4>3
        <5> QED
          BY <2>1, <3>3, <4>2, <4>3, <5>1
      <4>4. \A i \in DOMAIN output'[t], j \in DOMAIN to_screen' :
              IsOutput(to_screen'[j]) => Earlier(Chunk(output'[t][i]), Chunk(to_screen'[j]))
        BY <2>3, <3>4, <4>2
      <4>5. \A k \in DOMAIN fed'[t], i \in DOMAIN output'[t] : Earlier(fed'[t][k], Chunk(output'[t][i]))
        BY <2>1, <3>3, <3>6, <4>2
      <4> QED
        BY <2>1, <2>3, <3>6, <4>3, <4>4, <4>5
    <3> QED
      BY <2>4, <2>6, <3>5, <3>6, OutputStep DEF Untouched
  <2> QED
    BY <2>4, <2>5, <2>6, StoreSteps DEF WayInv, Untouched
<1> QED
  BY <1>3, <1>5 DEF InOrder, IsOutput, Chunk, Earlier, Ascend

\* What panes were given stays in order, and their rings without a hole.
LEMMA PanesGivenKept ==
  ASSUME StreamsAssumption, PtyTypes, ScreenTypes, WayInv, [Next]_vars
  PROVE  PanesGiven'
<1> SUFFICES ASSUME NEW t \in Terminals, panes'[t] # "absent"
             PROVE  Given(rings'[t], fed'[t])
  BY DEF PanesGiven, Given, Rings, LastOf, WithoutHole, Ascend
<1>1. CASE CreatePane /\ Head(to_screen).pane = t
  BY <1>1, CreateStep
<1>2. CASE panes[t] # "absent" /\ ~(CreatePane /\ Head(to_screen).pane = t)
  <2>1. Given(rings[t], fed[t])
    BY <1>2 DEF WayInv, PanesGiven
  <2>2. PtyOutput /\ Head(to_screen).pane = t =>
          Given(rings'[t], fed'[t]) \/ (fed'[t] = fed[t] /\ rings'[t] = rings[t])
    BY <1>2, OutputStep DEF Untouched
  <2>3. ~(NotifyPaneClosed /\ to_screen # <<>> /\ Head(to_screen).pane = t)
    <3>1. NotifyPaneClosed /\ to_screen # <<>> /\ Head(to_screen).pane = t
            => Sent("NotifyPaneClosed", t, to_screen)
      BY SpawnedHeads DEF NotifyPaneClosed, ScreenTakes, Sent, WayInv
    <3>2. HasPane(t)
      BY <1>2 DEF HasPane
    <3> QED
      BY <3>1, <3>2 DEF WayInv, OneLife
  <2>4. \/ fed'[t] = fed[t] /\ rings'[t] = rings[t]
        \/ PtyOutput /\ Head(to_screen).pane = t
    BY <1>2, <2>3, StoreSteps DEF WayInv, Untouched
  <2> QED
    BY <2>1, <2>2, <2>4
<1> QED
  BY <1>1, <1>2, PaneSteps DEF WayInv

\* Nothing is lost as long as the pane is there or comes.
LEMMA NothingLostKept ==
  ASSUME StreamsAssumption, PtyTypes, ScreenTypes, WayInv, [Next]_vars
  PROVE  NothingLost'
<1> DEFINE There(t, c) ==
             \/ \E k \in DOMAIN fed'[t] : fed'[t][k] = c
             \/ \E i \in DOMAIN output'[t] : Chunk(output'[t][i]) = c
             \/ \E j \in DOMAIN to_screen' : IsOutput(to_screen'[j]) /\ Chunk(to_screen'[j]) = c
<1>1. ReadersGoOn
  BY ReaderSteps DEF WayInv
<1>2. ASSUME NEW t \in Terminals, stream'[t] # None, HasPane(t)', NEW g, g = stream'[t],
             NEW n \in 0 .. SentOf(g)' - 1
      PROVE  There(t, <<g, n>>)
  <2>1. /\ HasPane(t) \/ t \notin spawned
        /\ ~(to_screen # <<>> /\ Head(to_screen).pane = t /\ RefusePane)
    BY <1>2, HasPaneSteps DEF WayInv
  <2>2. g = stream[t] /\ g \in DOMAIN readers /\ readers[g].pane = t
    <3>1. CASE stream'[t] = stream[t]
      BY <1>2, <3>1 DEF WayInv, Generated
    <3>2. CASE stream'[t] = Len(readers) + 1 /\ stream'[t] \in DOMAIN readers'
      <4>1. g \notin DOMAIN readers
        BY <1>2, <3>2, LenProperties DEF PtyTypes
      <4>2. SentOf(g)' = 0
        BY <1>1, <1>2, <3>2, <4>1 DEF ReadersGoOn
      <4> QED
        BY <1>2, <4>2
    <3> QED
      BY <1>1, <1>2, <3>1, <3>2 DEF ReadersGoOn
  <2>3. HasPane(t) /\ t \notin never_created /\ g # None /\ g \in live
    BY <1>2, <2>1, <2>2 DEF WayInv, OnlySpawned, OneLife, StoreTypes
  <2>4. readers[g].read \in Nat /\ readers[g].hand \in BOOLEAN
    <3> DEFINE Reader == [pane : Terminals, read : Nat, hand : BOOLEAN]
    <3>1. readers \in Seq(Reader)
      BY DEF PtyTypes
    <3> HIDE DEF Reader
    <3>2. readers[g] \in Reader
      BY <2>2, <3>1, ElementOfSeq, LenProperties
    <3> QED
      BY <3>2 DEF Reader
  <2>5. CASE n \in 0 .. SentOf(g) - 1
    <3>1. Somewhere(t, <<g, n>>)
      BY <2>2, <2>3, <2>5 DEF WayInv, NothingLost
    <3>2. ASSUME NEW k \in DOMAIN fed[t]
          PROVE  There(t, fed[t][k])
      <4>1. CASE fed'[t] = fed[t]
        BY <4>1
      <4>2. CASE fed'[t] = Append(fed[t], Chunk(Head(to_screen)))
        <5>1. ASSUME NEW S, NEW q \in Seq(S), NEW e, NEW j \in DOMAIN q
              PROVE  j \in DOMAIN Append(q, e) /\ Append(q, e)[j] = q[j]
          BY <5>1
        <5>2. k \in DOMAIN fed'[t] /\ fed'[t][k] = fed[t][k]
          BY <4>2, <5>1 DEF WayInv, StoreTypes
        <5> QED
          BY <5>2
      <4>3. CASE fed[t] = <<>>
        BY <4>3
      <4>4. CreatePane /\ Head(to_screen).pane = t => fed[t] = <<>>
        BY CreateStep
      <4>5. PtyOutput /\ Head(to_screen).pane = t =>
              fed'[t] = fed[t] \/ fed'[t] = Append(fed[t], Chunk(Head(to_screen)))
        BY OutputStep DEF Untouched
      <4> HIDE DEF There
      <4> QED
        BY <4>1, <4>2, <4>3, <4>4, <4>5, StoreSteps DEF WayInv, Untouched
    <3>3. ASSUME NEW i \in DOMAIN output[t], Chunk(output[t][i]) = <<g, n>>
          PROVE  There(t, <<g, n>>)
      <4>1. CASE output'[t] = output[t]
        BY <3>3, <4>1
      <4>2. CASE CreatePane /\ Head(to_screen).pane = t
        <5>1. output[t][i].generation = g
          BY <3>3 DEF Chunk
        <5>2. \E j \in DOMAIN fed'[t] : fed'[t][j] = Chunk(output[t][i])
          BY <2>3, <4>2, <5>1, CreateStep
        <5> QED
          BY <3>3, <5>2
      <4>3. CASE output'[t] = Append(output[t], Head(to_screen))
        <5>1. ASSUME NEW S, NEW q \in Seq(S), NEW e, NEW j \in DOMAIN q
              PROVE  j \in DOMAIN Append(q, e) /\ Append(q, e)[j] = q[j]
          BY <5>1
        <5>2. i \in DOMAIN output'[t] /\ output'[t][i] = output[t][i]
          BY <4>3, <5>1 DEF WayInv, StoreTypes
        <5> QED
          BY <3>3, <5>2
      <4>4. PtyOutput /\ Head(to_screen).pane = t =>
              output'[t] = output[t] \/ output'[t] = Append(output[t], Head(to_screen))
        BY OutputStep DEF Untouched
      <4> HIDE DEF There
      <4> QED
        BY <2>1, <2>3, <4>1, <4>2, <4>3, <4>4, StoreSteps DEF WayInv, Untouched
    <3>4. ASSUME NEW j \in DOMAIN to_screen, IsOutput(to_screen[j]), Chunk(to_screen[j]) = <<g, n>>
          PROVE  There(t, <<g, n>>)
      <4>1. PICK d \in {0, 1}, added \in Seq(ToScreen) : Adds(d, added)
        BY ChannelStep DEF WayInv, StoreTypes
      <4>2. CASE j # 1 \/ d = 0
        <5>1. j - d \in DOMAIN to_screen' /\ to_screen'[j - d] = to_screen[j]
          BY <4>1, <4>2, NewScreen
        <5> QED
          BY <3>4, <5>1
      <4>3. CASE j = 1 /\ d = 1
        <5> DEFINE o == Head(to_screen)
        <5>1. to_screen # <<>> /\ o = to_screen[1] /\ PtyOutput
          BY <3>4, <4>1, <4>3, NewScreen DEF Adds
        <5>2. Chunk(o) = <<g, n>> /\ o.generation = g
          BY <3>4, <4>3, <5>1 DEF Chunk
        <5>3. o.pane = t
          <6>1. WasSent(o.pane, <<g, n>>)
            BY <3>4, <4>3, <5>1, <5>2 DEF WayInv, AllSent
          <6> QED
            BY <2>2, <6>1 DEF WasSent
        <5>4. \/ fed'[t] = Append(fed[t], Chunk(o))
              \/ output'[t] = Append(output[t], o)
          BY <2>3, <5>1, <5>2, <5>3, OutputStep
        <5>5. ASSUME NEW S, NEW q \in Seq(S), NEW e
              PROVE  \E k \in DOMAIN Append(q, e) : Append(q, e)[k] = e
          <6>1. Len(q) + 1 \in DOMAIN Append(q, e) /\ Append(q, e)[Len(q) + 1] = e
            OBVIOUS
          <6> QED
            BY <6>1
        <5>6. \/ \E k \in DOMAIN fed'[t] : fed'[t][k] = Chunk(o)
              \/ \E i \in DOMAIN output'[t] : output'[t][i] = o
          BY <5>4, <5>5 DEF WayInv, StoreTypes
        <5> QED
          BY <5>2, <5>6
      <4> QED
        BY <4>2, <4>3
    <3> HIDE DEF There
    <3> QED
      BY <3>1, <3>2, <3>3, <3>4 DEF Somewhere
  <2>6. CASE n \notin 0 .. SentOf(g) - 1
    <3>1. SendChunk(g) /\ SentOf(g)' = SentOf(g) + 1
      <4>1. SentOf(g)' = SentOf(g) \/ (SendChunk(g) /\ SentOf(g)' = SentOf(g) + 1)
        BY <1>1, <2>2 DEF ReadersGoOn
      <4> QED
        BY <1>2, <2>6, <4>1
    <3>2. readers[g].hand /\ to_screen' = Append(to_screen, Output(t, g, readers[g].read - 1))
      BY <2>2, <3>1 DEF SendChunk
    <3>3. SentOf(g) = readers[g].read - 1
      BY <3>2 DEF SentOf
    <3>4. n = readers[g].read - 1
      BY <1>2, <2>4, <2>6, <3>1, <3>3
    <3>5. ASSUME NEW S, NEW q \in Seq(S), NEW e
          PROVE  Len(q) + 1 \in DOMAIN Append(q, e) /\ Append(q, e)[Len(q) + 1] = e
      OBVIOUS
    <3>6. \E j \in DOMAIN to_screen' : to_screen'[j] = Output(t, g, n)
      <4>1. PICK e : e = Output(t, g, n)
        OBVIOUS
      <4>2. Append(to_screen, e)[Len(to_screen) + 1] = e /\ Len(to_screen) + 1 \in DOMAIN Append(to_screen, e)
        BY <3>5 DEF ScreenTypes
      <4> QED
        BY <3>2, <3>4, <4>1, <4>2
    <3> QED
      BY <3>6 DEF Output, IsOutput, Chunk
  <2> QED
    BY <2>5, <2>6
<1>3. ASSUME NEW t \in Terminals, stream'[t] # None, HasPane(t)',
             NEW n \in 0 .. (IF readers'[stream'[t]].hand THEN readers'[stream'[t]].read - 1
                             ELSE readers'[stream'[t]].read) - 1
      PROVE  There(t, <<stream'[t], n>>)
  <2>1. PICK g : g = stream'[t]
    OBVIOUS
  <2>2. n \in 0 .. SentOf(g)' - 1
    BY <1>3, <2>1 DEF SentOf
  <2> HIDE DEF There
  <2>3. There(t, <<g, n>>)
    BY <1>2, <1>3, <2>1, <2>2
  <2> QED
    BY <2>1, <2>3
<1> QED
  BY <1>3 DEF NothingLost, Somewhere, SentOf, IsOutput, Chunk

\* All of WayInv holds at first, and is kept.
LEMMA InitWayInv ==
  ASSUME StreamsAssumption, Init
  PROVE  WayInv
<1>1. /\ \A S : <<>> \in Seq(S) /\ DOMAIN <<>> = {}
      /\ NoRing \in Rings
  BY EmptySeq DEF NoRing, Rings, None
<1>2. /\ spawned = {} /\ live = {} /\ readers = <<>> /\ to_pty = <<>> /\ to_screen = <<>> /\ announcing = None
      /\ never_created = {} /\ child = [t \in Terminals |-> child[t]]
      /\ stream = [t \in Terminals |-> None] /\ output = [t \in Terminals |-> <<>>]
      /\ fed = [t \in Terminals |-> <<>>] /\ rings = [t \in Terminals |-> NoRing]
      /\ \A t \in Terminals : /\ stream[t] = None /\ output[t] = <<>> /\ fed[t] = <<>> /\ rings[t] = NoRing
                              /\ child[t] = "none" /\ events[t] = <<>> /\ panes[t] = "absent" /\ t # None
  BY DEF Init, StreamsAssumption
<1>3. StoreTypes
  BY <1>1, <1>2 DEF StoreTypes
<1>4. OnlySpawned /\ Generated /\ OneLife
  BY <1>1, <1>2 DEF OnlySpawned, Generated, OneLife, Sent, HasPane
<1>5. AllSent /\ InOrder /\ PanesGiven /\ NothingLost
  BY <1>1, <1>2 DEF AllSent, InOrder, PanesGiven, NothingLost
<1> QED
  BY <1>3, <1>4, <1>5 DEF WayInv

LEMMA NextWayInv ==
  ASSUME StreamsAssumption, IInv, WayInv, [Next]_vars
  PROVE  WayInv'
<1>1. PtyTypes /\ ScreenTypes
  BY DEF IInv
<1>2. StoreTypes' /\ AllSent' /\ InOrder' /\ PanesGiven' /\ NothingLost'
  BY <1>1, StoreTypesKept, AllSentKept, InOrderKept, PanesGivenKept, NothingLostKept
<1>3. OnlySpawned' /\ Generated' /\ OneLife'
  BY <1>1, OnlySpawnedKept, GeneratedKept, OneLifeKept DEF WayInv
<1> QED
  BY <1>2, <1>3 DEF WayInv

\* The chunks of a stream in a sequence.
Rising(g, q) ==
  \A i, j \in DOMAIN q : i < j /\ q[i][1] = g /\ q[j][1] = g => q[i][2] < q[j][2]
Before(g, q, r) ==
  \A i \in DOMAIN q, j \in DOMAIN r : q[i][1] = g /\ r[j][1] = g => q[i][2] < r[j][2]
Numbers(g, q) == {q[k][2] : k \in {i \in DOMAIN q : q[i][1] = g}}

\* Of two sequences, one behind the other, the chunks of a stream ascend if they do in
\* each of them and the first has those before.
LEMMA RisingConcat ==
  ASSUME NEW S, NEW q \in Seq(S), NEW r \in Seq(S), NEW g, Rising(g, q), Rising(g, r), Before(g, q, r)
  PROVE  /\ q \o r \in Seq(S) /\ Rising(g, q \o r)
         /\ Numbers(g, q \o r) = Numbers(g, q) \cup Numbers(g, r)
         /\ \A z : Before(g, q, z) /\ Before(g, r, z) => Before(g, q \o r, z)
<1> DEFINE w == q \o r
<1>1. /\ w \in Seq(S) /\ DOMAIN q = 1 .. Len(q) /\ DOMAIN r = 1 .. Len(r) /\ Len(q) \in Nat /\ Len(r) \in Nat
      /\ \A i \in DOMAIN w : \/ i \in DOMAIN q /\ w[i] = q[i]
                             \/ i - Len(q) \in DOMAIN r /\ w[i] = r[i - Len(q)] /\ i > Len(q)
      /\ \A i \in DOMAIN w : i \in Nat
      /\ \A i \in DOMAIN q : i \in DOMAIN w /\ w[i] = q[i]
      /\ \A i \in DOMAIN r : i + Len(q) \in DOMAIN w /\ w[i + Len(q)] = r[i]
  <2>1. w \in Seq(S) /\ DOMAIN w = 1 .. Len(q) + Len(r)
    OBVIOUS
  <2>2. DOMAIN q = 1 .. Len(q) /\ DOMAIN r = 1 .. Len(r) /\ Len(q) \in Nat /\ Len(r) \in Nat
    BY LenProperties
  <2>3. \A i \in 1 .. Len(q) : w[i] = q[i]
    OBVIOUS
  <2>4. \A i \in 1 .. Len(r) : w[i + Len(q)] = r[i]
    OBVIOUS
  <2> HIDE DEF w
  <2>5. ASSUME NEW i \in DOMAIN w
        PROVE  \/ i \in DOMAIN q /\ w[i] = q[i]
               \/ i - Len(q) \in DOMAIN r /\ w[i] = r[i - Len(q)] /\ i > Len(q)
    <3>1. CASE i <= Len(q)
      BY <2>1, <2>2, <2>3, <3>1
    <3>2. CASE i > Len(q)
      <4>1. i - Len(q) \in 1 .. Len(r) /\ (i - Len(q)) + Len(q) = i
        BY <2>1, <2>2, <3>2
      <4>2. w[(i - Len(q)) + Len(q)] = r[i - Len(q)]
        BY <2>4, <4>1
      <4> QED
        BY <2>2, <3>2, <4>1, <4>2
    <3> QED
      BY <2>1, <2>2, <3>1, <3>2
  <2>6. \A i \in DOMAIN w : i \in Nat
    BY <2>1, <2>2
  <2> QED
    BY <2>1, <2>2, <2>3, <2>4, <2>5, <2>6
<1> HIDE DEF w
<1>2. Rising(g, w)
  <2> SUFFICES ASSUME NEW i \in DOMAIN w, NEW j \in DOMAIN w, i < j, w[i][1] = g, w[j][1] = g
               PROVE  w[i][2] < w[j][2]
    BY DEF Rising
  <2>1. CASE i \in DOMAIN q /\ w[i] = q[i] /\ j \in DOMAIN q /\ w[j] = q[j]
    BY <2>1 DEF Rising
  <2>2. CASE i \in DOMAIN q /\ w[i] = q[i] /\ j - Len(q) \in DOMAIN r /\ w[j] = r[j - Len(q)]
    BY <2>2 DEF Before
  <2>3. CASE /\ i - Len(q) \in DOMAIN r /\ w[i] = r[i - Len(q)]
             /\ j - Len(q) \in DOMAIN r /\ w[j] = r[j - Len(q)]
    <3>1. i - Len(q) < j - Len(q)
      BY <1>1
    <3> QED
      BY <2>3, <3>1 DEF Rising
  <2>4. ~(i > Len(q) /\ j \in DOMAIN q)
    BY <1>1
  <2> QED
    BY <1>1, <2>1, <2>2, <2>3, <2>4
<1>3. Numbers(g, w) = Numbers(g, q) \cup Numbers(g, r)
  <2>1. \A x \in Numbers(g, w) : x \in Numbers(g, q) \cup Numbers(g, r)
    BY <1>1 DEF Numbers
  <2>2. \A x \in Numbers(g, q) : x \in Numbers(g, w)
    BY <1>1 DEF Numbers
  <2>3. \A x \in Numbers(g, r) : x \in Numbers(g, w)
    <3> SUFFICES ASSUME NEW i \in DOMAIN r, r[i][1] = g
                 PROVE  r[i][2] \in Numbers(g, w)
      BY DEF Numbers
    <3> QED
      BY <1>1 DEF Numbers
  <2> QED
    BY <2>1, <2>2, <2>3
<1>4. \A z : Before(g, q, z) /\ Before(g, r, z) => Before(g, w, z)
  BY <1>1 DEF Before
<1> QED
  BY <1>1, <1>2, <1>3, <1>4 DEF w

\* The chunks of a stream on the way to its pane: each of those that were read, once, in turn.
LEMMA WayWhole ==
  ASSUME StreamsAssumption, IInv, WayInv, NEW t \in Terminals, stream[t] # None, HasPane(t)
  PROVE  /\ Rising(stream[t], Way(t))
         /\ Numbers(stream[t], Way(t)) = 0 .. readers[stream[t]].read - 1
<1> DEFINE g == stream[t]
           S == Nat \X Int
           f == fed[t]
           o == Chunks(output[t])
           c == Chunks(to_screen)
           h == InHand(g)
           sent == SentOf(g)
<1>1. /\ g \in DOMAIN readers /\ g \in Nat /\ readers[g].pane = t /\ readers[g].read \in Nat
      /\ readers[g].hand \in BOOLEAN /\ (readers[g].hand => readers[g].read >= 1)
  <2>1. g \in DOMAIN readers /\ g \in Nat /\ readers[g].pane = t
    BY DEF IInv, PtyTypes, WayInv, Generated
  <2> DEFINE Reader == [pane : Terminals, read : Nat, hand : BOOLEAN]
  <2>2. readers \in Seq(Reader)
    BY DEF IInv, PtyTypes
  <2> HIDE DEF Reader, g
  <2>3. readers[g] \in Reader
    BY <2>1, <2>2, ElementOfSeq, LenProperties
  <2> QED
    BY <2>1, <2>3 DEF Reader, WayInv, Generated
<1>2. sent \in Int /\ sent = IF readers[g].hand THEN readers[g].read - 1 ELSE readers[g].read
  BY <1>1 DEF SentOf
<1> HIDE DEF g, sent
<1>3. \A b : WasSent(t, b) /\ b[1] = g => 0 <= b[2] /\ b[2] < sent
  BY DEF WasSent, sent
<1>4. None = 0 /\ g # None
  BY DEF None, g
\* the chunks of the four parts
<1>5. /\ f \in Seq(S) /\ \A k \in DOMAIN f : f[k] \in S /\ WasSent(t, f[k])
  BY ElementOfSeq, LenProperties DEF WayInv, StoreTypes, AllSent
<1>6. /\ o \in Seq(S) /\ DOMAIN o = DOMAIN output[t]
      /\ \A k \in DOMAIN o : o[k] = Chunk(output[t][k]) /\ o[k] \in S /\ WasSent(t, o[k])
  <2>1. output[t] \in Seq(OutputEvents)
    BY DEF WayInv, StoreTypes
  <2>2. \A k \in DOMAIN output[t] : output[t][k] \in OutputEvents
    BY <2>1, ElementOfSeq, LenProperties
  <2>3. DOMAIN o = DOMAIN output[t] /\ \A k \in DOMAIN o : o[k] = Chunk(output[t][k]) /\ o[k] \in S
    BY <2>2 DEF Chunks, Chunk, OutputEvents
  <2>4. o \in Seq(S)
    <3>1. o = [k \in 1 .. Len(output[t]) |-> o[k]] /\ Len(output[t]) \in Nat /\ DOMAIN o = 1 .. Len(output[t])
      BY <2>1, LenProperties DEF Chunks
    <3> HIDE DEF o, S
    <3>2. \A k \in DOMAIN o : o[k] \in S
      BY <2>3
    <3> QED
      BY <3>1, <3>2, IsASeq
  <2> QED
    BY <2>3, <2>4 DEF WayInv, AllSent
<1>7. /\ c \in Seq(S) /\ DOMAIN c = DOMAIN to_screen
      /\ \A k \in DOMAIN c : c[k] \in S
      /\ \A k \in DOMAIN c : IsOutput(to_screen[k]) => c[k] = Chunk(to_screen[k])
      /\ \A k \in DOMAIN c : c[k][1] = g => IsOutput(to_screen[k]) /\ WasSent(t, c[k])
  <2>1. to_screen \in Seq(ToScreen)
    BY DEF IInv, ScreenTypes
  <2>2. \A k \in DOMAIN to_screen : to_screen[k] \in ToScreen
    BY <2>1, ElementOfSeq, LenProperties
  <2>3. \A k \in DOMAIN to_screen : IsOutput(to_screen[k]) => Chunk(to_screen[k]) \in S
    BY <2>2 DEF ToScreen, ScreenEvents, IsOutput, Chunk
  <2>4. /\ DOMAIN c = DOMAIN to_screen
        /\ \A k \in DOMAIN c : IsOutput(to_screen[k]) => c[k] = Chunk(to_screen[k])
        /\ \A k \in DOMAIN c : ~IsOutput(to_screen[k]) => c[k] = <<None, 0>>
    BY DEF Chunks, Chunk, IsOutput
  <2>5. c \in Seq(S) /\ \A k \in DOMAIN c : c[k] \in S
    <3>1. c = [k \in 1 .. Len(to_screen) |-> c[k]] /\ Len(to_screen) \in Nat /\ DOMAIN c = 1 .. Len(to_screen)
      BY <2>1, LenProperties DEF Chunks
    <3>2. \A k \in DOMAIN c : c[k] \in S
      <4> HIDE DEF c
      <4> QED
        BY <1>4, <2>3, <2>4
    <3> HIDE DEF c, S
    <3> QED
      BY <3>1, <3>2, IsASeq
  <2> HIDE DEF c
  <2>6. ASSUME NEW k \in DOMAIN c, c[k][1] = g
        PROVE  IsOutput(to_screen[k]) /\ WasSent(t, c[k])
    <3>1. IsOutput(to_screen[k]) /\ c[k] = Chunk(to_screen[k])
      BY <1>4, <2>4, <2>6
    <3>2. WasSent(to_screen[k].pane, c[k])
      BY <2>4, <3>1 DEF WayInv, AllSent
    <3> QED
      BY <1>1, <2>6, <3>1, <3>2 DEF WasSent
  <2> QED
    BY <2>4, <2>5, <2>6
<1>8. /\ h \in Seq(S) /\ \A k \in DOMAIN h : k = 1 /\ h[k][2] = sent /\ readers[g].hand
      /\ readers[g].hand => 1 \in DOMAIN h /\ h[1] = <<g, sent>>
  <2>1. CASE readers[g].hand
    <3>1. h = <<<<g, sent>>>> /\ <<g, sent>> \in S
      BY <1>1, <1>2, <2>1 DEF InHand
    <3> QED
      BY <2>1, <3>1
  <2>2. CASE ~readers[g].hand
    BY <2>2, EmptySeq DEF InHand
  <2> QED
    BY <1>1, <2>1, <2>2
<1> HIDE DEF S, o, c, h
\* each of them is in order, and so are they
<1>9. /\ Rising(g, f) /\ Rising(g, o) /\ Rising(g, c) /\ Rising(g, h)
      /\ Before(g, f, o) /\ Before(g, f, c) /\ Before(g, o, c)
  <2>1. Rising(g, f)
    <3> SUFFICES ASSUME NEW i \in DOMAIN f, NEW j \in DOMAIN f, i < j, f[i][1] = g, f[j][1] = g
                 PROVE  f[i][2] < f[j][2]
      BY DEF Rising
    <3>1. Ascend(f[i], f[j])
      BY DEF WayInv, InOrder
    <3> QED
      BY <1>1, <3>1 DEF Ascend
  <2>2. Rising(g, o)
    BY <1>6 DEF Rising, WayInv, InOrder, Earlier
  <2>3. Rising(g, c)
    BY <1>7 DEF Rising, WayInv, InOrder, Earlier
  <2>4. Rising(g, h)
    BY <1>8 DEF Rising
  <2>5. Before(g, f, o)
    BY <1>6 DEF Before, WayInv, InOrder, Earlier
  <2>6. Before(g, f, c)
    BY <1>7 DEF Before, WayInv, InOrder, Earlier
  <2>7. Before(g, o, c)
    BY <1>6, <1>7 DEF Before, WayInv, InOrder, Earlier
  <2> QED
    BY <2>1, <2>2, <2>3, <2>4, <2>5, <2>6, <2>7
<1>10. Before(g, f, h) /\ Before(g, o, h) /\ Before(g, c, h)
  BY <1>3, <1>5, <1>6, <1>7, <1>8 DEF Before
<1> HIDE DEF f
<1>11. /\ f \o o \in Seq(S) /\ Rising(g, f \o o) /\ Numbers(g, f \o o) = Numbers(g, f) \cup Numbers(g, o)
       /\ Before(g, f \o o, c) /\ Before(g, f \o o, h)
  BY <1>5, <1>6, <1>9, <1>10, RisingConcat
<1>12. PICK fo \in Seq(S) :
         /\ fo = f \o o /\ Rising(g, fo) /\ Numbers(g, fo) = Numbers(g, f) \cup Numbers(g, o)
         /\ Before(g, fo, c) /\ Before(g, fo, h)
  BY <1>11
<1>13. /\ fo \o c \in Seq(S) /\ Rising(g, fo \o c)
       /\ Numbers(g, fo \o c) = Numbers(g, fo) \cup Numbers(g, c)
       /\ Before(g, fo \o c, h)
  <2>1. /\ fo \in Seq(S) /\ c \in Seq(S) /\ Rising(g, fo) /\ Rising(g, c) /\ Before(g, fo, c)
        /\ Before(g, fo, h) /\ Before(g, c, h)
    BY <1>7, <1>9, <1>10, <1>12
  <2>2. /\ fo \o c \in Seq(S) /\ Rising(g, fo \o c)
        /\ Numbers(g, fo \o c) = Numbers(g, fo) \cup Numbers(g, c)
        /\ \A z : Before(g, fo, z) /\ Before(g, c, z) => Before(g, fo \o c, z)
    BY ONLY <2>1, RisingConcat
  <2> QED
    BY <2>1, <2>2
<1>14. PICK foc \in Seq(S) :
         /\ foc = fo \o c /\ Rising(g, foc) /\ Numbers(g, foc) = Numbers(g, fo) \cup Numbers(g, c)
         /\ Before(g, foc, h)
  BY <1>13
<1>15. Rising(g, foc \o h) /\ Numbers(g, foc \o h) = Numbers(g, foc) \cup Numbers(g, h)
  <2>1. foc \in Seq(S) /\ h \in Seq(S) /\ Rising(g, foc) /\ Rising(g, h) /\ Before(g, foc, h)
    BY <1>8, <1>9, <1>14
  <2> QED
    BY ONLY <2>1, RisingConcat
<1>16. Way(t) = foc \o h
  <2>1. Way(t) = f \o o \o c \o h
    BY DEF Way, f, o, c, h, g
  <2> QED
    BY <1>12, <1>14, <2>1
\* and they are of all numbers
<1>17. Numbers(g, Way(t)) = Numbers(g, f) \cup Numbers(g, o) \cup Numbers(g, c) \cup Numbers(g, h)
  BY <1>12, <1>14, <1>15, <1>16
<1>18. ASSUME NEW n \in Numbers(g, Way(t))
       PROVE  n \in 0 .. readers[g].read - 1
  <2>1. ASSUME NEW b \in S, WasSent(t, b), b[1] = g
        PROVE  b[2] \in 0 .. readers[g].read - 1
    <3>1. b[2] \in Int /\ 0 <= b[2] /\ b[2] < sent
      BY <1>3, <2>1 DEF S
    <3> QED
      BY <1>1, <1>2, <3>1
  <2>2. CASE n \in Numbers(g, f)
    BY <1>5, <2>1, <2>2 DEF Numbers
  <2>3. CASE n \in Numbers(g, o)
    BY <1>6, <2>1, <2>3 DEF Numbers
  <2>4. CASE n \in Numbers(g, c)
    BY <1>7, <2>1, <2>4 DEF Numbers
  <2>5. CASE n \in Numbers(g, h)
    <3>1. n = sent /\ readers[g].hand
      BY <1>8, <2>5 DEF Numbers
    <3> QED
      BY <1>1, <1>2, <3>1
  <2> QED
    BY <1>17, <1>18, <2>2, <2>3, <2>4, <2>5
<1>19. ASSUME NEW n \in 0 .. readers[g].read - 1
       PROVE  n \in Numbers(g, Way(t))
  <2>1. CASE n \in 0 .. sent - 1
    <3>1. Somewhere(t, <<g, n>>)
      BY <2>1 DEF WayInv, NothingLost, g, sent
    <3>2. <<g, n>>[1] = g /\ <<g, n>>[2] = n
      OBVIOUS
    <3>3. ASSUME NEW q, NEW k \in DOMAIN q, q[k] = <<g, n>>
          PROVE  n \in Numbers(g, q)
      BY <3>2, <3>3 DEF Numbers
    <3>4. (\E k \in DOMAIN f : f[k] = <<g, n>>) \/ (\E k \in DOMAIN o : o[k] = <<g, n>>)
            \/ (\E k \in DOMAIN c : c[k] = <<g, n>>)
      BY <1>6, <1>7, <3>1 DEF Somewhere, f
    <3> QED
      BY <1>17, <3>3, <3>4
  <2>2. CASE n \notin 0 .. sent - 1
    <3>1. readers[g].hand /\ n = sent
      BY <1>1, <1>2, <2>2
    <3>2. n \in Numbers(g, h)
      BY <1>8, <3>1 DEF Numbers
    <3> QED
      BY <1>17, <3>2
  <2> QED
    BY <2>1, <2>2
<1>20. Numbers(g, Way(t)) = 0 .. readers[g].read - 1
  BY <1>18, <1>19
<1> QED
  BY <1>15, <1>16, <1>20 DEF g

LEMMA SpecWayInv == Spec => [](IInv /\ WayInv)
<1>1. Init => WayInv
  BY InitWayInv, StreamsAssumption
<1>2. IInv /\ WayInv /\ [Next]_vars => WayInv'
  BY NextWayInv, StreamsAssumption
<1> QED
  BY <1>1, <1>2, SpecIInv, PTL DEF Spec

\* Whatever is read from a program reaches its pane whole and in order: each chunk of the
\* stream that is read was given to the pane, waits for it, is in Screen's channel or in
\* the reader's hand, in the order of the numbers and each once, also while the pane is
\* still to come, and whatever other panes are refused, closed or run again meanwhile. A
\* pane is given nothing of a stream that another has replaced.
THEOREM OutputArrivesWhole == Spec => []StreamsArriveWhole
<1>1. IInv /\ WayInv => StreamsArriveWhole
  <2> SUFFICES ASSUME IInv, WayInv, NEW t \in Terminals
               PROVE  /\ stream[t] # None /\ HasPane(t) =>
                           LET own == {k \in DOMAIN Way(t) : Way(t)[k][1] = stream[t]}
                           IN /\ {Way(t)[k][2] : k \in own} = 0 .. readers[stream[t]].read - 1
                              /\ \A j, k \in own : j < k => Way(t)[j][2] < Way(t)[k][2]
                      /\ \A j, k \in DOMAIN fed[t] : j < k =>
                           \/ fed[t][j][1] < fed[t][k][1]
                           \/ fed[t][j][1] = fed[t][k][1] /\ fed[t][j][2] < fed[t][k][2]
    BY DEF StreamsArriveWhole
  <2>1. \A j, k \in DOMAIN fed[t] : j < k =>
           \/ fed[t][j][1] < fed[t][k][1]
           \/ fed[t][j][1] = fed[t][k][1] /\ fed[t][j][2] < fed[t][k][2]
    BY DEF WayInv, InOrder, Ascend
  <2>2. ASSUME stream[t] # None, HasPane(t)
        PROVE  LET own == {k \in DOMAIN Way(t) : Way(t)[k][1] = stream[t]}
               IN /\ {Way(t)[k][2] : k \in own} = 0 .. readers[stream[t]].read - 1
                  /\ \A j, k \in own : j < k => Way(t)[j][2] < Way(t)[k][2]
    BY <2>2, WayWhole, StreamsAssumption DEF Rising, Numbers
  <2> QED
    BY <2>1, <2>2
<1> QED
  BY <1>1, SpecWayInv, PTL

-----------------------------------------------------------------------------
(* Gaps *)

\* What a pane is given next of a stream follows all before it.
LEMMA FedWholeKept ==
  ASSUME StreamsAssumption, PtyTypes, ScreenTypes, WayInv, FedWhole, [Next]_vars
  PROVE  FedWhole'
<1> SUFFICES ASSUME NEW t \in Terminals, NEW k \in DOMAIN fed'[t], NEW n \in 0 .. fed'[t][k][2] - 1
             PROVE  \E j \in 1 .. k - 1 : fed'[t][j] = <<fed'[t][k][1], n>>
  BY DEF FedWhole, Whole
<1>1. /\ fed[t] \in Seq(Nat \X Int) /\ DOMAIN fed[t] = 1 .. Len(fed[t]) /\ Len(fed[t]) \in Nat
      /\ fed'[t] \in Seq(Nat \X Int) /\ DOMAIN fed'[t] = 1 .. Len(fed'[t]) /\ Len(fed'[t]) \in Nat
  BY StoreTypesKept, LenProperties DEF WayInv, StoreTypes
<1>2. \A j \in DOMAIN fed'[t] : fed'[t][j] \in Nat \X Int
  BY <1>1, ElementOfSeq
<1>3. ASSUME NEW g, NEW m, NEW c, WasSent(t, c), c = <<g, m>>, g \in live, HasPane(t), m \in Int, n < m, n \in Int, 0 <= n,
             \A j \in DOMAIN to_screen : IsOutput(to_screen[j]) =>
               Earlier(c, Chunk(to_screen[j])) \/ Chunk(to_screen[j]) = c
      PROVE  (\E j \in DOMAIN fed[t] : fed[t][j] = <<g, n>>) \/ (\E i \in DOMAIN output[t] : Chunk(output[t][i]) = <<g, n>>)
  <2>1. g = stream[t] /\ stream[t] # None /\ m < SentOf(g) /\ g \in DOMAIN readers
    BY <1>3, LiveIs DEF WayInv, WasSent
  <2>2. SentOf(g) \in Int
    <3> DEFINE Reader == [pane : Terminals, read : Nat, hand : BOOLEAN]
    <3>1. readers \in Seq(Reader)
      BY DEF PtyTypes
    <3>2. readers[g] \in Reader
      <4> HIDE DEF Reader
      <4> QED
        BY <2>1, <3>1, ElementOfSeq, LenProperties
    <3> QED
      BY <3>2 DEF SentOf
  <2>3. n \in 0 .. SentOf(g) - 1
    BY <1>3, <2>1, <2>2
  <2>4. Somewhere(t, <<g, n>>)
    BY <1>3, <2>1, <2>3 DEF WayInv, NothingLost
  <2>5. ASSUME NEW j \in DOMAIN to_screen, IsOutput(to_screen[j]), Chunk(to_screen[j]) = <<g, n>>
        PROVE  FALSE
    <3>1. Earlier(c, <<g, n>>) \/ <<g, n>> = c
      BY <1>3, <2>5
    <3> QED
      BY <1>3, <3>1 DEF Earlier
  <2> QED
    BY <2>4, <2>5 DEF Somewhere
<1>4. CASE k \in DOMAIN fed[t] /\ fed'[t][k] = fed[t][k] /\ \A j \in DOMAIN fed[t] : fed'[t][j] = fed[t][j]
  <2>1. PICK j \in 1 .. k - 1 : fed[t][j] = <<fed[t][k][1], n>>
    BY <1>4 DEF FedWhole, Whole
  <2>2. j \in DOMAIN fed[t]
    BY <1>1, <1>4
  <2> QED
    BY <1>4, <2>1, <2>2
<1>5. CASE CreatePane /\ Head(to_screen).pane = t
  <2>1. /\ Coming(t) /\ fed[t] = <<>> /\ Given(rings'[t], fed'[t])
        /\ \A j \in DOMAIN fed'[t] : \E i \in DOMAIN output[t] :
             output[t][i].generation \in live /\ fed'[t][j] = Chunk(output[t][i])
        /\ \A i \in DOMAIN output[t] : output[t][i].generation \in live =>
             \E j \in DOMAIN fed'[t] : fed'[t][j] = Chunk(output[t][i])
    BY <1>5, CreateStep
  <2>2. PICK i \in DOMAIN output[t] : output[t][i].generation \in live /\ fed'[t][k] = Chunk(output[t][i])
    BY <2>1
  <2> DEFINE g == output[t][i].generation
             m == output[t][i].sequence
  <2>3. WasSent(t, Chunk(output[t][i])) /\ Chunk(output[t][i]) = <<g, m>>
    BY DEF WayInv, AllSent, Chunk
  <2>4. fed'[t][k] = <<g, m>> /\ fed'[t][k][1] = g /\ fed'[t][k][2] = m /\ m \in Int /\ n \in Int /\ 0 <= n /\ n < m
    BY <1>2, <2>2, <2>3
  <2>5. \A j \in DOMAIN to_screen : IsOutput(to_screen[j]) => Earlier(Chunk(output[t][i]), Chunk(to_screen[j]))
    BY DEF WayInv, InOrder
  <2>6. PICK p \in DOMAIN output[t] : Chunk(output[t][p]) = <<g, n>>
    BY <1>3, <2>1, <2>2, <2>3, <2>4, <2>5 DEF HasPane, Coming
  <2>7. output[t][p].generation \in live
    BY <2>2, <2>6 DEF Chunk
  <2>8. PICK j \in DOMAIN fed'[t] : fed'[t][j] = <<g, n>>
    BY <2>1, <2>6, <2>7
  <2> HIDE DEF g, m
  <2>9. j < k
    <3>1. j \in Int /\ k \in Int
      BY <1>1
    <3>2. ~(k < j)
      <4>1. k < j => Ascend(<<g, m>>, <<g, n>>)
        BY <2>1, <2>4, <2>8 DEF Given
      <4>2. g \in Nat
        BY <1>2, <2>4
      <4> QED
        BY <2>4, <4>1, <4>2 DEF Ascend
    <3>3. j # k
      BY <2>4, <2>8
    <3> QED
      BY <3>1, <3>2, <3>3
  <2>10. j \in 1 .. k - 1
    BY <1>1, <2>9
  <2> QED
    BY <2>4, <2>8, <2>10
<1>6. CASE PtyOutput /\ Head(to_screen).pane = t /\ panes[t] # "absent" /\ Head(to_screen).generation \in live
           /\ fed'[t] = Append(fed[t], Chunk(Head(to_screen)))
  <2> DEFINE o == Head(to_screen)
             g == o.generation
             m == o.sequence
  <2>1. /\ DOMAIN fed'[t] = 1 .. Len(fed[t]) + 1
        /\ \A j \in DOMAIN fed[t] : fed'[t][j] = fed[t][j]
        /\ fed'[t][Len(fed[t]) + 1] = Chunk(o)
    <3>1. ASSUME NEW S, NEW q \in Seq(S), NEW e
          PROVE  /\ DOMAIN Append(q, e) = 1 .. Len(q) + 1
                 /\ \A j \in 1 .. Len(q) : Append(q, e)[j] = q[j]
                 /\ Append(q, e)[Len(q) + 1] = e
      OBVIOUS
    <3> QED
      BY <1>1, <1>6, <3>1
  <2>2. CASE k \in DOMAIN fed[t]
    BY <1>4, <2>1, <2>2
  <2>3. CASE k \notin DOMAIN fed[t]
    <3>1. k = Len(fed[t]) + 1 /\ fed'[t][k] = Chunk(o) /\ Chunk(o) = <<g, m>>
      <4>1. Chunk(o) = <<g, m>>
        BY DEF Chunk
      <4> HIDE DEF o, g, m
      <4>2. k = Len(fed[t]) + 1
        <5>1. k \in 1 .. Len(fed[t]) + 1
          BY <2>1
        <5>2. k \notin 1 .. Len(fed[t]) /\ Len(fed[t]) \in Nat
          BY <1>1, <2>3
        <5> QED
          BY ONLY <5>1, <5>2
      <4> QED
        BY <2>1, <4>1, <4>2
    <3>2. m \in Int /\ n \in Int /\ 0 <= n /\ n < m /\ fed'[t][k][1] = g
      BY <1>2, <3>1
    <3>3. 1 \in DOMAIN to_screen /\ o = to_screen[1] /\ IsOutput(o) /\ WasSent(t, Chunk(o))
      BY <1>6, SpawnedHeads, OutputStep DEF WayInv
    <3>4. ASSUME NEW j \in DOMAIN to_screen, IsOutput(to_screen[j])
          PROVE  Earlier(Chunk(o), Chunk(to_screen[j])) \/ Chunk(to_screen[j]) = Chunk(o)
      <4>1. j = 1 \/ 1 < j
        BY LenProperties DEF ScreenTypes
      <4> QED
        BY <3>3, <3>4, <4>1 DEF WayInv, InOrder
    <3>5. output[t] = <<>> /\ HasPane(t)
      BY <1>6 DEF WayInv, OneLife, HasPane
    <3>6. PICK j \in DOMAIN fed[t] : fed[t][j] = <<g, n>>
      <4> HIDE DEF g, m
      <4>1. Chunk(o) = <<g, m>> /\ g \in live
        BY <1>6, <3>1 DEF g
      <4> HIDE DEF o
      <4>2. DOMAIN output[t] = {}
        BY <3>5
      <4> QED
        BY <1>3, <3>2, <3>3, <3>4, <3>5, <4>1, <4>2
    <3>7. j \in 1 .. k - 1 /\ fed'[t][j] = <<fed'[t][k][1], n>>
      <4> HIDE DEF o, g, m
      <4>1. j \in 1 .. k - 1
        BY <1>1, <3>1
      <4> QED
        BY <2>1, <3>2, <3>6, <4>1
    <3> QED
      BY <3>7
  <2> QED
    BY <2>2, <2>3
<1>7. fed'[t] = fed[t] \/ (CreatePane /\ Head(to_screen).pane = t)
      \/ (/\ PtyOutput /\ Head(to_screen).pane = t /\ panes[t] # "absent" /\ Head(to_screen).generation \in live
          /\ fed'[t] = Append(fed[t], Chunk(Head(to_screen))))
  BY StoreSteps, OutputStep DEF WayInv, Untouched
<1> QED
  BY <1>4, <1>5, <1>6, <1>7

LEMMA FromNowTypes ==
  ASSUME NEW ring \in Rings
  PROVE  FromNow(ring) \in [generation : Nat, next : Int]
BY DEF FromNow, Rings, None

\* Who looks at a pane now has seen all that it was given.
LEMMA LookNow ==
  ASSUME StreamsAssumption, PtyTypes, WayInv, NEW t \in Terminals, panes[t] # "absent"
  PROVE  IsLook(FromNow(rings[t]), Len(fed[t]), fed[t])
<1>1. /\ Given(rings[t], fed[t]) /\ Len(fed[t]) \in Nat /\ DOMAIN fed[t] = 1 .. Len(fed[t])
  BY LenProperties DEF WayInv, PanesGiven, StoreTypes
<1>2. CASE rings[t] = NoRing
  <2>1. Len(fed[t]) = 0
    BY <1>1, <1>2, EmptySeq DEF Given
  <2> QED
    BY <1>2, <2>1 DEF FromNow, IsLook
<1>3. CASE rings[t] # NoRing
  <2>1. fed[t] # <<>> /\ fed[t][Len(fed[t])] = <<rings[t].generation, rings[t].newest>> /\ rings[t] \in Rings
    BY <1>1, <1>3 DEF Given, LastOf
  <2>2. Len(fed[t]) > 0
    BY <1>1, <2>1, EmptySeq DEF WayInv, StoreTypes
  <2>3. rings[t].generation # None
    <3>1. WasSent(t, fed[t][Len(fed[t])])
      BY <1>1, <2>2 DEF WayInv, AllSent
    <3>2. rings[t].generation \in DOMAIN readers
      BY <2>1, <3>1 DEF WasSent
    <3> QED
      BY <3>2, LenProperties DEF PtyTypes, None
  <2>4. FromNow(rings[t]) = [generation |-> rings[t].generation, next |-> rings[t].newest + 1]
        /\ rings[t].newest \in Int
    BY <1>3, <2>1 DEF FromNow, Rings
  <2>5. (rings[t].newest + 1) - 1 = rings[t].newest
    BY <2>4
  <2> QED
    BY <1>1, <2>1, <2>2, <2>3, <2>4, <2>5 DEF IsLook
<1> QED
  BY <1>2, <1>3

\* Where subscribers look, and what they watch, changes when they look and when a pane is closed.
LEMMA SubscriberSteps ==
  ASSUME [Next]_vars
  PROVE  \/ UNCHANGED subscriberVars
         \/ NotifyPaneClosed
         \/ \E s \in Subscribers, T \in SUBSET Terminals : Subscribe(s, T)
         \/ \E t \in Terminals : Deliver(t)
<1>1. CASE PtyThread \/ UNCHANGED vars \/ (\E u \in Terminals, b \in BOOLEAN : SpawnTerminal(u, b))
           \/ (\E g \in DOMAIN readers : ReadChunk(g) \/ SendChunk(g))
           \/ (\E u \in Terminals : ChildExits(u) \/ CloseFocusedPane(u) \/ RerunPane(u))
  BY <1>1 DEF PtyThread, Announce, PtyClosePane, ReRunCommandInPane, vars, SpawnTerminal, ReadChunk,
              SendChunk, ChildExits, CloseFocusedPane, RerunPane, subscriberVars
<1>2. CASE CreatePane \/ RefusePane \/ PtyOutput \/ ClosePane \/ HoldPane
  BY <1>2 DEF CreatePane, RefusePane, PtyOutput, ClosePane, HoldPane
<1> QED
  BY <1>1, <1>2 DEF Next, ScreenThread

LEMMA CursorTypesKept ==
  ASSUME StreamsAssumption, PtyTypes, ScreenTypes, WayInv, CursorTypes, [Next]_vars
  PROVE  CursorTypes'
<1> DEFINE Cursor == [generation : Nat, next : Int]
<1>0. /\ cursors \in [Subscribers -> [Terminals -> Cursor]] /\ looked \in [Subscribers -> [Terminals -> Nat]]
      /\ NoRing \in Rings /\ \A t \in Terminals : rings[t] \in Rings /\ Len(fed[t]) \in Nat
  BY LenProperties DEF CursorTypes, WayInv, StoreTypes, NoRing, Rings, None
<1>1. \A ring \in Rings : FromNow(ring) \in Cursor
  BY FromNowTypes
<1> HIDE DEF Cursor
<1>2. CASE UNCHANGED subscriberVars
  BY <1>2 DEF subscriberVars, CursorTypes
<1>3. CASE NotifyPaneClosed
  <2>1. \E u : /\ cursors' = [s \in Subscribers |-> [cursors[s] EXCEPT ![u] = FromNow(NoRing)]]
               /\ looked' = [s \in Subscribers |-> [looked[s] EXCEPT ![u] = 0]]
    BY <1>3 DEF NotifyPaneClosed
  <2>2. PICK c \in Cursor : c = FromNow(NoRing)
    BY <1>0, <1>1
  <2>3. PICK u : /\ cursors' = [s \in Subscribers |-> [cursors[s] EXCEPT ![u] = c]]
                 /\ looked' = [s \in Subscribers |-> [looked[s] EXCEPT ![u] = 0]]
    BY <2>1, <2>2
  <2>4. ASSUME NEW s \in Subscribers
        PROVE  /\ [cursors[s] EXCEPT ![u] = c] \in [Terminals -> Cursor]
               /\ [looked[s] EXCEPT ![u] = 0] \in [Terminals -> Nat]
    <3>1. cursors[s] \in [Terminals -> Cursor] /\ looked[s] \in [Terminals -> Nat]
      BY <1>0
    <3> QED
      BY <3>1
  <2>5. cursors' \in [Subscribers -> [Terminals -> Cursor]] /\ looked' \in [Subscribers -> [Terminals -> Nat]]
    BY <2>3, <2>4
  <2> QED
    BY <2>5 DEF CursorTypes, Cursor
<1>4. ASSUME NEW s \in Subscribers, NEW T \in SUBSET Terminals, Subscribe(s, T)
      PROVE  CursorTypes'
  <2>1. \E F : /\ cursors' = [cursors EXCEPT ![s] = [t \in Terminals |-> FromNow(IF t \in F THEN rings[t] ELSE NoRing)]]
               /\ looked' = [looked EXCEPT ![s] = [t \in Terminals |-> IF t \in F THEN Len(fed[t]) ELSE 0]]
    BY <1>4 DEF Subscribe
  <2>2. cursors' \in [Subscribers -> [Terminals -> Cursor]] /\ looked' \in [Subscribers -> [Terminals -> Nat]]
    BY <1>0, <1>1, <2>1
  <2> QED
    BY <2>2 DEF CursorTypes, Cursor
<1>5. ASSUME NEW t \in Terminals, Deliver(t)
      PROVE  CursorTypes'
  <2>1. \E L : /\ cursors' = [s \in Subscribers |->
                    IF s \in L THEN [cursors[s] EXCEPT ![t] = FromNow(rings[t])] ELSE cursors[s]]
               /\ looked' = [s \in Subscribers |->
                    IF s \in L THEN [looked[s] EXCEPT ![t] = Len(fed[t])] ELSE looked[s]]
    BY <1>5 DEF Deliver
  <2>2. cursors' \in [Subscribers -> [Terminals -> Cursor]] /\ looked' \in [Subscribers -> [Terminals -> Nat]]
    BY <1>0, <1>1, <2>1
  <2> QED
    BY <2>2 DEF CursorTypes, Cursor
<1> QED
  BY <1>2, <1>3, <1>4, <1>5, SubscriberSteps

\* A cursor stays right when its pane is given more.
LEMMA LooksOn ==
  ASSUME StreamsAssumption, IInv, WayInv, CursorsAreLooks, [Next]_vars,
         NEW s \in Subscribers, NEW t \in watching[s], panes'[t] # "absent"
  PROVE  IsLook(cursors[s][t], looked[s][t], fed'[t])
<1>0. t \in Terminals
  BY DEF IInv, SubscriberTypes
<1>1. panes[t] # "absent" /\ ~(CreatePane /\ Head(to_screen).pane = t)
  <2>1. CASE CreatePane /\ Head(to_screen).pane = t
    <3>1. Coming(t)
      BY <1>0, <2>1, CreateStep DEF IInv
    <3>2. panes[t] = "absent" /\ ~Sent("NotifyPaneClosed", t, to_screen)
      BY <1>0, <3>1 DEF WayInv, OneLife, Coming, HasPane
    <3> QED
      BY <1>0, <3>2 DEF IInv, NothingOfClosedPanes
  <2> QED
    BY <1>0, <2>1, PaneSteps DEF IInv, WayInv
<1>2. IsLook(cursors[s][t], looked[s][t], fed[t])
  BY <1>1 DEF CursorsAreLooks
<1>3. fed'[t] = fed[t] \/ \E e : fed'[t] = Append(fed[t], e)
  BY <1>0, <1>1, StoreSteps, OutputStep DEF IInv, WayInv, Untouched
<1>4. fed[t] \in Seq(Nat \X Int) /\ Len(fed[t]) \in Nat
  BY <1>0, LenProperties DEF WayInv, StoreTypes
<1>5. ASSUME NEW S, NEW q \in Seq(S), NEW e
      PROVE  /\ Len(Append(q, e)) = Len(q) + 1
             /\ \A j \in 1 .. Len(q) : Append(q, e)[j] = q[j]
  OBVIOUS
<1>6. /\ Len(fed'[t]) \in Nat /\ Len(fed[t]) <= Len(fed'[t])
      /\ \A j \in 1 .. Len(fed[t]) : fed'[t][j] = fed[t][j]
  <2>1. CASE fed'[t] = fed[t]
    BY <1>4, <2>1
  <2>2. ASSUME NEW e, fed'[t] = Append(fed[t], e)
        PROVE  /\ Len(fed'[t]) \in Nat /\ Len(fed[t]) <= Len(fed'[t])
               /\ \A j \in 1 .. Len(fed[t]) : fed'[t][j] = fed[t][j]
    <3>1. Len(fed'[t]) = Len(fed[t]) + 1 /\ \A j \in 1 .. Len(fed[t]) : fed'[t][j] = fed[t][j]
      BY <1>4, <1>5, <2>2
    <3> QED
      BY <1>4, <3>1
  <2> QED
    BY <1>3, <2>1, <2>2
<1>7. PICK f, g, c, l : f = fed[t] /\ g = fed'[t] /\ c = cursors[s][t] /\ l = looked[s][t]
  OBVIOUS
<1>8. IsLook(c, l, f) /\ Len(f) \in Nat /\ Len(g) \in Nat /\ Len(f) <= Len(g)
      /\ \A j \in 1 .. Len(f) : g[j] = f[j]
  BY <1>2, <1>4, <1>6, <1>7
<1>9. IsLook(c, l, g)
  BY ONLY <1>8 DEF IsLook
<1> QED
  BY <1>7, <1>9

\* A cursor is where its subscriber looked last, after a step too.
LEMMA CursorsKept ==
  ASSUME StreamsAssumption, IInv, WayInv, CursorTypes, CursorsAreLooks, [Next]_vars
  PROVE  CursorsAreLooks'
<1> SUFFICES ASSUME NEW s \in Subscribers, NEW t \in watching'[s], panes'[t] # "absent"
             PROVE  IsLook(cursors'[s][t], looked'[s][t], fed'[t])
  BY DEF CursorsAreLooks, IsLook
<1>0. /\ watching \in [Subscribers -> SUBSET Terminals]
      /\ cursors \in [Subscribers -> [Terminals -> [generation : Nat, next : Int]]]
      /\ looked \in [Subscribers -> [Terminals -> Nat]]
      /\ watching'[s] \subseteq Terminals /\ t \in Terminals
  BY SubscriberTypesKept DEF IInv, SubscriberTypes, CursorTypes
<1>1. ASSUME t \in watching[s], cursors'[s][t] = cursors[s][t], looked'[s][t] = looked[s][t]
      PROVE  IsLook(cursors'[s][t], looked'[s][t], fed'[t])
  BY <1>1, LooksOn
<1>2. ASSUME panes[t] # "absent", cursors'[s][t] = FromNow(rings[t]), looked'[s][t] = Len(fed[t]), fed' = fed
      PROVE  IsLook(cursors'[s][t], looked'[s][t], fed'[t])
  BY <1>0, <1>2, LookNow DEF IInv
<1>3. CASE UNCHANGED subscriberVars
  BY <1>1, <1>3 DEF subscriberVars
<1>4. CASE NotifyPaneClosed
  <2>1. PICK u : /\ watching' = [r \in Subscribers |-> watching[r] \ {u}]
                 /\ cursors' = [r \in Subscribers |-> [cursors[r] EXCEPT ![u] = FromNow(NoRing)]]
                 /\ looked' = [r \in Subscribers |-> [looked[r] EXCEPT ![u] = 0]]
    BY <1>4 DEF NotifyPaneClosed
  <2>2. t # u /\ t \in watching[s]
    BY <2>1
  <2> QED
    BY <1>0, <1>1, <2>1, <2>2
<1>5. ASSUME NEW r \in Subscribers, NEW T \in SUBSET Terminals, Subscribe(r, T)
      PROVE  IsLook(cursors'[s][t], looked'[s][t], fed'[t])
  <2>1. /\ watching' = [watching EXCEPT ![r] = {u \in T : panes[u] # "absent"}]
        /\ cursors' = [cursors EXCEPT ![r] = [u \in Terminals |->
             FromNow(IF u \in {v \in T : panes[v] # "absent"} THEN rings[u] ELSE NoRing)]]
        /\ looked' = [looked EXCEPT ![r] = [u \in Terminals |->
             IF u \in {v \in T : panes[v] # "absent"} THEN Len(fed[u]) ELSE 0]]
        /\ fed' = fed
    BY <1>5 DEF Subscribe, screenVars
  <2>2. CASE s = r
    <3>1. t \in {v \in T : panes[v] # "absent"}
      BY <1>0, <2>1, <2>2
    <3>2. cursors'[s][t] = FromNow(rings[t]) /\ looked'[s][t] = Len(fed[t])
      BY <1>0, <2>1, <2>2, <3>1
    <3> QED
      BY <1>2, <2>1, <3>1, <3>2
  <2>3. CASE s # r
    BY <1>0, <1>1, <2>1, <2>3
  <2> QED
    BY <2>2, <2>3
<1>6. ASSUME NEW u \in Terminals, Deliver(u)
      PROVE  IsLook(cursors'[s][t], looked'[s][t], fed'[t])
  <2>1. /\ watching' = watching /\ fed' = fed /\ panes' = panes
        /\ cursors' = [r \in Subscribers |->
             IF r \in {v \in Subscribers : u \in watching[v]}
             THEN [cursors[r] EXCEPT ![u] = FromNow(rings[u])] ELSE cursors[r]]
        /\ looked' = [r \in Subscribers |->
             IF r \in {v \in Subscribers : u \in watching[v]}
             THEN [looked[r] EXCEPT ![u] = Len(fed[u])] ELSE looked[r]]
    BY <1>6 DEF Deliver, screenVars
  <2>2. CASE t = u
    <3>1. s \in {v \in Subscribers : u \in watching[v]}
      BY <2>1, <2>2
    <3>2. cursors'[s][t] = FromNow(rings[t]) /\ looked'[s][t] = Len(fed[t])
      BY <1>0, <2>1, <2>2, <3>1
    <3> QED
      BY <1>2, <2>1, <3>2
  <2>3. CASE t # u
    BY <1>0, <1>1, <2>1, <2>3
  <2> QED
    BY <2>2, <2>3
<1> QED
  BY <1>3, <1>4, <1>5, <1>6, SubscriberSteps

\* The recursion of Walked, unfolded.
LEMMA WalkedUnfolds ==
  ASSUME NEW start, NEW sequences \in Seq(Int)
  PROVE  \E after : /\ Walked(start, sequences) = after[Len(sequences)]
                    /\ after[0] = [next |-> start, gap |-> FALSE]
                    /\ \A k \in 1 .. Len(sequences) : after[k] = Walk(after[k - 1], sequences[k])
<1> DEFINE first == [next |-> start, gap |-> FALSE]
           Step(f, k) == IF k = 0 THEN first ELSE Walk(f[k - 1], sequences[k])
           IsPart(n, f) == \A k \in 0 .. n : f[k] = Step(f, k)
           Bad == {n \in Nat : ~\E f : f = [k \in 0 .. n |-> f[k]] /\ IsPart(n, f)}
           after == CHOOSE f : f = [k \in 0 .. Len(sequences) |-> Step(f, k)]
<1>1. Walked(start, sequences) = after[Len(sequences)]
  BY DEF Walked
<1>2. ASSUME NEW n \in Bad
      PROVE  \E m \in Bad : m < n
  <2>1. n # 0
    <3>1. IsPart(0, [k \in 0 .. 0 |-> first])
      OBVIOUS
    <3> QED
      BY <1>2, <3>1
  <2>2. n - 1 \in Nat /\ n - 1 < n /\ n \in Nat
    BY <2>1
  <2>3. ASSUME NEW f, f = [k \in 0 .. n - 1 |-> f[k]], IsPart(n - 1, f)
        PROVE  FALSE
    <3> DEFINE h == [k \in 0 .. n |-> IF k = n THEN Walk(f[n - 1], sequences[n]) ELSE f[k]]
    <3>1. ASSUME NEW k \in 0 .. n
          PROVE  h[k] = Step(h, k)
      <4>1. CASE k = n
        BY <2>1, <2>2, <4>1
      <4>2. CASE k # n
        <5>1. k \in 0 .. n - 1
          BY <2>2, <4>2
        <5>2. f[k] = Step(f, k)
          BY <2>3, <5>1
        <5>3. k # 0 => k - 1 \in 0 .. n /\ k - 1 # n
          BY <2>2
        <5> QED
          BY <4>2, <5>2, <5>3
      <4> QED
        BY <4>1, <4>2
    <3>2. IsPart(n, h) /\ h = [k \in 0 .. n |-> h[k]]
      BY <3>1
    <3> QED
      BY <1>2, <3>2
  <2>4. n - 1 \in Bad
    BY <2>2, <2>3
  <2> QED
    BY <2>2, <2>4
<1>3. Bad = {}
  <2> SUFFICES ASSUME Bad # {}
               PROVE  FALSE
    OBVIOUS
  <2>1. Bad \subseteq Nat
    OBVIOUS
  <2> HIDE DEF Bad
  <2>2. PICK m \in Bad : \A k \in Bad : m <= k
    BY <2>1, LeastNatural
  <2>3. PICK k \in Bad : k < m
    BY <1>2
  <2> QED
    BY <2>1, <2>2, <2>3
<1>4. Len(sequences) \in Nat
  BY LenProperties
<1>5. \E f : f = [k \in 0 .. Len(sequences) |-> Step(f, k)]
  <2>1. PICK f : f = [k \in 0 .. Len(sequences) |-> f[k]] /\ IsPart(Len(sequences), f)
    BY <1>3, <1>4
  <2>2. f = [k \in 0 .. Len(sequences) |-> Step(f, k)]
    BY <2>1
  <2> QED
    BY <2>2
<1>6. after = [k \in 0 .. Len(sequences) |-> Step(after, k)]
  BY <1>5
<1> HIDE DEF after
<1> HIDE DEF first
<1>7. after[0] = first /\ \A k \in 1 .. Len(sequences) : after[k] = Walk(after[k - 1], sequences[k])
  BY <1>4, <1>6
<1> QED
  BY <1>1, <1>7 DEF first

LEMMA WalkStep ==
  ASSUME NEW a, NEW n
  PROVE  /\ n < a.next => Walk(a, n) = a
         /\ ~(n < a.next) => Walk(a, n).next = n + 1 /\ (Walk(a, n).gap <=> a.gap \/ n > a.next)
BY Zenon DEF Walk

\* A walk over numbers without a hole finds a gap if they begin behind its start.
LEMMA WalkedGap ==
  ASSUME NEW start \in Int, NEW sequences \in Seq(Int), sequences # <<>>, NEW low \in Int,
         \A i \in DOMAIN sequences : sequences[i] = low + i - 1
  PROVE  Walked(start, sequences).gap <=> start < low
<1>1. Len(sequences) \in Nat /\ Len(sequences) >= 1 /\ DOMAIN sequences = 1 .. Len(sequences)
  BY LenProperties, EmptySeq
<1>2. PICK after : /\ Walked(start, sequences) = after[Len(sequences)]
                   /\ after[0] = [next |-> start, gap |-> FALSE]
                   /\ \A k \in 1 .. Len(sequences) : after[k] = Walk(after[k - 1], sequences[k])
  BY WalkedUnfolds
<1> DEFINE At(k) == /\ after[k].next = IF start > low + k THEN start ELSE low + k
                    /\ after[k].gap <=> start < low
           Bad == {k \in Nat : k >= 1 /\ k <= Len(sequences) /\ ~At(k)}
<1>3. At(1)
  <2>1. after[1] = Walk([next |-> start, gap |-> FALSE], low)
    <3>1. 1 \in 1 .. Len(sequences) /\ 1 - 1 = 0 /\ sequences[1] = low
      BY <1>1
    <3> QED
      BY <1>2, <3>1
  <2>2. CASE low < start
    BY <2>1, <2>2 DEF Walk
  <2>3. CASE ~(low < start)
    <3>1. PICK a : a.next = start /\ ~a.gap /\ after[1] = Walk(a, low)
      <4>1. [next |-> start, gap |-> FALSE].next = start /\ ~[next |-> start, gap |-> FALSE].gap
        OBVIOUS
      <4> QED
        BY <2>1, <4>1
    <3>2. after[1].next = low + 1 /\ (after[1].gap <=> low > start)
      <4>1. Walk(a, low).next = low + 1 /\ (Walk(a, low).gap <=> a.gap \/ low > a.next)
        BY <2>3, <3>1, WalkStep
      <4> QED
        BY <3>1, <4>1, Zenon
    <3> QED
      BY <2>3, <3>2
  <2> QED
    BY <2>2, <2>3
<1>4. ASSUME NEW k \in Nat, k > 1, k <= Len(sequences), At(k - 1)
      PROVE  At(k)
  <2>1. after[k] = Walk(after[k - 1], low + k - 1)
    <3> HIDE DEF At
    <3>1. k \in 1 .. Len(sequences)
      BY <1>1, <1>4
    <3>2. sequences[k] = low + k - 1
      BY <1>1, <3>1
    <3> QED
      BY <1>2, <3>1, <3>2
  <2> DEFINE n == low + k - 1
             next == IF start > n THEN start ELSE n
  <2>2. after[k - 1].next = next /\ (after[k - 1].gap <=> start < low) /\ next \in Int /\ n \in Int
    <3>1. low + (k - 1) = n
      OBVIOUS
    <3> QED
      BY <1>4, <3>1
  <2>3. CASE n < next
    <3>1. after[k] = after[k - 1]
      BY <2>1, <2>2, <2>3, WalkStep
    <3>2. next = IF start > low + k THEN start ELSE low + k
      BY <2>3
    <3> QED
      BY <2>2, <3>1, <3>2
  <2>4. CASE ~(n < next)
    <3>1. next = n
      BY <2>2, <2>4
    <3>2. after[k].next = n + 1 /\ (after[k].gap <=> after[k - 1].gap)
      <4>1. Walk(after[k - 1], n).next = n + 1
            /\ (Walk(after[k - 1], n).gap <=> after[k - 1].gap \/ n > after[k - 1].next)
        BY <2>2, <2>4, WalkStep
      <4>2. ~(n > after[k - 1].next)
        BY <2>2, <3>1
      <4>3. after[k] = Walk(after[k - 1], n)
        BY <2>1
      <4> HIDE DEF n
      <4> QED
        BY <4>1, <4>2, <4>3, Zenon
    <3>3. n + 1 = IF start > low + k THEN start ELSE low + k
      BY <2>4
    <3> HIDE DEF n
    <3> QED
      BY <2>2, <3>2, <3>3
  <2> QED
    BY <2>3, <2>4
<1>5. Bad = {}
  <2> SUFFICES ASSUME Bad # {}
               PROVE  FALSE
    OBVIOUS
  <2>1. Bad \subseteq Nat
    OBVIOUS
  <2>2. PICK m \in Bad : \A k \in Bad : m <= k
    <3> HIDE DEF Bad
    <3> QED
      BY <2>1, LeastNatural
  <2>3. m \in Nat /\ m >= 1 /\ m <= Len(sequences) /\ ~At(m)
    OBVIOUS
  <2> HIDE DEF At
  <2>4. m > 1
    <3>1. m # 1
      BY <1>3, <2>3
    <3> QED
      BY <2>3, <3>1
  <2>5. m - 1 \notin Bad /\ m - 1 \in Nat /\ m - 1 >= 1 /\ m - 1 <= Len(sequences)
    BY <1>1, <2>2, <2>3, <2>4
  <2>6. At(m - 1)
    BY <2>5
  <2> QED
    BY <1>4, <2>3, <2>4, <2>6
<1>6. At(Len(sequences))
  <2>1. Len(sequences) \notin Bad
    BY <1>5
  <2> HIDE DEF At
  <2> QED
    BY <1>1, <2>1
<1> QED
  BY <1>2, <1>6

\* Who looks at a pane is told of a gap if, and only if, something of the stream is in the
\* history no more that the pane was given since the last look.
LEMMA GapIsMissed ==
  ASSUME StreamsAssumption, NEW ring, NEW f, Given(ring, f), ring # NoRing,
         Whole(f), NEW c \in [generation : Nat, next : Int], NEW l, IsLook(c, l, f),
         c.generation \in {None, ring.generation}
  PROVE  Gap(ring, c) <=>
           \E k \in l + 1 .. Len(f) :
             /\ f[k][1] = ring.generation
             /\ \A i \in DOMAIN ring.sequences : ring.sequences[i] # f[k][2]
<1> DEFINE g == ring.generation
           low == ring.newest - Len(ring.sequences) + 1
           last == Len(f)
<1>1. /\ ring \in Rings /\ f \in Seq(Nat \X Int) /\ f # <<>> /\ f[last] = <<g, ring.newest>>
      /\ ring.sequences # <<>>
      /\ \A i \in DOMAIN ring.sequences : ring.sequences[i] = ring.newest - Len(ring.sequences) + i
      /\ \A j \in DOMAIN f : 0 <= f[j][2]
      /\ \A j, k \in DOMAIN f : j < k => Ascend(f[j], f[k])
  BY DEF Given, LastOf, WithoutHole
<1>2. /\ g \in Nat /\ ring.newest \in Int /\ ring.sequences \in Seq(Int)
      /\ Len(ring.sequences) \in Nat /\ DOMAIN ring.sequences = 1 .. Len(ring.sequences)
      /\ Len(ring.sequences) >= 1 /\ low \in Int /\ low <= ring.newest
  <2>1. g \in Nat /\ ring.newest \in Int /\ ring.sequences \in Seq(Int)
    BY <1>1 DEF Rings
  <2>2. /\ Len(ring.sequences) \in Nat /\ DOMAIN ring.sequences = 1 .. Len(ring.sequences)
        /\ Len(ring.sequences) >= 1
    BY <1>1, <2>1, LenProperties, EmptySeq
  <2> QED
    BY <2>1, <2>2
<1>3. /\ last \in Nat /\ last >= 1 /\ DOMAIN f = 1 .. last
      /\ \A k \in DOMAIN f : f[k][1] \in Nat /\ f[k][2] \in Int /\ f[k] = <<f[k][1], f[k][2]>>
  <2>1. \A k \in DOMAIN f : f[k] \in Nat \X Int
    BY <1>1, ElementOfSeq, LenProperties
  <2> QED
    BY <1>1, <2>1, LenProperties, EmptySeq
<1>4. c.next \in Int /\ c.generation \in Nat
  OBVIOUS
<1>5. Gap(ring, c) <=> c.next < low
  <2>1. Gap(ring, c) <=> Walked(c.next, ring.sequences).gap
    BY DEF Gap
  <2>2. ASSUME NEW i \in DOMAIN ring.sequences
        PROVE  ring.sequences[i] = low + i - 1
    <3>1. ring.sequences[i] = ring.newest - Len(ring.sequences) + i /\ i \in Int
      BY <1>1, <1>2
    <3> QED
      BY <1>2, <3>1
  <2>3. PICK q : q = ring.sequences
    OBVIOUS
  <2> HIDE DEF low
  <2>4. Walked(c.next, q).gap <=> c.next < low
    BY <1>1, <1>2, <1>4, <2>2, <2>3, WalkedGap
  <2> QED
    BY <2>1, <2>3, <2>4
\* the history holds the last numbers of the stream
<1>6. ASSUME NEW n \in Int, n <= ring.newest
      PROVE  (\A i \in DOMAIN ring.sequences : ring.sequences[i] # n) <=> n < low
  <2>1. PICK q, size, top : q = ring.sequences /\ size = Len(ring.sequences) /\ top = ring.newest
    OBVIOUS
  <2>2. size \in Nat /\ top \in Int /\ n \in Int /\ n <= top /\ low = top - size + 1
    BY <1>2, <1>6, <2>1
  <2>3. DOMAIN q = 1 .. size /\ \A i \in 1 .. size : q[i] = top - size + i
    BY <1>1, <1>2, <2>1
  <2> HIDE DEF low
  <2>4. n < low => \A i \in DOMAIN q : q[i] # n
    BY ONLY <2>2, <2>3
  <2>5. ~(n < low) => \E i \in DOMAIN q : q[i] = n
    <3> DEFINE i == n - top + size
    <3>1. ~(n < low) => i \in 1 .. size /\ top - size + i = n
      BY ONLY <2>2
    <3> HIDE DEF i
    <3> QED
      BY ONLY <2>3, <3>1
  <2> QED
    BY <2>1, <2>4, <2>5
<1> HIDE DEF g, low, last
<1>7. ASSUME NEW k \in DOMAIN f, f[k][1] = g
      PROVE  f[k][2] <= ring.newest
  <2>1. CASE k = last
    BY <1>1, <1>2, <2>1
  <2>2. CASE k # last
    <3>1. k < last /\ last \in DOMAIN f
      BY <1>3, <2>2
    <3>2. Ascend(f[k], f[last])
      BY <1>1, <3>1
    <3>3. Ascend(f[k], <<g, ring.newest>>)
      BY <1>1, <3>2
    <3> QED
      BY <1>2, <1>3, <1>7, <3>3 DEF Ascend
  <2> QED
    BY <2>1, <2>2
\* what is missed
<1>8. ASSUME c.next < low
      PROVE  \E k \in l + 1 .. last :
               /\ f[k][1] = g /\ \A i \in DOMAIN ring.sequences : ring.sequences[i] # f[k][2]
  <2>1. c.next \in 0 .. ring.newest - 1
    <3>1. 0 <= c.next
      <4>1. CASE c.generation = None
        BY <4>1 DEF IsLook
      <4>2. CASE c.generation # None
        <5>1. l \in DOMAIN f /\ f[l] = <<c.generation, c.next - 1>>
          BY <1>3, <4>2 DEF IsLook, last
        <5>2. 0 <= c.next - 1
          BY <1>1, <5>1
        <5> QED
          BY <1>4, <5>2
      <4> QED
        BY <4>1, <4>2
    <3> QED
      BY <1>2, <1>4, <1>8, <3>1
  <2>2. PICK k \in 1 .. last - 1 : f[k] = <<g, c.next>>
    <3>1. last \in DOMAIN f /\ f[last][2] = ring.newest /\ f[last][1] = g
      BY <1>1, <1>3
    <3> QED
      BY <2>1, <3>1 DEF Whole
  <2>3. k \in DOMAIN f /\ f[k][1] = g /\ f[k][2] = c.next /\ k \in Nat
    BY <1>3, <2>2
  <2>4. \A i \in DOMAIN ring.sequences : ring.sequences[i] # f[k][2]
    <3>1. c.next \in Int /\ c.next <= ring.newest
      BY <1>2, <1>4, <2>1
    <3>2. \A i \in DOMAIN ring.sequences : ring.sequences[i] # c.next
      BY <1>6, <1>8, <3>1
    <3> QED
      BY <2>3, <3>2
  <2>5. l \in Int /\ l < k
    <3>1. CASE c.generation = None
      BY <2>2, <3>1 DEF IsLook
    <3>2. CASE c.generation # None
      <4>1. l \in DOMAIN f /\ f[l] = <<g, c.next - 1>> /\ l \in Int
        BY <1>3, <3>2 DEF IsLook, last, g
      <4>2. k # l
        <5>1. <<g, c.next>> # <<g, c.next - 1>>
          BY <1>4
        <5> QED
          BY <2>2, <4>1, <5>1
      <4>3. ~(k < l)
        <5>1. k < l => Ascend(<<g, c.next>>, <<g, c.next - 1>>)
          BY <1>1, <2>2, <2>3, <4>1
        <5> QED
          BY <1>2, <1>4, <5>1 DEF Ascend
      <4> QED
        BY <2>3, <4>1, <4>2, <4>3
    <3> QED
      BY <3>1, <3>2
  <2>6. k \in l + 1 .. last
    BY <1>3, <2>2, <2>5
  <2> QED
    BY <2>3, <2>4, <2>6
<1>9. ASSUME NEW k \in l + 1 .. last, f[k][1] = g,
             \A i \in DOMAIN ring.sequences : ring.sequences[i] # f[k][2]
      PROVE  c.next < low
  <2>1. l \in 0 .. last /\ k \in DOMAIN f /\ l < k /\ l \in Int
    BY <1>3 DEF IsLook, last
  <2>2. f[k][2] \in Int /\ f[k][2] <= ring.newest
    BY <1>3, <1>7, <1>9, <2>1
  <2>3. f[k][2] < low
    BY <1>6, <1>9, <2>2
  <2>4. CASE c.generation = None
    <3>1. c.next = 0 /\ 0 <= f[k][2]
      BY <1>1, <2>1, <2>4 DEF IsLook
    <3> QED
      BY <1>2, <2>2, <2>3, <3>1
  <2>5. CASE c.generation # None
    <3>1. l \in DOMAIN f /\ f[l] = <<g, c.next - 1>>
      BY <1>3, <2>1, <2>5 DEF IsLook, g
    <3>2. Ascend(f[l], f[k])
      BY <1>1, <2>1, <3>1
    <3>3. c.next - 1 < f[k][2]
      <4>1. Ascend(<<g, c.next - 1>>, f[k])
        BY <3>1, <3>2
      <4> QED
        BY <1>2, <1>9, <4>1 DEF Ascend
    <3> QED
      BY <1>2, <1>4, <2>2, <2>3, <3>3
  <2> QED
    BY <2>4, <2>5
<1> QED
  BY <1>5, <1>8, <1>9 DEF g, last

LEMMA SpecGapInv == Spec => [](IInv /\ WayInv /\ GapInv)
<1>1. ASSUME Init
      PROVE  GapInv
  <2>1. /\ \A t \in Terminals : fed[t] = <<>> /\ panes[t] = "absent"
        /\ \A s \in Subscribers : watching[s] = {}
    BY <1>1 DEF Init
  <2>2. CursorTypes
    BY <1>1 DEF Init, CursorTypes, FromNow, None
  <2>3. FedWhole
    BY <2>1, EmptySeq DEF FedWhole, Whole
  <2>4. CursorsAreLooks
    BY <2>1 DEF CursorsAreLooks
  <2> QED
    BY <2>2, <2>3, <2>4 DEF GapInv
<1>2. IInv /\ WayInv /\ GapInv /\ [Next]_vars => GapInv'
  BY FedWholeKept, CursorTypesKept, CursorsKept, StreamsAssumption DEF IInv, GapInv
<1> QED
  BY <1>1, <1>2, SpecWayInv, PTL DEF Spec

\* A subscriber is told of a gap exactly when there is one, however many chunks, restarts
\* of the command and other looks there were since its last look, and whatever the bound
\* of the history: it was not shown what a chunk did that is in the history no more, or
\* the pane shows another stream by now.
THEOREM SubscribersAreToldOfGaps == Spec => []GapsNoticed
<1>1. ASSUME IInv, WayInv, GapInv, NEW s \in Subscribers, NEW t \in watching[s],
             panes[t] # "absent", rings[t] # NoRing
      PROVE  Gap(rings[t], cursors[s][t])
               <=> \/ cursors[s][t].generation \notin {None, rings[t].generation}
                   \/ {k \in looked[s][t] + 1 .. Len(fed[t]) :
                         /\ fed[t][k][1] = rings[t].generation
                         /\ \A i \in DOMAIN rings[t].sequences : rings[t].sequences[i] # fed[t][k][2]} # {}
  <2>1. CASE cursors[s][t].generation \notin {None, rings[t].generation}
    BY <2>1 DEF Gap
  <2>2. CASE cursors[s][t].generation \in {None, rings[t].generation}
    <3>1. t \in Terminals /\ cursors[s][t] \in [generation : Nat, next : Int]
      BY <1>1 DEF IInv, SubscriberTypes, GapInv, CursorTypes
    <3>2. PICK ring, f, l : ring = rings[t] /\ f = fed[t] /\ l = looked[s][t]
      OBVIOUS
    <3>3. PICK c \in [generation : Nat, next : Int] : c = cursors[s][t]
      BY <3>1
    <3>4. /\ c \in [generation : Nat, next : Int]
          /\ Given(ring, f) /\ ring # NoRing /\ IsLook(c, l, f) /\ c.generation \in {None, ring.generation}
      BY <1>1, <2>2, <3>1, <3>2, <3>3 DEF WayInv, PanesGiven, GapInv, CursorsAreLooks
    <3>5. Whole(f)
      BY <1>1, <3>1, <3>2 DEF GapInv, FedWhole
    <3>6. Gap(ring, c) <=>
            \E k \in l + 1 .. Len(f) :
              /\ f[k][1] = ring.generation
              /\ \A i \in DOMAIN ring.sequences : ring.sequences[i] # f[k][2]
      BY ONLY <3>4, <3>5, GapIsMissed, StreamsAssumption
    <3> QED
      BY <2>2, <3>2, <3>3, <3>6
  <2> QED
    BY <2>1, <2>2
<1>2. IInv /\ WayInv /\ GapInv => GapsNoticed
  BY <1>1 DEF GapsNoticed
<1> QED
  BY <1>2, SpecGapInv, PTL
=============================================================================
