--------------------------- MODULE TerminalStreams ---------------------------
(***************************************************************************)
(* The output of terminals on its way to their panes and to subscribers    *)
(* (zellij-server/src/pty.rs, terminal_bytes.rs, terminal_output.rs,       *)
(* screen.rs).                                                             *)
(*                                                                         *)
(* The pty thread spawns a program and starts a reader, then tells Screen  *)
(* of the pane: output, and even the program's end, may come before. A     *)
(* pane may be refused, closed, or its command run again, which stops the  *)
(* reader and starts another, of a new generation. Each party sends on its *)
(* own; Screen takes from one channel. A subscriber is shown a pane and    *)
(* then looks at it from time to time; a bounded history of the numbers of *)
(* chunks tells it what it missed.                                         *)
(*                                                                         *)
(* A chunk is its generation and number. What users ask of Screen is taken *)
(* when Screen gets to it. Each terminal is spawned once: ids are not used *)
(* again (os_input_output_unix.rs).                                        *)
(***************************************************************************)
EXTENDS Integers, Sequences, FiniteSets

CONSTANTS
  Terminals,      \* terminal ids
  Subscribers,    \* subscribers to the rendering of panes
  EventCapacity,  \* TerminalOutputStore.event_capacity
  MaxRemembered,  \* MAX_REMEMBERED_PANES_NEVER_CREATED
  MaxStreams,     \* bound: streams started
  MaxChunks       \* bound: chunks of a stream

None == 0

ASSUME StreamsAssumption ==
  /\ Terminals \subseteq Nat \ {None}
  /\ {EventCapacity, MaxRemembered} \subseteq Nat \ {0}
  /\ {MaxStreams, MaxChunks} \subseteq Nat

VARIABLES
  spawned,       \* the terminals whose spawning was requested
  hold,          \* hold_on_close of a terminal's command
  announcing,    \* the terminal that runs and of which Screen was not told yet
  stream,        \* stream_guards: the generation that is read for a terminal
  live,          \* the generations whose guard is current
  readers,       \* by generation: the pane, the chunks read, whether one is in hand
  child,         \* a terminal's program
  to_pty,        \* the pty thread's channel
  to_screen,     \* Screen's channel
  panes,         \* the panes of the tabs
  never_created, \* pane_ids_never_created
  output,        \* pending_events_waiting_for_pane: the chunks of each
  events,        \* pending_events_waiting_for_pane: the other events
  rings,         \* terminal_output_store
  watching,      \* pane_render_subscribers: pane_ids
  cursors,       \* pane_render_subscribers: output_cursors
  fed,           \* history: the chunks each pane was given
  looked,        \* history: how many of them a subscriber has seen the effect of
  refused        \* history: the panes that were not created

ptyVars == <<spawned, hold, announcing, stream, live>>
pendingVars == <<output, events>>
screenVars == <<panes, never_created, output, events, rings, fed, refused>>
subscriberVars == <<watching, cursors, looked>>
vars == <<spawned, hold, announcing, stream, live, readers, child, to_pty, to_screen,
          panes, never_created, output, events, rings, fed, refused, watching, cursors, looked>>

NoRing == [generation |-> None, sequences |-> <<>>, newest |-> 0]

\* Variant: the next sequence is the newest
FromNewest(ring) ==
  IF ring = NoRing THEN [generation |-> None, next |-> 0]
  ELSE [generation |-> ring.generation, next |-> ring.newest]

\* cursor_from_now
FromNow(ring) ==
  IF ring = NoRing THEN [generation |-> None, next |-> 0]
  ELSE [generation |-> ring.generation, next |-> ring.newest + 1]

Init ==
  /\ spawned = {}
  /\ hold = [t \in Terminals |-> FALSE]
  /\ announcing = None
  /\ stream = [t \in Terminals |-> None]
  /\ live = {}
  /\ readers = <<>>
  /\ child = [t \in Terminals |-> "none"]
  /\ to_pty = <<>>
  /\ to_screen = <<>>
  /\ panes = [t \in Terminals |-> "absent"]
  /\ never_created = {}
  /\ output = [t \in Terminals |-> <<>>]
  /\ events = [t \in Terminals |-> <<>>]
  /\ rings = [t \in Terminals |-> NoRing]
  /\ watching = [s \in Subscribers |-> {}]
  /\ cursors = [s \in Subscribers |-> [t \in Terminals |-> FromNow(NoRing)]]
  /\ fed = [t \in Terminals |-> <<>>]
  /\ looked = [s \in Subscribers |-> [t \in Terminals |-> 0]]
  /\ refused = {}

Event(kind, t) == [kind |-> kind, pane |-> t]
NewPane(t, held) == [kind |-> "NewPane", pane |-> t, held |-> held]
Output(t, g, n) == [kind |-> "PtyOutput", pane |-> t, generation |-> g, sequence |-> n]

-----------------------------------------------------------------------------
(* The pty thread, the programs and the readers *)

\* stop_terminal_reader
StopReader(t) ==
  /\ live' = live \ {stream[t]}
  /\ stream' = [stream EXCEPT ![t] = None]
  /\ UNCHANGED readers

\* start_terminal_reader, which stops the reader there is
StartReader(t) ==
  LET g == Len(readers) + 1
  IN /\ g <= MaxStreams
     /\ live' = (live \ {stream[t]}) \cup {g}
     /\ stream' = [stream EXCEPT ![t] = g]
     /\ readers' = Append(readers, [pane |-> t, read |-> 0, hand |-> FALSE])

\* spawn_terminal: the program runs and is read from now on, or the pane starts
\* held, or the command is not found, and then the pane is held with the error or
\* there is none
SpawnTerminal(t, h) ==
  /\ announcing = None
  /\ t \notin spawned
  /\ spawned' = spawned \cup {t}
  /\ hold' = [hold EXCEPT ![t] = h]
  /\ \/ /\ StartReader(t)
        /\ child' = [child EXCEPT ![t] = "running"]
        /\ announcing' = t
        /\ UNCHANGED to_screen
     \/ /\ to_screen' = Append(to_screen, NewPane(t, TRUE))
        /\ UNCHANGED <<announcing, stream, live, readers, child>>
     \/ /\ child' = [child EXCEPT ![t] = "ended"]
        /\ to_screen' = IF h THEN to_screen \o <<NewPane(t, FALSE), Event("HoldPane", t)>>
                        ELSE to_screen
        /\ UNCHANGED <<announcing, stream, live, readers>>
  /\ UNCHANGED <<to_pty, screenVars, subscriberVars>>

Announce ==
  /\ announcing # None
  /\ to_screen' = Append(to_screen, NewPane(announcing, FALSE))
  /\ announcing' = None
  /\ UNCHANGED <<spawned, hold, stream, live, readers, child, to_pty, screenVars,
                 subscriberVars>>

PtyTakes(kind) == announcing = None /\ to_pty # <<>> /\ Head(to_pty).kind = kind

\* close_pane, which also asks the program to end
PtyClosePane ==
  /\ PtyTakes("ClosePane")
  /\ StopReader(Head(to_pty).pane)
  /\ to_pty' = Tail(to_pty)
  /\ UNCHANGED <<spawned, hold, announcing, child, to_screen, screenVars, subscriberVars>>

\* rerun_command_in_pane; a command that is not found is held with the error, if
\* it is to be held at all
ReRunCommandInPane ==
  /\ PtyTakes("ReRunCommandInPane")
  /\ LET t == Head(to_pty).pane
     IN \/ /\ StartReader(t)
           /\ child' = [child EXCEPT ![t] = "running"]
           /\ UNCHANGED to_screen
        \/ /\ StopReader(t)
           /\ child' = [child EXCEPT ![t] = IF hold[t] THEN "ended" ELSE "none"]
           /\ to_screen' = IF hold[t] THEN Append(to_screen, Event("HoldPane", t)) ELSE to_screen
  /\ to_pty' = Tail(to_pty)
  /\ UNCHANGED <<spawned, hold, announcing, screenVars, subscriberVars>>

\* quit_cb, on the thread that waits for the program
ChildExits(t) ==
  /\ child[t] = "running"
  /\ child' = [child EXCEPT ![t] = "ended"]
  /\ to_screen' = Append(to_screen, Event(IF hold[t] THEN "HoldPane" ELSE "ClosePane", t))
  /\ UNCHANGED <<ptyVars, readers, to_pty, screenVars, subscriberVars>>

\* a chunk is read, and its stream is found to be current
ReadChunk(g) ==
  /\ g \in live
  /\ ~readers[g].hand
  /\ readers[g].read < MaxChunks
  /\ readers' = [readers EXCEPT ![g] = [pane |-> @.pane, read |-> @.read + 1, hand |-> TRUE]]
  /\ UNCHANGED <<ptyVars, child, to_pty, to_screen, screenVars, subscriberVars>>

\* it is sent whatever has become of the stream meanwhile
SendChunk(g) ==
  /\ readers[g].hand
  /\ readers' = [readers EXCEPT ![g].hand = FALSE]
  /\ to_screen' = Append(to_screen, Output(readers[g].pane, g, readers[g].read - 1))
  /\ UNCHANGED <<ptyVars, child, to_pty, screenVars, subscriberVars>>

-----------------------------------------------------------------------------
(* Screen *)

ScreenTakes(kind) == to_screen # <<>> /\ Head(to_screen).kind = kind

\* push, to a ring and the chunks the pane was given
Stale(ring, o) ==
  /\ ring # NoRing
  /\ \/ o.generation < ring.generation
     \/ o.generation = ring.generation /\ o.sequence <= ring.newest

Recent(seq) == SubSeq(seq, Len(seq) - EventCapacity + 1, Len(seq))

Pushed(ring, o) ==
  LET kept == Append(IF ring.generation = o.generation THEN ring.sequences ELSE <<>>, o.sequence)
  IN [generation |-> o.generation,
      sequences |-> IF Len(kept) > EventCapacity THEN Recent(kept) ELSE kept,
      newest |-> o.sequence]

\* apply_terminal_output, for a pane that is there
Apply(store, o) ==
  IF o.generation \notin live \/ Stale(store.ring, o) THEN store
  ELSE [ring |-> Pushed(store.ring, o), fed |-> Append(store.fed, <<o.generation, o.sequence>>)]

DropPending(t) ==
  /\ output' = [output EXCEPT ![t] = <<>>]
  /\ events' = [events EXCEPT ![t] = <<>>]

\* Variant: all that waited goes to the end of the channel
CreatePaneAndResend ==
  /\ ScreenTakes("NewPane")
  /\ LET t == Head(to_screen).pane
     IN /\ panes' = [panes EXCEPT ![t] = IF Head(to_screen).held THEN "held" ELSE "open"]
        /\ to_screen' = Tail(to_screen) \o output[t] \o events[t]
        /\ DropPending(t)
  /\ UNCHANGED <<ptyVars, readers, child, to_pty, rings, fed, never_created, refused,
                 subscriberVars>>

\* all that waited for a pane, in turn
Applied(store, waiting) ==
  LET after[k \in 0 .. Len(waiting)] ==
        IF k = 0 THEN store ELSE Apply(after[k - 1], waiting[k])
  IN after[Len(waiting)]

\* finish_pane_creation for a pane that was created: what waited for it is applied
\* (output) or goes to the end of the channel (the end of the program)
CreatePane ==
  /\ ScreenTakes("NewPane")
  /\ LET t == Head(to_screen).pane
         store == Applied([ring |-> rings[t], fed |-> fed[t]], output[t])
     IN /\ panes' = [panes EXCEPT ![t] = IF Head(to_screen).held THEN "held" ELSE "open"]
        /\ rings' = [rings EXCEPT ![t] = store.ring]
        /\ fed' = [fed EXCEPT ![t] = store.fed]
        /\ to_screen' = Tail(to_screen) \o events[t]
        /\ DropPending(t)
  /\ UNCHANGED <<ptyVars, readers, child, to_pty, never_created, refused, subscriberVars>>

\* remember_pane_never_created: of too many the one with the lowest id is forgotten
Remember(t) ==
  LET ids == never_created \cup {t}
  IN IF Cardinality(ids) <= MaxRemembered THEN ids
     ELSE {n \in ids : \E k \in ids : k < n}

\* finish_pane_creation for a pane that was not, for whatever reason
RefusePane ==
  /\ ScreenTakes("NewPane")
  /\ LET t == Head(to_screen).pane
     IN /\ DropPending(t)
        /\ never_created' = Remember(t)
        /\ refused' = refused \cup {t}
        /\ to_pty' = Append(to_pty, Event("ClosePane", t))
  /\ to_screen' = Tail(to_screen)
  /\ UNCHANGED <<ptyVars, readers, child, panes, rings, fed, subscriberVars>>

\* the handler of PtyOutput
PtyOutput ==
  /\ ScreenTakes("PtyOutput")
  /\ LET o == Head(to_screen)
         store == Apply([ring |-> rings[o.pane], fed |-> fed[o.pane]], o)
     IN \/ /\ panes[o.pane] # "absent"
           /\ rings' = [rings EXCEPT ![o.pane] = store.ring]
           /\ fed' = [fed EXCEPT ![o.pane] = store.fed]
           /\ UNCHANGED output
        \/ /\ panes[o.pane] = "absent"
           /\ output' = [output EXCEPT ![o.pane] =
                IF o.generation \in live /\ o.pane \notin never_created THEN Append(@, o) ELSE @]
           /\ UNCHANGED <<rings, fed>>
  /\ to_screen' = Tail(to_screen)
  /\ UNCHANGED <<ptyVars, readers, child, to_pty, panes, never_created, events, refused,
                 subscriberVars>>

\* Variant: the pane is taken for closed
Forget(e) ==
  /\ IF e.pane \in never_created THEN DropPending(e.pane) ELSE UNCHANGED pendingVars
  /\ never_created' = never_created \ {e.pane}

\* an event that waits for its pane, or is the last of one that was not created
Wait(e) ==
  /\ IF e.pane \in never_created THEN DropPending(e.pane)
     ELSE events' = [events EXCEPT ![e.pane] = Append(@, e)] /\ UNCHANGED output
  /\ never_created' = never_created \ {e.pane}

\* Variant: the pty thread is left alone
CloseOnScreen ==
  /\ ScreenTakes("ClosePane")
  /\ LET t == Head(to_screen).pane
     IN IF panes[t] # "absent"
        THEN /\ panes' = [panes EXCEPT ![t] = "absent"]
             /\ to_screen' = Append(Tail(to_screen), Event("NotifyPaneClosed", t))
             /\ UNCHANGED <<never_created, pendingVars>>
        ELSE /\ Wait(Head(to_screen))
             /\ to_screen' = Tail(to_screen)
             /\ UNCHANGED panes
  /\ UNCHANGED <<ptyVars, readers, child, to_pty, rings, fed, refused, subscriberVars>>

\* the handler of ClosePane, which makes the pty thread clean up in any case
ClosePane ==
  /\ ScreenTakes("ClosePane")
  /\ LET t == Head(to_screen).pane
     IN /\ IF panes[t] # "absent"
           THEN /\ panes' = [panes EXCEPT ![t] = "absent"]
                /\ to_screen' = Append(Tail(to_screen), Event("NotifyPaneClosed", t))
                /\ UNCHANGED <<never_created, pendingVars>>
           ELSE /\ Wait(Head(to_screen))
                /\ to_screen' = Tail(to_screen)
                /\ UNCHANGED panes
        /\ to_pty' = Append(to_pty, Event("ClosePane", t))
  /\ UNCHANGED <<ptyVars, readers, child, rings, fed, refused, subscriberVars>>

\* the handler of HoldPane
HoldPane ==
  /\ ScreenTakes("HoldPane")
  /\ LET t == Head(to_screen).pane
     IN IF panes[t] # "absent"
        THEN panes' = [panes EXCEPT ![t] = "held"] /\ UNCHANGED <<never_created, pendingVars>>
        ELSE Wait(Head(to_screen)) /\ UNCHANGED panes
  /\ to_screen' = Tail(to_screen)
  /\ UNCHANGED <<ptyVars, readers, child, to_pty, rings, fed, refused, subscriberVars>>

\* notify_pane_closed_to_subscribers
NotifyPaneClosed ==
  /\ ScreenTakes("NotifyPaneClosed")
  /\ LET t == Head(to_screen).pane
     IN /\ rings' = [rings EXCEPT ![t] = NoRing]
        /\ watching' = [s \in Subscribers |-> watching[s] \ {t}]
        /\ cursors' = [s \in Subscribers |-> [cursors[s] EXCEPT ![t] = FromNow(NoRing)]]
        /\ looked' = [s \in Subscribers |-> [looked[s] EXCEPT ![t] = 0]]
  /\ to_screen' = Tail(to_screen)
  /\ UNCHANGED <<ptyVars, readers, child, to_pty, panes, never_created, pendingVars, fed,
                 refused>>

\* a user closes a pane (close_focused_pane)
CloseFocusedPane(t) ==
  /\ panes[t] # "absent"
  /\ panes' = [panes EXCEPT ![t] = "absent"]
  /\ to_screen' = Append(to_screen, Event("NotifyPaneClosed", t))
  /\ to_pty' = Append(to_pty, Event("ClosePane", t))
  /\ UNCHANGED <<ptyVars, readers, child, never_created, pendingVars, rings, fed, refused,
                 subscriberVars>>

\* a user runs a held pane's command (rerun_terminal_pane_with_id)
RerunPane(t) ==
  /\ panes[t] = "held"
  /\ panes' = [panes EXCEPT ![t] = "open"]
  /\ to_pty' = Append(to_pty, Event("ReRunCommandInPane", t))
  /\ UNCHANGED <<ptyVars, readers, child, to_screen, never_created, pendingVars, rings, fed,
                 refused, subscriberVars>>

\* subscribe_to_pane_renders: the panes there are, as they are shown now
Subscribe(s, T) ==
  LET found == {t \in T : panes[t] # "absent"}
  IN /\ watching' = [watching EXCEPT ![s] = found]
     /\ cursors' = [cursors EXCEPT ![s] =
          [t \in Terminals |-> FromNow(IF t \in found THEN rings[t] ELSE NoRing)]]
     /\ looked' = [looked EXCEPT ![s] =
          [t \in Terminals |-> IF t \in found THEN Len(fed[t]) ELSE 0]]
     /\ UNCHANGED <<ptyVars, readers, child, to_pty, to_screen, screenVars>>

\* deliver_subscriber_updates_from_map: those who watch a pane look at it
Deliver(t) ==
  /\ panes[t] # "absent"
  /\ rings[t] # NoRing
  /\ LET lookers == {s \in Subscribers : t \in watching[s]}
     IN /\ cursors' = [s \in Subscribers |->
             IF s \in lookers THEN [cursors[s] EXCEPT ![t] = FromNow(rings[t])] ELSE cursors[s]]
        /\ looked' = [s \in Subscribers |->
             IF s \in lookers THEN [looked[s] EXCEPT ![t] = Len(fed[t])] ELSE looked[s]]
  /\ UNCHANGED <<ptyVars, readers, child, to_pty, to_screen, screenVars, watching>>

-----------------------------------------------------------------------------

PtyThread == Announce \/ PtyClosePane \/ ReRunCommandInPane

ScreenThread ==
  \/ CreatePane \/ RefusePane
  \/ PtyOutput
  \/ ClosePane \/ HoldPane
  \/ NotifyPaneClosed

Next ==
  \/ \E t \in Terminals, h \in BOOLEAN : SpawnTerminal(t, h)
  \/ PtyThread
  \/ ScreenThread
  \/ \E g \in DOMAIN readers : ReadChunk(g) \/ SendChunk(g)
  \/ \E t \in Terminals :
       ChildExits(t) \/ CloseFocusedPane(t) \/ RerunPane(t) \/ Deliver(t)
  \/ \E s \in Subscribers, T \in SUBSET Terminals : Subscribe(s, T)

\* The two threads go on as long as there is something in their channels; programs
\* and users need not.
Spec == Init /\ [][Next]_vars /\ WF_vars(PtyThread) /\ WF_vars(ScreenThread)

-----------------------------------------------------------------------------
(* Properties *)

Number == 0 .. MaxChunks
Generations == None .. MaxStreams
Ring == [generation : Generations, sequences : Seq(Number), newest : Number]

TypeOK ==
  /\ spawned \in SUBSET Terminals
  /\ hold \in [Terminals -> BOOLEAN]
  /\ announcing \in Terminals \cup {None}
  /\ stream \in [Terminals -> Generations]
  /\ live = {stream[t] : t \in Terminals} \ {None}
  /\ readers \in Seq([pane : Terminals, read : Number, hand : BOOLEAN])
  /\ child \in [Terminals -> {"none", "running", "ended"}]
  /\ to_pty \in Seq([kind : {"ClosePane", "ReRunCommandInPane"}, pane : Terminals])
  /\ \A i \in DOMAIN to_screen :
       to_screen[i] \in
         [kind : {"ClosePane", "HoldPane", "NotifyPaneClosed"}, pane : Terminals]
         \cup [kind : {"NewPane"}, pane : Terminals, held : BOOLEAN]
         \cup [kind : {"PtyOutput"}, pane : Terminals, generation : Generations, sequence : Number]
  /\ panes \in [Terminals -> {"absent", "open", "held"}]
  /\ never_created \in SUBSET refused /\ Cardinality(never_created) <= MaxRemembered
  /\ \A t \in Terminals : \A i \in DOMAIN events[t] :
       events[t][i].kind \in {"ClosePane", "HoldPane"}
  /\ rings \in [Terminals -> Ring]
  /\ \A t \in Terminals : Len(rings[t].sequences) <= EventCapacity
  /\ watching \in [Subscribers -> SUBSET Terminals]
  /\ cursors \in [Subscribers -> [Terminals -> [generation : Generations, next : Number]]]

Sent(kind, t, channel) == \E i \in DOMAIN channel : channel[i].kind = kind /\ channel[i].pane = t

\* terminal t has a pane or will have one, if it is not refused
HasPane(t) == panes[t] # "absent" \/ announcing = t \/ Sent("NewPane", t, to_screen)

\* the chunks of a queue, each its generation and number; what else is in it has none
Chunks(q) ==
  [k \in DOMAIN q |-> IF q[k].kind = "PtyOutput" THEN <<q[k].generation, q[k].sequence>>
                      ELSE <<None, 0>>]
InHand(g) == IF readers[g].hand THEN <<<<g, readers[g].read - 1>>>> ELSE <<>>

\* the way of a terminal's output, from the pane back to the reader
Way(t) == fed[t] \o Chunks(output[t]) \o Chunks(to_screen) \o InHand(stream[t])

\* Whatever is read from a program reaches its pane whole and in order, also what was
\* read before the pane was there: each chunk was given to the pane or is on its way,
\* before those that follow. A pane is given nothing of a stream that another has
\* replaced.
StreamsArriveWhole ==
  \A t \in Terminals :
    /\ stream[t] # None /\ HasPane(t) =>
         LET own == {k \in DOMAIN Way(t) : Way(t)[k][1] = stream[t]}
         IN /\ {Way(t)[k][2] : k \in own} = 0 .. readers[stream[t]].read - 1
            /\ \A j, k \in own : j < k => Way(t)[j][2] < Way(t)[k][2]
    /\ \A j, k \in DOMAIN fed[t] : j < k =>
         \/ fed[t][j][1] < fed[t][k][1]
         \/ fed[t][j][1] = fed[t][k][1] /\ fed[t][j][2] < fed[t][k][2]

\* No terminal is read for nobody: it has its pane, or the pty thread is about to be
\* told that it has none. "This is needed because the natural child exit path only
\* sends ScreenInstruction::ClosePane".
ReadersHavePanes ==
  \A t \in Terminals :
    stream[t] # None => HasPane(t) \/ Sent("ClosePane", t, to_pty)

\* What is kept for the subscribers of a pane goes with the pane: they are told.
NothingOfClosedPanes ==
  \A t \in Terminals :
    rings[t] # NoRing \/ (\E s \in Subscribers : t \in watching[s])
      => panes[t] # "absent" \/ Sent("NotifyPaneClosed", t, to_screen)

\* Nothing that serves a pane outlives it.
NothingOutlivesPanes == ReadersHavePanes /\ NothingOfClosedPanes

\* the loop of advance: the number expected next, and whether one was missing
Walk(a, n) ==
  IF n < a.next THEN a ELSE [next |-> n + 1, gap |-> a.gap \/ n > a.next]

Walked(start, sequences) ==
  LET after[k \in 0 .. Len(sequences)] ==
        IF k = 0 THEN [next |-> start, gap |-> FALSE] ELSE Walk(after[k - 1], sequences[k])
  IN after[Len(sequences)]

\* advance: whether the subscriber is told that it missed something
Gap(ring, cursor) ==
  LET changed == cursor.generation \notin {None, ring.generation}
  IN changed \/ Walked(IF changed THEN 0 ELSE cursor.next, ring.sequences).gap

\* A subscriber that would look at a pane now is told of a gap exactly if it follows
\* another stream by now, or if of what the pane was given since its last look, of
\* this stream, something is in the history no more.
GapsNoticed ==
  \A s \in Subscribers : \A t \in watching[s] :
    panes[t] # "absent" /\ rings[t] # NoRing =>
      LET ring == rings[t]
          missed == {k \in looked[s][t] + 1 .. Len(fed[t]) :
                       /\ fed[t][k][1] = ring.generation
                       /\ \A i \in DOMAIN ring.sequences : ring.sequences[i] # fed[t][k][2]}
      IN Gap(ring, cursors[s][t])
           <=> cursors[s][t].generation \notin {None, ring.generation} \/ missed # {}

\* The end of a program shows: its pane is closed or held in the end, or the command
\* runs again, also if it ended before its pane was there.
ProgramEnds ==
  \A t \in Terminals :
    (child[t] = "ended" /\ panes[t] = "open") ~> (child[t] # "ended" \/ panes[t] # "open")

\* Output for a pane that was never created is not kept
\* (output_for_a_pane_that_was_never_created_is_not_kept, screen_tests.rs).
NeverCreatedKeepsNothing == \A t \in refused : output[t] = <<>>
=============================================================================
