------------------------------ MODULE PtyWriter ------------------------------
(***************************************************************************)
(* The thread that writes to the programs' terminals                       *)
(* (zellij-server/src/pty_writer.rs, with the resize cache of              *)
(* os_input_output.rs). It must never block on a program that does not     *)
(* read its input: what the kernel does not take is kept per terminal and  *)
(* tried again after every instruction and every PENDING_DRAIN_TIMEOUT.    *)
(*                                                                         *)
(* A chunk is its number and its length; byte k of chunk n is the pair     *)
(* <<n, k>>. A terminal's kernel buffer has room for so many bytes, until  *)
(* the program reads.                                                      *)
(***************************************************************************)
EXTENDS Integers, Sequences, FiniteSets, SequencesExt

CONSTANTS
  Terminals,
  Readers,      \* the terminals whose program is known to go on reading
  MaxPending,   \* MAX_PENDING_BYTES
  KernelRoom,   \* bytes a terminal's kernel buffer takes
  MaxLength,    \* bound: length of a chunk
  MaxWrites,    \* bound: chunks sent to the thread
  MaxSends,     \* bound: instructions sent to the thread
  MaxInbox      \* bound: instructions that wait for the thread

ASSUME WriterAssumption ==
  /\ Readers \subseteq Terminals
  /\ MaxPending \in Nat
  /\ KernelRoom \in Nat \ {0}
  /\ MaxLength \in Nat
  /\ MaxWrites \in Nat
  /\ MaxSends \in Nat
  /\ MaxInbox \in Nat

VARIABLES
  windows,    \* the build is the one for Windows: it never changes
  inbox,      \* instructions for the thread
  pending,    \* per terminal: the chunks kept, [n, length, offset]
  pc,         \* "recv", "drain" or "exited"
  to_visit,   \* terminals this drain pass has yet to come to
  room,       \* per terminal: what its kernel buffer still takes
  alive,      \* terminals whose descriptor is open
  caching,    \* cached_resizes is Some
  cached,     \* cached_resizes: terminal -> size, 0 when it has none
  size,       \* the size each terminal has been told
  sends,      \* history: instructions sent so far
  sent,       \* history: per terminal, all bytes sent to it in order
  received,   \* history: per terminal, the bytes its kernel has taken
  lossy,      \* history: terminals a chunk of which was thrown away
  wanted      \* history: the size last asked for each terminal

writeVars == <<pending, to_visit, room, received, lossy>>
resizeVars == <<caching, cached, size>>
vars == <<windows, inbox, pc, alive, sends, sent, wanted, writeVars, resizeVars>>

Ids == 1 .. MaxSends
BytesOf(c) == [k \in 1 .. c.length - c.offset |-> <<c.n, c.offset + k>>]

\* the bytes of a queue that are still to be written
Unwritten(q) ==
  LET sum[i \in 0 .. Len(q)] == IF i = 0 THEN 0 ELSE sum[i - 1] + q[i].length - q[i].offset
  IN sum[Len(q)]
Queued(t) == Unwritten(pending[t])

Write(t, c) == [kind |-> "write", terminal |-> t, chunk |-> c]
Resize(t, s) == [kind |-> "resize", terminal |-> t, size |-> s]
Plain(kind) == [kind |-> kind]

\* Variant: a chunk as long as the limit fits on top of what is queued.
FitsAlone(t, c) == c.length <= MaxPending

Fits(t, c) == Queued(t) + c.length <= MaxPending

\* Variant: an overflow empties the queue on every system.
QueueCleared(t) == <<>>

\* What an overflow leaves of the queue: on Windows its head may own a write that
\* is under way.
KeptOnOverflow(t) == IF windows THEN pending[t] ELSE <<>>

WrittenUp(c, taken) == c.offset + taken >= c.length

\* Variant: what the kernel took of a chunk is not taken off it.
SameOffset(c, taken) == c

Advanced(c, taken) == [c EXCEPT !.offset = @ + taken]

\* Variant: a full terminal ends the pass.
PassOver(t) == {}

StillToVisit(t) == to_visit \ {t}

\* Variant: the cache keeps the first size it was given.
CachedFirst(t, s) == IF cached[t] = 0 THEN [cached EXCEPT ![t] = s] ELSE cached

Cached(t, s) == [cached EXCEPT ![t] = s]

Init ==
  /\ windows \in BOOLEAN
  /\ inbox = <<>>
  /\ pending = [t \in Terminals |-> <<>>]
  /\ pc = "recv"
  /\ to_visit = {}
  /\ room = [t \in Terminals |-> KernelRoom]
  /\ alive = Terminals
  /\ caching = FALSE
  /\ cached = [t \in Terminals |-> 0]
  /\ size = [t \in Terminals |-> 0]
  /\ sends = 0
  /\ sent = [t \in Terminals |-> <<>>]
  /\ received = [t \in Terminals |-> <<>>]
  /\ lossy = {}
  /\ wanted = [t \in Terminals |-> 0]

(***************************************************************************)
(* The other threads and the programs                                      *)
(***************************************************************************)
Send(instruction) ==
  /\ sends < MaxSends
  /\ Len(inbox) < MaxInbox
  /\ sends' = sends + 1
  /\ inbox' = Append(inbox, instruction)
  /\ UNCHANGED <<windows, pc, alive, writeVars, resizeVars>>

SendWrite(t, length) ==
  LET c == [n |-> sends + 1, length |-> length, offset |-> 0] IN
  /\ Cardinality(UNION {{b[1] : b \in ToSet(sent[u])} : u \in Terminals}) < MaxWrites
  /\ Send(Write(t, c))
  /\ sent' = [sent EXCEPT ![t] = @ \o BytesOf(c)]
  /\ UNCHANGED wanted

\* Screen resizes a pane.
SendResize(t) ==
  /\ Send(Resize(t, sends + 1))
  /\ wanted' = [wanted EXCEPT ![t] = sends + 1]
  /\ UNCHANGED sent

\* Screen makes and drops a ResizeCache around its resizes, the session ends, or (on
\* Windows) a terminal id is about to be used again.
SendPlain(kind) ==
  /\ Send(Plain(kind))
  /\ UNCHANGED <<sent, wanted>>

SendCancel(t) ==
  /\ windows
  /\ Send([kind |-> "cancel", terminal |-> t])
  /\ UNCHANGED <<sent, wanted>>

\* The program reads its input.
ProgramReads(t) ==
  /\ t \in alive
  /\ room[t] < KernelRoom
  /\ room' = [room EXCEPT ![t] = KernelRoom]
  /\ UNCHANGED <<windows, inbox, pc, alive, sends, sent, wanted, pending, to_visit,
                 received, lossy, resizeVars>>

ProgramExits(t) ==
  /\ t \in alive
  /\ alive' = alive \ {t}
  /\ UNCHANGED <<windows, inbox, pc, sends, sent, wanted, writeVars, resizeVars>>

(***************************************************************************)
(* pty_writer_main                                                         *)
(***************************************************************************)
HasPending == \E t \in Terminals : pending[t] # <<>>

\* The drain pass comes to every terminal that has something pending by then.
StartDrain == pc' = "drain" /\ to_visit' = {t \in Terminals : pending'[t] # <<>>}

\* Nothing came within PENDING_DRAIN_TIMEOUT.
Timeout ==
  /\ pc = "recv"
  /\ HasPending
  /\ inbox = <<>>
  /\ UNCHANGED pending
  /\ StartDrain
  /\ UNCHANGED <<windows, inbox, alive, sends, sent, wanted, room, received, lossy,
                 resizeVars>>

\* A chunk beyond the limit is rejected, and what was queued is thrown away with
\* it, except on Windows.
OnWrite(t, c) ==
  /\ IF Fits(t, c)
       THEN /\ pending' = [pending EXCEPT ![t] = Append(@, c)]
            /\ UNCHANGED lossy
       ELSE /\ pending' = [pending EXCEPT ![t] = KeptOnOverflow(t)]
            /\ lossy' = lossy \cup {t}
  /\ UNCHANGED resizeVars

OnCancel(t) ==
  /\ pending' = [pending EXCEPT ![t] = <<>>]
  /\ lossy' = IF pending[t] = <<>> THEN lossy ELSE lossy \cup {t}
  /\ UNCHANGED resizeVars

OnResize(t, s) ==
  /\ IF caching
       THEN cached' = Cached(t, s) /\ UNCHANGED size
       ELSE size' = [size EXCEPT ![t] = s] /\ UNCHANGED cached
  /\ UNCHANGED <<caching, pending, lossy>>

OnStartCaching ==
  /\ caching' = TRUE
  /\ UNCHANGED <<cached, size, pending, lossy>>

OnApplyCached ==
  /\ caching' = FALSE
  /\ size' = [t \in Terminals |-> IF cached[t] # 0 THEN cached[t] ELSE size[t]]
  /\ cached' = [t \in Terminals |-> 0]
  /\ UNCHANGED <<pending, lossy>>

\* An instruction is received and done, then the drain pass begins.
Receive ==
  /\ pc = "recv"
  /\ inbox # <<>>
  /\ inbox' = Tail(inbox)
  /\ LET i == Head(inbox) IN
     \/ i.kind = "write" /\ OnWrite(i.terminal, i.chunk)
     \/ i.kind = "cancel" /\ OnCancel(i.terminal)
     \/ i.kind = "resize" /\ OnResize(i.terminal, i.size)
     \/ i.kind = "start_caching" /\ OnStartCaching
     \/ i.kind = "apply_cached" /\ OnApplyCached
  /\ StartDrain
  /\ UNCHANGED <<windows, alive, sends, sent, wanted, room, received>>

\* Exit ends the thread with whatever is pending.
Exit ==
  /\ pc = "recv"
  /\ inbox # <<>>
  /\ Head(inbox).kind = "exit"
  /\ inbox' = Tail(inbox)
  /\ pc' = "exited"
  /\ UNCHANGED <<windows, alive, sends, sent, wanted, writeVars, resizeVars>>

\* The kernel takes some of the chunk in front.
WriteSome(t) ==
  /\ pc = "drain"
  /\ t \in to_visit \cap alive
  /\ pending[t] # <<>>
  /\ LET c == Head(pending[t]) IN
     \E taken \in 1 .. room[t] :
       /\ taken <= c.length - c.offset
       /\ room' = [room EXCEPT ![t] = @ - taken]
       /\ received' = [received EXCEPT ![t] = @ \o SubSeq(BytesOf(c), 1, taken)]
       /\ pending' = [pending EXCEPT ![t] =
                        IF WrittenUp(c, taken)
                          THEN Tail(@) ELSE <<Advanced(c, taken)>> \o Tail(@)]
  /\ UNCHANGED <<windows, inbox, pc, alive, sends, sent, wanted, to_visit, lossy, resizeVars>>

\* EAGAIN, or the queue is empty: on to the next terminal.
NextTerminal(t) ==
  /\ pc = "drain"
  /\ t \in to_visit
  /\ pending[t] = <<>> \/ (t \in alive /\ room[t] = 0)
  /\ to_visit' = StillToVisit(t)
  /\ UNCHANGED <<windows, inbox, pc, alive, sends, sent, wanted, pending, room, received,
                 lossy, resizeVars>>

\* The write fails: the terminal's queue is thrown away.
WriteFails(t) ==
  /\ pc = "drain"
  /\ t \in to_visit \ alive
  /\ pending[t] # <<>>
  /\ pending' = [pending EXCEPT ![t] = <<>>]
  /\ lossy' = lossy \cup {t}
  /\ to_visit' = to_visit \ {t}
  /\ UNCHANGED <<windows, inbox, pc, alive, sends, sent, wanted, room, received, resizeVars>>

EndDrain ==
  /\ pc = "drain"
  /\ to_visit = {}
  /\ pc' = "recv"
  /\ UNCHANGED <<windows, inbox, alive, sends, sent, wanted, writeVars, resizeVars>>

ThreadStep ==
  \/ Timeout
  \/ Receive
  \/ Exit
  \/ \E t \in Terminals : WriteSome(t) \/ NextTerminal(t) \/ WriteFails(t)
  \/ EndDrain

Next ==
  \/ \E t \in Terminals, length \in 1 .. MaxLength : SendWrite(t, length)
  \/ \E t \in Terminals : SendResize(t) \/ SendCancel(t)
  \/ \E kind \in {"start_caching", "apply_cached", "exit"} : SendPlain(kind)
  \/ \E t \in Terminals : ProgramReads(t) \/ ProgramExits(t)
  \/ ThreadStep

Spec == Init /\ [][Next]_vars

\* The thread runs and the readers go on reading; no other program has to.
FairSpec ==
  /\ Spec
  /\ WF_vars(ThreadStep)
  /\ \A t \in Readers : WF_vars(ProgramReads(t))

(***************************************************************************)
(* Properties                                                              *)
(***************************************************************************)
Chunk == [n : Ids, length : 1 .. MaxLength, offset : 0 .. MaxLength]

\* Every variable keeps its type, no chunk is kept that is written up, and what is
\* pending stays within its limit however long a program does not read.
TypeOK ==
  /\ windows \in BOOLEAN
  /\ inbox \in Seq([kind : {"write"}, terminal : Terminals, chunk : Chunk]
                   \cup [kind : {"resize"}, terminal : Terminals, size : Ids]
                   \cup [kind : {"cancel"}, terminal : Terminals]
                   \cup [kind : {"start_caching", "apply_cached", "exit"}])
  /\ pending \in [Terminals -> Seq({c \in Chunk : c.offset < c.length})]
  /\ \A t \in Terminals : Queued(t) <= MaxPending
  /\ pc \in {"recv", "drain", "exited"}
  /\ to_visit \subseteq Terminals
  /\ room \in [Terminals -> 0 .. KernelRoom]
  /\ alive \subseteq Terminals
  /\ caching \in BOOLEAN
  /\ cached \in [Terminals -> Ids \cup {0}]
  /\ size \in [Terminals -> Ids \cup {0}]
  /\ sends \in 0 .. MaxSends
  /\ sent \in [Terminals -> Seq(Ids \X (1 .. MaxLength))]
  /\ received \in [Terminals -> Seq(Ids \X (1 .. MaxLength))]
  /\ lossy \subseteq Terminals
  /\ wanted \in [Terminals -> Ids \cup {0}]

\* A program gets the bytes sent to it in the order they were sent, none twice and
\* none torn out, over every partial write and retry; only after a loss may some be
\* missing, and then still none is out of order.
ReceivedInOrder ==
  \A t \in Terminals :
    /\ t \notin lossy => IsPrefix(received[t], sent[t])
    /\ \A j, k \in DOMAIN received[t] :
         j < k => \/ received[t][j][1] < received[t][k][1]
                  \/ /\ received[t][j][1] = received[t][k][1]
                     /\ received[t][j][2] < received[t][k][2]

\* On Windows the chunk in front, once queued, stays in front until it is written up,
\* cancelled or fails: replacing it could replay input.
HeadKept ==
  [][\A t \in alive : windows /\ pending[t] # <<>> =>
       \/ pending'[t] # <<>> /\ Head(pending'[t]).n = Head(pending[t]).n
       \/ received'[t] # received[t]
       \/ inbox # <<>> /\ Head(inbox) = [kind |-> "cancel", terminal |-> t]]_vars

\* Whenever no resize is held back and none is on its way, every terminal has the
\* size last asked for it, however caches nested and applied.
LastResizeWins ==
  ~caching /\ inbox = <<>> => size = wanted

\* A program that reads always gets everything sent to it in the end, unless some was
\* thrown away, it exits or the thread ends, though another program may never read.
ReadersServed ==
  \A t \in Readers :
    []<>(t \in lossy \/ t \notin alive \/ pc = "exited" \/ received[t] = sent[t])
=============================================================================
