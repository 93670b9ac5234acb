---------------------------- MODULE ClientSender ----------------------------
(***************************************************************************)
(* The buffer and the thread between the server's threads and one client   *)
(* (zellij-server/src/os_input_output.rs): a channel without a bound, a    *)
(* counter that bounds it, and a thread that writes to the client's socket *)
(* what it receives, and an Exit when the sending side is dropped.         *)
(*                                                                         *)
(* Callers send while they hold the lock of client_senders; the thread     *)
(* takes messages and counts them off without it. A message is the number  *)
(* of the attempt to send it. The receiving side outlives the sending one, *)
(* so the error for a closed channel cannot occur (see SenderGone).        *)
(***************************************************************************)
EXTENDS Naturals, Sequences, FiniteSets

CONSTANTS
  Callers,      \* the threads that send to the client
  Careful,      \* those that give the client up when its buffer is full
  Limit,        \* CLIENT_BUFFER_LIMIT
  MaxAttempts   \* bound: attempts to send

ASSUME SenderAssumption ==
  /\ Careful \subseteq Callers
  /\ Limit \in Nat \ {0}
  /\ MaxAttempts \in Nat

VARIABLES
  entry,      \* client_senders has an entry for the client
  at,         \* what each caller does: "idle", "count", "push", "uncount", "giveup"
  attempts,   \* attempts so far; the latest is the message of the lock's holder
  queue,      \* the channel
  queued,     \* the counter
  thread,     \* the thread: "receive", "uncount", "write" or "ended"
  hand,       \* the message it has received
  listening,  \* the client's end of the socket is open
  accepted,   \* history: messages put into the channel
  refused,    \* history: messages refused for a full buffer
  written,    \* history: messages written to the socket
  lost,       \* history: how many the thread could not write
  exits       \* history: how often the final Exit was written

bufferVars == <<queue, queued>>
historyVars == <<accepted, refused, written, lost, exits>>
senderVars == <<entry, at, attempts, queue, queued, thread, hand, listening,
          accepted, refused, written, lost, exits>>

\* a caller holds the lock of client_senders from the lookup to the outcome
Unlocked == \A c \in Callers : at[c] \in {"idle", "giveup"}

SenderInit ==
  /\ entry = TRUE
  /\ at = [c \in Callers |-> "idle"]
  /\ attempts = 0
  /\ queue = <<>>
  /\ queued = 0
  /\ thread = "receive"
  /\ hand = 0
  /\ listening = TRUE
  /\ accepted = <<>>
  /\ refused = {}
  /\ written = <<>>
  /\ lost = 0
  /\ exits = 0

-----------------------------------------------------------------------------
(* send_to_client and remove_client *)

\* send_to_client: without an entry nothing is sent, and that is no error
Lookup(c) ==
  /\ at[c] = "idle"
  /\ Unlocked
  /\ entry
  /\ attempts < MaxAttempts
  /\ attempts' = attempts + 1
  /\ at' = [at EXCEPT ![c] = "count"]
  /\ UNCHANGED <<entry, bufferVars, thread, hand, listening, historyVars>>

\* Variant: one message too many
HasRoomForOne == queued <= Limit

\* fetch_add, and whether what it found leaves room
HasRoom == queued < Limit

Count(c) ==
  /\ at[c] = "count"
  /\ queued' = queued + 1
  /\ at' = [at EXCEPT ![c] = IF HasRoom THEN "push" ELSE "uncount"]
  /\ UNCHANGED <<entry, attempts, queue, thread, hand, listening, historyVars>>

Push(c) ==
  /\ at[c] = "push"
  /\ queue' = Append(queue, attempts)
  /\ accepted' = Append(accepted, attempts)
  /\ at' = [at EXCEPT ![c] = "idle"]
  /\ UNCHANGED <<entry, attempts, queued, thread, hand, listening, refused, written,
                 lost, exits>>

\* the buffer is full: fetch_sub and the error, which most callers ignore
Uncount(c) ==
  /\ at[c] = "uncount"
  /\ queued' = queued - 1
  /\ refused' = refused \cup {attempts}
  /\ at' = [at EXCEPT ![c] = IF c \in Careful THEN "giveup" ELSE "idle"]
  /\ UNCHANGED <<entry, attempts, queue, thread, hand, listening, accepted, written,
                 lost, exits>>

\* send_to_client! removes the client
GiveUpClient(c) ==
  /\ at[c] = "giveup"
  /\ Unlocked
  /\ entry' = FALSE
  /\ at' = [at EXCEPT ![c] = "idle"]
  /\ UNCHANGED <<attempts, bufferVars, thread, hand, listening, historyVars>>

\* the client leaves, is detached or disconnected
RemoveSender ==
  /\ Unlocked
  /\ entry
  /\ entry' = FALSE
  /\ UNCHANGED <<at, attempts, bufferVars, thread, hand, listening, historyVars>>

-----------------------------------------------------------------------------
(* The thread *)

Receive ==
  /\ thread = "receive"
  /\ queue # <<>>
  /\ hand' = Head(queue)
  /\ queue' = Tail(queue)
  /\ thread' = "uncount"
  /\ UNCHANGED <<entry, at, attempts, queued, listening, historyVars>>

CountOff ==
  /\ thread = "uncount"
  /\ queued' = queued - 1
  /\ thread' = "write"
  /\ UNCHANGED <<entry, at, attempts, queue, hand, listening, historyVars>>

\* waits until the client reads; when it is gone the error is logged
Write ==
  /\ thread = "write"
  /\ IF listening
     THEN written' = Append(written, hand) /\ UNCHANGED lost
     ELSE lost' = lost + 1 /\ UNCHANGED written
  /\ thread' = "receive"
  /\ UNCHANGED <<entry, at, attempts, bufferVars, hand, listening, accepted,
                 refused, exits>>

\* Variant: what is left in the channel is dropped with the sending side
ExitAtOnce ==
  /\ thread = "receive"
  /\ ~entry
  /\ exits' = IF listening THEN exits + 1 ELSE exits
  /\ thread' = "ended"
  /\ UNCHANGED <<entry, at, attempts, bufferVars, hand, listening, accepted, refused,
                 written, lost>>

\* Variant: the thread ends without a word
EndInSilence ==
  /\ thread = "receive"
  /\ queue = <<>>
  /\ ~entry
  /\ thread' = "ended"
  /\ UNCHANGED <<entry, at, attempts, bufferVars, hand, listening, historyVars>>

\* the channel is empty and its sending side has been dropped
LastExit ==
  /\ thread = "receive"
  /\ queue = <<>>
  /\ ~entry
  /\ exits' = IF listening THEN exits + 1 ELSE exits
  /\ thread' = "ended"
  /\ UNCHANGED <<entry, at, attempts, bufferVars, hand, listening, accepted,
                 refused, written, lost>>

HangUp ==
  /\ listening
  /\ listening' = FALSE
  /\ UNCHANGED <<entry, at, attempts, bufferVars, thread, hand, historyVars>>

-----------------------------------------------------------------------------

Caller(c) == Lookup(c) \/ Count(c) \/ Push(c) \/ Uncount(c) \/ GiveUpClient(c)
Thread == Receive \/ CountOff \/ Write \/ LastExit

SenderNext == (\E c \in Callers : Caller(c)) \/ RemoveSender \/ Thread \/ HangUp

\* A caller that has begun goes on, and the thread runs; that it writes is to
\* say that the client reads in the end, or is gone.
SenderFairness ==
  /\ \A c \in Callers : WF_senderVars(Count(c) \/ Push(c) \/ Uncount(c) \/ GiveUpClient(c))
  /\ WF_senderVars(Thread)

SenderSpec == SenderInit /\ [][SenderNext]_senderVars /\ SenderFairness

-----------------------------------------------------------------------------
(* Properties *)

\* Every variable holds a value of its kind.
SenderTypeOK ==
  /\ entry \in BOOLEAN
  /\ at \in [Callers -> {"idle", "count", "push", "uncount", "giveup"}]
  /\ attempts \in Nat
  /\ queue \in Seq(Nat)
  /\ queued \in Nat
  /\ thread \in {"receive", "uncount", "write", "ended"}
  /\ hand \in Nat
  /\ listening \in BOOLEAN
  /\ accepted \in Seq(Nat)
  /\ refused \subseteq Nat
  /\ written \in Seq(Nat)
  /\ lost \in Nat
  /\ exits \in Nat

\* the messages counted besides those in the channel
Pending == IF \E c \in Callers : at[c] \in {"push", "uncount"} THEN 1 ELSE 0
InHand == IF thread = "uncount" THEN 1 ELSE 0

\* The counter is exact at every step of two threads that change it without a
\* common lock: it counts what is in the channel, the message that is being put
\* there or refused, and the one the thread has taken but not yet counted off.
\* So the channel, which has no bound of its own, never holds more than the
\* limit, and the counter never goes below zero.
CountExact ==
  /\ queued = Len(queue) + Pending + InHand
  /\ Len(queue) + InHand <= Limit

\* The thread ends only when there is nobody left who could send.
SenderGone == thread = "ended" => ~entry /\ Unlocked /\ queue = <<>> /\ exits <= 1

\* What was accepted is written in the order in which it was accepted, and the
\* Exit comes last and once: the buffer and its thread implement ClientStream.
\* (Once the client has hung up, what the thread could not write is lost.)
Stream == INSTANCE ClientStream
            WITH got <- written, removed <- ~entry, exited <- exits > 0
InOrder == Stream!Spec

\* A client that is removed gets all that was accepted for it, and an Exit,
\* unless it hangs up; and whatever its buffer held, the thread ends.
RemovedClientIsTold ==
  ~entry ~> thread = "ended" /\ (listening => exits = 1 /\ written = accepted)

\* "If we run out of buffer space, we bubble up an error so that the router
\* thread will give up on this client and we'll stop sending messages to it":
\* no message is accepted after one that was refused.
NothingAfterRefusal ==
  \A m \in refused : \A n \in DOMAIN accepted : accepted[n] < m
=============================================================================
