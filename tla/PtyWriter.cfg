SPECIFICATION FairSpec
CONSTANTS
  Terminals = {t1, t2}
  Readers = {t1}
  MaxPending = 2
  KernelRoom = 1
  MaxLength = 2
  MaxWrites = 2
  MaxSends = 4
  MaxInbox = 1
INVARIANTS TypeOK ReceivedInOrder LastResizeWins
PROPERTIES HeadKept ReadersServed
\* A thread that has exited, or has nothing left to do, stops.
CHECK_DEADLOCK FALSE
