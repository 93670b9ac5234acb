SPECIFICATION Spec
CONSTANTS
  Terminals = {1}
  Subscribers = {s1}
  EventCapacity = 2
  MaxRemembered = 1
  MaxStreams = 2
  MaxChunks = 3
\* In the end every program may have ended and every pane been closed.
CHECK_DEADLOCK FALSE
INVARIANTS StreamsArriveWhole NothingOutlivesPanes 
PROPERTIES ProgramEnds
