SPECIFICATION Spec
CONSTANTS
  MaxConns = 2
  LastId = 3
  MaxEvents = 2
  WebConns <- MCWebConns
CHECK_DEADLOCK FALSE
INVARIANTS NothingLeftBehind KeptOrTold
PROPERTIES EverybodySettled
