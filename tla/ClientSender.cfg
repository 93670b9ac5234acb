SPECIFICATION SenderSpec
CONSTANTS
  Callers <- MCCallers
  Careful <- MCCareful
  Limit = 2
  MaxAttempts = 5
CHECK_DEADLOCK FALSE
INVARIANTS CountExact
PROPERTIES InOrder RemovedClientIsTold
