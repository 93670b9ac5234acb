SPECIFICATION FairSpec
CONSTANTS
  Pipes = {q1, q2}
  Plugins = {p1, p2}
  Clients = {c1, c2}
  Codes = {e}
  q1 = q1
  q2 = q2
  p1 = p1
  p2 = p2
  c1 = c1
  c2 = c2
  e = e
  None = None
  Settings <- AllSettings
INVARIANTS ReleasedInTurn
PROPERTIES NothingAfterFinal EveryMessageReleased ExitCodeArrives
\* The client may stop sending, and a plugin need not unblock in Spec.
CHECK_DEADLOCK FALSE
