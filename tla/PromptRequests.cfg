SPECIFICATION FairSpec
CONSTANTS
  Clients = {c1, c2}
  Plugins = {A, B}
  Dialogue = Dialogue
  c1 = c1
  c2 = c2
  A = A
  B = B
  PluginRequests <- Asked
  MaxDialogues = 2
  Settings <- Scenes
INVARIANTS DialogueTracked
PROPERTIES PromiseKept AnswersItsRequest OrphansClose
\* In the end every user may have left and every plugin asked.
CHECK_DEADLOCK FALSE
