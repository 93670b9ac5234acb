SPECIFICATION FairSpec
CONSTANTS
  Panes = {p1, p2}
  Clients = {c1, c2}
  NoClient = NoClient
  PtySequences <- WithPalette
  MaxQueries = 2
INVARIANTS NothingWaitsForNobody 
PROPERTIES EveryQueryAnswered
\* Once the bound is reached and all is answered nothing is left to do.
CHECK_DEADLOCK FALSE
