SPECIFICATION FairClientSpec
CONSTANTS
  MaxToken = 3
  MaxOwn = 2
  Terminals <- AllTerminals
INVARIANTS OpenOrAnsweredOnce RepliesMatchQueries
PROPERTIES AlwaysAnswered
\* Once the bounds are reached and all is answered nothing is left to do.
CHECK_DEADLOCK FALSE
