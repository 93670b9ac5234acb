SPECIFICATION Spec
CONSTANTS
  Plugins = {p1}
  Clients = {c1, c2}
  Location <- MCLocation
  Remote = {p1}
  Asking = {p1}
  MaxEvents = 2
  MaxTrouble = 1
CHECK_DEADLOCK FALSE
INVARIANTS EveryClientServed 
 
