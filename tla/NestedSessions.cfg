CONSTANTS
  Clients = {c1}
  Hosts = {2}
  Handlings = {"Ask"}
  Budget = 2
  Room = 1
SPECIFICATION FairNestedSpec
INVARIANTS
  
  GuestKnowsFocus
PROPERTIES
  SilentGuestsSuspended
  RunningGuestsTracked
CHECK_DEADLOCK FALSE
