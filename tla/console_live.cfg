SPECIFICATION FairSpec
CONSTANTS
  x = x
  None = None
  Addresses <- OneAddress
  Env <- InOneVisit
  MaxSessions = 1
  MaxLoads = 1
  MaxCalls = 2
  MaxLogins = 1
  MaxRows = 2
CHECK_DEADLOCK FALSE
INVARIANTS
  OneCallAtATime
PROPERTIES
  MovesAreSeen
  WaitingEnds
