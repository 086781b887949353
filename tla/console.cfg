SPECIFICATION Spec
CONSTANTS
  x = x
  None = None
  Addresses <- OneAddress
  Env <- Anything
  MaxSessions = 2
  MaxLoads = 2
  MaxCalls = 1
  MaxLogins = 2
  MaxRows = 1
CHECK_DEADLOCK FALSE
INVARIANTS
  SettledIsCurrent
  SignedOutHoldsNothing
  SignedOutStays
PROPERTIES
  SavedMeansShown
