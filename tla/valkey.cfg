SPECIFICATION Spec
CONSTANTS
  a = a
  b = b
  this = this
  that = that
  None = None
  Clients <- TwoClients
  Hashes <- TwoHashes
  Losses <- AllFaults
  MaxRuns = 3
CHECK_DEADLOCK FALSE
INVARIANTS
  ResultIsOwn
  BlockedExplained
PROPERTIES
  KeyIsWriteOnce
