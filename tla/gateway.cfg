SPECIFICATION Spec
CONSTANTS
  c1 = c1
  alice = alice
  bob = bob
  one = one
  other = other
  evm = evm
  sol = sol
  k = k
  long = long
  text = text
  NaN = NaN
  None = None
  EvmNetworks <- Evm
  TooLong <- Long
  Past = 1
  DefaultLimit = 2
  MaxLimit = 4
  Half = 8
  Future = 2
  Calls <- OneCall
  Users <- OneUser
  Asks <- EveryKind
  Secrets <- TwoSecrets
  Deployments <- Misconfigured
  Skews <- ClocksApart
  Ttl = 1
  MaxStored = 5
  MaxClock = 3
  MaxRedeploys = 1
CHECK_DEADLOCK FALSE
INVARIANTS
  CarriedOutAsAsked
  AnswerTellsEffect
  AnswerReadsBack
  SignaturesAgree
  AdmittedInTime
