CONSTANTS
  Calls = {m1}
  evm = evm
  a = a
  Networks = {evm}
  EvmNetworks = {evm}
  Names = {a}
  Offered <- Blacklisting
  NoRequest = NoRequest
  Checks = {k1, k2}
  Queried <- OneSpelling
  MaxAsks = 2
  Risks = {"high"}
  None = None
  Failed = Failed
SPECIFICATION FairSpec
INVARIANTS
  UndisturbedVerdict
  OwnerKeepsLock
  AskedOnlyOnMiss
PROPERTIES
  CacheGoesForward
  EveryCheckAnswered
