CONSTANTS
  Calls = {c1, c2}
  evm = evm
  a = a
  k1 = k1
  Networks = {evm}
  EvmNetworks = {evm}
  Names = {a}
  Offered <- Removals
  NoRequest = NoRequest
  Keys = {k1}
  NoKey = NoKey
  KeysSent = {k1, NoKey}
  Sessions = {s1, s2}
  NoSession = NoSession
  LegacyRows <- OneLegacyRow
SPECIFICATION FairSpec
INVARIANTS
  EveryAnswerIsOnRecord
  OneOwner
  GuardedRunCanBeRecorded
  NoForgottenLock
PROPERTIES
  KeysAreWriteOnce
  EveryRequestAnswered
