CONSTANTS
  Calls = {c1, c2}
  Networks = {evm, other}
  EvmNetworks = {evm}
  Names = {a}
  Offered <- Mixture
  NoRequest = NoRequest
SYMMETRY Symmetry
SPECIFICATION Spec
INVARIANTS
  OneRowPerAddress
PROPERTIES
  UnracedAtomic
  UnracedFailure
  BothListsOnlyByRace
  DemotionNeedsConfirmation
