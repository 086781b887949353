SPECIFICATION SpecCombobox
CONSTANTS
  ethereum = ethereum
  optimism = optimism
  bnb = bnb
  Null = Null
  Options <- Presets
  Texts <- AllTexts
  Caip2 <- Ids
  Label <- Names
  Terms <- SearchTerms
  Lower <- InLowerCase
  Place <- Places
  Rank <- Ranks
  Starts <- StartPairs
  Contains <- ContainPairs
  Colon <- WithColon
  Blank = ""
CHECK_DEADLOCK FALSE
INVARIANTS
  SentIsShown
PROPERTIES
  EnterTakesPreviewed
