SPECIFICATION FairSpec
CONSTANTS
  a = a
  b = b
  c = c
  ka = ka
  kb = kb
  NoKey = NoKey
  NoCall = NoCall
  PoolSize = 2
  MaxLosses = 0
  Calls <- TwoCalls
  Keys <- AllKeys
  KeysSent <- BothKeys
CHECK_DEADLOCK FALSE
PROPERTY EveryRequestAnswered
