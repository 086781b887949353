SPECIFICATION FairSpec
CONSTANTS
  a = a
  b = b
  c = c
  ka = ka
  kb = kb
  NoKey = NoKey
  NoCall = NoCall
  PoolSize = 2
  MaxLosses = 1
  Calls <- ThreeCalls
  Keys <- AllKeys
  KeysSent <- OneTwoThree
CHECK_DEADLOCK FALSE
INVARIANTS
  StuckOnlyOnDistinctKeys
  AnsweredLeaveOnlyReads
PROPERTIES
  StuckUntilDropped
  AnsweredUnlessStuck
