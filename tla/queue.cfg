SPECIFICATION FairSpec
CONSTANTS
  a = a
  v = v
  w = w
  good = good
  bad = bad
  None = None
  Callers <- OneCaller
  Workers <- TwoWorkers
  Questions <- GoodAndBad
  Acceptable <- GoodQuestion
  Scores <- NoScore
  SignalScores <- BadSignal
  MaxJobs = 2
  MaxAttempts = 2
  MaxStalled = 1
CHECK_DEADLOCK FALSE
INVARIANTS
  RequestsBounded
PROPERTIES
  EveryJobEnds
  ServesPort
