SPECIFICATION FairSpec
CONSTANTS
  Engine = Engine
  Runs = {r1, r2}
  Steps = {w1, c1}
  Threaded = {w1}
  Concurrency = 1
  Workers = 2
  MaxReplans = 2
INVARIANT CallsCapped
CHECK_DEADLOCK FALSE
