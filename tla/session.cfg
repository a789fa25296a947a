SPECIFICATION FairSpec
CONSTANTS
  Workers = {w1, w2}
  Reqs = {r1, r2}
  Blocking = {r1}
  Forgets = {g1}
  Nobody = Nobody
  max_threads = 2
  MaxIdles <- MCMaxIdles
  Exiting = {r2}
CHECK_DEADLOCK FALSE
INVARIANTS
RequestsHeld CallbackDataLive InterruptNotLost PoolCounts
PROPERTIES
Answered LoopEnds InterruptEnds
