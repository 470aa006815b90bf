SPECIFICATION FairSpec
CONSTANTS
  c1 = c1
  c2 = c2
  c3 = c3
  Client = {c1, c2}
  Polling = {c2}
  Loop = Loop
  Lengths = {1}
  OutputLimit <- OneTwo
  MaxPositions = 3
  MaxBatch = 2
  FetchMax = 1
  HandleCount = 3
  Rounds = 0
  Cyclic = TRUE
  Evictions = 0
  Throttled = FALSE
  Interleave = TRUE
  Burst = FALSE
  Stoppable = FALSE
INVARIANTS NoLostWakeup
PROPERTIES Served AbortedSwept DecodeProgress
