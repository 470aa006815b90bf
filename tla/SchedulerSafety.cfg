SPECIFICATION Spec
CONSTANTS
  c1 = c1
  c2 = c2
  c3 = c3
  Client = {c1, c2, c3}
  Polling = {c3}
  Loop = Loop
  Lengths = {1, 9}
  OutputLimit <- LastThree
  MaxPositions = 4
  MaxBatch = 2
  FetchMax = 2
  HandleCount = 2
  Rounds = 1
  Cyclic = FALSE
  Evictions = 1
  Throttled = TRUE
  Interleave = TRUE
  Burst = TRUE
  Stoppable = TRUE
SYMMETRY Symmetric
INVARIANTS InFlightLive HandleOwned OwnStream
PROPERTIES LeavesDelivered
CHECK_DEADLOCK FALSE
