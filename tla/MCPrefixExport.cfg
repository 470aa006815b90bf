SPECIFICATION Spec
CONSTANTS
  Request = {r1, r2}
  RankCount = 2
  Chunks <- MCChunks
  Hot <- MCHot
  Marks <- MCMarks
  Waiter = {w1}
  Worker = Worker
  QueueLimit = 2
  CheckpointLimit = 1
  HostLimit = 2
  StateBytes = 1
  Budget = 3
  Images = 1
  Evictable = {r2}
  NoRequest = NoRequest
  r1 = r1
  r2 = r2
INVARIANTS WholeCheckpoints Accounted RefsLeased
PROPERTIES Drains
CHECK_DEADLOCK FALSE
