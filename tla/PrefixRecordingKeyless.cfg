SPECIFICATION Spec
CONSTANTS
  Request = {r1, r2}
  PromptLens = {1, 3, 4}
  OutputLimit = 2
  PageLen = 2
  ChunkLen = 2
  Keyed = FALSE
  Stepwise = FALSE
  Evictions = 0
INVARIANTS AttendsComputed
CHECK_DEADLOCK FALSE
