SPECIFICATION Spec
CONSTANTS
  Request = {r1, r2, r3}
  PromptLens = {1, 3, 4}
  OutputLimit = 2
  PageLen = 2
  ChunkLen = 1
  Keyed = TRUE
  Stepwise = TRUE
  Evictions = 1
INVARIANTS AttendsComputed InputLeft PromptPublished
CHECK_DEADLOCK FALSE
