SPECIFICATION FairSpec
CONSTANTS
  Rank = {r1, r2}
  Stream <- MCStream
  Bench = bench
  Shape <- MCShape
  Kinds = {"usable", "misaligned", "capturing"}
  MaxSetups = 2
  NoTensor = NoTensor
  x = x
  y = y
  bench = bench
  hidden = hidden
  benched = benched
INVARIANTS InUseAlive RoundsAgree
PROPERTIES ReductionsEnd
CHECK_DEADLOCK FALSE
