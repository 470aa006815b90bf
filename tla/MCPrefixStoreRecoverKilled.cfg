SPECIFICATION Spec
CONSTANTS
  Proc = {p1, p2}
  Key = {k1, k2}
  Hash = {h1, h2, h3}
  Content <- MCContent
  Limit = 12
  BlobBytes = 2
  CommitBytes = 1
  Allowance = 1
  Batch = 2
  MaxStamp = 3
  RecoverKills = TRUE
  NoKey = NoKey
  k1 = k1
  k2 = k2
  h1 = h1
  h2 = h2
  h3 = h3
INVARIANTS NoDangling
SYMMETRY Symmetric
