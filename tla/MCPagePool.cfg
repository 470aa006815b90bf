SPECIFICATION Spec
CONSTANTS
  Page = {q1, q2, q3, q4, q5}
  Holder = {h1, h2, h3}
  a = a
  b = b
  Prefix <- MCPrefix
  Shorter <- MCShorter
  NoPage = NoPage
  NoPrefix = NoPrefix
SYMMETRY Symmetric
INVARIANTS TypeOK CacheCoherent RefCounted Partition TrieInverse TrieConnected
PROPERTIES OnlyAvailableRewritten
