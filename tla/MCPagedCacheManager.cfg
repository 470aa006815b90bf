SPECIFICATION Spec
CONSTANTS
  PageOrder <- MCPageOrder
  q1 = q1
  q2 = q2
  q3 = q3
  q4 = q4
  q5 = q5
  Holder <- MCHolder
  h1 = h1
  h2 = h2
  text = text
  media = media
  Prompt <- MCPrompt
  EdgeHash <- MCEdgeHash
  ExtraKey <- MCExtraKey
SYMMETRY Symmetric
VIEW View
INVARIANTS QueryExact
PROPERTIES ImplementsPool
