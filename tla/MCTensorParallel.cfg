SPECIFICATION Spec
CONSTANTS
  Rank = {d1, d2}
  Buffer = {b1, b2}
  Caller = {c1, c2}
  Keys <- MCKeys
  MaxCalls = 1
  NoCaller = NoCaller
  Reduces = 1
  c1 = c1
  c2 = c2
  d1 = d1
  d2 = d2
INVARIANTS NoneAhead SubmitTogether BorrowedAlive
PROPERTIES ReturnsComplete CallsReturn
CHECK_DEADLOCK FALSE
