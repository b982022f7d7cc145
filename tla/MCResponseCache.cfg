CONSTANTS
  a = a
  b = b
  c = c
  r1 = r1
  None = None
  Keys = {a, b, c}
  Sizes = {1, 3}
  MaxSize = 2
  Limits = {1}
  Lifetimes <- MCLifetimes
  Resizers = {r1}
  ChanCap = 1
  MaxOffers = 3
  MaxTime = 2
SPECIFICATION Spec
INVARIANTS Accounted
PROPERTIES EvictsLeastRecent CloseReturns Promises
