CONSTANTS
  a = a
  b = b
  c1 = c1
  c2 = c2
  None = None
  Keys = {a}
  Calls = {c1, c2}
  MaxWrites = 2
SPECIFICATION FairSpec
INVARIANTS DirtyFits 
PROPERTIES ChangesOnlyPushed EventuallyClean
