CONSTANTS
  r1 = r1
  r2 = r2
  k1 = k1
  k2 = k2
  lasting = lasting
  transient = transient
  None = None
  Requests = {r1, r2}
  Keys = {k1}
  SessionOf <- Together
  Cookies = {lasting}
  SessionCookies = {}
  QueueCap = 1
  MaxRestarts = 0
SPECIFICATION FairSpec
PROPERTIES EventuallyDurable CloseReturns
CHECK_DEADLOCK FALSE
