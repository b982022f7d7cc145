CONSTANTS
  r1 = r1
  r2 = r2
  k1 = k1
  k2 = k2
  lasting = lasting
  transient = transient
  None = None
  Requests = {r1, r2}
  Keys = {k1, k2}
  SessionOf <- Apart
  Cookies = {lasting, transient}
  SessionCookies = {transient}
  QueueCap = 1
  MaxRestarts = 1
SPECIFICATION Spec
INVARIANTS SessionStaysInMemory SessionsIsolated DrainedAtClose
PROPERTIES ClosedIsQuiet UnmappedOnlyDead
CHECK_DEADLOCK FALSE
