CONSTANTS
  one = one
  two = two
  name = name
  home = home
  away = away
  spare = spare
  balancer = balancer
  Loopback = Loopback
  None = None
  Requests = {1, 2}
  Proxies = {one, two}
  Names = {name}
  Addrs <- MCAddrs
  Behind <- MCBehind
  Remote <- MCRemote
  Listen <- MCListen
  Targets <- MCTargets
  Kinds = {"http"}
  Headers <- MCHeaders
  FirstIPs <- MCFirstIPs
  Answers <- MCAnswers
  Limit = 2
  DnsTTL = 1
  AddrTTL = 1
  Timeout = 1
  SlotWait = 1
  CacheMax = 1
  MaxTime = 3
  MaxMoves = 1
SPECIFICATION Spec
INVARIANTS HopsBounded
PROPERTIES LoopsOnlyWhileStale ChainsEnd
CHECK_DEADLOCK FALSE
