CONSTANTS
  MaxSize = 2
  KeyRank <- MCKeyRank
  MaxDuration = 7
  Hosts <- MCHosts
  DomainAttrs <- MCDomainAttrs
  Names <- MCNames
  PathAttrs <- MCPathAttrs
  Values <- MCValues
  MaxAges <- MCMaxAges
  Expiries <- MCExpiries
  MaxTime = 3
SPECIFICATION Spec
INVARIANTS CapacityOK BucketsExact
PROPERTIES LeavesForAReason RestartKeepsPersistent
