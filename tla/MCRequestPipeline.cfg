CONSTANTS
  alice = alice
  bob = bob
  None = None
  Requests = {1, 2}
  Clients = {alice, bob}
  Kinds <- MCKinds
  Origin <- MCOrigin
  Served <- MCServed
  Lists <- MCLists
  Managed = {bob}
  Slots = 1
  MaxReloads = 1
SPECIFICATION Spec
INVARIANTS SlotsAccounted BlockedStaysInside RulesInForce CookiesKept SharedByCacheOnly
PROPERTIES EveryoneAnswered
CHECK_DEADLOCK FALSE
