CONSTANTS
  t1 = t1
  t2 = t2
  colour = colour
  size = size
  theme = theme
  clock = clock
  logo = logo
  Visitor = Visitor
  Rejected = Rejected
  Nothing = Nothing
  Requests = {1, 2}
  Lists <- MCLists
  Global <- MCGlobal
  Tenants <- MCTenants
  MaxReloads = 1
SPECIFICATION PageSpec
INVARIANTS OwnPage PageIsCurrent
CHECK_DEADLOCK FALSE
