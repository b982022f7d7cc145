CONSTANTS
  ads = ads
  skin = skin
  dist = dist
  fonts = fonts
  None = None
  Order <- MCOrder
  Parent <- MCParent
  Above <- MCAbove
  Starts <- MCStarts
  Enabled = {}
  MaxEdits = 3
  MaxLoads = 2
SPECIFICATION Spec
INVARIANTS EveryDirWatched
PROPERTIES EventuallyCurrent SteadyStays
CHECK_DEADLOCK FALSE
