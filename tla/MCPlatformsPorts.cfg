SPECIFICATION Spec
CONSTANTS
  Models = {"H5082"}
  Leads <- MCFlags
  Climates <- MCClimates
  Loads <- MCLoads
  MaxStops = 4
  MaxToggles = 3
  MaxReadings = 3
INVARIANT PortsFit
CHECK_DEADLOCK FALSE
