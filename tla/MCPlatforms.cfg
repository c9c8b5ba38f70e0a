SPECIFICATION Spec
CONSTANTS
  Models = {"H5080", "H5082", "H5086", "H6163", "H6159", "H5075", "H7160", "unknown"}
  Leads <- MCFlags
  Climates <- MCClimates
  Loads <- MCLoads
  MaxStops = 4
  MaxToggles = 3
  MaxReadings = 3
INVARIANTS
  TypeOK
  PowerFactorAsChosen
  EntitiesFit
  ShownWasMeasured
CHECK_DEADLOCK FALSE
