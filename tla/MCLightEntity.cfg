SPECIFICATION Spec
CONSTANTS
  Drivers = {"H6163", "rgbic", "plain"}
  Colors <- MCColors
  Levels = {25}
  Warm <- MCWarm
  Groups <- MCGroups
  Segments = {7, 8}
  MaxCalls = 2
  MaxPolls = 1
INVARIANTS
  TypeOK
  
  
  
CHECK_DEADLOCK FALSE
