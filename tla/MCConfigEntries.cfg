SPECIFICATION Spec
CONSTANTS
  plug = plug
  strip = strip
  light = light
  other = other
  first = first
  second = second
  Plugs = {plug}
  H6163s = {strip}
  Lights = {light}
  Others = {}
  OldEntries = {first, second}
  OldAddress <- MCOldAddress
  Flows = {f1, f2}
  MaxCrashes = 1
  OldToken = OldToken
  None = None
INVARIANTS
  TypeOK
  MigratedNotLost
  SubmitsAreAnswered
PROPERTIES
  NeverReplaced
  MigrationEnds
