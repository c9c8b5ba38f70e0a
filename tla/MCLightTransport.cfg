SPECIFICATION Spec
CONSTANTS
  MAX_COMMAND_ATTEMPTS = 2
  MaxCmds = 2
INVARIANTS
  TypeOK
  WireOrder
PROPERTIES
  TaskRests
  
  ImplementsService
