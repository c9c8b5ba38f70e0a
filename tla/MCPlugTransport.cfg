SPECIFICATION Spec
CONSTANT MaxCmds = 3
INVARIANTS
  TypeOK
  NoLostWakeup
  WireOrder
  TrueMeansWritten
  
PROPERTIES
  QueuedGetsItsTry
  ImplementsService
