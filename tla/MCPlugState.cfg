SPECIFICATION Spec
CONSTANTS
  Models = {"H5080", "H5082", "H5083", "H5086"}
  PollingOptions = {TRUE}
  MaxCmds = 2
  MaxPresses = 1
  MaxSwitches = 2
INVARIANTS
  TypeOK
  ConfirmedIsShown
  ReportedIsShown
PROPERTY PollingHeals
CHECK_DEADLOCK FALSE
