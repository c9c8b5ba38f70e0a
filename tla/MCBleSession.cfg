SPECIFICATION Spec
CONSTANTS
  Roles = {"control", "poll", "pair"}
  LinkOptions = {TRUE, FALSE}
  MaxCmds = 3
  RETRIES = 3
INVARIANTS
  TypeOK
  KeysAgree
  AnswersAreGenuine
PROPERTIES
  ComesUp
  Settles
CHECK_DEADLOCK FALSE
