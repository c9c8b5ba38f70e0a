SPECIFICATION Spec
CONSTANTS
  DISCOVERY_TICKS = 2
  POLL_ATTEMPTS = 2
  MaxFailures = 4
INVARIANTS
  TypeOK
  NothingSurvives
  
  
PROPERTIES
  PollsContinue
  BackoffRecovers
