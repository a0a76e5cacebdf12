SPECIFICATION Spec
CONSTANTS
  Limits <- SomeLimits
  Charges = {59, 60, 70, 80, 81}
  MaxRequests = 2
  MaxFailures = 2
CHECK_DEADLOCK FALSE
INVARIANTS TypeOK NotBoth AskedIsDone ViewAgrees
