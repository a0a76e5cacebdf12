SPECIFICATION FairSpec
CONSTANTS
  Main = main
  Handlers = {h1}
  Profiles = {"quiet"}
  Inis <- MCFanOnly
  Delays = {0, 3}
  MaxRequests = 2
  MaxChanges = 0
  MaxRestarts = 0
PROPERTY LastTriggerServed
CHECK_DEADLOCK FALSE
