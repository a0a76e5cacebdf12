SPECIFICATION FairSpec
CONSTANTS
  Main = main
  Handlers = {h1}
  Profiles = {"quiet"}
  Inis <- MCInis
  Delays <- MCDelays
  MaxRequests = 2
  MaxChanges = 1
  MaxRestarts = 0
PROPERTIES TriggersServed ChangesTakeEffect
CHECK_DEADLOCK FALSE
