SPECIFICATION Spec
CONSTANTS
  Main = main
  Handlers = {h1, h2}
  Profiles = {"quiet", "performance"}
  Inis <- MCInis
  Delays = {0, 3}
  MaxRequests = 1
  MaxChanges = 1
  MaxRestarts = 1
INVARIANTS TypeOK NothingForgotten Settled
CHECK_DEADLOCK FALSE
