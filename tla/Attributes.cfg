SPECIFICATION Spec
CONSTANTS
  Machines = {"v0", "efcn", "lzcn", "rzcn", "secn", "h3cn", "nscn", "kwcn"}
  Values = {0, 300}
  Raws = {0, 1, 3}
  Rpms <- SomeRpms
  MaxCalls = 2
  MaxTurns = 2
CHECK_DEADLOCK FALSE
INVARIANTS TypeOK ShownIsStored FanShown
