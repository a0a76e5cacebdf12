SPECIFICATION Spec
CONSTANTS
  Threads = {t1, t2}
  Event = event
  Remover = remover
  NoThread = none
  Values <- MCValues
  ProfileModes <- MCProfileModes
  MaxCalls = 2
  MaxKeys = 1
  MaxFailures = 1
INVARIANTS TypeOK ListenersCurrent MemoryIsTable ToggleComesBack
PROPERTY DefaultsKept
CHECK_DEADLOCK FALSE
SYMMETRY MCSymmetry
