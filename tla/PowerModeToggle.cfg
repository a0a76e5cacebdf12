SPECIFICATION Spec
CONSTANTS
  Threads = {t1, t2}
  Event = event
  Remover = remover
  NoThread = none
  Values <- MCValues
  ProfileModes <- MCProfileModes
  MaxCalls = 0
  MaxKeys = 0
  MaxFailures = 1
PROPERTY TogglesAway
CHECK_DEADLOCK FALSE
