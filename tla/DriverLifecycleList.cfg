SPECIFICATION Spec
CONSTANTS
  d1 = d1
  d2 = d2
  Devices = {d1, d2}
  NoDevice = NoDevice
  MaxProbes = 3
  MaxFailures = 0
SYMMETRY MCSymmetry
CHECK_DEADLOCK FALSE
PROPERTY RefusesSecondOnly
