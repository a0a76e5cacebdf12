SPECIFICATION Spec
CONSTANTS
  Machines = {"v0", "9vcn", "fccn", "nmcn", "necn", "r3cn", "g8cn", "n2cn"}
  Curves <- SomeCurves
  Presets <- SomePresets
  UserStores <- SomeStores
  Moments = {2, 13}
  MaxDisturbances = 1
CHECK_DEADLOCK FALSE
INVARIANTS TypeOK ShownIsMeant CopiesAgree PresetIsPrefix PresetWritten WriteBackHarmless
