SPECIFICATION Spec
CONSTANTS
  JVMs = {j1, j2}
  MaxLoads = 3
  MaxKills = 1
  MaxDamages = 1
INVARIANTS
  LoadsGenuine
  OnlyOwnFaults
  LoaderReference
PROPERTY
  LoadEnds
CHECK_DEADLOCK FALSE
