CONSTANTS
  Screens = {s1, s2}
  Removable = {s2}
  MaxRows = 2
  Batch = 2
  MayOrphan = TRUE
  MaxEvents = 3
  MaxFaults = 2
SPECIFICATION FairSpec
INVARIANTS PlaysOnceInOrder NothingVanishes
PROPERTIES KeepsThePromise Drains
CHECK_DEADLOCK FALSE
